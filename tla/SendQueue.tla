----------------------------- MODULE SendQueue ------------------------------
(***************************************************************************)
(* The path of an event from the daemon to the driver, and the life of the  *)
(* worker thread that consumes it (common/automation.cpp):                  *)
(* VSCPWrite -> addEvent2SendQueue appends to m_sendList and posts           *)
(* m_semSendQueue; workerThread does its periodic work, waits at most a      *)
(* second for the semaphore, looks at the list and deletes one event;        *)
(* close() sets m_bQuit and joins the thread.                                *)
(* The worker reads m_sendList.size() without the mutex, and it also takes   *)
(* an event after a wait that timed out, so the semaphore does not count     *)
(* this list as it counts the receive list.                                  *)
(***************************************************************************)
EXTENDS Integers, Sequences, FiniteSets

CONSTANTS
    Writers,    \* the daemon's threads that call VSCPWrite
    Worker,     \* the driver's worker thread, the only consumer
    Closer,     \* the daemon's thread that calls close()
    Events,     \* the events written; NullEvent may be one of them
    NullEvent,  \* a NULL event pointer, which VSCPWrite does not refuse
    NoThread,   \* the mutex is free
    MaxWrites   \* bound: how many events the daemon writes

ASSUME SendQueueAssumption ==
    /\ IsFiniteSet(Writers)
    /\ Worker \notin Writers
    /\ Closer \notin Writers \cup {Worker}
    /\ NoThread \notin Writers \cup {Worker, Closer}
    /\ MaxWrites \in Nat

VARIABLES
    m_sendList,         \* std::list<vscpEvent *>, oldest first
    m_semSendQueue,     \* the semaphore's count
    m_mutexSendQueue,   \* the owner of the mutex, or NoThread
    m_bQuit,            \* the run flag
    pc,                 \* where each thread is
    hand,               \* the event each writer is adding / the worker took
    pushed,             \* history: the events in the order they were pushed
    finished,           \* history: the events the worker is through with
    interrupted         \* history: a signal has interrupted a wait of the worker

queueVars == <<m_sendList, m_semSendQueue, m_mutexSendQueue>>
history == <<pushed, finished, interrupted>>
vars == <<queueVars, m_bQuit, pc, hand, history>>

Threads == Writers \cup {Worker, Closer}

WriterStep == {"idle", "lock", "push", "post", "unlock"}
WorkerStep == {"test", "wait", "size", "lock", "front", "unlock", "handle", "ended"}
CloserStep == {"idle", "join", "closed"}

\* Nothing in hand: a sequence of at most one event keeps NULL apart from it.
Empty == <<>>

TypeOK ==
    /\ m_sendList \in Seq(Events)
    /\ m_semSendQueue \in Nat
    /\ m_mutexSendQueue \in Threads \cup {NoThread}
    /\ m_bQuit \in BOOLEAN
    /\ pc \in [Threads -> WriterStep \cup WorkerStep \cup CloserStep]
    /\ pc[Worker] \in WorkerStep
    /\ pc[Closer] \in CloserStep
    /\ \A w \in Writers : pc[w] \in WriterStep
    /\ hand \in [Writers \cup {Worker} -> Seq(Events)]
    /\ pushed \in Seq(Events)
    /\ finished \in Seq(Events)
    /\ interrupted \in BOOLEAN

Init ==
    /\ m_sendList = <<>>
    /\ m_semSendQueue = 0
    /\ m_mutexSendQueue = NoThread
    /\ m_bQuit = FALSE
    /\ pc = [t \in Threads |-> IF t = Worker THEN "test" ELSE "idle"]
    /\ hand = [t \in Writers \cup {Worker} |-> Empty]
    /\ pushed = <<>>
    /\ finished = <<>>
    /\ interrupted = FALSE

-----------------------------------------------------------------------------
Goto(t, from, to) ==
    /\ pc[t] = from
    /\ pc' = [pc EXCEPT ![t] = to]

\* Mutant of Lock: the owner is overwritten instead of waited for.
LockUnchecked(t) ==
    m_mutexSendQueue' = t

Lock(t) ==
    /\ m_mutexSendQueue = NoThread
    /\ m_mutexSendQueue' = t

Unlock(t) ==
    /\ m_mutexSendQueue = t
    /\ m_mutexSendQueue' = NoThread

-----------------------------------------------------------------------------
(* VSCPWrite and addEvent2SendQueue, in a thread of the daemon.             *)

VSCPWrite(w, e) ==
    /\ Len(pushed) < MaxWrites
    /\ Goto(w, "idle", "lock")
    /\ hand' = [hand EXCEPT ![w] = <<e>>]
    /\ UNCHANGED <<queueVars, m_bQuit, history>>

WriterLocks(w) ==
    /\ Goto(w, "lock", "push")
    /\ Lock(w)
    /\ UNCHANGED <<m_sendList, m_semSendQueue, m_bQuit, hand, history>>

PushBack(w) ==
    /\ Goto(w, "push", "post")
    /\ m_sendList' = m_sendList \o hand[w]
    /\ pushed' = pushed \o hand[w]
    /\ hand' = [hand EXCEPT ![w] = Empty]
    /\ UNCHANGED <<m_semSendQueue, m_mutexSendQueue, m_bQuit, finished, interrupted>>

\* Mutant of SemPost: the worker is woken only when the list was empty.
SemPostOnlyFirst(w) ==
    /\ Goto(w, "post", "unlock")
    /\ m_semSendQueue' =
           m_semSendQueue + (IF Len(m_sendList) = 1 THEN 1 ELSE 0)
    /\ UNCHANGED <<m_sendList, m_mutexSendQueue, m_bQuit, hand, history>>

SemPost(w) ==
    /\ Goto(w, "post", "unlock")
    /\ m_semSendQueue' = m_semSendQueue + 1
    /\ UNCHANGED <<m_sendList, m_mutexSendQueue, m_bQuit, hand, history>>

WriterUnlocks(w) ==
    /\ Goto(w, "unlock", "idle")
    /\ Unlock(w)
    /\ UNCHANGED <<m_sendList, m_semSendQueue, m_bQuit, hand, history>>

-----------------------------------------------------------------------------
(* workerThread.                                                            *)

\* while (!m_bQuit): doWork(), which leaves this module's state alone.
DoWork ==
    /\ ~m_bQuit
    /\ Goto(Worker, "test", "wait")
    /\ UNCHANGED <<queueVars, m_bQuit, hand, history>>

\* Mutant of LeaveLoop: the thread ends only when its list is empty.
LeaveLoopDrained ==
    /\ m_bQuit
    /\ m_sendList = <<>>
    /\ Goto(Worker, "test", "ended")
    /\ UNCHANGED <<queueVars, m_bQuit, hand, history>>

LeaveLoop ==
    /\ m_bQuit
    /\ Goto(Worker, "test", "ended")
    /\ UNCHANGED <<queueVars, m_bQuit, hand, history>>

\* Mutant of SemWait: the wait never blocks.
SemWaitUnguarded ==
    /\ Goto(Worker, "wait", "size")
    /\ m_semSendQueue' = m_semSendQueue - 1
    /\ UNCHANGED <<m_sendList, m_mutexSendQueue, m_bQuit, hand, history>>

SemWait ==
    /\ m_semSendQueue > 0
    /\ Goto(Worker, "wait", "size")
    /\ m_semSendQueue' = m_semSendQueue - 1
    /\ UNCHANGED <<m_sendList, m_mutexSendQueue, m_bQuit, hand, history>>

\* ETIMEDOUT after a second: not an error, the list is looked at all the same.
SemTimedOut ==
    /\ m_semSendQueue = 0
    /\ Goto(Worker, "wait", "size")
    /\ UNCHANGED <<queueVars, m_bQuit, hand, history>>

\* EINTR: the worker raises m_bQuit itself and looks at the list.
SemInterrupted ==
    /\ m_semSendQueue = 0
    /\ Goto(Worker, "wait", "size")
    /\ m_bQuit' = TRUE
    /\ interrupted' = TRUE
    /\ UNCHANGED <<queueVars, hand, pushed, finished>>

\* size() is read without the mutex: while a writer is inside its critical
\* section the read may still see the list as it was before the push.
ObservedSizes ==
    {Len(m_sendList)} \cup
        {Len(m_sendList) - 1 : w \in {v \in Writers : pc[v] = "post"}}

\* Mutant of SeesEvent: the size is not looked at.
SeesAnything ==
    /\ Goto(Worker, "size", "lock")
    /\ UNCHANGED <<queueVars, m_bQuit, hand, history>>

SeesEvent ==
    /\ \E n \in ObservedSizes : n > 0
    /\ Goto(Worker, "size", "lock")
    /\ UNCHANGED <<queueVars, m_bQuit, hand, history>>

SeesNothing ==
    /\ 0 \in ObservedSizes
    /\ Goto(Worker, "size", "test")
    /\ UNCHANGED <<queueVars, m_bQuit, hand, history>>

WorkerLocks ==
    /\ Goto(Worker, "lock", "front")
    /\ Lock(Worker)
    /\ UNCHANGED <<m_sendList, m_semSendQueue, m_bQuit, hand, history>>

\* Mutant of PopFront: the newest event is taken.
PopBack ==
    /\ m_sendList # <<>>
    /\ Goto(Worker, "front", "unlock")
    /\ hand' = [hand EXCEPT ![Worker] = <<m_sendList[Len(m_sendList)]>>]
    /\ m_sendList' = SubSeq(m_sendList, 1, Len(m_sendList) - 1)
    /\ UNCHANGED <<m_semSendQueue, m_mutexSendQueue, m_bQuit, history>>

\* front() of an empty list is undefined: see FrontNeverEmpty.
PopFront ==
    /\ m_sendList # <<>>
    /\ Goto(Worker, "front", "unlock")
    /\ hand' = [hand EXCEPT ![Worker] = <<Head(m_sendList)>>]
    /\ m_sendList' = Tail(m_sendList)
    /\ UNCHANGED <<m_semSendQueue, m_mutexSendQueue, m_bQuit, history>>

\* Mutant of WorkerUnlocks: the mutex is kept.
WorkerKeepsMutex ==
    /\ Goto(Worker, "unlock", "handle")
    /\ UNCHANGED <<queueVars, m_bQuit, hand, history>>

WorkerUnlocks ==
    /\ Goto(Worker, "unlock", "handle")
    /\ Unlock(Worker)
    /\ UNCHANGED <<m_sendList, m_semSendQueue, m_bQuit, hand, history>>

\* The worker's business with the event in its hand is over.
Finish(to) ==
    /\ Goto(Worker, "handle", to)
    /\ finished' = finished \o hand[Worker]
    /\ hand' = [hand EXCEPT ![Worker] = Empty]
    /\ UNCHANGED <<queueVars, m_bQuit, pushed, interrupted>>

\* Mutant of ContinueOnNull: the thread returns.
ReturnOnNull ==
    /\ hand[Worker] = <<NullEvent>>
    /\ Finish("ended")

\* A NULL pointer: continue with the next round.
ContinueOnNull ==
    /\ hand[Worker] = <<NullEvent>>
    /\ Finish("test")

\* An HLO command with the driver's GUID goes to handleHLO, whose body is
\* commented out; every event is deleted.
HandleAndDelete ==
    /\ hand[Worker] # <<NullEvent>>
    /\ Finish("test")

-----------------------------------------------------------------------------
(* CAutomation::close, in a thread of the daemon.                           *)

\* m_bQuit is already set: "already terminated", nothing to do.
CloseAlreadyQuit ==
    /\ m_bQuit
    /\ Goto(Closer, "idle", "closed")
    /\ UNCHANGED <<queueVars, m_bQuit, hand, history>>

\* Mutant of CloseSetsQuit: the thread is joined before it is told to stop.
CloseJoinsFirst ==
    /\ ~m_bQuit
    /\ Goto(Closer, "idle", "join")
    /\ UNCHANGED <<queueVars, m_bQuit, hand, history>>

CloseSetsQuit ==
    /\ ~m_bQuit
    /\ Goto(Closer, "idle", "join")
    /\ m_bQuit' = TRUE
    /\ UNCHANGED <<queueVars, hand, history>>

\* Mutant of PthreadJoin: the thread is detached instead.
PthreadDetach ==
    /\ Goto(Closer, "join", "closed")
    /\ UNCHANGED <<queueVars, m_bQuit, hand, history>>

PthreadJoin ==
    /\ pc[Worker] = "ended"
    /\ Goto(Closer, "join", "closed")
    /\ UNCHANGED <<queueVars, m_bQuit, hand, history>>

-----------------------------------------------------------------------------
WriterNext(w) ==
    \/ \E e \in Events : VSCPWrite(w, e)
    \/ WriterLocks(w)
    \/ PushBack(w)
    \/ SemPost(w)
    \/ WriterUnlocks(w)

WorkerNext ==
    \/ DoWork
    \/ LeaveLoop
    \/ SemWait
    \/ SemTimedOut
    \/ SemInterrupted
    \/ SeesEvent
    \/ SeesNothing
    \/ WorkerLocks
    \/ PopFront
    \/ WorkerUnlocks
    \/ ContinueOnNull
    \/ HandleAndDelete

CloserNext == CloseAlreadyQuit \/ CloseSetsQuit \/ PthreadJoin

Next == WorkerNext \/ CloserNext \/ \E w \in Writers : WriterNext(w)

Spec == Init /\ [][Next]_vars

(* The worker runs whenever it can; its wait ends within a second.  A writer *)
(* inside a call runs to its end.  The mutex is held for a few instructions  *)
(* only, so no thread that keeps asking for it is refused for ever.  Nothing *)
(* makes the daemon write or close.                                          *)
Fairness ==
    /\ WF_vars(WorkerNext)
    /\ SF_vars(WorkerLocks)
    /\ WF_vars(PthreadJoin)
    /\ \A w \in Writers :
        /\ SF_vars(WriterLocks(w))
        /\ WF_vars(PushBack(w) \/ SemPost(w) \/ WriterUnlocks(w))

FairSpec == Spec /\ Fairness

-----------------------------------------------------------------------------
(* Properties.                                                              *)

InCritical(t) == pc[t] \in {"push", "post", "unlock", "front"}

\* m_sendList is changed only by the owner of m_mutexSendQueue, although the
\* worker decides to take an event before it asks for the mutex.
MutexProtectsList ==
    \A t \in Threads : InCritical(t) <=> m_mutexSendQueue = t

\* The worker tests size() without the mutex and calls front() under it: the
\* list cannot have become empty in between, because no other thread pops.
FrontNeverEmpty ==
    pc[Worker] \in {"lock", "front"} => m_sendList # <<>>

Unposted == Cardinality({w \in Writers : pc[w] = "post"})

\* "Check incoming event right away": no event is left on the list without a
\* wake-up.  Whenever the worker goes to sleep, each queued event is matched
\* by a unit of the semaphore or by a writer about to post it, in spite of the
\* stale size() and of the events taken after a timeout.
WakeupsCoverQueue ==
    Len(m_sendList) <= m_semSendQueue + Unposted
        + (IF pc[Worker] \in {"size", "lock", "front"} THEN 1 ELSE 0)

\* Every written event is in exactly one place, in the order of the writes:
\* through with, in the worker's hand, or still on the list.
ConservedInOrder ==
    pushed = finished \o hand[Worker] \o m_sendList

\* close() returns only after the worker thread has left its loop: what the
\* destructor relies on when it destroys the semaphores and mutexes next.
CloseMeansTerminated ==
    pc[Closer] = "closed" => pc[Worker] = "ended"

\* What holds of it: m_bQuit, which close() takes for "already terminated", is
\* raised by nobody but close() itself as long as no signal interrupts a wait.
CloseWithoutSignal == interrupted \/ CloseMeansTerminated

\* While nobody asks the worker to stop, each event written is dealt with.
EventuallyFinished ==
    \A n \in 1..MaxWrites : Len(pushed) >= n ~> Len(finished) >= n \/ m_bQuit

\* "Do work at least once a second": the worker keeps coming back to doWork.
DoWorkRecurs == []<>(pc[Worker] \in {"test", "ended"})

\* Once m_bQuit is set, by close() or by the worker itself after a signal, the
\* worker thread ends, whatever it was doing and whatever is still queued.
QuitIsObeyed == m_bQuit ~> pc[Worker] = "ended"

\* close() comes back: the worker sees m_bQuit and ends, whatever it is doing.
CloseReturns == pc[Closer] = "join" ~> pc[Closer] = "closed"
=============================================================================
