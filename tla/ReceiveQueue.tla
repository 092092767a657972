---------------------------- MODULE ReceiveQueue ----------------------------
(***************************************************************************)
(* The path of an event from the driver's worker thread to the daemon:      *)
(* CAutomation::eventExToReceiveQueue (common/automation.cpp) appends to    *)
(* m_receiveList and posts m_semReceiveQueue; VSCPRead                      *)
(* (linux/vscpl2drv-automation.cpp) waits for the semaphore and pops.       *)
(* One step per access that another thread can observe: the semaphore wait  *)
(* and post, taking and releasing the mutex, and the list operation.        *)
(***************************************************************************)
EXTENDS Integers, Sequences, FiniteSets

CONSTANTS
    Readers,    \* the daemon's threads that call VSCPRead
    Worker,     \* the driver's worker thread, the only producer
    Events,     \* the events the worker produces
    Accepted,   \* the events that pass m_vscpfilter
    NoEvent,    \* no event in hand
    NoThread,   \* the mutex is free
    MaxQueue    \* bound: the worker produces nothing at this list length

ASSUME ReceiveQueueAssumption ==
    /\ IsFiniteSet(Readers)
    /\ Worker \notin Readers
    /\ NoThread \notin Readers \cup {Worker}
    /\ Accepted \subseteq Events
    /\ NoEvent \notin Events
    /\ MaxQueue \in Nat \ {0}

VARIABLES
    m_receiveList,          \* std::list<vscpEvent *>, oldest first
    m_semReceiveQueue,      \* the semaphore's count
    m_mutexReceiveQueue,    \* the owner of the mutex, or NoThread
    pc,                     \* where each thread is
    pEvent,                 \* the event each thread holds a pointer to
    rv                      \* what each reader's last VSCPRead returned

vars == <<m_receiveList, m_semReceiveQueue, m_mutexReceiveQueue, pc, pEvent, rv>>

Threads == Readers \cup {Worker}

WorkerStep == {"idle", "convert", "push", "post", "unlock"}
ReaderStep == {"idle", "wait", "lock", "front", "unlock", "copy"}
ReturnCode == {"none", "SUCCESS", "TIMEOUT", "INTERNAL", "PARAMETER"}

TypeOK ==
    /\ m_receiveList \in Seq(Accepted)
    /\ m_semReceiveQueue \in Nat
    /\ m_mutexReceiveQueue \in Threads \cup {NoThread}
    /\ pc \in [Threads -> WorkerStep \cup ReaderStep]
    /\ pc[Worker] \in WorkerStep
    /\ \A r \in Readers : pc[r] \in ReaderStep
    /\ pEvent \in [Threads -> Events \cup {NoEvent}]
    /\ rv \in [Readers -> ReturnCode]

Init ==
    /\ m_receiveList = <<>>
    /\ m_semReceiveQueue = 0
    /\ m_mutexReceiveQueue = NoThread
    /\ pc = [t \in Threads |-> "idle"]
    /\ pEvent = [t \in Threads |-> NoEvent]
    /\ rv = [r \in Readers |-> "none"]

-----------------------------------------------------------------------------
Goto(t, from, to) ==
    /\ pc[t] = from
    /\ pc' = [pc EXCEPT ![t] = to]

\* Mutant of Lock: the owner is overwritten instead of waited for.
LockUnchecked(t) ==
    m_mutexReceiveQueue' = t

Lock(t) ==
    /\ m_mutexReceiveQueue = NoThread
    /\ m_mutexReceiveQueue' = t

Unlock(t) ==
    /\ m_mutexReceiveQueue = t
    /\ m_mutexReceiveQueue' = NoThread

-----------------------------------------------------------------------------
(* eventExToReceiveQueue, called by doWork in the worker thread.            *)

\* new vscpEvent().
EventExToReceiveQueue(e) ==
    /\ Len(m_receiveList) < MaxQueue
    /\ Goto(Worker, "idle", "convert")
    /\ pEvent' = [pEvent EXCEPT ![Worker] = e]
    /\ UNCHANGED <<m_receiveList, m_semReceiveQueue, m_mutexReceiveQueue, rv>>

\* vscp_convertEventExToEvent fails: the event is deleted.
ConvertFails ==
    /\ Goto(Worker, "convert", "idle")
    /\ pEvent' = [pEvent EXCEPT ![Worker] = NoEvent]
    /\ UNCHANGED <<m_receiveList, m_semReceiveQueue, m_mutexReceiveQueue, rv>>

\* vscp_doLevel2Filter rejects the event: it is deleted.
FilterRejects ==
    /\ pEvent[Worker] \notin Accepted
    /\ Goto(Worker, "convert", "idle")
    /\ pEvent' = [pEvent EXCEPT ![Worker] = NoEvent]
    /\ UNCHANGED <<m_receiveList, m_semReceiveQueue, m_mutexReceiveQueue, rv>>

\* Mutant of WorkerLocks: the verdict of vscp_doLevel2Filter is ignored.
WorkerLocksUnfiltered ==
    /\ Goto(Worker, "convert", "push")
    /\ Lock(Worker)
    /\ UNCHANGED <<m_receiveList, m_semReceiveQueue, pEvent, rv>>

\* The event passes the filter and the worker takes the mutex.
WorkerLocks ==
    /\ pEvent[Worker] \in Accepted
    /\ Goto(Worker, "convert", "push")
    /\ Lock(Worker)
    /\ UNCHANGED <<m_receiveList, m_semReceiveQueue, pEvent, rv>>

\* push_back: the list owns the event from here on.
PushBack ==
    /\ Goto(Worker, "push", "post")
    /\ m_receiveList' = Append(m_receiveList, pEvent[Worker])
    /\ pEvent' = [pEvent EXCEPT ![Worker] = NoEvent]
    /\ UNCHANGED <<m_semReceiveQueue, m_mutexReceiveQueue, rv>>

\* Mutant of SemPost: readers are woken only when the list was empty.
SemPostOnlyFirst ==
    /\ Goto(Worker, "post", "unlock")
    /\ m_semReceiveQueue' =
           m_semReceiveQueue + (IF Len(m_receiveList) = 1 THEN 1 ELSE 0)
    /\ UNCHANGED <<m_receiveList, m_mutexReceiveQueue, pEvent, rv>>

SemPost ==
    /\ Goto(Worker, "post", "unlock")
    /\ m_semReceiveQueue' = m_semReceiveQueue + 1
    /\ UNCHANGED <<m_receiveList, m_mutexReceiveQueue, pEvent, rv>>

WorkerUnlocks ==
    /\ Goto(Worker, "unlock", "idle")
    /\ Unlock(Worker)
    /\ UNCHANGED <<m_receiveList, m_semReceiveQueue, pEvent, rv>>

-----------------------------------------------------------------------------
(* VSCPRead, called by a thread of the daemon.                              *)

\* pEvent is NULL: refused at once.
ReadNullPointer(r) ==
    /\ pc[r] = "idle"
    /\ rv' = [rv EXCEPT ![r] = "PARAMETER"]
    /\ UNCHANGED <<m_receiveList, m_semReceiveQueue, m_mutexReceiveQueue, pc, pEvent>>

VSCPRead(r) ==
    /\ Goto(r, "idle", "wait")
    /\ UNCHANGED <<m_receiveList, m_semReceiveQueue, m_mutexReceiveQueue, pEvent, rv>>

SemWait(r) ==
    /\ m_semReceiveQueue > 0
    /\ Goto(r, "wait", "lock")
    /\ m_semReceiveQueue' = m_semReceiveQueue - 1
    /\ UNCHANGED <<m_receiveList, m_mutexReceiveQueue, pEvent, rv>>

\* Mutant of SemTimedOut: a timeout is not treated as an error.
SemTimedOutGoesOn(r) ==
    /\ m_semReceiveQueue = 0
    /\ Goto(r, "wait", "lock")
    /\ UNCHANGED <<m_receiveList, m_semReceiveQueue, m_mutexReceiveQueue, pEvent, rv>>

\* ETIMEDOUT: the count was zero when the wait gave up.
SemTimedOut(r) ==
    /\ m_semReceiveQueue = 0
    /\ Goto(r, "wait", "idle")
    /\ rv' = [rv EXCEPT ![r] = "TIMEOUT"]
    /\ UNCHANGED <<m_receiveList, m_semReceiveQueue, m_mutexReceiveQueue, pEvent>>

\* EINTR, EINVAL, EAGAIN or any other error of the wait.
SemFails(r) ==
    /\ Goto(r, "wait", "idle")
    /\ rv' = [rv EXCEPT ![r] = "INTERNAL"]
    /\ UNCHANGED <<m_receiveList, m_semReceiveQueue, m_mutexReceiveQueue, pEvent>>

ReaderLocks(r) ==
    /\ Goto(r, "lock", "front")
    /\ Lock(r)
    /\ UNCHANGED <<m_receiveList, m_semReceiveQueue, pEvent, rv>>

\* Mutant of PopFront: the newest event is taken.
PopBack(r) ==
    /\ m_receiveList # <<>>
    /\ Goto(r, "front", "unlock")
    /\ pEvent' = [pEvent EXCEPT ![r] = m_receiveList[Len(m_receiveList)]]
    /\ m_receiveList' = SubSeq(m_receiveList, 1, Len(m_receiveList) - 1)
    /\ UNCHANGED <<m_semReceiveQueue, m_mutexReceiveQueue, rv>>

\* front() and pop_front(); front() of an empty list is undefined, so no step
\* is offered there and FrontNeverEmpty shows it is never asked for.  The list
\* holds what `new` returned, so the test for a NULL front never succeeds.
PopFront(r) ==
    /\ m_receiveList # <<>>
    /\ Goto(r, "front", "unlock")
    /\ pEvent' = [pEvent EXCEPT ![r] = Head(m_receiveList)]
    /\ m_receiveList' = Tail(m_receiveList)
    /\ UNCHANGED <<m_semReceiveQueue, m_mutexReceiveQueue, rv>>

\* Mutant of ReaderUnlocks: the mutex is kept.
ReaderKeepsMutex(r) ==
    /\ Goto(r, "unlock", "copy")
    /\ UNCHANGED <<m_receiveList, m_semReceiveQueue, m_mutexReceiveQueue, pEvent, rv>>

ReaderUnlocks(r) ==
    /\ Goto(r, "unlock", "copy")
    /\ Unlock(r)
    /\ UNCHANGED <<m_receiveList, m_semReceiveQueue, pEvent, rv>>

\* vscp_copyEvent to the caller, vscp_deleteEvent, return CANAL_ERROR_SUCCESS.
CopyAndDelete(r) ==
    /\ Goto(r, "copy", "idle")
    /\ pEvent' = [pEvent EXCEPT ![r] = NoEvent]
    /\ rv' = [rv EXCEPT ![r] = "SUCCESS"]
    /\ UNCHANGED <<m_receiveList, m_semReceiveQueue, m_mutexReceiveQueue>>

-----------------------------------------------------------------------------
WorkerNext ==
    \/ \E e \in Events : EventExToReceiveQueue(e)
    \/ ConvertFails
    \/ FilterRejects
    \/ WorkerLocks
    \/ PushBack
    \/ SemPost
    \/ WorkerUnlocks

ReaderNext(r) ==
    \/ ReadNullPointer(r)
    \/ VSCPRead(r)
    \/ SemWait(r)
    \/ SemTimedOut(r)
    \/ SemFails(r)
    \/ ReaderLocks(r)
    \/ PopFront(r)
    \/ ReaderUnlocks(r)
    \/ CopyAndDelete(r)

Next == WorkerNext \/ \E r \in Readers : ReaderNext(r)

Spec == Init /\ [][Next]_vars

(* A thread that is inside a call keeps running, a timed wait ends, and the *)
(* mutex is not withheld for ever from a thread that keeps asking for it:   *)
(* the worker wants it a few times a day, so there is no lasting contention. *)
(* Nothing makes the worker produce or the daemon read.                     *)
Fairness ==
    /\ WF_vars(ConvertFails \/ FilterRejects \/ WorkerLocks)
    /\ SF_vars(WorkerLocks)
    /\ WF_vars(PushBack \/ SemPost \/ WorkerUnlocks)
    /\ \A r \in Readers :
        /\ WF_vars(SemWait(r) \/ SemTimedOut(r) \/ SemFails(r))
        /\ SF_vars(ReaderLocks(r))
        /\ WF_vars(PopFront(r) \/ ReaderUnlocks(r) \/ CopyAndDelete(r))

FairSpec == Spec /\ Fairness

-----------------------------------------------------------------------------
(* Properties.                                                              *)

\* Readers that took a unit of the semaphore and have not popped yet.
Claimants == {r \in Readers : pc[r] \in {"lock", "front"}}

\* 1 while an event is on the list and its sem_post has not been made.
Unposted == IF pc[Worker] = "post" THEN 1 ELSE 0

\* The semaphore counts the list: each event on m_receiveList is either a
\* unit of m_semReceiveQueue, or claimed by a reader between its sem_wait and
\* its pop_front, or pushed by a worker that has not reached sem_post.  A
\* timeout, an interrupted wait or a rejected event must not disturb this.
SemCountsEvents ==
    m_semReceiveQueue + Cardinality(Claimants) + Unposted = Len(m_receiveList)

\* VSCPRead calls front() without asking whether the list is empty; the
\* semaphore must have guaranteed an event for every reader that gets there,
\* whatever the other readers popped in the meantime.
FrontNeverEmpty ==
    \A r \in Readers : pc[r] \in {"lock", "front"} => m_receiveList # <<>>

\* The list is touched, and the semaphore posted, only by the mutex's owner:
\* at most one thread is in a critical section and it owns the mutex.
InCritical(t) == pc[t] \in {"push", "post", "unlock", "front"}

MutexProtectsList ==
    \A t \in Threads : InCritical(t) <=> m_mutexReceiveQueue = t

\* Every VSCPRead returns, timed out, failed or with an event, even when
\* other readers and the worker compete for the mutex.
ReadReturns ==
    \A r \in Readers : pc[r] # "idle" ~> pc[r] = "idle"

\* The queue of threads, semaphore and mutex behaves as the abstract channel:
\* announced events are handed out oldest first, none is lost or handed out
\* twice, CANAL_ERROR_TIMEOUT is returned only when every announced event is
\* already claimed by another reader, and a claimed event is delivered.
PhaseOf(step) ==
    CASE step = "idle" -> "idle"
      [] step = "wait" -> "asking"
      [] step \in {"lock", "front"} -> "owed"
      [] OTHER -> "holding"

Announced == SubSeq(m_receiveList, 1, Len(m_receiveList) - Unposted)

Channel == INSTANCE EventChannel WITH
    Event <- Accepted,
    Getter <- Readers,
    queue <- Announced,
    phase <- [r \in Readers |-> PhaseOf(pc[r])],
    held <- [r \in Readers |-> pEvent[r]],
    answer <- rv

ImplementsChannel == Channel!FairSpec
=============================================================================
