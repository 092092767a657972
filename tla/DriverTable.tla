---------------------------- MODULE DriverTable -----------------------------
(***************************************************************************)
(* The driver's objects and handles (linux/vscpl2drv-automation.cpp): the   *)
(* map g_ifMap from handles to CAutomation objects, its mutex, VSCPOpen,    *)
(* VSCPClose, the lookup that every other call begins with, and _fini, which *)
(* collects what was never closed when the library is unloaded.  Of each     *)
(* object, the run flag m_bQuit and whether its worker thread is running.    *)
(*                                                                          *)
(* The daemon is taken to use the interface as its two threads per driver   *)
(* do: calls on one handle may overlap, but a handle is closed once, when no *)
(* other call on it is under way, and the library is unloaded when no call   *)
(* is.                                                                      *)
(***************************************************************************)
EXTENDS Integers, FiniteSets

CONSTANTS
    Clients,    \* the daemon's threads
    Loader,     \* the thread that unloads the library and runs _fini
    Objects,    \* bound: the memory for CAutomation objects, used again and again
    NoObject,   \* no object in hand, or a lookup that found nothing
    NoThread    \* g_mapMutex is free

ASSUME DriverTableAssumption ==
    /\ Loader \notin Clients
    /\ NoThread \notin Clients \cup {Loader}
    /\ NoObject \notin Objects
    /\ IsFiniteSet(Objects)

VARIABLES
    g_ifMap,        \* index -> object
    g_mapMutex,     \* the owner of the mutex, or NoThread
    live,           \* the objects that are built and not yet deleted
    worker,         \* of each object: its thread m_threadWork
    m_bQuit,        \* of each object
    pc,             \* where each thread is
    frame,          \* the function on whose behalf close() was called
    handle,         \* the handle each thread's call is about
    pdrvObj,        \* the object each thread has in hand
    rv,             \* what each client's last call returned
    opened,         \* the daemon's open handles, each with what it was given for
    alive           \* FALSE once undefined behaviour has ended the process

objectVars == <<live, worker, m_bQuit>>
mapVars == <<g_ifMap, g_mapMutex>>
localVars == <<frame, handle, pdrvObj>>
vars == <<mapVars, objectVars, pc, localVars, rv, opened, alive>>

Threads == Clients \cup {Loader}

Step == {"idle", "open", "addLock", "insert", "addUnlock", "find", "use",
         "close", "join", "removeLock", "removeFind", "destroy", "erase",
         "removeUnlock", "finiNext", "finiUnlock", "gone"}
Frame == {"VSCPOpen", "VSCPUse", "VSCPClose", "removeDriverObject", "_fini"}
ReturnCode == {"none", "SUCCESS", "MEMORY", "FAILED"}

\* What is added to an index to make it a handle; 0 is no handle.
Base == 1681

TypeOK ==
    /\ DOMAIN g_ifMap \in SUBSET Nat
    /\ \A i \in DOMAIN g_ifMap : g_ifMap[i] \in Objects
    /\ g_mapMutex \in Threads \cup {NoThread}
    /\ live \in SUBSET Objects
    /\ worker \in [Objects -> {"none", "running", "ended"}]
    /\ m_bQuit \in [Objects -> BOOLEAN]
    /\ pc \in [Threads -> Step]
    /\ frame \in [Threads -> Frame]
    /\ handle \in [Threads -> Nat]
    /\ pdrvObj \in [Threads -> Objects \cup {NoObject}]
    /\ rv \in [Clients -> ReturnCode]
    /\ opened \in SUBSET (Nat \X Objects)
    /\ alive \in BOOLEAN

Init ==
    /\ g_ifMap = [i \in {} |-> NoObject]
    /\ g_mapMutex = NoThread
    /\ live = {}
    /\ worker = [o \in Objects |-> "none"]
    /\ m_bQuit = [o \in Objects |-> FALSE]
    /\ pc = [t \in Threads |-> "idle"]
    /\ frame = [t \in Threads |-> IF t = Loader THEN "_fini" ELSE "VSCPOpen"]
    /\ handle = [t \in Threads |-> 0]
    /\ pdrvObj = [t \in Threads |-> NoObject]
    /\ rv = [c \in Clients |-> "none"]
    /\ opened = {}
    /\ alive = TRUE

-----------------------------------------------------------------------------
\* A thread of a living process moves on.
Goto(t, from, to) ==
    /\ alive
    /\ pc[t] = from
    /\ pc' = [pc EXCEPT ![t] = to]

\* Mutant of Lock: LOCK_MUTEX does nothing.
LockUnchecked(t) == g_mapMutex' = t

Lock(t) ==
    /\ g_mapMutex = NoThread
    /\ g_mapMutex' = t

\* Mutant of Unlock: UNLOCK_MUTEX does nothing.
UnlockNot(t) == UNCHANGED g_mapMutex

Unlock(t) ==
    /\ g_mapMutex = t
    /\ g_mapMutex' = NoThread

Loaded == pc[Loader] = "idle"

\* A client begins a call.
Call(c, to, f, h) ==
    /\ Loaded
    /\ Goto(c, "idle", to)
    /\ frame' = [frame EXCEPT ![c] = f]
    /\ handle' = [handle EXCEPT ![c] = h]
    /\ rv' = [rv EXCEPT ![c] = "none"]

\* A client's call returns; it has no object in hand any more.
Returns(c, code) ==
    /\ rv' = [rv EXCEPT ![c] = code]
    /\ pdrvObj' = [pdrvObj EXCEPT ![c] = NoObject]

-----------------------------------------------------------------------------
(* VSCPOpen.                                                                *)

\* new CAutomation(), in memory that may have held a deleted one; memory under
\* the feet of a worker that was not joined is left out of use.
VSCPOpen(c) ==
    \E o \in Objects \ live :
        /\ worker[o] # "running"
        /\ Call(c, "open", "VSCPOpen", 0)
        /\ live' = live \cup {o}
        /\ worker' = [worker EXCEPT ![o] = "none"]
        /\ m_bQuit' = [m_bQuit EXCEPT ![o] = FALSE]
        /\ pdrvObj' = [pdrvObj EXCEPT ![c] = o]
        /\ UNCHANGED <<mapVars, opened, alive>>

\* CAutomation::open starts the worker, also when the configuration is bad.
ThreadStarts(c) ==
    /\ Goto(c, "open", "addLock")
    /\ worker' = [worker EXCEPT ![pdrvObj[c]] = "running"]
    /\ UNCHANGED <<mapVars, live, m_bQuit, localVars, rv, opened, alive>>

\* Mutant of ThreadFails: the object is forgotten.
ThreadFailsLeaks(c) ==
    /\ Goto(c, "open", "idle")
    /\ Returns(c, "FAILED")
    /\ UNCHANGED <<mapVars, objectVars, frame, handle, opened, alive>>

\* pthread_create fails: VSCPOpen deletes the object, whose destructor calls
\* close().
ThreadFails(c) ==
    /\ Goto(c, "open", "close")
    /\ UNCHANGED <<mapVars, objectVars, localVars, rv, opened, alive>>

\* addDriverObject: the lowest free index.
AddLock(c) ==
    /\ Goto(c, "addLock", "insert")
    /\ Lock(c)
    /\ UNCHANGED <<g_ifMap, objectVars, localVars, rv, opened, alive>>

\* Mutants of FreeIndex: the search starts below zero; the number of entries
\* serves as the new index.
FreeIndexBelow == -1
FreeIndexAtSize == Cardinality(DOMAIN g_ifMap)

FreeIndex == CHOOSE i \in 0..Cardinality(DOMAIN g_ifMap) :
    i \notin DOMAIN g_ifMap /\ 0..(i - 1) \subseteq DOMAIN g_ifMap

Insert(c) ==
    /\ Goto(c, "insert", "addUnlock")
    /\ g_ifMap' = [j \in DOMAIN g_ifMap \cup {FreeIndex} |->
                        IF j = FreeIndex THEN pdrvObj[c] ELSE g_ifMap[j]]
    /\ handle' = [handle EXCEPT ![c] = FreeIndex + Base]
    /\ UNCHANGED <<g_mapMutex, objectVars, frame, pdrvObj, rv, opened, alive>>

AddUnlock(c) ==
    /\ Goto(c, "addUnlock", "idle")
    /\ Unlock(c)
    /\ opened' = opened \cup {<<handle[c], pdrvObj[c]>>}
    /\ Returns(c, "SUCCESS")
    /\ UNCHANGED <<g_ifMap, objectVars, frame, handle, alive>>

-----------------------------------------------------------------------------
(* getDriverObject, which takes no mutex, and the calls that begin with it. *)

\* VSCPWrite and VSCPRead: what they do with the object is the subject of
\* SendQueue and ReceiveQueue.
VSCPUse(c, p) ==
    /\ Call(c, "find", "VSCPUse", p[1])
    /\ UNCHANGED <<mapVars, objectVars, pdrvObj, opened, alive>>

VSCPClose(c, p) ==
    /\ \A d \in Clients : pc[d] # "idle" => handle[d] # p[1]
    /\ Call(c, "find", "VSCPClose", p[1])
    /\ opened' = opened \ {p}
    /\ UNCHANGED <<mapVars, objectVars, pdrvObj, alive>>

\* The handle 0 that a failed VSCPOpen returned: its index is negative.
CallWithoutHandle(c) ==
    /\ alive
    /\ Loaded
    /\ pc[c] = "idle"
    /\ handle' = [handle EXCEPT ![c] = 0]
    /\ rv' = [rv EXCEPT ![c] = "MEMORY"]
    /\ UNCHANGED <<mapVars, objectVars, pc, frame, pdrvObj, opened, alive>>

Index(t) == handle[t] - Base

Found(c) ==
    /\ Index(c) \in DOMAIN g_ifMap
    /\ Goto(c, "find", IF frame[c] = "VSCPClose" THEN "close" ELSE "use")
    /\ pdrvObj' = [pdrvObj EXCEPT ![c] = g_ifMap[Index(c)]]
    /\ UNCHANGED <<mapVars, objectVars, frame, handle, rv, opened, alive>>

\* A lookup that runs while another thread inserts or erases is undefined: a
\* rotation of the tree may hide the entry from it, or the process may end.
Mutating == \E t \in Threads : pc[t] \in {"insert", "erase"}

NotFound(c) ==
    /\ Index(c) \notin DOMAIN g_ifMap \/ Mutating
    /\ Goto(c, "find", "idle")
    /\ Returns(c, "MEMORY")
    /\ UNCHANGED <<mapVars, objectVars, frame, handle, opened, alive>>

FindCrashes(c) ==
    /\ alive
    /\ pc[c] = "find"
    /\ Mutating
    /\ alive' = FALSE
    /\ UNCHANGED <<mapVars, objectVars, pc, localVars, rv, opened>>

UseReturns(c) ==
    /\ Goto(c, "use", "idle")
    /\ Returns(c, "SUCCESS")
    /\ UNCHANGED <<mapVars, objectVars, frame, handle, opened, alive>>

-----------------------------------------------------------------------------
(* CAutomation::close, called by VSCPClose, by _fini and by the destructor. *)

\* Where close() returns to.
AfterClose(t) == IF frame[t] = "VSCPClose" THEN "removeLock" ELSE "destroy"

\* "Do nothing if already terminated".
AlreadyQuit(t) ==
    /\ Goto(t, "close", AfterClose(t))
    /\ m_bQuit[pdrvObj[t]]
    /\ UNCHANGED <<mapVars, objectVars, localVars, rv, opened, alive>>

SetQuit(t) ==
    /\ Goto(t, "close", "join")
    /\ ~m_bQuit[pdrvObj[t]]
    /\ m_bQuit' = [m_bQuit EXCEPT ![pdrvObj[t]] = TRUE]
    /\ UNCHANGED <<mapVars, live, worker, localVars, rv, opened, alive>>

Join(t) ==
    /\ Goto(t, "join", AfterClose(t))
    /\ worker[pdrvObj[t]] = "ended"
    /\ UNCHANGED <<mapVars, objectVars, localVars, rv, opened, alive>>

\* m_threadWork was never set: pthread_join fails, or the process ends.
JoinUnstarted(t) ==
    /\ Goto(t, "join", AfterClose(t))
    /\ worker[pdrvObj[t]] = "none"
    /\ alive' \in BOOLEAN
    /\ UNCHANGED <<mapVars, objectVars, localVars, rv, opened>>

\* removeDriverObject.
RemoveLock(c) ==
    /\ Goto(c, "removeLock", "removeFind")
    /\ Lock(c)
    /\ UNCHANGED <<g_ifMap, objectVars, localVars, rv, opened, alive>>

\* The object under the handle is deleted, whose destructor calls close().
RemoveFind(c) ==
    /\ Index(c) \in DOMAIN g_ifMap
    /\ Goto(c, "removeFind", "close")
    /\ frame' = [frame EXCEPT ![c] = "removeDriverObject"]
    /\ pdrvObj' = [pdrvObj EXCEPT ![c] = g_ifMap[Index(c)]]
    /\ UNCHANGED <<mapVars, objectVars, handle, rv, opened, alive>>

\* The rest of the destructor, and what follows `delete`: erase in
\* removeDriverObject, the next entry in _fini, the end of a failed VSCPOpen.
Delete(t) ==
    /\ pc[t] = "destroy"
    /\ live' = live \ {pdrvObj[t]}
    /\ pdrvObj' = [pdrvObj EXCEPT ![t] = NoObject]

DestroyRemoved(c) ==
    /\ Goto(c, "destroy", "erase")
    /\ frame[c] = "removeDriverObject"
    /\ Delete(c)
    /\ UNCHANGED <<mapVars, worker, m_bQuit, frame, handle, rv, opened, alive>>

DestroyUnopened(c) ==
    /\ frame[c] = "VSCPOpen"
    /\ Delete(c)
    /\ Goto(c, "destroy", "idle")
    /\ rv' = [rv EXCEPT ![c] = "FAILED"]
    /\ UNCHANGED <<mapVars, worker, m_bQuit, frame, handle, opened, alive>>

\* Mutant of Erase: the entry stays in the map.
EraseNothing(c) ==
    /\ Goto(c, "erase", "removeUnlock")
    /\ UNCHANGED <<mapVars, objectVars, localVars, rv, opened, alive>>

Erase(c) ==
    /\ Goto(c, "erase", "removeUnlock")
    /\ g_ifMap' = [i \in DOMAIN g_ifMap \ {Index(c)} |-> g_ifMap[i]]
    /\ UNCHANGED <<g_mapMutex, objectVars, localVars, rv, opened, alive>>

RemoveUnlock(c) ==
    /\ Goto(c, "removeUnlock", "idle")
    /\ Unlock(c)
    /\ Returns(c, "SUCCESS")
    /\ UNCHANGED <<g_ifMap, objectVars, frame, handle, opened, alive>>

-----------------------------------------------------------------------------
(* _fini.                                                                   *)

NothingToDo ==
    /\ \A c \in Clients : pc[c] = "idle"
    /\ DOMAIN g_ifMap = {}
    /\ Goto(Loader, "idle", "gone")
    /\ UNCHANGED <<mapVars, objectVars, localVars, rv, opened, alive>>

FiniLock ==
    /\ \A c \in Clients : pc[c] = "idle"
    /\ DOMAIN g_ifMap # {}
    /\ Goto(Loader, "idle", "finiNext")
    /\ Lock(Loader)
    /\ handle' = [handle EXCEPT ![Loader] = 0]
    /\ UNCHANGED <<g_ifMap, objectVars, frame, pdrvObj, rv, opened, alive>>

\* Mutant of Ahead: the iterator is advanced before it is used.
AheadSkips == {i \in DOMAIN g_ifMap : i > handle[Loader]}

\* The indices the iterator has still to visit; handle[Loader] is the iterator.
Ahead == {i \in DOMAIN g_ifMap : i >= handle[Loader]}

\* close() and delete, whose own close() finds m_bQuit set.
FiniNext ==
    \E i \in Ahead :
        /\ \A j \in Ahead : i <= j
        /\ Goto(Loader, "finiNext", "close")
        /\ handle' = [handle EXCEPT ![Loader] = i + 1]
        /\ pdrvObj' = [pdrvObj EXCEPT ![Loader] = g_ifMap[i]]
        /\ UNCHANGED <<mapVars, objectVars, frame, rv, opened, alive>>

DestroyOrphan ==
    /\ Delete(Loader)
    /\ Goto(Loader, "destroy", "finiNext")
    /\ UNCHANGED <<mapVars, worker, m_bQuit, frame, handle, rv, opened, alive>>

FiniClear ==
    /\ Ahead = {}
    /\ Goto(Loader, "finiNext", "finiUnlock")
    /\ g_ifMap' = [i \in {} |-> NoObject]
    /\ opened' = {}
    /\ UNCHANGED <<g_mapMutex, objectVars, localVars, rv, alive>>

FiniUnlock ==
    /\ Goto(Loader, "finiUnlock", "gone")
    /\ Unlock(Loader)
    /\ UNCHANGED <<g_ifMap, objectVars, localVars, rv, opened, alive>>

-----------------------------------------------------------------------------
(* The worker threads; see SendQueue for what they do.                      *)

WorkerEnds(o) ==
    /\ alive
    /\ worker[o] = "running"
    /\ m_bQuit[o]
    /\ worker' = [worker EXCEPT ![o] = "ended"]
    /\ UNCHANGED <<mapVars, live, m_bQuit, pc, localVars, rv, opened, alive>>

WorkerInterrupted(o) ==
    /\ alive
    /\ worker[o] = "running"
    /\ m_bQuit' = [m_bQuit EXCEPT ![o] = TRUE]
    /\ UNCHANGED <<mapVars, live, worker, pc, localVars, rv, opened, alive>>

-----------------------------------------------------------------------------
\* The daemon calls.
ClientCalls(c) ==
    \/ VSCPOpen(c)
    \/ CallWithoutHandle(c)
    \/ \E p \in opened : VSCPUse(c, p) \/ VSCPClose(c, p)

\* close(), in whatever thread.
Closing(t) == AlreadyQuit(t) \/ SetQuit(t) \/ Join(t) \/ JoinUnstarted(t)

\* A call that has begun goes on.
ClientStep(c) ==
    \/ ThreadStarts(c) \/ ThreadFails(c)
    \/ AddLock(c) \/ Insert(c) \/ AddUnlock(c)
    \/ Found(c) \/ NotFound(c) \/ FindCrashes(c) \/ UseReturns(c)
    \/ Closing(c)
    \/ RemoveLock(c) \/ RemoveFind(c) \/ DestroyRemoved(c) \/ DestroyUnopened(c)
    \/ Erase(c) \/ RemoveUnlock(c)

Fini ==
    \/ NothingToDo
    \/ FiniLock
    \/ FiniNext
    \/ Closing(Loader)
    \/ DestroyOrphan
    \/ FiniClear
    \/ FiniUnlock

WorkerStep(o) == WorkerEnds(o) \/ WorkerInterrupted(o)

Next ==
    \/ \E c \in Clients : ClientCalls(c) \/ ClientStep(c)
    \/ Fini
    \/ \E o \in Objects : WorkerStep(o)

Spec == Init /\ [][Next]_vars

(* A call that has begun keeps running, the map mutex is not withheld for   *)
(* ever from a thread that keeps asking for it, and a worker whose m_bQuit   *)
(* is set ends (SendQueue!QuitIsObeyed).  Nothing makes the daemon call.     *)
Fairness ==
    /\ \A c \in Clients :
        /\ WF_vars(ClientStep(c))
        /\ SF_vars(AddLock(c) \/ RemoveLock(c))
    /\ WF_vars(pc[Loader] # "idle" /\ Fini)
    /\ \A o \in Objects : WF_vars(WorkerEnds(o))

FairSpec == Spec /\ Fairness

-----------------------------------------------------------------------------
(* Properties.                                                              *)

InCritical(t) ==
    \/ pc[t] \in {"insert", "addUnlock", "removeFind", "erase", "removeUnlock",
                  "finiNext", "finiUnlock"}
    \/ /\ pc[t] \in {"close", "join", "destroy"}
       /\ frame[t] \in {"removeDriverObject", "_fini"}

\* g_ifMap is changed only by the owner of g_mapMutex, which is held across the
\* destructor, and with it across a join, and is given back on every path.
MutexProtectsMap ==
    \A t \in Threads : InCritical(t) <=> g_mapMutex = t

\* An open handle stands for the object it was given for until the daemon
\* closes it, although indices are used again and other drivers come and go.
HandleDenotesObject ==
    \A p \in opened :
        /\ p[1] - Base \in DOMAIN g_ifMap
        /\ g_ifMap[p[1] - Base] = p[2]

\* No call, no close() and no destructor works on an object that has already
\* been deleted: not after a failed open, not in a close that overlaps others,
\* not when _fini collects what close left behind.
UsesLiveObject ==
    \A t \in Threads :
        pc[t] \in {"use", "close", "join", "destroy"} => pdrvObj[t] \in live

\* Every object that VSCPOpen allocates is either on its way through VSCPOpen
\* or in the map under one index, where VSCPClose or _fini will find it, also
\* when starting the thread failed or a VSCPClose was refused.
NoObjectLost ==
    \A o \in live :
        LET indices == {i \in DOMAIN g_ifMap : g_ifMap[i] = o}
            openers == {c \in Clients : frame[c] = "VSCPOpen" /\ pdrvObj[c] = o}
        IN  \/ Cardinality(indices) = 1
            \/ indices = {} /\ openers # {}

\* When the library has been unloaded no object is left.
FiniCollectsAll ==
    pc[Loader] = "gone" => live = {}

\* Every call returns and _fini ends: nobody waits for ever for the map mutex,
\* even while its owner joins a worker thread.
CallsReturn ==
    /\ \A c \in Clients : pc[c] # "idle" ~> pc[c] = "idle" \/ ~alive
    /\ pc[Loader] # "idle" ~> pc[Loader] = "gone" \/ ~alive

\* "Mutex for the map object": a call with an open handle finds its object, it
\* is not refused because another driver is opened or closed at that moment.
OpenHandleAccepted ==
    \A c \in Clients : rv[c] = "MEMORY" => handle[c] = 0
=============================================================================
