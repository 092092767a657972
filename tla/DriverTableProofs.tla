------------------------- MODULE DriverTableProofs --------------------------
(***************************************************************************)
(* The handles, for any number of threads and of objects.  DriverIInv says   *)
(* where a thread may be in which function, which entries of the map still   *)
(* stand for an object, who holds an object that is in no entry, and that    *)
(* whoever closes a handle is alone with it.                                *)
(***************************************************************************)
EXTENDS DriverTable, FiniteSetTheorems, FunctionTheorems, WellFoundedInduction, TLAPS

\* Where a thread may be, by the function on whose behalf it runs.
StepOfFrame(t) ==
    \/ t = Loader /\ frame[t] = "_fini"
       /\ pc[t] \in {"idle", "finiNext", "close", "join", "destroy", "finiUnlock", "gone"}
    \/ t # Loader /\ frame[t] = "VSCPOpen"
       /\ pc[t] \in {"idle", "open", "addLock", "insert", "addUnlock", "close", "join", "destroy"}
    \/ t # Loader /\ frame[t] = "VSCPUse" /\ pc[t] \in {"idle", "find", "use"}
    \/ t # Loader /\ frame[t] = "VSCPClose"
       /\ pc[t] \in {"idle", "find", "close", "join", "removeLock", "removeFind"}
    \/ t # Loader /\ frame[t] = "removeDriverObject"
       /\ pc[t] \in {"idle", "close", "join", "destroy", "erase", "removeUnlock"}

\* While _fini runs no client does; a client without an object has none in hand.
Control ==
    /\ \A t \in Threads : StepOfFrame(t)
    /\ pc[Loader] # "idle" => \A c \in Clients : pc[c] = "idle"
    /\ \A c \in Clients :
           pc[c] \in {"idle", "find", "erase", "removeUnlock"} => pdrvObj[c] = NoObject

-----------------------------------------------------------------------------
\* A client in VSCPOpen whose object is not in the map.
Opening(c) == frame[c] = "VSCPOpen" /\ pc[c] \notin {"idle", "addUnlock"}

\* A client in VSCPClose.
ClosingHandle(c) == frame[c] \in {"VSCPClose", "removeDriverObject"} /\ pc[c] # "idle"

\* A client whose handle has an entry, and one with the entry's object in hand.
HasEntry(c) == pc[c] \notin {"idle", "removeUnlock"} /\ ~Opening(c)
HasObject(c) == HasEntry(c) /\ pc[c] \notin {"find", "erase"}

\* _fini is at the object of the entry before its iterator.
AtObject == pc[Loader] \in {"close", "join", "destroy"}

\* The indices of objects that VSCPClose and _fini have deleted.
Erased == {Index(c) : c \in {d \in Clients : pc[d] = "erase"}}
Visited ==
    {i \in Nat : /\ pc[Loader] # "idle"
                 /\ i < handle[Loader]
                 /\ ~(AtObject /\ i = handle[Loader] - 1)}

\* The indices that stand for an object.
Entries == {i \in DOMAIN g_ifMap : i \notin Erased \cup Visited}

-----------------------------------------------------------------------------
EntriesDistinct == \A i, j \in DOMAIN g_ifMap : g_ifMap[i] = g_ifMap[j] => i = j

EntriesLive == \A i \in Entries : g_ifMap[i] \in live

\* Every object is in the map or in the hands of the client that opens it.
Accounted ==
    \A o \in live :
        \/ \E i \in Entries : g_ifMap[i] = o
        \/ \E c \in Clients : Opening(c) /\ pdrvObj[c] = o

\* The object that is being opened is in no entry and in nobody else's hands.
OpeningFresh ==
    \A c \in Clients : Opening(c) =>
        /\ pdrvObj[c] \in live
        /\ \A i \in Entries : g_ifMap[i] # pdrvObj[c]
        /\ \A d \in Clients : Opening(d) /\ pdrvObj[d] = pdrvObj[c] => d = c

\* A handle that is being closed is not open, and no other call is about it.
ClosedAlone ==
    \A c \in Clients : ClosingHandle(c) =>
        /\ handle[c] # 0
        /\ \A p \in opened : p[1] # handle[c]
        /\ \A d \in Clients : pc[d] # "idle" /\ handle[d] = handle[c] => d = c

\* A call finds the entry of its handle, and keeps the object it found there.
HandsOK ==
    \A c \in Clients :
        /\ HasEntry(c) => Index(c) \in DOMAIN g_ifMap
        /\ HasObject(c) => g_ifMap[Index(c)] = pdrvObj[c]

\* Where _fini is in the map, and what it leaves.
FiniOK ==
    /\ AtObject => /\ handle[Loader] - 1 \in DOMAIN g_ifMap
                   /\ g_ifMap[handle[Loader] - 1] = pdrvObj[Loader]
    /\ pc[Loader] \in {"finiUnlock", "gone"} => live = {}

TableOK ==
    /\ EntriesDistinct
    /\ EntriesLive
    /\ Accounted
    /\ OpeningFresh
    /\ ClosedAlone
    /\ HandsOK
    /\ HandleDenotesObject
    /\ FiniOK

DriverIInv ==
    /\ TypeOK
    /\ Control
    /\ MutexProtectsMap
    /\ TableOK

-----------------------------------------------------------------------------
\* A set of natural numbers that is not empty has a least element.
LEMMA LeastNatural ==
    ASSUME NEW S \in SUBSET Nat, S # {}
    PROVE  \E n \in S : \A m \in S : n <= m
<1>1. PICK n \in S : \A m \in S : ~ (<<m, n>> \in OpToRel(<, Nat))
    BY WFMin, NatLessThanWellFounded, Zenon
<1>2. \A m \in S : ~ (m < n)
    BY <1>1, Zenon DEF OpToRel
<1> QED
    BY <1>2

\* The map is finite, since its entries are distinct.
LEMMA MapFinite ==
    ASSUME TypeOK, EntriesDistinct
    PROVE  IsFiniteSet(DOMAIN g_ifMap)
<1> DEFINE f == [i \in DOMAIN g_ifMap |-> g_ifMap[i]]
<1>1. f \in Injection(DOMAIN g_ifMap, Objects)
    BY DEF TypeOK, EntriesDistinct, Injection, IsInjective
<1> QED
    BY <1>1, FS_Injection, DriverTableAssumption DEF DriverTableAssumption

\* addDriverObject finds an index, and one that is free.
LEMMA FreeIndexFacts ==
    ASSUME TypeOK, EntriesDistinct
    PROVE  FreeIndex \in Nat /\ FreeIndex \notin DOMAIN g_ifMap
<1> DEFINE D == DOMAIN g_ifMap
           n == Cardinality(D)
           S == {i \in 0..n : i \notin D}
<1>1. n \in Nat /\ IsFiniteSet(D)
    BY MapFinite, FS_CardinalityType
<1>2. S # {}
    <2>1. SUFFICES ASSUME 0..n \in SUBSET D
                   PROVE  FALSE
        OBVIOUS
    <2>2. Cardinality(0..n) = n + 1
        BY <1>1, FS_Interval
    <2>3. Cardinality(0..n) <= n
        BY <1>1, <2>1, FS_Subset
    <2> QED
        BY <1>1, <2>2, <2>3
<1>3. PICK i \in S : \A j \in S : i <= j
    <2>1. S \in SUBSET Nat
        BY <1>1
    <2> QED
        BY <1>2, <2>1, LeastNatural
<1>4. i \in 0..n /\ i \notin D /\ 0..(i - 1) \subseteq D
    BY <1>1, <1>3
<1>5. FreeIndex \in 0..n /\ FreeIndex \notin D
    BY <1>4 DEF FreeIndex
<1> QED
    BY <1>1, <1>5

-----------------------------------------------------------------------------
\* The threads are the clients and the loader, and none is the free mutex.
LEMMA ThreadFacts ==
    /\ Loader \in Threads /\ Loader \notin Clients
    /\ \A c \in Clients : c \in Threads /\ c # Loader
    /\ \A t \in Threads : t # NoThread /\ (t # Loader => t \in Clients)
    /\ NoObject \notin Objects
BY DriverTableAssumption DEF DriverTableAssumption, Threads

LEMMA DriverInit == Init => DriverIInv
<1> SUFFICES ASSUME Init
             PROVE  DriverIInv
    OBVIOUS
<1> USE ThreadFacts
<1>1. TypeOK
    BY DEF Init, TypeOK, Step, Frame, ReturnCode
<1>2. Control
    BY DEF Init, Control, StepOfFrame
<1>3. MutexProtectsMap
    BY DEF Init, MutexProtectsMap, InCritical
<1>4. TableOK
    BY DEF Init, TableOK, EntriesDistinct, EntriesLive, Accounted, OpeningFresh, Entries,
           ClosedAlone, HandsOK, HandleDenotesObject, FiniOK, AtObject, Opening,
           ClosingHandle, HasEntry, HasObject
<1> QED
    BY <1>1, <1>2, <1>3, <1>4 DEF DriverIInv

-----------------------------------------------------------------------------
\* A client's step keeps the threads within their functions.
LEMMA ClientControl ==
    ASSUME TypeOK, Control, NEW c \in Clients, ClientCalls(c) \/ ClientStep(c)
    PROVE  Control'
<1> USE ThreadFacts DEF TypeOK, Control, StepOfFrame, Goto, Returns
<1>1. CASE VSCPOpen(c)
    BY <1>1 DEF VSCPOpen, Call, Loaded
<1>2. CASE CallWithoutHandle(c)
    BY <1>2 DEF CallWithoutHandle
<1>3. ASSUME NEW p \in opened, VSCPUse(c, p) \/ VSCPClose(c, p)
      PROVE  Control'
    BY <1>3 DEF VSCPUse, VSCPClose, Call, Loaded
<1>4. CASE ThreadStarts(c) \/ ThreadFails(c)
    BY <1>4 DEF ThreadStarts, ThreadFails, localVars, objectVars
<1>5. CASE AddLock(c) \/ Insert(c) \/ AddUnlock(c)
    BY <1>5 DEF AddLock, Insert, AddUnlock, localVars, objectVars
<1>6. CASE Found(c) \/ NotFound(c) \/ FindCrashes(c) \/ UseReturns(c)
    BY <1>6 DEF Found, NotFound, FindCrashes, UseReturns, localVars
<1>7. CASE Closing(c)
    BY <1>7 DEF Closing, AlreadyQuit, SetQuit, Join, JoinUnstarted, AfterClose, localVars
<1>8. CASE RemoveLock(c) \/ RemoveFind(c)
    BY <1>8 DEF RemoveLock, RemoveFind, localVars
<1>9. CASE DestroyRemoved(c) \/ DestroyUnopened(c)
    BY <1>9 DEF DestroyRemoved, DestroyUnopened, Delete
<1>10. CASE Erase(c) \/ RemoveUnlock(c)
    BY <1>10 DEF Erase, RemoveUnlock, localVars
<1> QED
    BY <1>1, <1>2, <1>3, <1>4, <1>5, <1>6, <1>7, <1>8, <1>9, <1>10 DEF ClientCalls, ClientStep

\* So does a step of _fini, and the workers' steps do not concern them.
LEMMA FiniControl ==
    ASSUME TypeOK, Control, Fini
    PROVE  Control'
<1> USE ThreadFacts DEF TypeOK, Control, StepOfFrame, Goto
<1>1. CASE NothingToDo \/ FiniLock \/ FiniNext
    BY <1>1 DEF NothingToDo, FiniLock, FiniNext, localVars
<1>2. CASE Closing(Loader)
    BY <1>2 DEF Closing, AlreadyQuit, SetQuit, Join, JoinUnstarted, AfterClose, localVars
<1>3. CASE DestroyOrphan
    BY <1>3 DEF DestroyOrphan, Delete
<1>4. CASE FiniClear \/ FiniUnlock
    BY <1>4 DEF FiniClear, FiniUnlock, localVars
<1> QED
    BY <1>1, <1>2, <1>3, <1>4 DEF Fini

\* The mutex is taken and given back at the borders of the critical sections.
LEMMA MutexStep ==
    ASSUME TypeOK, Control, MutexProtectsMap, Next
    PROVE  MutexProtectsMap'
<1> USE ThreadFacts DEF TypeOK, Control, StepOfFrame, Goto, MutexProtectsMap, InCritical
<1>1. ASSUME NEW c \in Clients, ClientCalls(c)
      PROVE  MutexProtectsMap'
    <2>1. CASE VSCPOpen(c)
        BY <1>1, <2>1 DEF VSCPOpen, Call, mapVars
    <2>2. CASE CallWithoutHandle(c)
        BY <1>1, <2>2 DEF CallWithoutHandle, mapVars
    <2>3. ASSUME NEW p \in opened, VSCPUse(c, p) \/ VSCPClose(c, p)
          PROVE  MutexProtectsMap'
        BY <1>1, <2>3 DEF VSCPUse, VSCPClose, Call, mapVars
    <2> QED
        BY <1>1, <2>1, <2>2, <2>3 DEF ClientCalls
<1>2. ASSUME NEW c \in Clients, ClientStep(c)
      PROVE  MutexProtectsMap'
    <2>1. CASE ThreadStarts(c) \/ ThreadFails(c)
        BY <2>1 DEF ThreadStarts, ThreadFails, mapVars, localVars
    <2>2. CASE AddLock(c) \/ RemoveLock(c)
        BY <2>2 DEF AddLock, RemoveLock, Lock, localVars
    <2>3. CASE AddUnlock(c) \/ RemoveUnlock(c)
        BY <2>3 DEF AddUnlock, RemoveUnlock, Unlock, Returns
    <2>4. CASE Insert(c) \/ Erase(c)
        BY <2>4 DEF Insert, Erase, localVars
    <2>5. CASE Found(c) \/ NotFound(c) \/ FindCrashes(c) \/ UseReturns(c)
        BY <2>5 DEF Found, NotFound, FindCrashes, UseReturns, mapVars, localVars
    <2>6. CASE Closing(c)
        BY <2>6 DEF Closing, AlreadyQuit, SetQuit, Join, JoinUnstarted, AfterClose,
                    mapVars, localVars
    <2>7. CASE RemoveFind(c) \/ DestroyRemoved(c) \/ DestroyUnopened(c)
        BY <2>7 DEF RemoveFind, DestroyRemoved, DestroyUnopened, mapVars
    <2> QED
        BY <1>2, <2>1, <2>2, <2>3, <2>4, <2>5, <2>6, <2>7 DEF ClientStep
<1>3. CASE Fini
    <2>1. CASE NothingToDo \/ FiniLock \/ FiniNext
        BY <2>1 DEF NothingToDo, FiniLock, FiniNext, Lock, mapVars, localVars
    <2>2. CASE Closing(Loader)
        BY <2>2 DEF Closing, AlreadyQuit, SetQuit, Join, JoinUnstarted, AfterClose,
                    mapVars, localVars
    <2>3. CASE DestroyOrphan \/ FiniClear \/ FiniUnlock
        BY <2>3 DEF DestroyOrphan, FiniClear, FiniUnlock, Unlock, mapVars, localVars
    <2> QED
        BY <1>3, <2>1, <2>2, <2>3 DEF Fini
<1>4. ASSUME NEW o \in Objects, WorkerStep(o)
      PROVE  MutexProtectsMap'
    BY <1>4 DEF WorkerStep, WorkerEnds, WorkerInterrupted, mapVars, localVars
<1> QED
    BY <1>1, <1>2, <1>3, <1>4 DEF Next

-----------------------------------------------------------------------------
\* The map has one owner, and while a client is in a call _fini has not begun.
LEMMA OneOwner ==
    ASSUME DriverIInv
    PROVE  /\ \A s, t \in Threads : InCritical(s) /\ InCritical(t) => s = t
           /\ \A c \in Clients : pc[c] # "idle" => pc[Loader] = "idle" /\ Visited = {}
<1>1. \A s, t \in Threads : InCritical(s) /\ InCritical(t) => s = t
    BY DEF DriverIInv, MutexProtectsMap
<1>2. \A c \in Clients : pc[c] # "idle" => pc[Loader] = "idle"
    BY DEF DriverIInv, Control
<1> QED
    BY <1>1, <1>2 DEF Visited

\* The entry of a handle that is in use stands for an object, which is live.
LEMMA EntryInUse ==
    ASSUME DriverIInv, NEW c \in Clients, HasEntry(c), pc[c] # "erase"
    PROVE  /\ Index(c) \in Entries
           /\ g_ifMap[Index(c)] \in live
           /\ HasObject(c) => pdrvObj[c] \in live
<1>1. Index(c) \in DOMAIN g_ifMap
    BY DEF DriverIInv, TableOK, HandsOK
<1>2. Index(c) \notin Erased
    <2> SUFFICES ASSUME NEW d \in Clients, pc[d] = "erase", Index(d) = Index(c)
                 PROVE  FALSE
        BY DEF Erased
    <2>1. ClosingHandle(d) /\ pc[c] # "idle"
        BY ThreadFacts DEF DriverIInv, Control, StepOfFrame, ClosingHandle, HasEntry
    <2>2. handle[c] = handle[d]
        BY ThreadFacts DEF DriverIInv, TypeOK, Index, Base
    <2> QED
        BY <2>1, <2>2 DEF DriverIInv, TableOK, ClosedAlone
<1>3. Visited = {}
    BY OneOwner DEF HasEntry
<1>4. Index(c) \in Entries
    BY <1>1, <1>2, <1>3 DEF Entries
<1> QED
    BY <1>4 DEF DriverIInv, TableOK, EntriesLive, HandsOK

\* So is the object that _fini is at.
LEMMA EntryOfFini ==
    ASSUME DriverIInv, AtObject
    PROVE  /\ handle[Loader] - 1 \in Entries
           /\ g_ifMap[handle[Loader] - 1] = pdrvObj[Loader]
           /\ pdrvObj[Loader] \in live
           /\ Erased = {}
<1>1. /\ handle[Loader] - 1 \in DOMAIN g_ifMap
      /\ g_ifMap[handle[Loader] - 1] = pdrvObj[Loader]
    BY DEF DriverIInv, TableOK, FiniOK
<1>2. Erased = {}
    BY DEF DriverIInv, Control, AtObject, Erased
<1>3. handle[Loader] - 1 \in Entries
    BY <1>1, <1>2 DEF Entries, Visited
<1> QED
    BY <1>1, <1>2, <1>3 DEF DriverIInv, TableOK, EntriesLive

\* A step that leaves alone what the threads hold, and begins no call.
LEMMA QuietStep ==
    ASSUME TableOK, UNCHANGED <<g_ifMap, live, opened>>, Entries' = Entries, FiniOK',
           \A c \in Clients :
               /\ Opening(c)' <=> Opening(c)
               /\ ClosingHandle(c)' => ClosingHandle(c)
               /\ HasEntry(c)' => HasEntry(c)
               /\ HasObject(c)' => HasObject(c)
               /\ Opening(c) \/ HasObject(c)' => pdrvObj'[c] = pdrvObj[c]
               /\ pc'[c] # "idle" => pc[c] # "idle" /\ handle'[c] = handle[c]
    PROVE  TableOK'
<1>1. EntriesDistinct' /\ EntriesLive' /\ HandleDenotesObject'
    BY DEF TableOK, EntriesDistinct, EntriesLive, HandleDenotesObject
<1>2. Accounted'
    BY DEF TableOK, Accounted
<1>3. OpeningFresh'
    BY DEF TableOK, OpeningFresh
<1>4. ClosedAlone'
    BY DEF TableOK, ClosedAlone, ClosingHandle
<1>5. HandsOK'
    BY DEF TableOK, HandsOK, HasEntry, HasObject, Index
<1> QED
    BY <1>1, <1>2, <1>3, <1>4, <1>5 DEF TableOK

\* What the entries are depends on the map, on where the clients are that erase,
\* and on how far _fini is.
LEMMA EntriesKept ==
    ASSUME UNCHANGED g_ifMap,
           \A c \in Clients : /\ pc'[c] = "erase" <=> pc[c] = "erase"
                              /\ pc[c] = "erase" => handle'[c] = handle[c],
           Visited' = Visited
    PROVE  Entries' = Entries
<1>1. Erased' = Erased
    BY DEF Erased, Index
<1> QED
    BY <1>1 DEF Entries

\* The steps of a client that are quiet.
LEMMA QuietClient ==
    ASSUME DriverIInv, NEW c \in Clients,
           \/ CallWithoutHandle(c)
           \/ ThreadStarts(c) \/ ThreadFails(c) \/ AddLock(c)
           \/ NotFound(c) \/ FindCrashes(c) \/ UseReturns(c)
           \/ Closing(c) \/ RemoveLock(c) \/ RemoveFind(c) \/ RemoveUnlock(c)
    PROVE  TableOK'
<1> USE ThreadFacts
<1>1. /\ UNCHANGED <<g_ifMap, live, opened, pc[Loader], handle[Loader], pdrvObj[Loader]>>
      /\ \A d \in Clients \ {c} : UNCHANGED <<pc[d], frame[d], handle[d], pdrvObj[d]>>
    BY DEF DriverIInv, TypeOK, CallWithoutHandle, ThreadStarts, ThreadFails, AddLock, NotFound,
           FindCrashes, UseReturns, Closing, AlreadyQuit, SetQuit, Join, JoinUnstarted,
           RemoveLock, RemoveFind, RemoveUnlock, Goto, Returns, mapVars, objectVars, localVars
<1>2. /\ pc'[c] = "erase" <=> pc[c] = "erase"
      /\ pc'[c] # "idle" => pc[c] # "idle" /\ handle'[c] = handle[c]
      /\ pc[c] = "erase" => handle'[c] = handle[c]
    BY DEF DriverIInv, TypeOK, CallWithoutHandle, ThreadStarts, ThreadFails, AddLock, NotFound,
           FindCrashes, UseReturns, Closing, AlreadyQuit, SetQuit, Join, JoinUnstarted,
           AfterClose, RemoveLock, RemoveFind, RemoveUnlock, Goto, Returns, localVars
<1>3. Visited' = Visited /\ FiniOK'
    BY <1>1 DEF Visited, FiniOK, AtObject, DriverIInv, TableOK
<1>4. Entries' = Entries
    BY <1>1, <1>2, <1>3, EntriesKept
<1>5. /\ Opening(c)' <=> Opening(c)
      /\ ClosingHandle(c)' => ClosingHandle(c)
      /\ HasEntry(c)' => HasEntry(c)
      /\ HasObject(c)' => HasObject(c)
    BY DEF DriverIInv, TypeOK, Control, StepOfFrame, CallWithoutHandle, ThreadStarts,
           ThreadFails, AddLock, NotFound, FindCrashes, UseReturns, Closing, AlreadyQuit,
           SetQuit, Join, JoinUnstarted, AfterClose, RemoveLock, RemoveFind, RemoveUnlock,
           Goto, Returns, localVars, Opening, ClosingHandle, HasEntry, HasObject
<1>6. Opening(c) \/ HasObject(c)' => pdrvObj'[c] = pdrvObj[c]
    <2>1. CASE RemoveFind(c)
        <3>1. pc[c] = "removeFind" /\ pdrvObj' = [pdrvObj EXCEPT ![c] = g_ifMap[Index(c)]]
            BY <2>1 DEF RemoveFind, Goto
        <3>2. HasObject(c)
            BY <3>1 DEF DriverIInv, Control, StepOfFrame, HasObject, HasEntry, Opening
        <3>3. g_ifMap[Index(c)] = pdrvObj[c]
            BY <3>2 DEF DriverIInv, TableOK, HandsOK
        <3> QED
            BY <3>1, <3>3 DEF DriverIInv, TypeOK
    <2>2. CASE NotFound(c) \/ UseReturns(c) \/ RemoveUnlock(c)
        BY <2>2 DEF DriverIInv, TypeOK, Control, StepOfFrame, NotFound, UseReturns, RemoveUnlock,
                    Goto, Opening, HasObject, HasEntry
    <2>3. CASE \/ CallWithoutHandle(c) \/ ThreadStarts(c) \/ ThreadFails(c) \/ AddLock(c)
               \/ FindCrashes(c) \/ Closing(c) \/ RemoveLock(c)
        BY <2>3 DEF CallWithoutHandle, ThreadStarts, ThreadFails, AddLock, FindCrashes, Closing,
                    AlreadyQuit, SetQuit, Join, JoinUnstarted, RemoveLock, localVars
    <2> QED
        BY <2>1, <2>2, <2>3
<1>7. \A d \in Clients \ {c} :
          /\ Opening(d)' <=> Opening(d)
          /\ ClosingHandle(d)' <=> ClosingHandle(d)
          /\ HasEntry(d)' <=> HasEntry(d)
          /\ HasObject(d)' <=> HasObject(d)
    BY <1>1 DEF Opening, ClosingHandle, HasEntry, HasObject
<1> QED
    BY <1>1, <1>2, <1>3, <1>4, <1>5, <1>6, <1>7, QuietStep DEF DriverIInv

-----------------------------------------------------------------------------
\* What one client does leaves the others as they are.
OthersKept(c) ==
    /\ \A t \in Threads \ {c} : UNCHANGED <<pc[t], frame[t], handle[t], pdrvObj[t]>>

LEMMA Others ==
    ASSUME NEW c \in Clients, OthersKept(c)
    PROVE  /\ UNCHANGED <<pc[Loader], handle[Loader], pdrvObj[Loader], AtObject, Visited>>
           /\ \A d \in Clients \ {c} :
                  UNCHANGED <<pc[d], frame[d], handle[d], pdrvObj[d], Index(d), Opening(d),
                              ClosingHandle(d), HasEntry(d), HasObject(d)>>
<1>1. UNCHANGED <<pc[Loader], handle[Loader], pdrvObj[Loader]>>
    BY ThreadFacts DEF OthersKept
<1>2. UNCHANGED AtObject
    BY <1>1 DEF AtObject
<1>3. UNCHANGED Visited
    BY <1>1, <1>2 DEF Visited
<1>4. ASSUME NEW d \in Clients \ {c}
      PROVE  UNCHANGED <<pc[d], frame[d], handle[d], pdrvObj[d], Index(d), Opening(d),
                         ClosingHandle(d), HasEntry(d), HasObject(d)>>
    <2>1. UNCHANGED <<pc[d], frame[d], handle[d], pdrvObj[d]>>
        BY ThreadFacts DEF OthersKept
    <2>2. UNCHANGED <<Index(d), Opening(d), ClosingHandle(d)>>
        BY <2>1 DEF Index, Opening, ClosingHandle
    <2>3. UNCHANGED HasEntry(d)
        BY <2>1, <2>2 DEF HasEntry
    <2>4. UNCHANGED HasObject(d)
        BY <2>1, <2>3 DEF HasObject
    <2> QED
        BY <2>1, <2>2, <2>3, <2>4
<1> QED
    BY <1>1, <1>2, <1>3, <1>4

\* A new object is in no entry, whatever memory it is built in.
LEMMA OpenTable ==
    ASSUME DriverIInv, NEW c \in Clients, VSCPOpen(c)
    PROVE  TableOK'
<1>1. PICK o \in Objects \ live :
          /\ Call(c, "open", "VSCPOpen", 0)
          /\ live' = live \cup {o}
          /\ pdrvObj' = [pdrvObj EXCEPT ![c] = o]
          /\ UNCHANGED <<mapVars, opened>>
    BY DEF VSCPOpen
<1>2. /\ pc[c] = "idle" /\ pc'[c] = "open" /\ frame'[c] = "VSCPOpen" /\ handle'[c] = 0
      /\ pdrvObj'[c] = o /\ OthersKept(c) /\ UNCHANGED g_ifMap
    BY <1>1, ThreadFacts DEF DriverIInv, TypeOK, Call, Goto, OthersKept, mapVars
<1>3. Opening(c)' /\ ~ClosingHandle(c)' /\ ~HasEntry(c)' /\ ~HasObject(c)' /\ ~Opening(c)
    BY <1>2 DEF Opening, ClosingHandle, HasEntry, HasObject
<1>4. Entries' = Entries
    BY <1>2, Others, EntriesKept
<1>5. EntriesDistinct' /\ EntriesLive' /\ HandleDenotesObject'
    BY <1>1, <1>2, <1>4 DEF DriverIInv, TableOK, EntriesDistinct, EntriesLive, HandleDenotesObject
<1>6. Accounted'
    BY <1>1, <1>2, <1>3, <1>4, Others DEF DriverIInv, TableOK, Accounted
<1>7. OpeningFresh'
    BY <1>1, <1>2, <1>3, <1>4, Others DEF DriverIInv, TableOK, OpeningFresh, EntriesLive
<1>8. ClosedAlone'
    BY <1>1, <1>2, <1>3, Others DEF DriverIInv, TableOK, ClosedAlone
<1>9. HandsOK'
    BY <1>2, <1>3, Others DEF DriverIInv, TableOK, HandsOK
<1>10. FiniOK'
    BY <1>2, Others, ThreadFacts, OneOwner DEF DriverIInv, TableOK, FiniOK, Loaded, Call, VSCPOpen
<1> QED
    BY <1>5, <1>6, <1>7, <1>8, <1>9, <1>10 DEF TableOK

\* addDriverObject enters the object under an index that nobody has, and no
\* entry waits to be erased while it owns the mutex.
LEMMA InsertTable ==
    ASSUME DriverIInv, NEW c \in Clients, Insert(c)
    PROVE  TableOK'
<1> DEFINE i == FreeIndex
           o == pdrvObj[c]
<1>1. i \in Nat /\ i \notin DOMAIN g_ifMap
    BY FreeIndexFacts DEF DriverIInv, TableOK
<1>2. /\ pc[c] = "insert" /\ pc'[c] = "addUnlock" /\ frame[c] = "VSCPOpen" /\ frame' = frame
      /\ handle'[c] = i + Base /\ pdrvObj' = pdrvObj /\ OthersKept(c)
      /\ UNCHANGED <<live, opened>>
      /\ g_ifMap' = [j \in DOMAIN g_ifMap \cup {i} |-> IF j = i THEN o ELSE g_ifMap[j]]
    BY ThreadFacts
       DEF DriverIInv, TypeOK, Control, StepOfFrame, Insert, Goto, OthersKept, objectVars
<1> HIDE DEF i
<1>3. /\ DOMAIN g_ifMap' = DOMAIN g_ifMap \cup {i} /\ g_ifMap'[i] = o
      /\ \A j \in DOMAIN g_ifMap : g_ifMap'[j] = g_ifMap[j]
    BY <1>1, <1>2
<1>4. Opening(c) /\ ~Opening(c)' /\ ~ClosingHandle(c)'
    BY <1>2 DEF Opening, ClosingHandle
<1>5. Index(c)' = i
    BY <1>1, <1>2 DEF Index, Base
<1>6. \A d \in Clients \ {c} : pc[d] \notin {"erase", "removeUnlock"}
    BY <1>2, OneOwner, ThreadFacts DEF InCritical
<1>7. Erased = {} /\ Erased' = {} /\ Visited = {} /\ Visited' = {}
    <2>1. Visited = {} /\ Visited' = Visited
        BY <1>2, OneOwner, Others
    <2>2. \A d \in Clients : pc[d] # "erase" /\ pc'[d] # "erase"
        BY <1>2, <1>6, Others
    <2> QED
        BY <2>1, <2>2 DEF Erased
<1>8. Entries = DOMAIN g_ifMap /\ Entries' = Entries \cup {i}
    BY <1>3, <1>7 DEF Entries
<1>9. /\ o \in live /\ \A j \in DOMAIN g_ifMap : g_ifMap[j] # o
      /\ \A d \in Clients : Opening(d) /\ pdrvObj[d] = o => d = c
    BY <1>4, <1>8 DEF DriverIInv, TableOK, OpeningFresh
<1>10. EntriesDistinct' /\ EntriesLive'
    BY <1>1, <1>2, <1>3, <1>8, <1>9 DEF DriverIInv, TableOK, EntriesDistinct, EntriesLive
<1>11. HandleDenotesObject'
    BY <1>1, <1>2, <1>3 DEF DriverIInv, TableOK, HandleDenotesObject
<1>12. Accounted'
    BY <1>1, <1>2, <1>3, <1>4, <1>8, Others DEF DriverIInv, TableOK, Accounted
<1>13. OpeningFresh'
    BY <1>1, <1>2, <1>3, <1>4, <1>8, <1>9, Others DEF DriverIInv, TableOK, OpeningFresh
<1>14. ClosedAlone'
    <2>1. ASSUME NEW d \in Clients \ {c}, ClosingHandle(d)
          PROVE  handle[d] # handle'[c]
        <3>1. HasEntry(d)
            BY <1>6, <2>1 DEF ClosingHandle, HasEntry, Opening
        <3>2. Index(d) \in DOMAIN g_ifMap
            BY <3>1 DEF DriverIInv, TableOK, HandsOK
        <3> QED
            BY <1>1, <1>2, <3>2 DEF Index, Base
    <2> QED
        BY <1>2, <1>4, <2>1, Others DEF DriverIInv, TableOK, ClosedAlone
<1>15. HandsOK'
    <2>1. Index(c)' \in DOMAIN g_ifMap' /\ g_ifMap'[Index(c)'] = pdrvObj'[c]
        BY <1>2, <1>3, <1>5
    <2>2. ASSUME NEW d \in Clients \ {c}
          PROVE  /\ HasEntry(d)' => Index(d)' \in DOMAIN g_ifMap'
                 /\ HasObject(d)' => g_ifMap'[Index(d)'] = pdrvObj'[d]
        <3>1. /\ HasEntry(d) => Index(d) \in DOMAIN g_ifMap
              /\ HasObject(d) => HasEntry(d) /\ g_ifMap[Index(d)] = pdrvObj[d]
            BY DEF DriverIInv, TableOK, HandsOK, HasObject
        <3>2. UNCHANGED <<Index(d), HasEntry(d), HasObject(d), pdrvObj[d]>>
            BY <1>2, Others
        <3> QED
            BY <1>3, <3>1, <3>2
    <2> QED
        BY <2>1, <2>2 DEF HandsOK
<1>16. FiniOK'
    BY <1>2, Others, OneOwner DEF FiniOK, AtObject
<1> QED
    BY <1>10, <1>11, <1>12, <1>13, <1>14, <1>15, <1>16 DEF TableOK

\* The handle that VSCPOpen returns stands for its object.
LEMMA ReturnTable ==
    ASSUME DriverIInv, NEW c \in Clients, AddUnlock(c)
    PROVE  TableOK'
<1>1. /\ pc[c] = "addUnlock" /\ pc'[c] = "idle" /\ frame[c] = "VSCPOpen" /\ OthersKept(c)
      /\ UNCHANGED <<g_ifMap, live, handle, frame>>
      /\ opened' = opened \cup {<<handle[c], pdrvObj[c]>>}
    BY ThreadFacts
       DEF DriverIInv, TypeOK, Control, StepOfFrame, AddUnlock, Goto, Returns, OthersKept,
           objectVars
<1>2. ~Opening(c) /\ HasEntry(c) /\ HasObject(c)
    BY <1>1 DEF Opening, HasEntry, HasObject
<1>3. ~Opening(c)' /\ ~ClosingHandle(c)' /\ ~HasEntry(c)' /\ ~HasObject(c)'
    BY <1>1 DEF Opening, ClosingHandle, HasEntry, HasObject
<1>4. Entries' = Entries
    BY <1>1, Others, EntriesKept
<1>5. EntriesDistinct' /\ EntriesLive' /\ Accounted'
    BY <1>1, <1>2, <1>3, <1>4, Others
       DEF DriverIInv, TableOK, EntriesDistinct, EntriesLive, Accounted
<1>6. OpeningFresh' /\ HandsOK'
    BY <1>1, <1>3, <1>4, Others DEF DriverIInv, TableOK, OpeningFresh, HandsOK
<1>7. HandleDenotesObject'
    <2>1. handle[c] - Base \in DOMAIN g_ifMap /\ g_ifMap[handle[c] - Base] = pdrvObj[c]
        BY <1>2 DEF DriverIInv, TableOK, HandsOK, Index
    <2> QED
        BY <1>1, <2>1 DEF DriverIInv, TableOK, HandleDenotesObject
<1>8. ClosedAlone'
    <2>1. \A d \in Clients \ {c} : ClosingHandle(d) => handle[d] # handle[c]
        BY <1>1 DEF DriverIInv, TableOK, ClosedAlone
    <2> QED
        BY <1>1, <1>3, <2>1, Others DEF DriverIInv, TableOK, ClosedAlone
<1>9. FiniOK'
    BY <1>1, Others, OneOwner DEF FiniOK, AtObject
<1> QED
    BY <1>5, <1>6, <1>7, <1>8, <1>9 DEF TableOK

\* A call with an open handle: nobody closes the handle meanwhile.
LEMMA UseTable ==
    ASSUME DriverIInv, NEW c \in Clients, NEW p \in opened, VSCPUse(c, p)
    PROVE  TableOK'
<1>1. /\ pc[c] = "idle" /\ pc'[c] = "find" /\ frame'[c] = "VSCPUse" /\ handle'[c] = p[1]
      /\ pdrvObj'[c] = pdrvObj[c] /\ OthersKept(c)
      /\ UNCHANGED <<g_ifMap, live, opened, pdrvObj>>
    BY ThreadFacts
       DEF DriverIInv, TypeOK, VSCPUse, Call, Goto, OthersKept, mapVars, objectVars
<1>2. ~Opening(c) /\ ~Opening(c)' /\ ~ClosingHandle(c)' /\ ~HasObject(c)'
    BY <1>1 DEF Opening, ClosingHandle, HasEntry, HasObject
<1>3. Entries' = Entries
    BY <1>1, Others, EntriesKept
<1>4. EntriesDistinct' /\ EntriesLive' /\ Accounted' /\ OpeningFresh'
    BY <1>1, <1>2, <1>3, Others
       DEF DriverIInv, TableOK, EntriesDistinct, EntriesLive, Accounted, OpeningFresh
<1>5. HandleDenotesObject'
    BY <1>1 DEF DriverIInv, TableOK, HandleDenotesObject
<1>6. HandsOK'
    <2>1. p[1] - Base \in DOMAIN g_ifMap
        BY DEF DriverIInv, TableOK, HandleDenotesObject
    <2> QED
        BY <1>1, <1>2, <2>1, Others DEF DriverIInv, TableOK, HandsOK, Index
<1>7. ClosedAlone'
    BY <1>1, <1>2, Others DEF DriverIInv, TableOK, ClosedAlone
<1>8. FiniOK'
    BY <1>1, Others, OneOwner DEF DriverIInv, TableOK, FiniOK
<1> QED
    BY <1>4, <1>5, <1>6, <1>7, <1>8 DEF TableOK

\* A close: no other open handle has the same number.
LEMMA CloseTable ==
    ASSUME DriverIInv, NEW c \in Clients, NEW p \in opened, VSCPClose(c, p)
    PROVE  TableOK'
<1>1. /\ pc[c] = "idle" /\ pc'[c] = "find" /\ frame'[c] = "VSCPClose" /\ handle'[c] = p[1]
      /\ pdrvObj'[c] = pdrvObj[c] /\ OthersKept(c)
      /\ UNCHANGED <<g_ifMap, live, pdrvObj>> /\ opened' = opened \ {p}
      /\ \A d \in Clients : pc[d] # "idle" => handle[d] # p[1]
    BY ThreadFacts
       DEF DriverIInv, TypeOK, VSCPClose, Call, Goto, OthersKept, mapVars, objectVars
<1>2. ~Opening(c) /\ ~Opening(c)' /\ ~HasObject(c)'
    BY <1>1 DEF Opening, HasEntry, HasObject
<1>3. Entries' = Entries
    BY <1>1, Others, EntriesKept
<1>4. EntriesDistinct' /\ EntriesLive' /\ Accounted' /\ OpeningFresh'
    BY <1>1, <1>2, <1>3, Others
       DEF DriverIInv, TableOK, EntriesDistinct, EntriesLive, Accounted, OpeningFresh
<1>5. HandleDenotesObject'
    BY <1>1 DEF DriverIInv, TableOK, HandleDenotesObject
<1>6. p \in Nat \X Objects /\ p[1] - Base \in DOMAIN g_ifMap /\ g_ifMap[p[1] - Base] = p[2]
    BY DEF DriverIInv, TypeOK, TableOK, HandleDenotesObject
<1>7. HandsOK'
    BY <1>1, <1>2, <1>6, Others DEF DriverIInv, TableOK, HandsOK, Index
<1>8. p[1] # 0
    BY <1>6 DEF DriverIInv, TypeOK, Base
<1>9. \A q \in opened : q[1] = p[1] => q = p
    BY <1>6 DEF DriverIInv, TypeOK, TableOK, HandleDenotesObject
<1>10. ClosedAlone'
    <2>1. ASSUME NEW d \in Clients, ClosingHandle(d)'
          PROVE  /\ handle'[d] # 0
                 /\ \A q \in opened' : q[1] # handle'[d]
                 /\ \A e \in Clients : pc'[e] # "idle" /\ handle'[e] = handle'[d] => e = d
        <3>1. CASE d = c
            BY <1>1, <1>8, <1>9, <3>1, Others
        <3>2. CASE d # c
            BY <1>1, <2>1, <3>2, Others DEF DriverIInv, TableOK, ClosedAlone, ClosingHandle
        <3> QED
            BY <3>1, <3>2
    <2> QED
        BY <2>1 DEF ClosedAlone
<1>11. FiniOK'
    BY <1>1, Others, OneOwner DEF DriverIInv, TableOK, FiniOK
<1> QED
    BY <1>4, <1>5, <1>7, <1>10, <1>11 DEF TableOK

\* The lookup finds the entry of the handle.
LEMMA FoundTable ==
    ASSUME DriverIInv, NEW c \in Clients, Found(c)
    PROVE  TableOK'
<1>1. /\ pc[c] = "find" /\ pc'[c] \in {"use", "close"} /\ pdrvObj'[c] = g_ifMap[Index(c)]
      /\ UNCHANGED <<g_ifMap, live, opened, frame, handle>> /\ OthersKept(c)
      /\ frame[c] \in {"VSCPUse", "VSCPClose"}
    BY ThreadFacts
       DEF DriverIInv, TypeOK, Control, StepOfFrame, Found, Goto, OthersKept, mapVars, objectVars
<1>2. /\ ~Opening(c) /\ ~Opening(c)' /\ HasEntry(c)
      /\ ClosingHandle(c)' => ClosingHandle(c)
      /\ UNCHANGED Index(c)
    BY <1>1 DEF Opening, ClosingHandle, HasEntry, Index
<1>3. Entries' = Entries
    BY <1>1, Others, EntriesKept
<1>4. EntriesDistinct' /\ EntriesLive' /\ HandleDenotesObject'
    BY <1>1, <1>3 DEF DriverIInv, TableOK, EntriesDistinct, EntriesLive, HandleDenotesObject
<1>5. Accounted' /\ OpeningFresh'
    BY <1>1, <1>2, <1>3, Others DEF DriverIInv, TableOK, Accounted, OpeningFresh
<1>6. ClosedAlone'
    BY <1>1, <1>2, Others DEF DriverIInv, TableOK, ClosedAlone
<1>7. HandsOK'
    BY <1>1, <1>2, Others DEF DriverIInv, TableOK, HandsOK
<1>8. FiniOK'
    BY <1>1, Others DEF DriverIInv, TableOK, FiniOK
<1> QED
    BY <1>4, <1>5, <1>6, <1>7, <1>8 DEF TableOK

\* removeDriverObject deletes the object; its entry waits to be erased.
LEMMA DestroyTable ==
    ASSUME DriverIInv, NEW c \in Clients, DestroyRemoved(c)
    PROVE  TableOK'
<1> DEFINE o == pdrvObj[c]
<1>1. /\ pc[c] = "destroy" /\ pc'[c] = "erase" /\ frame[c] = "removeDriverObject"
      /\ UNCHANGED <<g_ifMap, opened, frame, handle>> /\ live' = live \ {o} /\ OthersKept(c)
    BY ThreadFacts
       DEF DriverIInv, TypeOK, DestroyRemoved, Delete, Goto, OthersKept, mapVars
<1>2. /\ ~Opening(c) /\ ~Opening(c)' /\ HasEntry(c) /\ HasObject(c)
      /\ ClosingHandle(c) /\ ~HasObject(c)' /\ UNCHANGED Index(c)
    BY <1>1 DEF Opening, ClosingHandle, HasEntry, HasObject, Index
<1>3. Index(c) \in Entries /\ g_ifMap[Index(c)] = o /\ o \in live
    BY <1>1, <1>2, EntryInUse DEF DriverIInv, TableOK, HandsOK
<1>4. Entries' = Entries \ {Index(c)}
    <2>1. Erased' = Erased \cup {Index(c)}
        BY <1>1, <1>2, Others DEF Erased
    <2>2. Visited' = Visited
        BY <1>1, Others
    <2> QED
        BY <1>1, <2>1, <2>2 DEF Entries
<1>5. \A i \in Entries' : g_ifMap[i] # o
    BY <1>3, <1>4 DEF DriverIInv, TableOK, EntriesDistinct, Entries
<1>6. EntriesDistinct' /\ EntriesLive' /\ HandleDenotesObject'
    BY <1>1, <1>4, <1>5 DEF DriverIInv, TableOK, EntriesDistinct, EntriesLive, HandleDenotesObject
<1>7. Accounted'
    BY <1>1, <1>2, <1>3, <1>4, Others DEF DriverIInv, TableOK, Accounted
<1>8. OpeningFresh'
    BY <1>1, <1>2, <1>3, <1>4, Others DEF DriverIInv, TableOK, OpeningFresh
<1>9. ClosedAlone'
    BY <1>1, <1>2, Others DEF DriverIInv, TableOK, ClosedAlone
<1>10. HandsOK'
    BY <1>1, <1>2, Others DEF DriverIInv, TableOK, HandsOK
<1>11. FiniOK'
    BY <1>1, Others, OneOwner DEF DriverIInv, TableOK, FiniOK, AtObject
<1> QED
    BY <1>6, <1>7, <1>8, <1>9, <1>10, <1>11 DEF TableOK

\* A failed VSCPOpen deletes an object that nothing else refers to.
LEMMA FailTable ==
    ASSUME DriverIInv, NEW c \in Clients, DestroyUnopened(c)
    PROVE  TableOK'
<1> DEFINE o == pdrvObj[c]
<1>1. /\ pc[c] = "destroy" /\ pc'[c] = "idle" /\ frame[c] = "VSCPOpen"
      /\ UNCHANGED <<g_ifMap, opened, frame, handle>> /\ live' = live \ {o} /\ OthersKept(c)
    BY ThreadFacts
       DEF DriverIInv, TypeOK, DestroyUnopened, Delete, Goto, OthersKept, mapVars
<1>2. /\ Opening(c) /\ ~Opening(c)' /\ ~HasEntry(c)' /\ ~HasObject(c)' /\ ~ClosingHandle(c)'
    BY <1>1 DEF Opening, ClosingHandle, HasEntry, HasObject
<1>3. /\ \A i \in Entries : g_ifMap[i] # o
      /\ \A d \in Clients : Opening(d) /\ pdrvObj[d] = o => d = c
    BY <1>2 DEF DriverIInv, TableOK, OpeningFresh
<1>4. Entries' = Entries
    BY <1>1, Others, EntriesKept
<1>5. EntriesDistinct' /\ EntriesLive' /\ HandleDenotesObject'
    BY <1>1, <1>3, <1>4 DEF DriverIInv, TableOK, EntriesDistinct, EntriesLive, HandleDenotesObject
<1>6. Accounted'
    BY <1>1, <1>2, <1>3, <1>4, Others DEF DriverIInv, TableOK, Accounted
<1>7. OpeningFresh'
    BY <1>1, <1>2, <1>3, <1>4, Others DEF DriverIInv, TableOK, OpeningFresh
<1>8. ClosedAlone' /\ HandsOK'
    BY <1>1, <1>2, Others DEF DriverIInv, TableOK, ClosedAlone, HandsOK
<1>9. FiniOK'
    BY <1>1, Others, OneOwner DEF DriverIInv, TableOK, FiniOK, AtObject
<1> QED
    BY <1>5, <1>6, <1>7, <1>8, <1>9 DEF TableOK

\* removeDriverObject erases the entry of the handle that is being closed.
LEMMA EraseTable ==
    ASSUME DriverIInv, NEW c \in Clients, Erase(c)
    PROVE  TableOK'
<1>1. /\ pc[c] = "erase" /\ pc'[c] = "removeUnlock" /\ frame[c] = "removeDriverObject"
      /\ UNCHANGED <<live, opened, frame, handle, pdrvObj>> /\ OthersKept(c)
      /\ g_ifMap' = [i \in DOMAIN g_ifMap \ {Index(c)} |-> g_ifMap[i]]
    BY ThreadFacts
       DEF DriverIInv, TypeOK, Control, StepOfFrame, Erase, Goto, OthersKept, objectVars, localVars
<1>2. /\ ~Opening(c) /\ ~Opening(c)' /\ ClosingHandle(c) /\ ~HasEntry(c)' /\ ~HasObject(c)'
    BY <1>1 DEF Opening, ClosingHandle, HasEntry, HasObject
<1>3. /\ DOMAIN g_ifMap' = DOMAIN g_ifMap \ {Index(c)}
      /\ \A i \in DOMAIN g_ifMap' : g_ifMap'[i] = g_ifMap[i]
    BY <1>1
<1>4. Entries' = Entries
    <2>1. \A d \in Clients : pc[d] = "erase" => d = c
        BY <1>1, OneOwner, ThreadFacts DEF InCritical
    <2>2. Erased = {Index(c)} /\ Erased' = {}
        BY <1>1, <2>1, Others DEF Erased
    <2>3. Visited' = Visited
        BY <1>1, Others
    <2> QED
        BY <1>3, <2>2, <2>3 DEF Entries
<1>5. EntriesDistinct' /\ EntriesLive'
    BY <1>1, <1>3, <1>4 DEF DriverIInv, TableOK, EntriesDistinct, EntriesLive, Entries
<1>6. Accounted' /\ OpeningFresh'
    <2>1. \A i \in Entries : g_ifMap'[i] = g_ifMap[i]
        BY <1>3, <1>4 DEF Entries
    <2> QED
        BY <1>1, <1>2, <1>4, <2>1, Others DEF DriverIInv, TableOK, Accounted, OpeningFresh
<1>7. ClosedAlone'
    BY <1>1, <1>2, Others DEF DriverIInv, TableOK, ClosedAlone
<1>8. HandleDenotesObject'
    <2>1. ASSUME NEW q \in opened
          PROVE  q[1] - Base # Index(c)
        <3>1. q[1] # handle[c]
            BY <1>2 DEF DriverIInv, TableOK, ClosedAlone
        <3> QED
            BY <3>1, ThreadFacts DEF DriverIInv, TypeOK, Index, Base
    <2> QED
        BY <1>1, <1>3, <2>1 DEF DriverIInv, TableOK, HandleDenotesObject
<1>9. HandsOK'
    <2>1. ASSUME NEW d \in Clients \ {c}, HasEntry(d)
          PROVE  Index(d) # Index(c)
        <3>1. handle[d] # handle[c]
            BY <1>2, <2>1 DEF DriverIInv, TableOK, ClosedAlone, HasEntry
        <3> QED
            BY <3>1, ThreadFacts DEF DriverIInv, TypeOK, Index, Base
    <2> QED
        BY <1>1, <1>2, <1>3, <2>1, Others DEF DriverIInv, TableOK, HandsOK, HasObject
<1>10. FiniOK'
    BY <1>1, Others, OneOwner DEF DriverIInv, TableOK, FiniOK, AtObject
<1> QED
    BY <1>5, <1>6, <1>7, <1>8, <1>9, <1>10 DEF TableOK

-----------------------------------------------------------------------------
\* The steps of _fini leave the clients idle.
LEMMA FiniClients ==
    ASSUME DriverIInv, Fini
    PROVE  \A c \in Clients :
               /\ UNCHANGED <<pc[c], frame[c], handle[c], pdrvObj[c]>>
               /\ pc[c] = "idle" /\ pc'[c] = "idle"
               /\ ~Opening(c) /\ ~ClosingHandle(c) /\ ~HasEntry(c) /\ ~HasObject(c)
               /\ ~Opening(c)' /\ ~ClosingHandle(c)' /\ ~HasEntry(c)' /\ ~HasObject(c)'
<1>1. \A c \in Clients : pc[c] = "idle"
    BY DEF DriverIInv, Control, Fini, NothingToDo, FiniLock, FiniNext, Closing, AlreadyQuit,
           SetQuit, Join, JoinUnstarted, DestroyOrphan, FiniClear, FiniUnlock, Goto, Delete
<1>2. \A c \in Clients : UNCHANGED <<pc[c], frame[c], handle[c], pdrvObj[c]>>
    BY ThreadFacts
       DEF DriverIInv, TypeOK, Fini, NothingToDo, FiniLock, FiniNext, Closing, AlreadyQuit,
           SetQuit, Join, JoinUnstarted, DestroyOrphan, FiniClear, FiniUnlock, Goto, Delete,
           localVars
<1> QED
    BY <1>1, <1>2 DEF Opening, ClosingHandle, HasEntry, HasObject

\* A step of _fini that keeps the map, the objects and the entries.
LEMMA QuietFini ==
    ASSUME DriverIInv, Fini, UNCHANGED <<g_ifMap, live, opened>>, Entries' = Entries, FiniOK'
    PROVE  TableOK'
BY FiniClients, QuietStep DEF DriverIInv

LEMMA FiniTable ==
    ASSUME DriverIInv, Fini
    PROVE  TableOK'
<1> USE ThreadFacts
<1>1. Erased = {} /\ Erased' = {}
    BY FiniClients DEF Erased
<1>2. CASE NothingToDo
    <2>1. /\ DOMAIN g_ifMap = {} /\ pc'[Loader] = "gone"
          /\ UNCHANGED <<g_ifMap, live, opened>>
        BY <1>2 DEF DriverIInv, TypeOK, NothingToDo, Goto, mapVars, objectVars
    <2>2. Entries = {} /\ Entries' = {}
        BY <2>1 DEF Entries
    <2>3. live = {}
        BY <2>2, FiniClients DEF DriverIInv, TableOK, Accounted
    <2>4. FiniOK'
        BY <2>1, <2>3 DEF FiniOK, AtObject
    <2> QED
        BY <2>1, <2>2, <2>4, QuietFini
<1>3. CASE FiniLock
    <2>1. /\ pc[Loader] = "idle" /\ pc'[Loader] = "finiNext" /\ handle'[Loader] = 0
          /\ UNCHANGED <<g_ifMap, live, opened>>
        BY <1>3 DEF DriverIInv, TypeOK, FiniLock, Goto, objectVars
    <2>2. Visited = {} /\ Visited' = {}
        BY <2>1 DEF Visited
    <2>3. FiniOK'
        BY <2>1 DEF FiniOK, AtObject
    <2> QED
        BY <1>1, <2>1, <2>2, <2>3, QuietFini DEF Entries
<1>4. CASE FiniNext
    <2>1. PICK i \in Ahead :
            /\ \A j \in Ahead : i <= j
            /\ pc[Loader] = "finiNext" /\ pc'[Loader] = "close"
            /\ handle'[Loader] = i + 1 /\ pdrvObj'[Loader] = g_ifMap[i]
            /\ UNCHANGED <<g_ifMap, live, opened>>
        BY <1>4 DEF DriverIInv, TypeOK, FiniNext, Goto, mapVars, objectVars
    <2>2. i \in DOMAIN g_ifMap /\ i \in Nat /\ handle[Loader] \in Nat /\ DOMAIN g_ifMap \subseteq Nat
        BY <2>1 DEF DriverIInv, TypeOK, Ahead
    <2>3. AtObject' /\ ~AtObject
        BY <2>1 DEF AtObject
    <2>4. \A j \in DOMAIN g_ifMap : j \in Visited' <=> j \in Visited
        BY <2>1, <2>2, <2>3 DEF Visited, Ahead
    <2>5. Entries' = Entries
        BY <1>1, <2>1, <2>4 DEF Entries
    <2>6. FiniOK'
        BY <2>1, <2>2, <2>3 DEF FiniOK
    <2> QED
        BY <2>1, <2>5, <2>6, QuietFini
<1>5. CASE Closing(Loader)
    <2>1. /\ pc[Loader] \in {"close", "join"} /\ pc'[Loader] \in {"join", "destroy"}
          /\ UNCHANGED <<g_ifMap, live, opened, handle[Loader], pdrvObj[Loader]>>
        BY <1>5
           DEF DriverIInv, TypeOK, Control, StepOfFrame, Closing, AlreadyQuit, SetQuit, Join,
               JoinUnstarted, AfterClose, Goto, mapVars, objectVars, localVars
    <2>2. AtObject /\ AtObject'
        BY <2>1 DEF AtObject
    <2>3. Visited' = Visited
        BY <2>1, <2>2 DEF Visited
    <2>4. Entries' = Entries
        BY <1>1, <2>1, <2>3 DEF Entries
    <2>5. FiniOK'
        BY <2>1, <2>2 DEF DriverIInv, TableOK, FiniOK
    <2> QED
        BY <2>1, <2>4, <2>5, QuietFini
<1>6. CASE DestroyOrphan
    <2> DEFINE i == handle[Loader] - 1
               o == pdrvObj[Loader]
    <2>1. /\ pc[Loader] = "destroy" /\ pc'[Loader] = "finiNext"
          /\ UNCHANGED <<g_ifMap, opened, handle>> /\ live' = live \ {o}
        BY <1>6 DEF DriverIInv, TypeOK, DestroyOrphan, Delete, Goto, mapVars
    <2>2. AtObject /\ ~AtObject'
        BY <2>1 DEF AtObject
    <2>3. i \in Entries /\ g_ifMap[i] = o /\ o \in live
        BY <2>2, EntryOfFini
    <2>4. i \in Nat /\ handle[Loader] \in Nat
        BY <2>3 DEF DriverIInv, TypeOK, Entries
    <2>5. Entries' = Entries \ {i}
        <3>1. Visited' = Visited \cup {i}
            BY <2>1, <2>2, <2>4 DEF Visited
        <3> QED
            BY <1>1, <2>1, <3>1 DEF Entries
    <2>6. EntriesDistinct' /\ EntriesLive' /\ HandleDenotesObject'
        BY <2>1, <2>3, <2>5
           DEF DriverIInv, TableOK, EntriesDistinct, EntriesLive, HandleDenotesObject, Entries
    <2>7. Accounted'
        BY <2>1, <2>3, <2>5, FiniClients DEF DriverIInv, TableOK, Accounted
    <2>8. OpeningFresh' /\ ClosedAlone' /\ HandsOK'
        BY FiniClients DEF OpeningFresh, ClosedAlone, HandsOK
    <2>9. FiniOK'
        BY <2>1, <2>2 DEF FiniOK
    <2> QED
        BY <2>6, <2>7, <2>8, <2>9 DEF TableOK
<1>7. CASE FiniClear
    <2>1. /\ pc[Loader] = "finiNext" /\ pc'[Loader] = "finiUnlock" /\ Ahead = {}
          /\ live' = live /\ opened' = {} /\ DOMAIN g_ifMap' = {}
        BY <1>7 DEF DriverIInv, TypeOK, FiniClear, Goto, objectVars
    <2>2. Entries = {}
        BY <2>1 DEF DriverIInv, TypeOK, Entries, Visited, Ahead, AtObject
    <2>3. live = {}
        BY <2>2, FiniClients DEF DriverIInv, TableOK, Accounted
    <2>4. EntriesDistinct' /\ EntriesLive' /\ Accounted' /\ HandleDenotesObject'
        BY <2>1, <2>3 DEF EntriesDistinct, EntriesLive, Accounted, HandleDenotesObject, Entries
    <2>5. OpeningFresh' /\ ClosedAlone' /\ HandsOK'
        BY FiniClients DEF OpeningFresh, ClosedAlone, HandsOK
    <2>6. FiniOK'
        BY <2>1, <2>3 DEF FiniOK, AtObject
    <2> QED
        BY <2>4, <2>5, <2>6 DEF TableOK
<1>8. CASE FiniUnlock
    <2>1. /\ pc[Loader] = "finiUnlock" /\ pc'[Loader] = "gone"
          /\ UNCHANGED <<g_ifMap, live, opened, handle>>
        BY <1>8 DEF DriverIInv, TypeOK, FiniUnlock, Goto, objectVars, localVars
    <2>2. ~AtObject /\ ~AtObject'
        BY <2>1 DEF AtObject
    <2>3. Visited' = Visited
        BY <2>1, <2>2 DEF Visited
    <2>4. FiniOK'
        BY <2>1, <2>2 DEF DriverIInv, TableOK, FiniOK
    <2> QED
        BY <1>1, <2>1, <2>3, <2>4, QuietFini DEF Entries
<1> QED
    BY <1>2, <1>3, <1>4, <1>5, <1>6, <1>7, <1>8 DEF Fini

-----------------------------------------------------------------------------
\* The types: indices are natural numbers, and objects are put into the map.
LEMMA TypeStep ==
    ASSUME DriverIInv, Next
    PROVE  TypeOK'
<1> USE ThreadFacts DEF DriverIInv, TypeOK, Goto, Returns, Step, Frame, ReturnCode
<1>1. ASSUME NEW c \in Clients, ClientCalls(c)
      PROVE  TypeOK'
    <2>1. CASE VSCPOpen(c)
        BY <2>1 DEF VSCPOpen, Call, mapVars
    <2>2. CASE CallWithoutHandle(c)
        BY <2>2 DEF CallWithoutHandle, mapVars, objectVars
    <2>3. ASSUME NEW p \in opened, VSCPUse(c, p) \/ VSCPClose(c, p)
          PROVE  TypeOK'
        BY <2>3 DEF VSCPUse, VSCPClose, Call, mapVars, objectVars
    <2> QED
        BY <1>1, <2>1, <2>2, <2>3 DEF ClientCalls
<1>2. ASSUME NEW t \in Threads, Closing(t)
      PROVE  TypeOK'
    BY <1>2 DEF Closing, AlreadyQuit, SetQuit, Join, JoinUnstarted, AfterClose,
                mapVars, objectVars, localVars
<1>3. ASSUME NEW c \in Clients, ClientStep(c)
      PROVE  TypeOK'
    <2>1. CASE ThreadStarts(c) \/ ThreadFails(c)
        BY <2>1 DEF ThreadStarts, ThreadFails, mapVars, objectVars, localVars
    <2>2. CASE AddLock(c) \/ RemoveLock(c) \/ RemoveUnlock(c)
        BY <2>2 DEF AddLock, RemoveLock, RemoveUnlock, Lock, Unlock, objectVars, localVars
    <2>3. CASE Insert(c)
        <3>1. FreeIndex \in Nat
            BY FreeIndexFacts DEF TableOK
        <3>2. pdrvObj[c] \in Objects
            <4>1. Opening(c)
                BY <2>3 DEF Insert, Control, StepOfFrame, Opening
            <4> QED
                BY <4>1 DEF TableOK, OpeningFresh
        <3> HIDE DEF FreeIndex
        <3> QED
            BY <2>3, <3>1, <3>2 DEF Insert, Base, objectVars
    <2>4. CASE AddUnlock(c)
        <3>1. HasObject(c)
            BY <2>4 DEF AddUnlock, HasObject, HasEntry, Opening
        <3>2. pdrvObj[c] \in Objects
            BY <3>1 DEF TableOK, HandsOK, HasObject
        <3> QED
            BY <2>4, <3>2 DEF AddUnlock, Unlock, objectVars
    <2>5. CASE Found(c) \/ RemoveFind(c)
        BY <2>5 DEF Found, RemoveFind, mapVars, objectVars
    <2>6. CASE NotFound(c) \/ FindCrashes(c) \/ UseReturns(c)
        BY <2>6 DEF NotFound, FindCrashes, UseReturns, mapVars, objectVars, localVars
    <2>7. CASE DestroyRemoved(c) \/ DestroyUnopened(c)
        BY <2>7 DEF DestroyRemoved, DestroyUnopened, Delete, mapVars
    <2>8. CASE Erase(c)
        BY <2>8 DEF Erase, objectVars, localVars
    <2> QED
        BY <1>2, <1>3, <2>1, <2>2, <2>3, <2>4, <2>5, <2>6, <2>7, <2>8 DEF ClientStep
<1>4. CASE Fini
    <2>1. CASE NothingToDo
        BY <2>1 DEF NothingToDo, mapVars, objectVars, localVars
    <2>4. CASE FiniLock
        BY <2>4 DEF FiniLock, Lock, objectVars
    <2>3. ASSUME NEW i \in Ahead, FiniNext,
                 handle' = [handle EXCEPT ![Loader] = i + 1],
                 pdrvObj' = [pdrvObj EXCEPT ![Loader] = g_ifMap[i]]
          PROVE  TypeOK'
        <3>1. i + 1 \in Nat /\ g_ifMap[i] \in Objects
            BY DEF Ahead
        <3> QED
            BY <2>3, <3>1 DEF FiniNext, mapVars, objectVars
    <2>2. CASE DestroyOrphan \/ FiniClear \/ FiniUnlock
        BY <2>2 DEF DestroyOrphan, FiniClear, FiniUnlock, Delete, Unlock, mapVars, objectVars,
                    localVars
    <2> QED
        BY <1>2, <1>4, <2>1, <2>2, <2>3, <2>4 DEF Fini, FiniNext
<1>5. ASSUME NEW o \in Objects, WorkerStep(o)
      PROVE  TypeOK'
    BY <1>5 DEF WorkerStep, WorkerEnds, WorkerInterrupted, mapVars, localVars
<1> QED
    BY <1>1, <1>3, <1>4, <1>5 DEF Next

\* The workers touch nothing that the invariant is about, beside the types.
LEMMA WorkerQuiet ==
    ASSUME DriverIInv, UNCHANGED <<g_ifMap, live, opened, pc, localVars>>
    PROVE  Control' /\ TableOK'
<1>1. Control'
    BY DEF DriverIInv, Control, StepOfFrame, localVars
<1>2. UNCHANGED <<Visited, AtObject>>
    BY DEF Visited, AtObject, localVars
<1>3. FiniOK'
    BY <1>2 DEF DriverIInv, TableOK, FiniOK, localVars
<1>4. Entries' = Entries
    BY <1>2, EntriesKept DEF localVars
<1>5. \A c \in Clients :
          UNCHANGED <<Opening(c), ClosingHandle(c), HasEntry(c), HasObject(c)>>
    BY DEF Opening, ClosingHandle, HasEntry, HasObject, localVars
<1> QED
    BY <1>1, <1>3, <1>4, <1>5, QuietStep DEF DriverIInv, localVars

\* Every step preserves the invariant.
LEMMA DriverStep == DriverIInv /\ [Next]_vars => DriverIInv'
<1> SUFFICES ASSUME DriverIInv, [Next]_vars
             PROVE  DriverIInv'
    OBVIOUS
<1>1. CASE UNCHANGED vars
    <2>1. TypeOK' /\ MutexProtectsMap'
        BY <1>1 DEF DriverIInv, TypeOK, MutexProtectsMap, InCritical, vars, mapVars,
                    objectVars, localVars
    <2> QED
        BY <1>1, <2>1, WorkerQuiet DEF DriverIInv, vars, mapVars, objectVars
<1>2. CASE Next
    <2>1. TypeOK' /\ MutexProtectsMap'
        BY <1>2, TypeStep, MutexStep DEF DriverIInv
    <2>2. ASSUME NEW c \in Clients, ClientCalls(c) \/ ClientStep(c)
          PROVE  Control' /\ TableOK'
        <3>1. Control'
            BY <2>2, ClientControl DEF DriverIInv
        <3>2. TableOK'
            BY <2>2, QuietClient, OpenTable, InsertTable, ReturnTable, UseTable, CloseTable,
               FoundTable, DestroyTable, FailTable, EraseTable DEF ClientCalls, ClientStep
        <3> QED
            BY <3>1, <3>2
    <2>3. CASE Fini
        BY <2>1, <2>3, FiniControl, FiniTable DEF DriverIInv
    <2>4. ASSUME NEW o \in Objects, WorkerStep(o)
          PROVE  Control' /\ TableOK'
        BY <2>4, WorkerQuiet DEF WorkerStep, WorkerEnds, WorkerInterrupted, mapVars
    <2> QED
        BY <1>2, <2>1, <2>2, <2>3, <2>4 DEF Next, DriverIInv
<1> QED
    BY <1>1, <1>2

THEOREM DriverInvariance == Spec => []DriverIInv
BY DriverInit, DriverStep, PTL DEF Spec

-----------------------------------------------------------------------------
\* Every variable keeps its type; addDriverObject finds an index that is free.
THEOREM DriverTypes == Spec => []TypeOK
<1>1. DriverIInv => TypeOK
    BY DEF DriverIInv
<1> QED
    BY <1>1, DriverInvariance, PTL

\* g_ifMap changes in the hands of the owner of g_mapMutex alone.
THEOREM LockDiscipline == Spec => []MutexProtectsMap
<1>1. DriverIInv => MutexProtectsMap
    BY DEF DriverIInv
<1> QED
    BY <1>1, DriverInvariance, PTL

\* An open handle stands for the object that VSCPOpen gave it for.
THEOREM HandlesDenote == Spec => []HandleDenotesObject
<1>1. DriverIInv => HandleDenotesObject
    BY DEF DriverIInv, TableOK
<1> QED
    BY <1>1, DriverInvariance, PTL

\* No call, close() or destructor works on a deleted object.
THEOREM NoUseAfterDelete == Spec => []UsesLiveObject
<1>1. DriverIInv => UsesLiveObject
    <2> SUFFICES ASSUME DriverIInv, NEW t \in Threads,
                        pc[t] \in {"use", "close", "join", "destroy"}
                 PROVE  pdrvObj[t] \in live
        BY DEF UsesLiveObject
    <2>1. CASE t = Loader
        <3>1. AtObject
            BY <2>1, ThreadFacts DEF DriverIInv, Control, StepOfFrame, AtObject
        <3> QED
            BY <2>1, <3>1, EntryOfFini
    <2>2. CASE t # Loader
        <3>1. t \in Clients /\ (Opening(t) \/ HasObject(t))
            BY <2>2, ThreadFacts DEF HasObject, HasEntry
        <3>2. CASE Opening(t)
            BY <3>1, <3>2 DEF DriverIInv, TableOK, OpeningFresh
        <3>3. CASE HasObject(t)
            BY <3>1, <3>3, EntryInUse DEF HasObject
        <3> QED
            BY <3>1, <3>2, <3>3
    <2> QED
        BY <2>1, <2>2
<1> QED
    BY <1>1, DriverInvariance, PTL

\* Every object is in VSCPOpen's hands or in the map under one index.
THEOREM NothingLost == Spec => []NoObjectLost
<1>1. DriverIInv => NoObjectLost
    <2> SUFFICES ASSUME DriverIInv, NEW o \in live
                 PROVE  LET indices == {i \in DOMAIN g_ifMap : g_ifMap[i] = o}
                            openers == {c \in Clients : frame[c] = "VSCPOpen" /\ pdrvObj[c] = o}
                        IN  \/ Cardinality(indices) = 1
                            \/ indices = {} /\ openers # {}
        BY DEF NoObjectLost
    <2> DEFINE indices == {i \in DOMAIN g_ifMap : g_ifMap[i] = o}
               openers == {c \in Clients : frame[c] = "VSCPOpen" /\ pdrvObj[c] = o}
    <2>1. ASSUME NEW i \in indices
          PROVE  Cardinality(indices) = 1
        <3>1. indices = {i}
            BY DEF DriverIInv, TableOK, EntriesDistinct
        <3> QED
            BY <3>1, FS_Singleton
    <2>2. CASE indices = {}
        <3>1. PICK c \in Clients : Opening(c) /\ pdrvObj[c] = o
            BY <2>2 DEF DriverIInv, TableOK, Accounted, Entries
        <3> QED
            BY <2>2, <3>1 DEF Opening
    <2> QED
        BY <2>1, <2>2
<1> QED
    BY <1>1, DriverInvariance, PTL

\* After _fini no object is left.
THEOREM FiniCollects == Spec => []FiniCollectsAll
<1>1. DriverIInv => FiniCollectsAll
    BY DEF DriverIInv, TableOK, FiniOK, FiniCollectsAll
<1> QED
    BY <1>1, DriverInvariance, PTL
=============================================================================
