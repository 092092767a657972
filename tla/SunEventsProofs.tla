-------------------------- MODULE SunEventsProofs --------------------------
(***************************************************************************)
(* The composition: a worker that sends and a daemon that reads disturb      *)
(* neither the schedule of the day nor the discipline of the queue, so all   *)
(* that is proved of DayEvents and of ReceiveQueue holds of them together;   *)
(* and every event is in one place on its way, in the order of the days.     *)
(***************************************************************************)
EXTENDS SunEvents, FiniteSetTheorems, SequenceTheorems, TLAPS

DayProofs == INSTANCE DayEventsProofs WITH pc <- step

QueueProofs == INSTANCE ReceiveQueueProofs
    WITH Events <- SunEvent, Accepted <- AcceptedEvents

-----------------------------------------------------------------------------
(* The parts, under the names that their theorems have here.                *)

\* The actions of the schedule.
LEMMA SameDay ==
    /\ Day!Kinds = DayProofs!Kinds
    /\ Day!Init <=> DayProofs!Init
    /\ Day!Tick <=> DayProofs!Tick
    /\ Day!TickOverMidnight <=> DayProofs!TickOverMidnight
    /\ Day!CaptureNow <=> DayProofs!CaptureNow
    /\ Day!Calculate <=> DayProofs!Calculate
    /\ Day!NoCalculation <=> DayProofs!NoCalculation
    /\ Day!ResetFlag <=> DayProofs!ResetFlag
    /\ Day!NothingDue <=> DayProofs!NothingDue
    /\ \A k \in Day!Kinds : Day!Fire(k) <=> DayProofs!Fire(k)
<1> USE DEF Day!Kinds, DayProofs!Kinds, Day!Rank, DayProofs!Rank,
            Day!At, DayProofs!At, Day!NextMinute, DayProofs!NextMinute,
            Day!HourZero, DayProofs!HourZero, Day!Return, DayProofs!Return,
            Day!calcVars, DayProofs!calcVars, Day!resetVars, DayProofs!resetVars
<1>1. Day!Kinds = DayProofs!Kinds
    OBVIOUS
<1>2. Day!Init <=> DayProofs!Init
    BY Zenon DEF Day!Init, DayProofs!Init, Day!Minutes, DayProofs!Minutes, Day!ArmRank, DayProofs!ArmRank
<1>3. Day!Tick <=> DayProofs!Tick
    BY Zenon DEF Day!Tick, DayProofs!Tick
<1>4. Day!TickOverMidnight <=> DayProofs!TickOverMidnight
    BY Zenon DEF Day!TickOverMidnight, DayProofs!TickOverMidnight
<1>5. Day!CaptureNow <=> DayProofs!CaptureNow
    BY Zenon DEF Day!CaptureNow, DayProofs!CaptureNow
<1>6. Day!Calculate <=> DayProofs!Calculate
    BY Zenon DEF Day!Calculate, DayProofs!Calculate, Day!doCalc, DayProofs!doCalc
<1>7. Day!NoCalculation <=> DayProofs!NoCalculation
    BY Zenon DEF Day!NoCalculation, DayProofs!NoCalculation
<1>8. Day!ResetFlag <=> DayProofs!ResetFlag
    BY Zenon DEF Day!ResetFlag, DayProofs!ResetFlag
<1>9. Day!NothingDue <=> DayProofs!NothingDue
    BY Zenon DEF Day!NothingDue, DayProofs!NothingDue
<1>10. ASSUME NEW k \in Day!Kinds
       PROVE  Day!Fire(k) <=> DayProofs!Fire(k)
    BY Zenon DEF Day!Fire, DayProofs!Fire, Day!Postpone, DayProofs!Postpone
<1> QED
    BY <1>1, <1>2, <1>3, <1>4, <1>5, <1>6, <1>7, <1>8, <1>9, <1>10

\* The constants of the schedule are those that its theorems assume.
LEMMA DayConstants == DayProofs!DayEventsAssumption
BY SunEventsAssumption
   DEF SunEventsAssumption, Day!DayEventsAssumption, DayProofs!DayEventsAssumption,
       Day!Kinds, DayProofs!Kinds, Day!Rank, DayProofs!Rank, Day!Minutes, DayProofs!Minutes

\* And those of the queue.
LEMMA QueueConstants == QueueProofs!ReceiveQueueAssumption
BY SunEventsAssumption DEF IsFiniteSet, Queue!IsFiniteSet, QueueProofs!IsFiniteSet

\* The actions of the queue.
LEMMA SameQueue ==
    /\ Queue!Threads = QueueProofs!Threads
    /\ Queue!Init <=> QueueProofs!Init
    /\ \A e : Queue!EventExToReceiveQueue(e) <=> QueueProofs!EventExToReceiveQueue(e)
    /\ Queue!ConvertFails <=> QueueProofs!ConvertFails
    /\ Queue!FilterRejects <=> QueueProofs!FilterRejects
    /\ Queue!WorkerLocks <=> QueueProofs!WorkerLocks
    /\ Queue!PushBack <=> QueueProofs!PushBack
    /\ Queue!SemPost <=> QueueProofs!SemPost
    /\ Queue!WorkerUnlocks <=> QueueProofs!WorkerUnlocks
    /\ \A r \in Readers :
        /\ Queue!VSCPRead(r) <=> QueueProofs!VSCPRead(r)
        /\ Queue!SemWait(r) <=> QueueProofs!SemWait(r)
        /\ Queue!SemTimedOut(r) <=> QueueProofs!SemTimedOut(r)
        /\ Queue!SemFails(r) <=> QueueProofs!SemFails(r)
        /\ Queue!ReaderLocks(r) <=> QueueProofs!ReaderLocks(r)
        /\ Queue!PopFront(r) <=> QueueProofs!PopFront(r)
        /\ Queue!ReaderUnlocks(r) <=> QueueProofs!ReaderUnlocks(r)
        /\ Queue!CopyAndDelete(r) <=> QueueProofs!CopyAndDelete(r)
<1> USE DEF Queue!Threads, QueueProofs!Threads, Queue!Goto, QueueProofs!Goto,
            Queue!Lock, QueueProofs!Lock, Queue!Unlock, QueueProofs!Unlock
<1>1. Queue!Threads = QueueProofs!Threads
    OBVIOUS
<1>2. Queue!Init <=> QueueProofs!Init
    BY Zenon DEF Queue!Init, QueueProofs!Init
<1>3. ASSUME NEW e
      PROVE  Queue!EventExToReceiveQueue(e) <=> QueueProofs!EventExToReceiveQueue(e)
    BY Zenon DEF Queue!EventExToReceiveQueue, QueueProofs!EventExToReceiveQueue
<1>4. Queue!ConvertFails <=> QueueProofs!ConvertFails
    BY Zenon DEF Queue!ConvertFails, QueueProofs!ConvertFails
<1>5. Queue!FilterRejects <=> QueueProofs!FilterRejects
    BY Zenon DEF Queue!FilterRejects, QueueProofs!FilterRejects
<1>6. Queue!WorkerLocks <=> QueueProofs!WorkerLocks
    BY Zenon DEF Queue!WorkerLocks, QueueProofs!WorkerLocks
<1>7. Queue!PushBack <=> QueueProofs!PushBack
    BY Zenon DEF Queue!PushBack, QueueProofs!PushBack
<1>8. Queue!SemPost <=> QueueProofs!SemPost
    BY Zenon DEF Queue!SemPost, QueueProofs!SemPost
<1>9. Queue!WorkerUnlocks <=> QueueProofs!WorkerUnlocks
    BY Zenon DEF Queue!WorkerUnlocks, QueueProofs!WorkerUnlocks
<1>10. ASSUME NEW r \in Readers
       PROVE  /\ Queue!VSCPRead(r) <=> QueueProofs!VSCPRead(r)
              /\ Queue!SemWait(r) <=> QueueProofs!SemWait(r)
              /\ Queue!SemTimedOut(r) <=> QueueProofs!SemTimedOut(r)
              /\ Queue!SemFails(r) <=> QueueProofs!SemFails(r)
              /\ Queue!ReaderLocks(r) <=> QueueProofs!ReaderLocks(r)
              /\ Queue!PopFront(r) <=> QueueProofs!PopFront(r)
              /\ Queue!ReaderUnlocks(r) <=> QueueProofs!ReaderUnlocks(r)
              /\ Queue!CopyAndDelete(r) <=> QueueProofs!CopyAndDelete(r)
    BY Zenon
       DEF Queue!VSCPRead, QueueProofs!VSCPRead, Queue!SemWait, QueueProofs!SemWait,
           Queue!SemTimedOut, QueueProofs!SemTimedOut, Queue!SemFails, QueueProofs!SemFails,
           Queue!ReaderLocks, QueueProofs!ReaderLocks, Queue!PopFront, QueueProofs!PopFront,
           Queue!ReaderUnlocks, QueueProofs!ReaderUnlocks,
           Queue!CopyAndDelete, QueueProofs!CopyAndDelete
<1> QED
    BY <1>1, <1>2, <1>3, <1>4, <1>5, <1>6, <1>7, <1>8, <1>9, <1>10

-----------------------------------------------------------------------------
(* The schedule is that of DayEvents.                                       *)

\* Each step is one of the schedule, or leaves it alone.
LEMMA DaySteps ==
    /\ [Next]_vars => [Day!Next]_Day!vars
    /\ [Next]_vars => [DayProofs!Next]_DayProofs!vars
<1> SUFFICES ASSUME [Next]_vars
             PROVE  [Day!Next]_Day!vars /\ [DayProofs!Next]_DayProofs!vars
    OBVIOUS
<1> USE DEF Day!vars, DayProofs!vars, Day!calcVars, DayProofs!calcVars,
            Day!resetVars, DayProofs!resetVars
<1>1. CASE UNCHANGED dayVars
    BY <1>1, Zenon DEF dayVars
<1>2. CASE \/ Day!Tick \/ Day!TickOverMidnight \/ Day!CaptureNow \/ Day!Calculate
           \/ Day!NoCalculation \/ Day!ResetFlag \/ Day!NothingDue
           \/ \E k \in Day!Kinds : Day!Fire(k)
    BY <1>2, SameDay, Zenon DEF Day!Next, Day!doWork, DayProofs!Next, DayProofs!doWork
<1>3. CASE UNCHANGED vars
    BY <1>1, <1>3, Zenon DEF vars
<1>4. CASE Clock
    BY <1>2, <1>4, Zenon DEF Clock
<1>5. CASE WorkerNext
    BY <1>1, <1>2, <1>5, Zenon DEF WorkerNext, Announce, Send, Think, Enqueue, Drop
<1>6. ASSUME NEW r \in Readers, Read(r) \/ Deliver(r)
      PROVE  UNCHANGED dayVars
    BY <1>6, Zenon DEF Read, Deliver
<1> QED
    BY <1>1, <1>3, <1>4, <1>5, <1>6, Zenon DEF Next

\* The worker keeps its schedule although each of its rounds may end in the queue
\* and wait there for the mutex: what is proved of DayEvents holds here.
THEOREM KeepsTheSchedule == Spec => Day!Spec
<1>1. Init => Day!Init
    BY DEF Init
<1> QED
    BY <1>1, DaySteps, PTL DEF Spec, Day!Spec

\* Here the clock is never set.
NeverSet == missed = {} /\ resetDays = {}

LEMMA ClockNeverSet == Spec => []NeverSet
<1>1. Init => NeverSet
    BY SameDay DEF Init, DayProofs!Init, NeverSet
<1>2. NeverSet /\ [Next]_vars => NeverSet'
    <2> USE DEF Day!Return, Day!resetVars, dayVars
    <2>1. WorkerNext => UNCHANGED <<missed, resetDays>>
        BY Zenon DEF WorkerNext, Announce, Send, Think, Enqueue, Drop, Day!Calculate, Day!Fire,
               Day!CaptureNow, Day!NoCalculation, Day!ResetFlag, Day!NothingDue
    <2>2. \A r \in Readers : Read(r) \/ Deliver(r) => UNCHANGED <<missed, resetDays>>
        BY Zenon DEF Read, Deliver
    <2>3. Clock => UNCHANGED <<missed, resetDays>>
        BY Zenon DEF Clock, Day!Tick, Day!TickOverMidnight
    <2>4. UNCHANGED vars => UNCHANGED <<missed, resetDays>>
        BY DEF vars
    <2> QED
        BY <2>1, <2>2, <2>3, <2>4 DEF Next, NeverSet
<1> QED
    BY <1>1, <1>2, PTL DEF Spec

\* The invariant of the schedule under such a clock.
DayOK == DayProofs!DayIInv /\ NeverSet

\* The invariants of the schedule, in the composition.
LEMMA DayInvariants == Spec => [](DayOK /\ DayProofs!ClockIInv /\ DayProofs!EveryDay)
<1>1. Init => DayProofs!Init
    BY SameDay DEF Init
<1>2. Spec => DayProofs!Spec
    BY <1>1, DaySteps, PTL DEF Spec, DayProofs!Spec
<1>3. DayProofs!Spec => []DayProofs!DayIInv
    BY DayConstants, DayProofs!DayInvariance DEF DayProofs!DayEventsAssumption
<1>4. DayProofs!Spec => []DayProofs!ClockIInv
    BY DayConstants, DayProofs!ClockInvariance DEF DayProofs!DayEventsAssumption
<1>5. DayProofs!Spec => []DayProofs!EveryDay
    BY DayConstants, DayProofs!EveryEventSent DEF DayProofs!DayEventsAssumption
<1> QED
    BY <1>2, <1>3, <1>4, <1>5, ClockNeverSet, PTL DEF DayOK

-----------------------------------------------------------------------------
(* The queue is that of ReceiveQueue.                                       *)

\* No event is of a day after the last.
DayBounded == clock.day <= MaxDay

\* What the schedule's invariant says of the dates that events are made of.
LEMMA Dates ==
    ASSUME DayOK
    PROVE  /\ clock.day \in Nat /\ now.day \in Nat /\ m_lastCalculation.day \in Nat
           /\ now.day <= clock.day /\ m_lastCalculation.day <= clock.day
           /\ m_bCalulationHasBeenDone \in BOOLEAN
           /\ step \in {"top", "calc", "reset", "fire"}
           /\ firedDays \in [Day!Kinds -> SUBSET Nat]
<1>1. \A t \in DayProofs!Date : t.day \in Nat
    BY DEF DayProofs!Date
<1> QED
    BY <1>1, SameDay DEF DayOK, NeverSet, DayProofs!DayIInv, DayProofs!TypeOK,
                        DayProofs!NowBehind, DayProofs!NotAhead

\* How the clock moves here.
LEMMA ClockForward ==
    ASSUME DayOK, Clock
    PROVE  /\ UNCHANGED <<now, step, m_bCalulationHasBeenDone, m_lastCalculation, firedDays>>
           /\ clock'.day \in Nat /\ clock'.day <= MaxDay
           /\ skippedDays \subseteq skippedDays'
           /\ \/ clock'.day = clock.day + 1
              \/ clock'.day = clock.day /\ (DayProofs!HourZero(clock') => DayProofs!HourZero(clock))
<1>1. DayProofs!TypeOK /\ DayProofs!ClockSteps /\ clock.day \in Nat /\ MaxDay \in Nat
    BY SameDay, Dates, DayConstants DEF Clock, DayOK, DayProofs!DayIInv, DayProofs!ClockSteps, DayProofs!DayEventsAssumption
<1>2. /\ UNCHANGED <<now, step, DayProofs!calcVars, firedDays>>
      /\ clock' \in DayProofs!Date
      /\ skippedDays' = skippedDays \/ skippedDays' = skippedDays \cup {clock.day + 1}
      /\ \/ clock'.day = clock.day + 1
         \/ clock'.day = clock.day /\ (DayProofs!HourZero(clock') => DayProofs!HourZero(clock))
    BY <1>1, DayConstants, DayProofs!ClockMoves DEF DayProofs!DayEventsAssumption
<1>3. clock'.day \in Nat
    BY <1>2 DEF DayProofs!Date
<1>4. clock'.day <= MaxDay
    <2>1. CASE DayProofs!Tick
        BY <2>1 DEF DayProofs!Tick
    <2>2. CASE DayProofs!TickOverMidnight
        <3>1. clock' = DayProofs!At(clock.day + 1, MinutesPerHour)
              /\ DayProofs!NextMinute(clock).day \in (clock.day + 1)..MaxDay
            BY <2>2 DEF DayProofs!TickOverMidnight
        <3>2. clock'.day = clock.day + 1
            BY <3>1 DEF DayProofs!At
        <3> QED
            BY <1>1, <3>1, <3>2
    <2> QED
        BY <2>1, <2>2, SameDay DEF Clock
<1> QED
    BY <1>2, <1>3, <1>4 DEF DayProofs!calcVars

\* The daemon's clock starts on the day of open() or in the minute after it.
LEMMA InitBounded == Init => DayBounded
<1> SUFFICES ASSUME Init
             PROVE  DayBounded
    OBVIOUS
<1>1. PICK opened \in DayProofs!Minutes, late \in BOOLEAN :
        clock = IF late THEN DayProofs!NextMinute(DayProofs!At(0, opened)) ELSE DayProofs!At(0, opened)
    BY SameDay DEF Init, DayProofs!Init
<1>2. DayProofs!At(0, opened) \in DayProofs!Date /\ DayProofs!At(0, opened).day = 0
    BY DayConstants, DayProofs!DateFacts DEF DayProofs!DayEventsAssumption
<1>3. \A t \in DayProofs!Date :
        DayProofs!NextMinute(t).day = t.day \/ DayProofs!NextMinute(t).day = t.day + 1
    BY DayConstants, DayProofs!NextMinuteFacts DEF DayProofs!DayEventsAssumption
<1>4. clock.day = 0 \/ clock.day = 1
    BY <1>1, <1>2, <1>3
<1>5. MaxDay \in Nat /\ MaxDay > 0
    BY SunEventsAssumption, DayConstants DEF DayProofs!DayEventsAssumption
<1> QED
    BY <1>4, <1>5 DEF DayBounded

\* Only the clock moves the clock.
LEMMA BoundedStep == DayOK /\ DayBounded /\ [Next]_vars => DayBounded'
<1> SUFFICES ASSUME DayOK, DayBounded, [Next]_vars
             PROVE  DayBounded'
    OBVIOUS
<1>1. CASE Clock
    BY <1>1, ClockForward DEF DayBounded
<1>2. CASE UNCHANGED clock
    BY <1>2 DEF DayBounded
<1>3. CASE WorkerNext
    BY <1>2, <1>3, Zenon
       DEF WorkerNext, Announce, Send, Think, Enqueue, Drop, dayVars, Day!Calculate, Day!Fire,
           Day!Return, Day!CaptureNow, Day!NoCalculation, Day!ResetFlag, Day!NothingDue
<1>4. ASSUME NEW r \in Readers, Read(r) \/ Deliver(r)
      PROVE  UNCHANGED clock
    BY <1>4, Zenon DEF Read, Deliver, dayVars
<1>5. UNCHANGED vars => UNCHANGED clock
    BY DEF vars, dayVars
<1> QED
    BY <1>1, <1>2, <1>3, <1>4, <1>5, Zenon DEF Next

\* The events that a round hands to the queue.
LEMMA EventsOfTheDay ==
    ASSUME DayOK, DayBounded
    PROVE  /\ [kind |-> NewCalculation, day |-> clock.day] \in SunEvent
           /\ \A k \in Day!Kinds : [kind |-> k, day |-> now.day] \in SunEvent
<1>1. clock.day \in 0..MaxDay /\ now.day \in 0..MaxDay
    BY Dates, DayConstants DEF DayBounded, DayProofs!DayEventsAssumption
<1> QED
    BY <1>1 DEF SunEvent

\* Each step is one of the queue, or leaves it alone.
LEMMA QueueSteps ==
    DayOK /\ DayBounded /\ [Next]_vars =>
        [Queue!Next]_Queue!vars /\ [QueueProofs!Next]_QueueProofs!vars
<1> SUFFICES ASSUME DayOK, DayBounded, [Next]_vars
             PROVE  [Queue!Next]_Queue!vars /\ [QueueProofs!Next]_QueueProofs!vars
    OBVIOUS
<1>1. CASE UNCHANGED queueVars
    BY <1>1, Zenon DEF queueVars, Queue!vars, QueueProofs!vars
<1>2. CASE \/ \E e \in SunEvent : Queue!EventExToReceiveQueue(e)
           \/ Queue!ConvertFails \/ Queue!FilterRejects \/ Queue!WorkerLocks
           \/ Queue!PushBack \/ Queue!SemPost \/ Queue!WorkerUnlocks
    BY <1>2, SameQueue, Zenon
       DEF Queue!Next, QueueProofs!Next, Queue!WorkerNext, QueueProofs!WorkerNext
<1>3. CASE UNCHANGED vars
    BY <1>1, <1>3, Zenon DEF vars
<1>4. CASE Clock
    BY <1>1, <1>4, Zenon DEF Clock
<1>5. CASE WorkerNext
    <2>1. CASE Announce
        BY <1>2, <2>1, EventsOfTheDay, Zenon DEF Announce
    <2>2. ASSUME NEW k \in Day!Kinds, Send(k)
          PROVE  \E e \in SunEvent : Queue!EventExToReceiveQueue(e)
        BY <2>2, EventsOfTheDay, Zenon DEF Send
    <2>3. CASE Think \/ Enqueue \/ Drop
        BY <1>1, <1>2, <2>3, Zenon DEF Think, Enqueue, Drop
    <2> QED
        BY <1>2, <1>5, <2>1, <2>2, <2>3, Zenon DEF WorkerNext
<1>6. ASSUME NEW r \in Readers, Read(r) \/ Deliver(r)
      PROVE  [Queue!Next]_Queue!vars /\ [QueueProofs!Next]_QueueProofs!vars
    <2>1. \/ Queue!VSCPRead(r) \/ Queue!SemWait(r) \/ Queue!SemTimedOut(r)
          \/ Queue!SemFails(r) \/ Queue!ReaderLocks(r) \/ Queue!PopFront(r)
          \/ Queue!ReaderUnlocks(r) \/ Queue!CopyAndDelete(r)
        BY <1>6, Zenon DEF Read, Deliver
    <2> QED
        BY <2>1, SameQueue, Zenon
           DEF Queue!Next, QueueProofs!Next, Queue!ReaderNext, QueueProofs!ReaderNext
<1> QED
    BY <1>3, <1>4, <1>5, <1>6, Zenon DEF Next

\* Every invariant of the parts, together.
PartsIInv ==
    /\ DayOK
    /\ DayProofs!ClockIInv
    /\ DayProofs!EveryDay
    /\ DayBounded
    /\ QueueProofs!IInv

LEMMA Bounded == Spec => []DayBounded
<1>1. DayOK /\ DayBounded /\ [Next]_vars => DayBounded'
    BY BoundedStep
<1> QED
    BY <1>1, InitBounded, DayInvariants, PTL DEF Spec

LEMMA Parts == Spec => []PartsIInv
<1>1. Init => QueueProofs!Init
    BY SameQueue DEF Init
<1>2. Spec => QueueProofs!Spec
    BY <1>1, QueueSteps, DayInvariants, Bounded, PTL DEF Spec, QueueProofs!Spec
<1>3. QueueProofs!Spec => []QueueProofs!IInv
    BY QueueConstants, QueueProofs!Invariance DEF QueueProofs!ReceiveQueueAssumption
<1> QED
    BY <1>2, <1>3, DayInvariants, Bounded, PTL DEF PartsIInv

\* The worker's rounds use the queue as its theorems assume: what is proved of
\* ReceiveQueue, the refinement of the channel too, holds here.
THEOREM KeepsTheQueue == Spec => Queue!Spec
<1>1. Init => Queue!Init
    BY DEF Init
<1> QED
    BY <1>1, QueueSteps, DayInvariants, Bounded, PTL DEF Spec, Queue!Spec

-----------------------------------------------------------------------------
(* Where an event is.                                                       *)

\* A thread holds an event only between getting it and passing it on.
HandsOK ==
    /\ pEvent[Worker] # NoEvent <=> pc[Worker] \in {"convert", "push"}
    /\ \A r \in Readers : pEvent[r] # NoEvent <=> pc[r] \in {"unlock", "copy"}

\* The places with their types.
PlacesOK ==
    /\ pEvent \in [Queue!Threads -> SunEvent \cup {NoEvent}]
    /\ m_receiveList \in Seq(SunEvent)
    /\ delivered \in Seq(SunEvent)
    /\ dropped \subseteq SunEvent

\* What a step may do to the places of the events: nothing, or one event comes to
\* the worker, is pushed, is deleted, is popped or is delivered.
Still == UNCHANGED <<pEvent, m_receiveList, delivered, dropped>>

Passes(t, e) == pEvent' = [pEvent EXCEPT ![t] = e]

Comes(e) ==
    /\ e \in SunEvent /\ pEvent[Worker] = NoEvent
    /\ Passes(Worker, e)
    /\ UNCHANGED <<m_receiveList, delivered, dropped>>

Pushed ==
    /\ pEvent[Worker] \in SunEvent
    /\ Passes(Worker, NoEvent)
    /\ m_receiveList' = Append(m_receiveList, pEvent[Worker])
    /\ UNCHANGED <<delivered, dropped>>

Deleted ==
    /\ pEvent[Worker] \in SunEvent
    /\ Passes(Worker, NoEvent)
    /\ dropped' = dropped \cup {pEvent[Worker]}
    /\ UNCHANGED <<m_receiveList, delivered>>

Popped(r) ==
    /\ pEvent[r] = NoEvent /\ m_receiveList # <<>>
    /\ Passes(r, Head(m_receiveList))
    /\ m_receiveList' = Tail(m_receiveList)
    /\ UNCHANGED <<delivered, dropped>>

Delivered(r) ==
    /\ pEvent[r] \in SunEvent
    /\ Passes(r, NoEvent)
    /\ delivered' = Append(delivered, pEvent[r])
    /\ UNCHANGED <<m_receiveList, dropped>>

\* What the invariant of the queue says of its threads.
LEMMA QueueTypes ==
    ASSUME PartsIInv
    PROVE  /\ Queue!Threads = Readers \cup {Worker} /\ Worker \notin Readers
           /\ IsFiniteSet(Readers) /\ NoEvent \notin SunEvent
           /\ pEvent \in [Queue!Threads -> SunEvent \cup {NoEvent}]
           /\ DOMAIN pc = Queue!Threads
           /\ m_receiveList \in Seq(SunEvent)
<1>1. QueueProofs!TypeOK
    BY DEF PartsIInv, QueueProofs!IInv
<1>2. AcceptedEvents \subseteq SunEvent
    BY DEF AcceptedEvents
<1>3. m_receiveList \in Seq(SunEvent)
    BY <1>1, <1>2, SeqMonotonic DEF QueueProofs!TypeOK
<1>4. /\ Worker \notin Readers /\ IsFiniteSet(Readers) /\ NoEvent \notin SunEvent
    BY QueueConstants DEF QueueProofs!ReceiveQueueAssumption, QueueProofs!IsFiniteSet, IsFiniteSet
<1> QED
    BY <1>1, <1>3, <1>4 DEF QueueProofs!TypeOK, Queue!Threads, QueueProofs!Threads

\* The hands are right at first.
LEMMA HandsInit == Init => HandsOK /\ PlacesOK
<1> SUFFICES ASSUME Init
             PROVE  HandsOK /\ PlacesOK
    OBVIOUS
<1>1. /\ pc = [t \in Queue!Threads |-> "idle"] /\ pEvent = [t \in Queue!Threads |-> NoEvent]
      /\ m_receiveList = <<>> /\ delivered = <<>> /\ dropped = {}
      /\ Queue!Threads = Readers \cup {Worker}
    BY DEF Init, Queue!Init, Queue!Threads
<1>2. <<>> \in Seq(SunEvent)
    BY EmptySeq
<1> QED
    BY <1>1, <1>2 DEF HandsOK, PlacesOK

\* A step of the worker in the queue.
LEMMA WorkerMoves ==
    ASSUME PartsIInv, HandsOK
    PROVE  /\ \A e \in SunEvent : Queue!EventExToReceiveQueue(e) /\ UNCHANGED history => Comes(e) /\ HandsOK'
           /\ Enqueue => (Still \/ Pushed) /\ HandsOK'
           /\ Drop => Deleted /\ HandsOK'
<1> USE QueueTypes DEF HandsOK, Queue!Goto, Passes, history
<1>1. ASSUME NEW e \in SunEvent, Queue!EventExToReceiveQueue(e), UNCHANGED history
      PROVE  Comes(e) /\ HandsOK'
    BY <1>1 DEF Queue!EventExToReceiveQueue, Comes
<1>2. ASSUME Enqueue
      PROVE  (Still \/ Pushed) /\ HandsOK'
    <2>1. CASE Queue!WorkerLocks
        BY <1>2, <2>1 DEF Enqueue, Queue!WorkerLocks, Still
    <2>2. CASE Queue!PushBack
        BY <1>2, <2>2 DEF Enqueue, Queue!PushBack, Pushed
    <2>3. CASE Queue!SemPost
        BY <1>2, <2>3 DEF Enqueue, Queue!SemPost, Still
    <2>4. CASE Queue!WorkerUnlocks
        BY <1>2, <2>4 DEF Enqueue, Queue!WorkerUnlocks, Still
    <2> QED
        BY <1>2, <2>1, <2>2, <2>3, <2>4 DEF Enqueue
<1>3. ASSUME Drop
      PROVE  Deleted /\ HandsOK'
    BY <1>3 DEF Drop, Queue!ConvertFails, Queue!FilterRejects, Deleted
<1> QED
    BY <1>1, <1>2, <1>3

\* A step of a reader.
LEMMA ReaderMoves ==
    ASSUME PartsIInv, HandsOK, NEW r \in Readers
    PROVE  /\ Read(r) => (Still \/ Popped(r)) /\ HandsOK'
           /\ Deliver(r) => Delivered(r) /\ HandsOK'
<1> USE QueueTypes DEF HandsOK, Queue!Goto, Passes, history
<1>1. ASSUME Read(r)
      PROVE  (Still \/ Popped(r)) /\ HandsOK'
    <2>1. CASE Queue!PopFront(r)
        <3>1. Head(m_receiveList) \in SunEvent
            BY <2>1, HeadTailProperties DEF Queue!PopFront
        <3> QED
            BY <1>1, <2>1, <3>1 DEF Read, Queue!PopFront, Popped
    <2>2. CASE Queue!VSCPRead(r)
        BY <1>1, <2>2 DEF Read, Queue!VSCPRead, Still
    <2>3. CASE Queue!SemWait(r)
        BY <1>1, <2>3 DEF Read, Queue!SemWait, Still
    <2>4. CASE Queue!SemTimedOut(r)
        BY <1>1, <2>4 DEF Read, Queue!SemTimedOut, Still
    <2>5. CASE Queue!SemFails(r)
        BY <1>1, <2>5 DEF Read, Queue!SemFails, Still
    <2>6. CASE Queue!ReaderLocks(r)
        BY <1>1, <2>6 DEF Read, Queue!ReaderLocks, Still
    <2>7. CASE Queue!ReaderUnlocks(r)
        BY <1>1, <2>7 DEF Read, Queue!ReaderUnlocks, Still
    <2> QED
        BY <1>1, <2>1, <2>2, <2>3, <2>4, <2>5, <2>6, <2>7 DEF Read
<1>2. ASSUME Deliver(r)
      PROVE  Delivered(r) /\ HandsOK'
    BY <1>2 DEF Deliver, Queue!CopyAndDelete, Delivered
<1> QED
    BY <1>1, <1>2

\* All steps: the clock and the rest of doWork leave the events where they are,
\* a round that sends brings one, and in the queue the schedule rests.
LEMMA Moves ==
    ASSUME PartsIInv, HandsOK, Next
    PROVE  /\ HandsOK'
           /\ \/ Clock /\ Still
              \/ Think /\ Still
              \/ Announce /\ Comes([kind |-> NewCalculation, day |-> clock.day])
              \/ \E k \in Day!Kinds : Send(k) /\ Comes([kind |-> k, day |-> now.day])
              \/ /\ UNCHANGED dayVars
                 /\ \/ Still \/ Pushed \/ Deleted
                    \/ \E r \in Readers : Popped(r) \/ Delivered(r)
<1>1. UNCHANGED queueVars /\ UNCHANGED history => Still /\ HandsOK'
    BY DEF queueVars, history, Still, HandsOK
<1>2. CASE Clock \/ Think
    BY <1>1, <1>2, Zenon DEF Clock, Think
<1>3. CASE Announce
    <2>1. [kind |-> NewCalculation, day |-> clock.day] \in SunEvent
        BY EventsOfTheDay DEF PartsIInv
    <2> QED
        BY <1>3, <2>1, WorkerMoves, Zenon DEF Announce
<1>4. ASSUME NEW k \in Day!Kinds, Send(k)
      PROVE  Comes([kind |-> k, day |-> now.day]) /\ HandsOK'
    <2>1. [kind |-> k, day |-> now.day] \in SunEvent
        BY EventsOfTheDay DEF PartsIInv
    <2> QED
        BY <1>4, <2>1, WorkerMoves, Zenon DEF Send
<1>5. CASE Enqueue \/ Drop
    BY <1>5, WorkerMoves, Zenon DEF Enqueue, Drop
<1>6. ASSUME NEW r \in Readers, Read(r) \/ Deliver(r)
      PROVE  /\ HandsOK' /\ UNCHANGED dayVars
             /\ Still \/ Popped(r) \/ Delivered(r)
    BY <1>6, ReaderMoves, Zenon DEF Read, Deliver
<1> QED
    BY <1>2, <1>3, <1>4, <1>5, <1>6, Zenon DEF Next, WorkerNext

-----------------------------------------------------------------------------
(* How many places an event is in.                                          *)

\* What an append adds to the occurrences of an event in a sequence.
LEMMA TimesAppend ==
    ASSUME NEW S, NEW s \in Seq(S), NEW x \in S, NEW e
    PROVE  /\ Times(e, s) \in Nat
           /\ Times(e, Append(s, x)) = Times(e, s) + (IF x = e THEN 1 ELSE 0)
<1> DEFINE n == Len(s)
           t == Append(s, x)
           P == {i \in DOMAIN s : s[i] = e}
           Q == {i \in DOMAIN t : t[i] = e}
<1>1. n \in Nat /\ DOMAIN s = 1..n
    BY LenProperties
<1>2. /\ t \in Seq(S) /\ Len(t) = n + 1 /\ t[n + 1] = x
      /\ \A i \in 1..n : t[i] = s[i]
    BY AppendProperties
<1>3. DOMAIN t = 1..(n + 1)
    BY <1>2, LenProperties
<1>4. IsFiniteSet(P) /\ Cardinality(P) \in Nat
    <2>1. P \in SUBSET (1..n) /\ IsFiniteSet(1..n)
        BY <1>1, FS_Interval
    <2> QED
        BY <2>1, FS_Subset, FS_CardinalityType
<1>5. Q = IF x = e THEN P \cup {n + 1} ELSE P
    BY <1>1, <1>2, <1>3
<1>6. n + 1 \notin P
    BY <1>1
<1>7. Cardinality(P \cup {n + 1}) = Cardinality(P) + 1
    BY <1>4, <1>6, FS_AddElement
<1>8. Times(e, s) = Cardinality(P) /\ Times(e, t) = Cardinality(Q)
    BY DEF Times
<1> HIDE DEF n, t, P, Q
<1>9. Cardinality(Q) = Cardinality(P) + (IF x = e THEN 1 ELSE 0)
    BY <1>4, <1>5, <1>7
<1>10. Times(e, s) \in Nat /\ Times(e, t) = Times(e, s) + (IF x = e THEN 1 ELSE 0)
    BY <1>4, <1>8, <1>9
<1> QED
    BY <1>10, Zenon DEF t

\* What is left of them when the head is taken off.
LEMMA TimesTail ==
    ASSUME NEW S, NEW s \in Seq(S), s # <<>>, NEW e
    PROVE  /\ Times(e, s) \in Nat /\ Times(e, Tail(s)) \in Nat
           /\ Times(e, s) = Times(e, Tail(s)) + (IF Head(s) = e THEN 1 ELSE 0)
<1> DEFINE n == Len(s)
           t == Tail(s)
           P == {i \in DOMAIN s : s[i] = e}
           Q == {i \in DOMAIN t : t[i] = e}
           f == [i \in Q |-> i + 1]
<1>1. n \in Nat \ {0} /\ DOMAIN s = 1..n /\ Head(s) = s[1]
    BY LenProperties, EmptySeq
<1>2. t \in Seq(S) /\ Len(t) = n - 1 /\ \A i \in 1..(n - 1) : t[i] = s[i + 1]
    BY HeadTailProperties
<1>3. DOMAIN t = 1..(n - 1)
    BY <1>2, LenProperties
<1>4. /\ IsFiniteSet(P) /\ Cardinality(P) \in Nat
      /\ IsFiniteSet(Q) /\ Cardinality(Q) \in Nat
    <2>1. P \in SUBSET (1..n) /\ IsFiniteSet(1..n)
        BY <1>1, FS_Interval
    <2>2. Q \in SUBSET (1..n)
        BY <1>1, <1>3
    <2> QED
        BY <2>1, <2>2, FS_Subset, FS_CardinalityType
<1>5. f \in Bijection(Q, P \ {1})
    <2>1. f \in [Q -> P \ {1}]
        BY <1>1, <1>2, <1>3
    <2>2. \A i, j \in Q : f[i] = f[j] => i = j
        BY <1>3
    <2>3. \A j \in P \ {1} : \E i \in Q : f[i] = j
        <3>1. ASSUME NEW j \in P \ {1}
              PROVE  j - 1 \in Q /\ f[j - 1] = j
            BY <1>1, <1>2, <1>3, <3>1
        <3> QED
            BY <3>1
    <2> QED
        BY <2>1, <2>2, <2>3 DEF Bijection, Injection, Surjection, IsInjective
<1>6. Cardinality(P \ {1}) = Cardinality(Q)
    BY <1>4, <1>5, FS_Bijection DEF ExistsBijection
<1>7. Cardinality(P \ {1}) = IF 1 \in P THEN Cardinality(P) - 1 ELSE Cardinality(P)
    BY <1>4, FS_RemoveElement
<1>8. 1 \in P <=> Head(s) = e
    BY <1>1
<1>9. Times(e, s) = Cardinality(P) /\ Times(e, t) = Cardinality(Q)
    BY DEF Times
<1> HIDE DEF P, Q, f, n, t
<1>10. Cardinality(P) = Cardinality(Q) + (IF Head(s) = e THEN 1 ELSE 0)
    BY <1>4, <1>6, <1>7, <1>8
<1>11. Times(e, s) \in Nat /\ Times(e, t) \in Nat
    BY <1>4, <1>9
<1>12. Times(e, s) = Times(e, t) + (IF Head(s) = e THEN 1 ELSE 0)
    BY <1>9, <1>10
<1> QED
    BY <1>11, <1>12, Zenon DEF t

\* The holders of an event when one thread's hand changes.
LEMMA HoldersPass ==
    ASSUME PartsIInv, NEW t \in Queue!Threads, NEW x \in SunEvent \cup {NoEvent},
           Passes(t, x), NEW e \in SunEvent
    PROVE  /\ Cardinality(Holders(e)) \in Nat
           /\ pEvent[t] = e => Cardinality(Holders(e)) > 0
           /\ Cardinality(Holders(e)') = Cardinality(Holders(e))
                  - (IF pEvent[t] = e THEN 1 ELSE 0) + (IF x = e THEN 1 ELSE 0)
<1>1. /\ IsFiniteSet(Queue!Threads)
      /\ pEvent \in [Queue!Threads -> SunEvent \cup {NoEvent}]
      /\ \A u \in Queue!Threads : pEvent'[u] = IF u = t THEN x ELSE pEvent[u]
    BY QueueTypes, FS_AddElement DEF Passes
<1>2. IsFiniteSet(Holders(e)) /\ Cardinality(Holders(e)) \in Nat
    <2>1. Holders(e) \in SUBSET Queue!Threads
        BY DEF Holders
    <2> QED
        BY <1>1, <2>1, FS_Subset, FS_CardinalityType
<1>3. t \in Holders(e) <=> pEvent[t] = e
    BY DEF Holders
<1>4. Holders(e)' = IF x = e THEN Holders(e) \cup {t} ELSE Holders(e) \ {t}
    BY <1>1 DEF Holders, Queue!Threads
<1>5. /\ Cardinality(Holders(e) \cup {t}) =
             IF t \in Holders(e) THEN Cardinality(Holders(e)) ELSE Cardinality(Holders(e)) + 1
      /\ Cardinality(Holders(e) \ {t}) =
             IF t \in Holders(e) THEN Cardinality(Holders(e)) - 1 ELSE Cardinality(Holders(e))
    BY <1>2, FS_AddElement, FS_RemoveElement
<1>6. t \in Holders(e) => Cardinality(Holders(e)) # 0
    BY <1>2, FS_EmptySet
<1> QED
    BY <1>2, <1>3, <1>4, <1>5, <1>6

\* The number of places of each event is a number, and only an event's coming
\* changes it.
LEMMA PlacesMove ==
    ASSUME PartsIInv, PlacesOK, NEW e \in SunEvent
    PROVE  /\ Places(e) \in Nat
           /\ Still => Places(e)' = Places(e)
           /\ \A x : Comes(x) => Places(e)' = Places(e) + (IF x = e THEN 1 ELSE 0)
           /\ Pushed => Places(e)' = Places(e)
           /\ Deleted /\ Places(e) <= 1 => Places(e)' = Places(e)
           /\ \A r \in Readers : Popped(r) \/ Delivered(r) => Places(e)' = Places(e)
<1> DEFINE a == Times(e, delivered)
           b == Times(e, m_receiveList)
           c == Cardinality(Holders(e))
           g == IF e \in dropped THEN 1 ELSE 0
<1>1. a \in Nat /\ b \in Nat /\ c \in Nat /\ g \in Nat
    <2>1. a \in Nat /\ b \in Nat
        BY TimesAppend DEF PlacesOK
    <2>2. c \in Nat
        <3>1. Holders(e) \in SUBSET Queue!Threads /\ IsFiniteSet(Queue!Threads)
            BY QueueTypes, FS_AddElement DEF Holders
        <3> QED
            BY <3>1, FS_Subset, FS_CardinalityType
    <2> QED
        BY <2>1, <2>2
<1>2. Places(e) = a + b + c + g
    BY DEF Places
<1>3. Places(e)' = a' + b' + c' + g'
    BY DEF Places
<1>4. \A t \in Queue!Threads, x \in SunEvent \cup {NoEvent} : Passes(t, x) =>
          /\ pEvent[t] = e => c > 0
          /\ c' = c - (IF pEvent[t] = e THEN 1 ELSE 0) + (IF x = e THEN 1 ELSE 0)
    BY HoldersPass
<1>5. \A t \in Readers : t \in Queue!Threads
    BY QueueTypes
<1>6. Worker \in Queue!Threads /\ NoEvent # e
    BY QueueTypes
<1>7. \A s \in Seq(SunEvent), x \in SunEvent :
          Times(e, Append(s, x)) = Times(e, s) + (IF x = e THEN 1 ELSE 0)
    BY TimesAppend
<1>8. m_receiveList # <<>> =>
          /\ Head(m_receiveList) \in SunEvent
          /\ Times(e, Tail(m_receiveList)) \in Nat
          /\ b = Times(e, Tail(m_receiveList)) + (IF Head(m_receiveList) = e THEN 1 ELSE 0)
    BY TimesTail, HeadTailProperties DEF PlacesOK
<1>9. delivered \in Seq(SunEvent) /\ m_receiveList \in Seq(SunEvent)
    BY DEF PlacesOK
<1>d. UNCHANGED delivered => a' = a
    BY DEF Times
<1>m. UNCHANGED m_receiveList => b' = b
    BY DEF Times
<1>g. UNCHANGED dropped => g' = g
    OBVIOUS
<1>10. ASSUME Still
       PROVE  Places(e)' = Places(e)
    <2>1. c' = c
        BY <1>10 DEF Still, Holders
    <2> QED
        BY <1>2, <1>3, <1>10, <2>1, <1>d, <1>m, <1>g DEF Still
<1>11. ASSUME NEW x, Comes(x)
       PROVE  Places(e)' = Places(e) + (IF x = e THEN 1 ELSE 0)
    <2>1. /\ x \in SunEvent /\ pEvent[Worker] = NoEvent /\ Passes(Worker, x)
          /\ a' = a /\ b' = b /\ g' = g
        BY <1>11, <1>d, <1>m, <1>g DEF Comes
    <2>2. c' = c + (IF x = e THEN 1 ELSE 0)
        <3>1. c' = c - (IF pEvent[Worker] = e THEN 1 ELSE 0) + (IF x = e THEN 1 ELSE 0)
            BY <1>4, <1>6, <2>1
        <3> HIDE DEF c
        <3> QED
            BY <1>1, <1>6, <2>1, <3>1
    <2> HIDE DEF a, b, c, g
    <2> QED
        BY <1>1, <1>2, <1>3, <2>1, <2>2
<1>12. ASSUME Pushed
       PROVE  Places(e)' = Places(e)
    <2>1. /\ pEvent[Worker] \in SunEvent /\ Passes(Worker, NoEvent)
          /\ m_receiveList' = Append(m_receiveList, pEvent[Worker])
          /\ a' = a /\ g' = g
        BY <1>12, <1>d, <1>g DEF Pushed
    <2>2. b' = b + (IF pEvent[Worker] = e THEN 1 ELSE 0)
        BY <1>7, <1>9, <2>1 DEF Times
    <2>3. c' = c - (IF pEvent[Worker] = e THEN 1 ELSE 0) + (IF NoEvent = e THEN 1 ELSE 0)
        BY <1>4, <1>6, <2>1
    <2> HIDE DEF a, b, c, g
    <2> QED
        BY <1>1, <1>2, <1>3, <1>6, <2>1, <2>2, <2>3
<1>13. ASSUME Deleted, Places(e) <= 1
       PROVE  Places(e)' = Places(e)
    <2>1. /\ pEvent[Worker] \in SunEvent /\ Passes(Worker, NoEvent)
          /\ dropped' = dropped \cup {pEvent[Worker]}
          /\ a' = a /\ b' = b
        BY <1>13, <1>d, <1>m DEF Deleted
    <2>2. /\ c' = c - (IF pEvent[Worker] = e THEN 1 ELSE 0) + (IF NoEvent = e THEN 1 ELSE 0)
          /\ pEvent[Worker] = e => c > 0
        BY <1>4, <1>6, <2>1
    <2>3. pEvent[Worker] = e => g = 0
        <3>1. pEvent[Worker] = e => a + b + c + g <= 1 /\ c > 0
            BY <1>2, <1>13, <2>2
        <3> HIDE DEF a, b, c, g
        <3> QED
            BY <1>1, <3>1
    <2>4. g' = g + (IF pEvent[Worker] = e THEN 1 ELSE 0)
        BY <2>1, <2>3
    <2> HIDE DEF a, b, c, g
    <2> QED
        BY <1>1, <1>2, <1>3, <1>6, <2>1, <2>2, <2>4
<1>14. ASSUME NEW r \in Readers, Popped(r)
       PROVE  Places(e)' = Places(e)
    <2> DEFINE h == Head(m_receiveList)
    <2>1. /\ pEvent[r] = NoEvent /\ m_receiveList # <<>> /\ Passes(r, h)
          /\ m_receiveList' = Tail(m_receiveList)
          /\ a' = a /\ g' = g
        BY <1>14, <1>d, <1>g DEF Popped
    <2>2. h \in SunEvent /\ b' \in Nat /\ b = b' + (IF h = e THEN 1 ELSE 0)
        BY <1>8, <2>1 DEF Times
    <2>3. c' = c - (IF pEvent[r] = e THEN 1 ELSE 0) + (IF h = e THEN 1 ELSE 0)
        BY <1>4, <1>5, <2>1, <2>2
    <2> HIDE DEF a, b, c, g, h
    <2> QED
        BY <1>1, <1>2, <1>3, <1>6, <2>1, <2>2, <2>3
<1>15. ASSUME NEW r \in Readers, Delivered(r)
       PROVE  Places(e)' = Places(e)
    <2>1. /\ pEvent[r] \in SunEvent /\ Passes(r, NoEvent)
          /\ delivered' = Append(delivered, pEvent[r])
          /\ b' = b /\ g' = g
        BY <1>15, <1>m, <1>g DEF Delivered
    <2>2. a' = a + (IF pEvent[r] = e THEN 1 ELSE 0)
        BY <1>7, <1>9, <2>1 DEF Times
    <2>3. c' = c - (IF pEvent[r] = e THEN 1 ELSE 0) + (IF NoEvent = e THEN 1 ELSE 0)
        BY <1>4, <1>5, <2>1
    <2> HIDE DEF a, b, c, g
    <2> QED
        BY <1>1, <1>2, <1>3, <1>6, <2>1, <2>2, <2>3
<1> HIDE DEF a, b, c, g
<1> QED
    BY <1>1, <1>2, <1>10, <1>11, <1>12, <1>13, <1>14, <1>15

-----------------------------------------------------------------------------
(* Every event is in one place.                                             *)

News(d) == [kind |-> NewCalculation, day |-> d]

\* A calculation is announced for the day it was made on, and not while the one
\* of the day is still to be made.
NewsOnce ==
    \A d \in 0..MaxDay : Places(News(d)) > 0 =>
        /\ d <= clock.day
        /\ d = clock.day /\ DayProofs!HourZero(clock) => m_bCalulationHasBeenDone

PlaceIInv ==
    /\ PlacesOK
    /\ HandsOK
    /\ OnePlaceEach
    /\ NewsOnce

\* Of the events, which is which.
LEMMA EventFacts ==
    /\ NewCalculation \notin Day!Kinds
    /\ \A e \in SunEvent : /\ e.kind \in Day!Kinds \cup {NewCalculation}
                           /\ e.day \in 0..MaxDay
                           /\ \A k, d : e = [kind |-> k, day |-> d] <=> e.kind = k /\ e.day = d
    /\ \A d \in 0..MaxDay : /\ News(d) \in SunEvent
                            /\ News(d).kind = NewCalculation /\ News(d).day = d
BY DEF News, SunEvent, NewCalculation, Day!Kinds, Day!Rank

LEMMA PlaceInit == Init => PlaceIInv
<1> SUFFICES ASSUME Init
             PROVE  PlaceIInv
    OBVIOUS
<1>1. ASSUME NEW e \in SunEvent
      PROVE  Places(e) = 0
    <2>1. NoEvent # e
        BY QueueConstants DEF QueueProofs!ReceiveQueueAssumption
    <2>2. /\ pEvent = [t \in Queue!Threads |-> NoEvent]
          /\ m_receiveList = <<>> /\ delivered = <<>> /\ dropped = {}
        BY DEF Init, Queue!Init
    <2>3. Holders(e) = {}
        BY <2>1, <2>2 DEF Holders
    <2>4. DOMAIN <<>> = {}
        OBVIOUS
    <2>5. Times(e, <<>>) = Cardinality({})
        BY <2>4 DEF Times
    <2> QED
        BY <2>2, <2>3, <2>5, FS_EmptySet DEF Places
<1>2. \A e \in SunEvent : e.kind \in Day!Kinds => ~Was(e)
    BY DEF Init, Day!Init, Was
<1>3. OnePlaceEach
    BY <1>1, <1>2, EventFacts DEF OnePlaceEach
<1>4. NewsOnce
    BY <1>1, EventFacts DEF NewsOnce
<1> QED
    BY <1>3, <1>4, HandsInit DEF PlaceIInv

\* The places keep their types.
LEMMA PlacesOKStep ==
    ASSUME PartsIInv, PlacesOK,
           \/ Still \/ (\E e : Comes(e)) \/ Pushed \/ Deleted
           \/ \E r \in Readers : Popped(r) \/ Delivered(r)
    PROVE  PlacesOK'
<1> USE QueueTypes DEF PlacesOK, Passes
<1>1. CASE Still
    BY <1>1 DEF Still
<1>2. ASSUME NEW e, Comes(e)
      PROVE  PlacesOK'
    BY <1>2 DEF Comes
<1>3. CASE Pushed
    BY <1>3, AppendProperties DEF Pushed
<1>4. CASE Deleted
    BY <1>4 DEF Deleted
<1>5. ASSUME NEW r \in Readers, Popped(r)
      PROVE  PlacesOK'
    <2>1. Head(m_receiveList) \in SunEvent /\ Tail(m_receiveList) \in Seq(SunEvent)
        BY <1>5, HeadTailProperties DEF Popped
    <2> QED
        BY <1>5, <2>1 DEF Popped
<1>6. ASSUME NEW r \in Readers, Delivered(r)
      PROVE  PlacesOK'
    BY <1>6, AppendProperties DEF Delivered
<1> QED
    BY <1>1, <1>2, <1>3, <1>4, <1>5, <1>6

\* On its way an event stays one; a new one comes only for a day on which its kind
\* was not sent, or the day was not calculated.
LEMMA PlaceStep == PartsIInv /\ PlaceIInv /\ [Next]_vars => PlaceIInv'
<1> SUFFICES ASSUME PartsIInv, PlaceIInv, [Next]_vars
             PROVE  PlaceIInv'
    OBVIOUS
<1>1. /\ clock.day \in Nat /\ now.day \in Nat /\ now.day <= clock.day
      /\ clock.day \in 0..MaxDay /\ now.day \in 0..MaxDay
      /\ m_bCalulationHasBeenDone \in BOOLEAN
      /\ firedDays \in [Day!Kinds -> SUBSET Nat]
    BY Dates, DayConstants DEF PartsIInv, DayBounded, DayProofs!DayEventsAssumption
<1>2. \A e \in SunEvent : Places(e) \in Nat /\ Places(e) <= 1
    BY PlacesMove, EventFacts DEF PlaceIInv, OnePlaceEach
<1>3. \A e \in SunEvent :
        /\ Still => Places(e)' = Places(e)
        /\ \A x : Comes(x) => Places(e)' = Places(e) + (IF x = e THEN 1 ELSE 0)
        /\ Pushed => Places(e)' = Places(e)
        /\ Deleted => Places(e)' = Places(e)
        /\ \A r \in Readers : Popped(r) \/ Delivered(r) => Places(e)' = Places(e)
    BY <1>2, PlacesMove DEF PlaceIInv
<1> DEFINE Kept == \A e \in SunEvent : Places(e)' = Places(e)
<1>4. UNCHANGED dayVars =>
        /\ UNCHANGED <<firedDays, clock, m_bCalulationHasBeenDone>>
        /\ \A e \in SunEvent : Was(e)' <=> Was(e)
    BY DEF dayVars, Was
<1>5. ASSUME Kept, UNCHANGED dayVars
      PROVE  OnePlaceEach' /\ NewsOnce'
    <2>1. OnePlaceEach'
        BY <1>4, <1>5 DEF PlaceIInv, OnePlaceEach
    <2>2. NewsOnce'
        BY <1>4, <1>5, EventFacts DEF PlaceIInv, NewsOnce
    <2> QED
        BY <2>1, <2>2
<1>6. CASE UNCHANGED vars
    <2>1. Still /\ UNCHANGED dayVars /\ HandsOK'
        BY <1>6 DEF vars, queueVars, history, Still, PlaceIInv, HandsOK
    <2> QED
        BY <1>3, <1>5, <2>1, PlacesOKStep DEF PlaceIInv
<1>7. CASE Next
    <2>1. HandsOK' /\ PlacesOK'
        BY <1>7, Moves, PlacesOKStep DEF PlaceIInv
    <2>2. CASE Clock /\ Still
        <3>1. Kept /\ UNCHANGED <<firedDays, m_bCalulationHasBeenDone>>
            BY <1>3, <2>2, ClockForward DEF PartsIInv
        <3>2. OnePlaceEach'
            BY <3>1 DEF PlaceIInv, OnePlaceEach, Was
        <3>3. NewsOnce'
            <4> SUFFICES ASSUME NEW d \in 0..MaxDay, Places(News(d)) > 0
                         PROVE  /\ d <= clock'.day
                                /\ d = clock'.day /\ DayProofs!HourZero(clock') => m_bCalulationHasBeenDone
                BY <3>1, EventFacts DEF NewsOnce
            <4>1. /\ d <= clock.day
                  /\ d = clock.day /\ DayProofs!HourZero(clock) => m_bCalulationHasBeenDone
                BY DEF PlaceIInv, NewsOnce
            <4>2. /\ clock'.day \in Nat
                  /\ \/ clock'.day = clock.day + 1
                     \/ clock'.day = clock.day /\ (DayProofs!HourZero(clock') => DayProofs!HourZero(clock))
                BY <2>2, ClockForward DEF PartsIInv
            <4> QED
                BY <1>1, <4>1, <4>2
        <3> QED
            BY <2>1, <3>2, <3>3 DEF PlaceIInv
    <2>3. CASE Think /\ Still
        <3>1. Kept /\ UNCHANGED <<firedDays, clock>>
            BY <1>3, <2>3
               DEF Think, Day!CaptureNow, Day!NoCalculation, Day!ResetFlag, Day!NothingDue, Day!Return
        <3>2. OnePlaceEach'
            BY <3>1 DEF PlaceIInv, OnePlaceEach, Was
        <3>3. m_bCalulationHasBeenDone /\ DayProofs!HourZero(clock) => m_bCalulationHasBeenDone'
            BY <1>1, <2>3, SameDay
               DEF Think, DayProofs!CaptureNow, DayProofs!NoCalculation, DayProofs!ResetFlag,
                   DayProofs!NothingDue, DayProofs!calcVars
        <3>4. NewsOnce'
            BY <3>1, <3>3, EventFacts DEF PlaceIInv, NewsOnce
        <3> QED
            BY <2>1, <3>2, <3>4 DEF PlaceIInv
    <2>4. CASE Announce /\ Comes([kind |-> NewCalculation, day |-> clock.day])
        <3>1. /\ ~m_bCalulationHasBeenDone /\ DayProofs!HourZero(clock) /\ m_bCalulationHasBeenDone' = TRUE
              /\ UNCHANGED <<clock, firedDays>>
            BY <2>4, SameDay DEF Announce, DayProofs!Calculate, DayProofs!Return
        <3>2. \A e \in SunEvent : Places(e)' = Places(e) + (IF News(clock.day) = e THEN 1 ELSE 0)
            BY <1>3, <2>4 DEF News
        <3>3. Places(News(clock.day)) = 0
            BY <1>1, <1>2, <3>1, EventFacts DEF PlaceIInv, NewsOnce
        <3>4. OnePlaceEach'
            <4> SUFFICES ASSUME NEW e \in SunEvent
                         PROVE  IF e.kind = NewCalculation THEN Places(e)' <= 1
                                ELSE Places(e)' = IF Was(e) THEN 1 ELSE 0
                BY <3>1 DEF OnePlaceEach, Was
            <4>1. CASE e.kind = NewCalculation
                BY <1>2, <3>2, <3>3, <4>1
            <4>2. CASE e.kind # NewCalculation
                <5>1. News(clock.day) # e
                    BY <1>1, <4>2, EventFacts
                <5> QED
                    BY <1>2, <3>2, <4>2, <5>1 DEF PlaceIInv, OnePlaceEach
            <4> QED
                BY <4>1, <4>2
        <3>5. NewsOnce'
            <4> SUFFICES ASSUME NEW d \in 0..MaxDay, Places(News(d))' > 0
                         PROVE  d <= clock.day
                BY <3>1 DEF NewsOnce
            <4>1. CASE d = clock.day
                BY <1>1, <4>1
            <4>2. CASE d # clock.day
                <5>1. News(clock.day) # News(d)
                    BY <1>1, <4>2, EventFacts
                <5>2. Places(News(d)) > 0
                    BY <1>2, <3>2, <5>1, EventFacts
                <5> QED
                    BY <5>2 DEF PlaceIInv, NewsOnce
            <4> QED
                BY <4>1, <4>2
        <3> QED
            BY <2>1, <3>4, <3>5 DEF PlaceIInv
    <2>5. ASSUME NEW k \in Day!Kinds, Send(k), Comes([kind |-> k, day |-> now.day])
          PROVE  PlaceIInv'
        <3> DEFINE x == [kind |-> k, day |-> now.day]
        <3>1. DayProofs!Fire(k) /\ k \in DayProofs!Kinds
            BY <2>5, SameDay DEF Send
        <3>2. /\ now.day \notin firedDays[k]
              /\ firedDays' = [firedDays EXCEPT ![k] = firedDays[k] \cup {now.day}]
              /\ UNCHANGED <<clock, m_bCalulationHasBeenDone>>
            BY <3>1, DayConstants, DayProofs!FireFacts
               DEF DayProofs!DayEventsAssumption, PartsIInv, DayOK, NeverSet
        <3>3. x \in SunEvent /\ x.kind = k /\ x.day = now.day /\ k # NewCalculation
            BY <1>1, EventFacts DEF SunEvent
        <3>4. \A e \in SunEvent : Places(e)' = Places(e) + (IF x = e THEN 1 ELSE 0)
            BY <1>3, <2>5
        <3>5. Places(x) = 0
            BY <3>2, <3>3 DEF PlaceIInv, OnePlaceEach, Was
        <3>6. \A e \in SunEvent : e.kind # NewCalculation => (Was(e)' <=> Was(e) \/ e = x)
            <4> SUFFICES ASSUME NEW e \in SunEvent, e.kind # NewCalculation
                         PROVE  Was(e)' <=> Was(e) \/ e = x
                OBVIOUS
            <4>1. e.kind \in Day!Kinds /\ (e = x <=> e.kind = k /\ e.day = now.day)
                BY EventFacts
            <4>2. firedDays'[e.kind] = IF e.kind = k THEN firedDays[k] \cup {now.day} ELSE firedDays[e.kind]
                BY <1>1, <3>2, <4>1
            <4> HIDE DEF x
            <4> QED
                BY <4>1, <4>2 DEF Was
        <3> HIDE DEF x
        <3>7. OnePlaceEach'
            <4> SUFFICES ASSUME NEW e \in SunEvent
                         PROVE  IF e.kind = NewCalculation THEN Places(e)' <= 1
                                ELSE Places(e)' = IF Was(e)' THEN 1 ELSE 0
                BY DEF OnePlaceEach
            <4>1. CASE e = x
                BY <3>3, <3>4, <3>5, <3>6, <4>1
            <4>2. CASE e # x
                BY <1>2, <3>4, <3>6, <4>2 DEF PlaceIInv, OnePlaceEach
            <4> QED
                BY <4>1, <4>2
        <3>8. NewsOnce'
            <4>1. ASSUME NEW d \in 0..MaxDay
                  PROVE  Places(News(d))' = Places(News(d))
                <5>1. News(d) # x /\ News(d) \in SunEvent
                    BY <3>3, EventFacts
                <5> QED
                    BY <1>2, <3>4, <5>1
            <4> QED
                BY <3>2, <4>1 DEF PlaceIInv, NewsOnce
        <3> QED
            BY <2>1, <3>7, <3>8 DEF PlaceIInv
    <2>6. CASE /\ UNCHANGED dayVars
               /\ \/ Still \/ Pushed \/ Deleted
                  \/ \E r \in Readers : Popped(r) \/ Delivered(r)
        <3>1. Kept
            BY <1>3, <2>6
        <3> QED
            BY <1>5, <2>1, <2>6, <3>1 DEF PlaceIInv
    <2> QED
        BY <1>7, <2>2, <2>3, <2>4, <2>5, <2>6, Moves DEF PlaceIInv
<1> QED
    BY <1>6, <1>7

THEOREM PlaceInvariance == Spec => []PlaceIInv
<1>1. PartsIInv /\ PlaceIInv /\ [Next]_vars => PlaceIInv'
    BY PlaceStep
<1> QED
    BY <1>1, PlaceInit, Parts, PTL DEF Spec

\* From the round that found it due to the read that returned it, an event is in
\* exactly one place: for any number of readers, any filter and any length of day.
THEOREM NeitherLostNorDoubled == Spec => []OnePlaceEach
<1>1. PlaceIInv => OnePlaceEach
    BY DEF PlaceIInv
<1> QED
    BY <1>1, PlaceInvariance, PTL

\* Each kind of each whole day that has an hour 0 is on its way to the daemon, has
\* reached it, or was deleted by eventExToReceiveQueue, and once.
WholeDaysOnTheirWay ==
    \A d \in 1..(clock.day - 1), k \in Day!Kinds :
        d \in skippedDays \/ Places([kind |-> k, day |-> d]) = 1

\* The promise of the driver from end to end: the schedule sends every event of
\* the day, and the queue keeps each.
THEOREM EveryDaySentOnce == Spec => []WholeDaysOnTheirWay
<1>1. ASSUME PartsIInv, PlaceIInv
      PROVE  WholeDaysOnTheirWay
    <2> SUFFICES ASSUME NEW d \in 1..(clock.day - 1), NEW k \in Day!Kinds, d \notin skippedDays
                 PROVE  Places([kind |-> k, day |-> d]) = 1
        BY DEF WholeDaysOnTheirWay
    <2>1. d \in firedDays[k]
        BY <1>1, SameDay DEF PartsIInv, DayOK, NeverSet, DayProofs!EveryDay, DayProofs!Irregular
    <2>2. d \in 0..MaxDay
        BY <1>1, Dates, DayConstants DEF PartsIInv, DayBounded, DayProofs!DayEventsAssumption
    <2>3. [kind |-> k, day |-> d] \in SunEvent
        BY <2>2 DEF SunEvent
    <2> QED
        BY <1>1, <2>1, <2>3, EventFacts DEF PlaceIInv, OnePlaceEach, Was
<1> QED
    BY <1>1, Parts, PlaceInvariance, PTL

-----------------------------------------------------------------------------
(* The order in which a single receive thread gets the events.              *)

\* The daemon's receive thread, where it has one.
Reader == CHOOSE r \in Readers : TRUE

Held(t) == IF pEvent[t] = NoEvent THEN <<>> ELSE <<pEvent[t]>>

\* All events on their way, the oldest first: a step moves one along this line,
\* adds one at its end or deletes the last.
Line == delivered \o Held(Reader) \o m_receiveList \o Held(Worker)

\* A sequence is its head before its tail.
LEMMA HeadBeforeTail ==
    ASSUME NEW S, NEW s \in Seq(S), s # <<>>
    PROVE  s = <<Head(s)>> \o Tail(s)
<1>1. /\ Len(s) \in Nat \ {0} /\ Head(s) = s[1] /\ Head(s) \in S
      /\ Tail(s) \in Seq(S) /\ Len(Tail(s)) = Len(s) - 1
      /\ \A i \in 1..Len(Tail(s)) : Tail(s)[i] = s[i + 1]
    BY LenProperties, EmptySeq, HeadTailProperties
<1> DEFINE h == <<Head(s)>>
           t == h \o Tail(s)
<1>2. h \in Seq(S) /\ Len(h) = 1 /\ h[1] = s[1]
    BY <1>1
<1> HIDE DEF h
<1>3. /\ t \in Seq(S) /\ Len(t) = Len(h) + Len(Tail(s))
      /\ \A i \in 1..(Len(h) + Len(Tail(s))) :
             t[i] = IF i <= Len(h) THEN h[i] ELSE Tail(s)[i - Len(h)]
    BY <1>1, <1>2, ConcatProperties
<1> HIDE DEF t
<1>4. Len(t) = Len(s) /\ \A i \in 1..Len(s) : t[i] = s[i]
    BY <1>1, <1>2, <1>3
<1>5. t = s
    BY <1>3, <1>4, SeqEqual
<1> QED
    BY <1>5 DEF t, h

LEMMA LineMoves ==
    ASSUME PartsIInv, PlacesOK, Readers = {Reader}
    PROVE  /\ Line \in Seq(SunEvent)
           /\ Still => Line' = Line
           /\ \A x : Comes(x) => Line' = Append(Line, x)
           /\ Pushed => Line' = Line
           /\ Deleted => Line' \in Seq(SunEvent) /\ Line = Append(Line', pEvent[Worker])
           /\ \A r \in Readers : Popped(r) \/ Delivered(r) => Line' = Line
<1> DEFINE D == delivered
           H == Held(Reader)
           M == m_receiveList
           W == Held(Worker)
           S == Seq(SunEvent)
<1>1. /\ Reader \in Readers /\ Reader # Worker
      /\ Reader \in Queue!Threads /\ Worker \in Queue!Threads /\ NoEvent \notin SunEvent
      /\ pEvent \in [Queue!Threads -> SunEvent \cup {NoEvent}]
    BY QueueTypes
<1>2. <<>> \in S /\ \A e \in SunEvent : <<e>> \in S
    BY EmptySeq
<1>3. D \in S /\ H \in S /\ M \in S /\ W \in S
    BY <1>1, <1>2 DEF PlacesOK, Held
<1>4. \A s, t \in S : s \o t \in S
    BY ConcatProperties
<1>5. \A s, t, u \in S : (s \o t) \o u = s \o (t \o u)
    BY ConcatAssociative
<1>6. \A s \in S : s \o <<>> = s /\ <<>> \o s = s
    BY ConcatEmptySeq
<1>7. \A s \in S, e \in SunEvent : Append(s, e) = s \o <<e>>
    BY AppendIsConcat
<1>8. Line = ((D \o H) \o M) \o W /\ Line' = ((D' \o H') \o M') \o W'
    BY DEF Line
<1>9. \A t \in Queue!Threads : \A e : Passes(t, e) =>
          /\ Held(t)' = IF e = NoEvent THEN <<>> ELSE <<e>>
          /\ \A u \in Queue!Threads \ {t} : Held(u)' = Held(u)
    BY <1>1 DEF Passes, Held
<1>10. Line \in S
    BY <1>3, <1>4, <1>8
<1>11. ASSUME Still
       PROVE  Line' = Line
    BY <1>11 DEF Still, Line, Held
<1>12. ASSUME NEW x, Comes(x)
       PROVE  Line' = Append(Line, x)
    <2>1. x \in SunEvent /\ W = <<>> /\ W' = <<x>> /\ D' = D /\ H' = H /\ M' = M
        BY <1>1, <1>9, <1>12 DEF Comes, Held
    <2> DEFINE K == (D \o H) \o M
    <2>2. K \in S
        BY <1>3, <1>4
    <2>3. Line = K \o <<>> /\ Line' = K \o <<x>>
        BY <1>8, <2>1
    <2> HIDE DEF K
    <2> QED
        BY <1>6, <1>7, <2>1, <2>2, <2>3
<1>13. ASSUME Pushed
       PROVE  Line' = Line
    <2> DEFINE w == pEvent[Worker]
               K == D \o H
    <2>1. w \in SunEvent /\ W = <<w>> /\ W' = <<>> /\ D' = D /\ H' = H /\ M' = Append(M, w)
        BY <1>1, <1>9, <1>13 DEF Pushed, Held
    <2>2. K \in S /\ <<w>> \in S /\ M' = M \o <<w>> /\ M' \in S
        BY <1>2, <1>3, <1>4, <1>7, <2>1
    <2>3. Line = (K \o M) \o <<w>> /\ Line' = (K \o M') \o <<>>
        BY <1>8, <2>1
    <2>4. Line' = K \o (M \o <<w>>)
        BY <1>4, <1>6, <2>2, <2>3
    <2> HIDE DEF K, w, M
    <2> QED
        BY <1>3, <1>5, <2>2, <2>3, <2>4
<1>14. ASSUME Deleted
       PROVE  Line' \in S /\ Line = Append(Line', pEvent[Worker])
    <2> DEFINE w == pEvent[Worker]
               K == (D \o H) \o M
    <2>1. w \in SunEvent /\ W = <<w>> /\ W' = <<>> /\ D' = D /\ H' = H /\ M' = M
        BY <1>1, <1>9, <1>14 DEF Deleted, Held
    <2>2. K \in S
        BY <1>3, <1>4
    <2>3. Line = K \o <<w>> /\ Line' = K \o <<>>
        BY <1>8, <2>1
    <2> HIDE DEF K
    <2> QED
        BY <1>6, <1>7, <2>1, <2>2, <2>3
<1>15. ASSUME Popped(Reader)
       PROVE  Line' = Line
    <2> DEFINE h == Head(M)
               T == Tail(M)
    <2>1. /\ M # <<>> /\ h \in SunEvent /\ T \in S /\ M = <<h>> \o T
        BY <1>3, <1>15, HeadTailProperties, HeadBeforeTail DEF Popped
    <2>2. H = <<>> /\ H' = <<h>> /\ D' = D /\ W' = W /\ M' = T
        BY <1>1, <1>9, <1>15, <2>1 DEF Popped, Held
    <2>3. Line = ((D \o <<>>) \o (<<h>> \o T)) \o W /\ Line' = ((D \o <<h>>) \o T) \o W
        BY <1>8, <2>1, <2>2
    <2>4. <<h>> \in S
        BY <1>2, <2>1
    <2>5. (D \o <<>>) \o (<<h>> \o T) = (D \o <<h>>) \o T
        BY <1>3, <1>5, <1>6, <2>1, <2>4
    <2> QED
        BY <2>3, <2>5
<1>16. ASSUME Delivered(Reader)
       PROVE  Line' = Line
    <2> DEFINE h == pEvent[Reader]
    <2>1. h \in SunEvent /\ H = <<h>> /\ H' = <<>> /\ D' = Append(D, h) /\ W' = W /\ M' = M
        BY <1>1, <1>9, <1>16 DEF Delivered, Held
    <2>2. D' = D \o <<h>> /\ D' \in S
        BY <1>2, <1>3, <1>4, <1>7, <2>1
    <2> QED
        BY <1>6, <1>8, <2>1, <2>2
<1> QED
    BY <1>10, <1>11, <1>12, <1>13, <1>14, <1>15, <1>16

\* What was delivered heads the line.
LEMMA DeliveredFirst ==
    ASSUME PartsIInv, PlacesOK, Readers = {Reader}
    PROVE  /\ Len(delivered) \in Nat /\ DOMAIN delivered = 1..Len(delivered)
           /\ 1..Len(delivered) \subseteq DOMAIN Line
           /\ \A i \in 1..Len(delivered) : Line[i] = delivered[i]
<1> DEFINE d == delivered
           u == Held(Reader) \o (m_receiveList \o Held(Worker))
<1>1. /\ Reader \in Queue!Threads /\ Worker \in Queue!Threads
      /\ pEvent \in [Queue!Threads -> SunEvent \cup {NoEvent}]
    BY QueueTypes
<1>2. Held(Reader) \in Seq(SunEvent) /\ Held(Worker) \in Seq(SunEvent)
    BY <1>1, EmptySeq DEF Held
<1>3. d \in Seq(SunEvent) /\ m_receiveList \in Seq(SunEvent)
    BY DEF PlacesOK
<1>4. /\ m_receiveList \o Held(Worker) \in Seq(SunEvent)
      /\ d \o Held(Reader) \in Seq(SunEvent)
      /\ u \in Seq(SunEvent)
    BY <1>2, <1>3, ConcatProperties
<1>5. Line = d \o u
    <2>1. Line = ((d \o Held(Reader)) \o m_receiveList) \o Held(Worker)
        BY DEF Line
    <2>2. \A s, t, v \in Seq(SunEvent) : (s \o t) \o v = s \o (t \o v)
        BY ConcatAssociative
    <2> DEFINE a == d \o Held(Reader)
    <2>3. Line = a \o (m_receiveList \o Held(Worker))
        <3>1. a \in Seq(SunEvent)
            BY <1>4
        <3>2. Line = (a \o m_receiveList) \o Held(Worker)
            BY <2>1
        <3> HIDE DEF a
        <3> QED
            BY <1>2, <1>3, <2>2, <3>1, <3>2
    <2> HIDE DEF d
    <2> QED
        BY <1>2, <1>3, <1>4, <2>2, <2>3
<1> HIDE DEF d, u
<1>6. Line \in Seq(SunEvent) /\ Len(Line) = Len(d) + Len(u)
      /\ \A i \in 1..(Len(d) + Len(u)) : Line[i] = IF i <= Len(d) THEN d[i] ELSE u[i - Len(d)]
    BY <1>3, <1>4, <1>5, ConcatProperties
<1>7. /\ Len(d) \in Nat /\ Len(u) \in Nat /\ DOMAIN d = 1..Len(d)
      /\ DOMAIN Line = 1..(Len(d) + Len(u))
    BY <1>3, <1>4, <1>6, LenProperties
<1>8. \A i \in 1..Len(d) : i \in 1..(Len(d) + Len(u)) /\ i <= Len(d)
    BY <1>7
<1>9. \A i \in 1..Len(d) : Line[i] = d[i]
    BY <1>6, <1>8
<1> QED
    BY <1>7, <1>8, <1>9 DEF d

\* The days do not fall along the sequence, and the calculation of a day is
\* announced in it before the day's events, unless that was deleted.
InOrder(s, skipped, gone) ==
    \A i \in DOMAIN s :
        /\ \A j \in 1..(i - 1) : s[j].day <= s[i].day
        /\ \/ s[i].day = 0 \/ s[i].day \in skipped \/ News(s[i].day) \in gone
           \/ \E j \in 1..i : s[j] = News(s[i].day)

\* The announcement of a day's calculation is in the sequence or was deleted.
Told(d, s, gone) == d = 0 \/ News(d) \in gone \/ \E j \in DOMAIN s : s[j] = News(d)

UpTo(d, s) == \A i \in DOMAIN s : s[i].day <= d

\* The latest day that an event on its way may be of.
LastDay == IF step = "top" THEN clock.day ELSE now.day

\* The order of all events on their way, and what the next round may rely on.
LineIInv ==
    /\ UpTo(LastDay, Line)
    /\ InOrder(Line, skippedDays, dropped)
    /\ Told(m_lastCalculation.day, Line, dropped)

\* The sequence grows at its end by an event of its last day or a later one.
LEMMA OrderAppend ==
    ASSUME NEW s \in Seq(SunEvent), NEW x \in SunEvent, NEW skipped, NEW gone,
           InOrder(s, skipped, gone), UpTo(x.day, s),
           x.day \in skipped \/ Told(x.day, Append(s, x), gone)
    PROVE  /\ InOrder(Append(s, x), skipped, gone)
           /\ UpTo(x.day, Append(s, x))
<1> DEFINE t == Append(s, x)
           n == Len(s)
<1>1. /\ n \in Nat /\ DOMAIN s = 1..n
      /\ DOMAIN t = 1..(n + 1) /\ t[n + 1] = x
      /\ \A i \in 1..n : t[i] = s[i]
    BY LenProperties, AppendProperties
<1>2. x.day \in Nat
    BY EventFacts, DayConstants DEF DayProofs!DayEventsAssumption
<1> HIDE DEF t, n
<1>3. ASSUME NEW i \in 1..(n + 1), NEW j \in 1..(i - 1)
      PROVE  t[j].day <= t[i].day
    <2>1. CASE i = n + 1
        BY <1>1, <1>3, <2>1 DEF UpTo
    <2>2. CASE i \in 1..n
        BY <1>1, <1>3, <2>2 DEF InOrder
    <2> QED
        BY <1>1, <2>1, <2>2
<1>4. ASSUME NEW i \in 1..(n + 1)
      PROVE  \/ t[i].day = 0 \/ t[i].day \in skipped \/ News(t[i].day) \in gone
             \/ \E j \in 1..i : t[j] = News(t[i].day)
    <2>1. CASE i = n + 1
        BY <1>1, <2>1 DEF Told, t
    <2>2. CASE i \in 1..n
        <3>1. \A j \in 1..i : t[j] = s[j]
            BY <1>1, <2>2
        <3> QED
            BY <1>1, <2>2, <3>1 DEF InOrder
    <2> QED
        BY <1>1, <2>1, <2>2
<1>5. InOrder(t, skipped, gone)
    BY <1>1, <1>3, <1>4 DEF InOrder
<1>6. UpTo(x.day, t)
    BY <1>1, <1>2 DEF UpTo
<1> QED
    BY <1>5, <1>6 DEF t

\* Its last event is deleted.
LEMMA OrderDelete ==
    ASSUME NEW s \in Seq(SunEvent), NEW x \in SunEvent, NEW skipped, NEW gone,
           InOrder(Append(s, x), skipped, gone)
    PROVE  /\ InOrder(s, skipped, gone \cup {x})
           /\ \A d : UpTo(d, Append(s, x)) => UpTo(d, s)
           /\ \A d : Told(d, Append(s, x), gone) => Told(d, s, gone \cup {x})
<1> DEFINE t == Append(s, x)
           n == Len(s)
<1>1. /\ n \in Nat /\ DOMAIN s = 1..n
      /\ DOMAIN t = 1..(n + 1) /\ t[n + 1] = x
      /\ \A i \in 1..n : t[i] = s[i]
    BY LenProperties, AppendProperties
<1>2. InOrder(t, skipped, gone)
    OBVIOUS
<1> HIDE DEF t, n
<1>3. InOrder(s, skipped, gone \cup {x})
    <2>1. ASSUME NEW i \in 1..n
          PROVE  /\ i \in 1..(n + 1) /\ t[i] = s[i]
                 /\ \A j \in 1..i : j \in 1..n /\ t[j] = s[j]
                 /\ 1..(i - 1) \subseteq 1..i
        BY <1>1
    <2> QED
        BY <1>1, <1>2, <2>1 DEF InOrder
<1>4. ASSUME NEW d, UpTo(d, t)
      PROVE  UpTo(d, s)
    BY <1>1, <1>4 DEF UpTo
<1>5. ASSUME NEW d, Told(d, t, gone)
      PROVE  Told(d, s, gone \cup {x})
    <2>1. ASSUME NEW j \in 1..(n + 1), t[j] = News(d)
          PROVE  Told(d, s, gone \cup {x})
        <3>1. CASE j = n + 1
            BY <1>1, <2>1, <3>1 DEF Told
        <3>2. CASE j \in 1..n
            BY <1>1, <2>1, <3>2 DEF Told
        <3> QED
            BY <1>1, <3>1, <3>2
    <2> QED
        BY <1>1, <1>5, <2>1 DEF Told
<1> QED
    BY <1>3, <1>4, <1>5 DEF t

\* More days are skipped, or later days allowed.
LEMMA OrderRelax ==
    ASSUME NEW s \in Seq(SunEvent), NEW gone, NEW skipped, NEW more, skipped \subseteq more
    PROVE  /\ InOrder(s, skipped, gone) => InOrder(s, more, gone)
           /\ \A c, d \in Nat : c <= d /\ UpTo(c, s) => UpTo(d, s)
<1>1. \A i \in DOMAIN s : s[i] \in SunEvent /\ s[i].day \in Nat
    <2>1. \A i \in DOMAIN s : s[i] \in SunEvent
        BY LenProperties
    <2> QED
        BY <2>1, EventFacts, DayConstants DEF DayProofs!DayEventsAssumption
<1>2. InOrder(s, skipped, gone) => InOrder(s, more, gone)
    BY DEF InOrder
<1>3. \A c, d \in Nat : c <= d /\ UpTo(c, s) => UpTo(d, s)
    BY <1>1 DEF UpTo
<1> QED
    BY <1>2, <1>3

\* The round in which an event is sent knows the day and its calculation.
LEMMA RoundsInOrder ==
    ASSUME PartsIInv
    PROVE  /\ LastDay \in Nat
           /\ Clock \/ Think =>
                  /\ LastDay' \in Nat /\ LastDay <= LastDay'
                  /\ skippedDays \subseteq skippedDays' /\ UNCHANGED m_lastCalculation
           /\ Announce =>
                  /\ LastDay' = clock.day /\ LastDay <= clock.day
                  /\ UNCHANGED skippedDays /\ m_lastCalculation' = clock
           /\ \A k \in Day!Kinds : Send(k) =>
                  /\ LastDay' \in Nat /\ LastDay = now.day /\ now.day <= LastDay'
                  /\ UNCHANGED <<skippedDays, m_lastCalculation>>
                  /\ now.day \in skippedDays \/ m_lastCalculation.day = now.day
<1>1. /\ clock.day \in Nat /\ now.day \in Nat /\ now.day <= clock.day
      /\ step \in {"top", "calc", "reset", "fire"}
    BY Dates DEF PartsIInv
<1>2. LastDay \in Nat
    BY <1>1 DEF LastDay
<1>3. ASSUME Clock
      PROVE  /\ LastDay' \in Nat /\ LastDay <= LastDay'
             /\ skippedDays \subseteq skippedDays' /\ UNCHANGED m_lastCalculation
    BY <1>1, <1>3, ClockForward DEF PartsIInv, LastDay
<1>4. ASSUME Think
      PROVE  /\ LastDay' \in Nat /\ LastDay <= LastDay'
             /\ skippedDays \subseteq skippedDays' /\ UNCHANGED m_lastCalculation
    <2> USE DEF LastDay, Day!calcVars
    <2>1. CASE Day!CaptureNow
        BY <1>1, <2>1 DEF Day!CaptureNow
    <2>2. CASE Day!NoCalculation
        BY <1>1, <2>2 DEF Day!NoCalculation
    <2>3. CASE Day!ResetFlag
        BY <1>1, <2>3 DEF Day!ResetFlag
    <2>4. CASE Day!NothingDue
        BY <1>1, <2>4 DEF Day!NothingDue, Day!Return
    <2> QED
        BY <1>4, <2>1, <2>2, <2>3, <2>4, Zenon DEF Think
<1>5. ASSUME Announce
      PROVE  /\ LastDay' = clock.day /\ LastDay <= clock.day
             /\ UNCHANGED skippedDays /\ m_lastCalculation' = clock
    BY <1>1, <1>5 DEF Announce, Day!Calculate, Day!doCalc, Day!Return, LastDay
<1>6. ASSUME NEW k \in Day!Kinds, Send(k)
      PROVE  /\ LastDay' \in Nat /\ LastDay = now.day /\ now.day <= LastDay'
             /\ UNCHANGED <<skippedDays, m_lastCalculation>>
             /\ now.day \in skippedDays \/ m_lastCalculation.day = now.day
    <2>1. step = "fire" /\ Day!Return /\ UNCHANGED m_lastCalculation
        BY <1>6 DEF Send, Day!Fire
    <2>2. now.day \in skippedDays \/ m_lastCalculation.day = now.day
        BY <2>1 DEF PartsIInv, DayOK, NeverSet, DayProofs!ClockIInv, DayProofs!RoundKnowsDay,
                       DayProofs!RoundIsOfCalculation, DayProofs!Irregular
    <2> QED
        BY <1>1, <2>1, <2>2 DEF Day!Return, LastDay
<1> QED
    BY <1>2, <1>3, <1>4, <1>5, <1>6

LEMMA LineInit == ASSUME Readers = {Reader} PROVE Init => LineIInv
<1> SUFFICES ASSUME Init
             PROVE  LineIInv
    OBVIOUS
<1>1. Reader \in Queue!Threads /\ Worker \in Queue!Threads
    BY DEF Queue!Threads
<1>2. Held(Reader) = <<>> /\ Held(Worker) = <<>> /\ m_receiveList = <<>> /\ delivered = <<>>
    BY <1>1 DEF Init, Queue!Init, Held
<1>3. Line = <<>>
    BY <1>2, EmptySeq, ConcatEmptySeq DEF Line
<1>4. DOMAIN Line = {}
    BY <1>3
<1>5. m_lastCalculation.day = 0
    BY DEF Init, Day!Init, Day!At
<1> QED
    BY <1>4, <1>5 DEF LineIInv, InOrder, UpTo, Told

LEMMA LineStep ==
    ASSUME Readers = {Reader}
    PROVE  PartsIInv /\ PlaceIInv /\ LineIInv /\ [Next]_vars => LineIInv'
<1> SUFFICES ASSUME PartsIInv, PlaceIInv, LineIInv, [Next]_vars
             PROVE  LineIInv'
    OBVIOUS
<1>1. PlacesOK /\ HandsOK
    BY DEF PlaceIInv
<1>2. /\ Line \in Seq(SunEvent)
      /\ Still \/ Pushed => Line' = Line
      /\ \A x : Comes(x) => Line' = Append(Line, x)
      /\ Deleted => Line' \in Seq(SunEvent) /\ Line = Append(Line', pEvent[Worker])
      /\ \A r \in Readers : Popped(r) \/ Delivered(r) => Line' = Line
    BY <1>1, LineMoves
<1>3. LineIInv' <=> /\ UpTo(LastDay', Line')
                    /\ InOrder(Line', skippedDays', dropped')
                    /\ Told(m_lastCalculation'.day, Line', dropped')
    BY DEF LineIInv, UpTo, InOrder, Told, News
<1>4. ASSUME Line' = Line, dropped' = dropped, LastDay' \in Nat, LastDay <= LastDay',
             skippedDays \subseteq skippedDays', m_lastCalculation' = m_lastCalculation
      PROVE  LineIInv'
    <2>1. LastDay \in Nat
        BY RoundsInOrder
    <2>2. UpTo(LastDay', Line)
        BY <1>2, <1>4, <2>1, OrderRelax DEF LineIInv
    <2>3. InOrder(Line, skippedDays', dropped)
        BY <1>2, <1>4, OrderRelax DEF LineIInv
    <2> QED
        BY <1>3, <1>4, <2>2, <2>3 DEF LineIInv
<1>5. UNCHANGED dayVars => /\ LastDay' = LastDay /\ LastDay' \in Nat
                           /\ UNCHANGED <<skippedDays, m_lastCalculation>>
    BY RoundsInOrder DEF dayVars, LastDay
<1>6. CASE UNCHANGED vars
    <2>1. Line' = Line /\ dropped' = dropped /\ UNCHANGED dayVars
        BY <1>6 DEF vars, queueVars, history, Line, Held
    <2> QED
        BY <1>4, <1>5, <2>1
<1>7. CASE (Clock \/ Think) /\ Still
    BY <1>2, <1>4, <1>7, RoundsInOrder DEF Still
<1>8. CASE Announce /\ Comes([kind |-> NewCalculation, day |-> clock.day])
    <2> DEFINE x == News(clock.day)
    <2>1. x \in SunEvent /\ Line' = Append(Line, x) /\ dropped' = dropped
        BY <1>2, <1>8 DEF Comes, News
    <2>2. x.day = clock.day
        BY DEF News
    <2>3. /\ LastDay \in Nat /\ clock.day \in Nat
          /\ LastDay' = clock.day /\ LastDay <= clock.day
          /\ UNCHANGED skippedDays /\ m_lastCalculation' = clock
        BY <1>8, RoundsInOrder, Dates DEF PartsIInv
    <2> HIDE DEF x
    <2>4. UpTo(x.day, Line)
        BY <1>2, <2>2, <2>3, OrderRelax DEF LineIInv
    <2>5. Told(x.day, Append(Line, x), dropped)
        <3>1. /\ Len(Line) \in Nat /\ DOMAIN Append(Line, x) = 1..(Len(Line) + 1)
              /\ Append(Line, x)[Len(Line) + 1] = x
            BY <1>2, <2>1, LenProperties, AppendProperties
        <3>2. x = News(x.day)
            BY <2>2 DEF x
        <3> QED
            BY <3>1, <3>2 DEF Told
    <2>6. /\ InOrder(Append(Line, x), skippedDays, dropped)
          /\ UpTo(x.day, Append(Line, x))
        BY <1>2, <2>1, <2>4, <2>5, OrderAppend DEF LineIInv
    <2> QED
        BY <1>3, <2>1, <2>2, <2>3, <2>5, <2>6
<1>9. ASSUME NEW k \in Day!Kinds, Send(k), Comes([kind |-> k, day |-> now.day])
      PROVE  LineIInv'
    <2> DEFINE x == [kind |-> k, day |-> now.day]
    <2>1. x \in SunEvent /\ x.day = now.day /\ Line' = Append(Line, x) /\ dropped' = dropped
        BY <1>2, <1>9 DEF Comes
    <2> HIDE DEF x
    <2>2. /\ LastDay' \in Nat /\ LastDay = now.day /\ now.day <= LastDay' /\ now.day \in Nat
          /\ UNCHANGED <<skippedDays, m_lastCalculation>>
          /\ now.day \in skippedDays \/ m_lastCalculation.day = now.day
        BY <1>9, RoundsInOrder, Dates DEF PartsIInv
    <2>3. UpTo(x.day, Line)
        BY <2>1, <2>2 DEF LineIInv
    <2>4. \A d : Told(d, Line, dropped) => Told(d, Append(Line, x), dropped)
        <3>1. /\ Len(Line) \in Nat /\ DOMAIN Line = 1..Len(Line)
              /\ DOMAIN Append(Line, x) = 1..(Len(Line) + 1)
              /\ \A i \in 1..Len(Line) : Append(Line, x)[i] = Line[i]
            BY <1>2, <2>1, LenProperties, AppendProperties
        <3> QED
            BY <3>1 DEF Told
    <2>5. x.day \in skippedDays \/ Told(x.day, Append(Line, x), dropped)
        BY <2>1, <2>2, <2>4 DEF LineIInv
    <2>6. /\ InOrder(Append(Line, x), skippedDays, dropped)
          /\ UpTo(x.day, Append(Line, x))
        BY <1>2, <2>1, <2>3, <2>5, OrderAppend DEF LineIInv
    <2>7. Append(Line, x) \in Seq(SunEvent)
        BY <1>2, <2>1, AppendProperties
    <2>8. UpTo(LastDay', Append(Line, x))
        BY <2>1, <2>2, <2>6, <2>7, OrderRelax
    <2> QED
        BY <1>3, <2>1, <2>2, <2>4, <2>6, <2>8 DEF LineIInv
<1>10. CASE Deleted /\ UNCHANGED dayVars
    <2> DEFINE x == pEvent[Worker]
    <2>1. /\ x \in SunEvent /\ dropped' = dropped \cup {x}
          /\ Line' \in Seq(SunEvent) /\ Line = Append(Line', x)
        BY <1>2, <1>10 DEF Deleted
    <2> DEFINE s == Line'
    <2>2. s \in Seq(SunEvent) /\ Line = Append(s, x)
        BY <2>1
    <2> HIDE DEF x, s
    <2>3. /\ InOrder(Append(s, x), skippedDays, dropped)
          /\ UpTo(LastDay, Append(s, x))
          /\ Told(m_lastCalculation.day, Append(s, x), dropped)
        BY <2>2 DEF LineIInv
    <2>4. /\ InOrder(s, skippedDays, dropped \cup {x})
          /\ UpTo(LastDay, s)
          /\ Told(m_lastCalculation.day, s, dropped \cup {x})
        BY <2>1, <2>2, <2>3, OrderDelete
    <2> QED
        BY <1>3, <1>5, <1>10, <2>1, <2>4 DEF s
<1>11. CASE /\ UNCHANGED dayVars
            /\ Still \/ Pushed \/ \E r \in Readers : Popped(r) \/ Delivered(r)
    <2>1. Line' = Line /\ dropped' = dropped
        BY <1>2, <1>11 DEF Still, Pushed, Popped, Delivered
    <2> QED
        BY <1>4, <1>5, <1>11, <2>1
<1>12. CASE Next
    BY <1>1, <1>7, <1>8, <1>9, <1>10, <1>11, <1>12, Moves
<1> QED
    BY <1>6, <1>12

\* With one receive thread, as the daemon has, the daemon learns of a day's
\* calculation before the events of the day, and of the days in their order.  Of
\* two threads the second may copy its event first, so this is as far as it goes.
THEOREM CalculationIsFirst ==
    ASSUME NEW r, Readers = {r}
    PROVE  Spec => []CalculationFirst
<1>1. Readers = {Reader}
    BY DEF Reader
<1>2. Init => LineIInv
    BY <1>1, LineInit
<1>3. PartsIInv /\ PlaceIInv /\ LineIInv /\ [Next]_vars => LineIInv'
    BY <1>1, LineStep
<1>4. PartsIInv /\ PlaceIInv /\ LineIInv => CalculationFirst
    <2> SUFFICES ASSUME PartsIInv, PlaceIInv, LineIInv
                 PROVE  CalculationFirst
        OBVIOUS
    <2> DEFINE n == Len(delivered)
    <2>1. /\ n \in Nat /\ DOMAIN delivered = 1..n
          /\ 1..n \subseteq DOMAIN Line
          /\ \A i \in 1..n : Line[i] = delivered[i]
        BY <1>1, DeliveredFirst DEF PlaceIInv
    <2> HIDE DEF n
    <2> SUFFICES ASSUME NEW i \in 1..n
                 PROVE  /\ \A j \in 1..(i - 1) : delivered[j].day <= delivered[i].day
                        /\ \/ delivered[i].day = 0 \/ delivered[i].day \in skippedDays
                           \/ delivered[i] = News(delivered[i].day)
                           \/ News(delivered[i].day) \in dropped
                           \/ \E j \in 1..(i - 1) : delivered[j] = News(delivered[i].day)
        BY <2>1 DEF CalculationFirst, News
    <2>2. /\ \A j \in 1..(i - 1) : Line[j].day <= Line[i].day
          /\ \/ Line[i].day = 0 \/ Line[i].day \in skippedDays \/ News(Line[i].day) \in dropped
             \/ \E j \in 1..i : Line[j] = News(Line[i].day)
        BY <2>1 DEF LineIInv, InOrder
    <2>3. Line[i] = delivered[i] /\ \A j \in 1..(i - 1) : j \in 1..n /\ Line[j] = delivered[j]
        BY <2>1
    <2>4. \A j \in 1..i : j = i \/ j \in 1..(i - 1)
        BY <2>1
    <2> QED
        BY <2>2, <2>3, <2>4
<1> QED
    BY <1>2, <1>3, <1>4, Parts, PlaceInvariance, PTL DEF Spec
=============================================================================
