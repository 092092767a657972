----------------------------- MODULE SunEvents ------------------------------
(***************************************************************************)
(* A sun event on its whole way: DayEvents and ReceiveQueue put together.   *)
(* doWork (common/automation.cpp) ends in `return eventExToReceiveQueue(ex)` *)
(* wherever it sends something, so a round that sends ends inside the queue  *)
(* and the next one begins when the worker is out of it again; the daemon's  *)
(* receive thread reads meanwhile.  MaxQueue bounds the list: the worker of  *)
(* the model waits for the reader when it is full, the code's list grows.    *)
(* The clock is not set here (SetClock and ResetClock of DayEvents do that). *)
(***************************************************************************)
EXTENDS Integers, Sequences, FiniteSets

CONSTANTS
    MinutesPerDay, MinutesPerHour, Almanac, SpanDays, Rounds, MaxDay, MaxMissed,
    MaxResets, MaxResetDay,
                    \* of DayEvents
    Readers, Worker, NoEvent, NoThread, MaxQueue,
                    \* of ReceiveQueue
    AcceptedKinds,  \* the kinds of events that pass m_vscpfilter
    MaxFailures     \* bound: how many events cannot be converted

VARIABLES
    clock, now, step, due, m_bCalulationHasBeenDone, m_lastCalculation, rounds,
    firedDays, skippedDays, missed, resets, resetDays,
                                \* of DayEvents, `step` being its pc
    m_receiveList, m_semReceiveQueue, m_mutexReceiveQueue, pc, pEvent, rv,
                                \* of ReceiveQueue
    delivered,      \* history: the events that VSCPRead returned, in this order
    dropped         \* history: the events that eventExToReceiveQueue deleted

Day == INSTANCE DayEvents WITH pc <- step

NewCalculation == "NEW_CALCULATION"
SunEvent == [kind : Day!Kinds \cup {NewCalculation}, day : 0..MaxDay]

AcceptedEvents == {e \in SunEvent : e.kind \in AcceptedKinds}

Queue == INSTANCE ReceiveQueue WITH Events <- SunEvent, Accepted <- AcceptedEvents

\* What the two parts assume; and a second day, since open() may meet midnight.
ASSUME SunEventsAssumption ==
    /\ Day!DayEventsAssumption
    /\ Queue!ReceiveQueueAssumption
    /\ MaxDay > 0
    /\ AcceptedKinds \subseteq Day!Kinds \cup {NewCalculation}

dayVars == <<clock, now, step, due, m_bCalulationHasBeenDone, m_lastCalculation,
             rounds, firedDays, skippedDays, missed, resets, resetDays>>
queueVars == <<m_receiveList, m_semReceiveQueue, m_mutexReceiveQueue, pc, pEvent, rv>>
history == <<delivered, dropped>>
vars == <<dayVars, queueVars, history>>

Init ==
    /\ Day!Init
    /\ Queue!Init
    /\ delivered = <<>>
    /\ dropped = {}

-----------------------------------------------------------------------------
\* The clock moves, whatever the threads are doing.
Clock ==
    /\ Day!Tick \/ Day!TickOverMidnight
    /\ UNCHANGED <<queueVars, history>>

\* Mutant of Announce: doWork returns before it sends NEW_CALCULATION.
AnnounceNot ==
    /\ Day!Calculate
    /\ UNCHANGED <<queueVars, history>>

\* A round that sends something enters eventExToReceiveQueue with it.
Announce ==
    /\ Day!Calculate
    /\ Queue!EventExToReceiveQueue([kind |-> NewCalculation, day |-> clock.day])
    /\ UNCHANGED history

\* Mutant of Send: one of the five blocks of doWork names another's event.
SendMislabelled(k) ==
    /\ Day!Fire(k)
    /\ Queue!EventExToReceiveQueue(
           [kind |-> IF k = "SUNSET" THEN "SUNRISE" ELSE k, day |-> now.day])
    /\ UNCHANGED history

Send(k) ==
    /\ Day!Fire(k)
    /\ Queue!EventExToReceiveQueue([kind |-> k, day |-> now.day])
    /\ UNCHANGED history

\* The rest of doWork, once the worker is out of eventExToReceiveQueue.
Think ==
    /\ pc[Worker] = "idle"
    /\ Day!CaptureNow \/ Day!NoCalculation \/ Day!ResetFlag \/ Day!NothingDue
    /\ UNCHANGED <<queueVars, history>>

\* Mutant of Enqueue: the mutex is not given back.
EnqueueLocked ==
    /\ Queue!WorkerLocks \/ Queue!PushBack \/ Queue!SemPost
    /\ UNCHANGED <<dayVars, history>>

\* eventExToReceiveQueue keeps the event,
Enqueue ==
    /\ Queue!WorkerLocks \/ Queue!PushBack \/ Queue!SemPost \/ Queue!WorkerUnlocks
    /\ UNCHANGED <<dayVars, history>>

\* or deletes it.
Drop ==
    /\ \/ Queue!ConvertFails /\ Cardinality(dropped \cap AcceptedEvents) < MaxFailures
       \/ Queue!FilterRejects
    /\ dropped' = dropped \cup {pEvent[Worker]}
    /\ UNCHANGED <<dayVars, delivered>>

\* VSCPRead up to its last step,
Read(r) ==
    /\ \/ Queue!VSCPRead(r) \/ Queue!SemWait(r) \/ Queue!SemTimedOut(r)
       \/ Queue!SemFails(r) \/ Queue!ReaderLocks(r) \/ Queue!PopFront(r)
       \/ Queue!ReaderUnlocks(r)
    /\ UNCHANGED <<dayVars, history>>

\* which hands the event over.
Deliver(r) ==
    /\ Queue!CopyAndDelete(r)
    /\ delivered' = Append(delivered, pEvent[r])
    /\ UNCHANGED <<dayVars, dropped>>

WorkerNext == Announce \/ (\E k \in Day!Kinds : Send(k)) \/ Think \/ Enqueue \/ Drop

Next ==
    \/ Clock
    \/ WorkerNext
    \/ \E r \in Readers : Read(r) \/ Deliver(r)

(* Time passes; the worker loops for ever; the daemon's receive thread calls *)
(* VSCPRead again and again and is not refused the mutex for ever, and the   *)
(* wait does not fail every time that an event is there.                     *)
Fairness ==
    /\ WF_vars(Clock)
    /\ WF_vars(WorkerNext)
    /\ SF_vars(Queue!WorkerLocks /\ UNCHANGED <<dayVars, history>>)
    /\ \A r \in Readers :
        /\ WF_vars(Read(r) \/ Deliver(r))
        /\ SF_vars(Queue!SemWait(r) /\ UNCHANGED <<dayVars, history>>)
        /\ SF_vars(Queue!ReaderLocks(r) /\ UNCHANGED <<dayVars, history>>)

Spec == Init /\ [][Next]_vars
FairSpec == Spec /\ Fairness

-----------------------------------------------------------------------------
(* Properties.                                                              *)

Times(e, s) == Cardinality({i \in DOMAIN s : s[i] = e})
Holders(e) == {t \in Queue!Threads : pEvent[t] = e}
Was(e) == e.day \in firedDays[e.kind]

\* In how many places an event is.
Places(e) ==
    Times(e, delivered) + Times(e, m_receiveList) + Cardinality(Holders(e))
        + (IF e \in dropped THEN 1 ELSE 0)

\* An event of the day that was sent is in exactly one place, from the round
\* that found it due to the read that returned it: it is neither lost nor
\* doubled, though the worker's next round begins when the event is on the list
\* and the reader that takes it may have waited for an earlier one.
OnePlaceEach ==
    \A e \in SunEvent :
        IF e.kind = NewCalculation THEN Places(e) <= 1
        ELSE Places(e) = IF Was(e) THEN 1 ELSE 0

\* The daemon learns of the new calculation before it gets an event that was
\* calculated with it, and gets no event of a day after one of the next day.
CalculationFirst ==
    \A i \in DOMAIN delivered :
        LET e == delivered[i]
            news == [kind |-> NewCalculation, day |-> e.day]
        IN  /\ \A j \in 1..(i - 1) : delivered[j].day <= e.day
            /\ \/ e.day = 0 \/ e.day \in skippedDays
               \/ e = news \/ news \in dropped
               \/ \E j \in 1..(i - 1) : delivered[j] = news

\* Every day, each event that the filter lets pass reaches the daemon, unless it
\* could not be converted or the day has no hour 0.
EveryDayDelivered ==
    <>(\A d \in 1..MaxDay, k \in Day!Kinds :
           \/ Times([kind |-> k, day |-> d], delivered) > 0
           \/ [kind |-> k, day |-> d] \in dropped
           \/ d \in skippedDays)
=============================================================================
