----------------------------- MODULE DayEvents ------------------------------
(***************************************************************************)
(* The events of the day: CAutomation's constructor, doCalc and doWork      *)
(* (common/automation.cpp).  Once a day, in the hour after midnight, the    *)
(* worker calculates when the five sun events are due; a later round of its *)
(* loop that falls into the minute of a due time sends that event, sets the *)
(* due time 24 hours ahead and returns, so each round sends one event.      *)
(* doWork reads the clock several times; the clock may move in between, so  *)
(* each read is a step.  The formulas of the almanac are abstracted to the  *)
(* set of their results.                                                    *)
(***************************************************************************)
EXTENDS Integers, FiniteSets

CONSTANTS
    MinutesPerDay,  \* 1440
    MinutesPerHour, \* 60: the minutes whose getHour() is 0 are 0..59
    Almanac,        \* what a calculation may yield: a minute for each kind
    SpanDays,       \* the days that "+= SPAN24" adds to a date
    Rounds,         \* the rounds the worker makes, at least, in a minute
    MaxDay,         \* bound: the last day, counted from the day of open()
    MaxMissed,      \* bound: how many events the clock is set over
    MaxResets,      \* bound: how many times ResetClock sets the clock
    MaxResetDay     \* bound: the last day that it sets it to, from or past

\* The order in which doWork looks at the kinds.
Rank == [SUNRISE |-> 1, SUNRISE_TWILIGHT_START |-> 2, SUNSET |-> 3,
         SUNSET_TWILIGHT_START |-> 4, CALCULATED_NOON |-> 5]

\* The order in which doCalc sets the due times of the kinds.
ArmRank == [SUNRISE_TWILIGHT_START |-> 1, SUNRISE |-> 2, SUNSET |-> 3,
            SUNSET_TWILIGHT_START |-> 4, CALCULATED_NOON |-> 5]

Kinds == DOMAIN Rank
Minutes == 0..(MinutesPerDay - 1)

ASSUME DayEventsAssumption ==
    /\ MinutesPerHour \in Nat \ {0}
    /\ MinutesPerDay \in Nat
    /\ MinutesPerHour < MinutesPerDay
    /\ Almanac \subseteq [Kinds -> Minutes]
    /\ Almanac # {}
    /\ SpanDays \in Nat \ {0}
    /\ Rounds \in Nat
    /\ Rounds > 5
    /\ MaxDay \in Nat
    /\ MaxMissed \in Nat
    /\ MaxResets \in Nat
    /\ MaxResetDay \in Nat

VARIABLES
    clock,      \* what vscpdatetime::Now() returns, to the minute
    now,        \* doWork's local variable
    pc,         \* where the worker is in doWork
    due,        \* m_SunriseTime, m_civilTwilightSunriseTime, ...
    m_bCalulationHasBeenDone,
    m_lastCalculation,
    rounds,     \* the rounds begun and ended in the current minute
    firedDays,  \* history: the days for which each kind was sent
    skippedDays,\* history: the days that had no hour 0
    missed,     \* history: kinds and days that the clock was set over
    resets,     \* how many times ResetClock set the clock
    resetDays   \* history: the days that it set it to, from or past

calcVars == <<due, m_bCalulationHasBeenDone, m_lastCalculation>>
resetVars == <<resets, resetDays>>
vars == <<clock, now, pc, calcVars, rounds, firedDays, skippedDays, missed, resetVars>>

Date == [day : Nat, minute : Minutes]

TypeOK ==
    /\ clock \in Date
    /\ now \in Date
    /\ pc \in {"top", "calc", "reset", "fire"}
    /\ due \in [Kinds -> Date]
    /\ m_bCalulationHasBeenDone \in BOOLEAN
    /\ m_lastCalculation \in Date
    /\ rounds \in 0..Rounds
    /\ firedDays \in [Kinds -> SUBSET Nat]
    /\ skippedDays \in SUBSET Nat
    /\ missed \in SUBSET (Kinds \X Nat)
    /\ resets \in 0..MaxResets
    /\ resetDays \in SUBSET Nat

-----------------------------------------------------------------------------
\* The minute after t.
NextMinute(t) ==
    IF t.minute + 1 < MinutesPerDay
        THEN [t EXCEPT !.minute = @ + 1]
        ELSE [day |-> t.day + 1, minute |-> 0]

\* Mutant of HourZero: the calculation is made an hour later.
HourOne(t) == t.minute >= MinutesPerHour /\ t.minute < 2 * MinutesPerHour

HourZero(t) == t.minute < MinutesPerHour

\* The due time that doCalc sets on the day it reads from the clock.
At(day, minute) == [day |-> day, minute |-> minute]

\* Mutant of Postpone: the due time stays where it is.
PostponeNot(t) == t

\* Mutant of Postpone: the day is added to the time of day.
PostponeTime(t) == [t EXCEPT !.minute = @ + MinutesPerDay]

\* "+= SPAN24"
Postpone(t) == [t EXCEPT !.day = @ + SpanDays]

(* The constructor runs doCalc in the thread of VSCPOpen, so midnight may   *)
(* pass between two of doCalc's clock reads: the due times set after it are  *)
(* for the next day.  The worker starts in the same or in the next minute.   *)
Init ==
    \E opened \in Minutes, times \in Almanac, late \in BOOLEAN, armed \in 0..5 :
        LET before == At(0, opened)
            after == IF late THEN NextMinute(before) ELSE before
            seen(k) == IF ArmRank[k] <= armed THEN before ELSE after
        IN  /\ clock = after
            /\ now = after
            /\ pc = "top"
            /\ due = [k \in Kinds |-> At(seen(k).day, times[k])]
            /\ m_bCalulationHasBeenDone = FALSE
            /\ m_lastCalculation = before
            /\ rounds = 0
            /\ firedDays = [k \in Kinds |-> {}]
            /\ skippedDays = {}
            /\ missed = {}
            /\ resets = 0
            /\ resetDays = {}

-----------------------------------------------------------------------------
\* The clock.  The worker loops at least once a second, so it is certain to
\* have made a number of complete rounds before a minute is over.
Tick ==
    /\ rounds = Rounds
    /\ NextMinute(clock).day <= MaxDay
    /\ clock' = NextMinute(clock)
    /\ rounds' = 0
    /\ UNCHANGED <<now, pc, calcVars, firedDays, skippedDays, missed, resetVars>>

\* In some time zones daylight saving time begins at midnight: the local time
\* after 23:59 is 01:00 of the next day.
TickOverMidnight ==
    /\ rounds = Rounds
    /\ NextMinute(clock).day \in (clock.day + 1)..MaxDay
    /\ clock' = At(clock.day + 1, MinutesPerHour)
    /\ skippedDays' = skippedDays \cup {clock.day + 1}
    /\ rounds' = 0
    /\ UNCHANGED <<now, pc, calcVars, firedDays, missed, resetVars>>

\* The clock is set within its day, at any moment: by the hour at the beginning
\* or end of daylight saving time, by a time server or by hand.  Of the settings
\* of ResetClock, this is the part that leaves the day as it was: not into hour 0
\* nor out of it, and within it only back.
SetClock ==
    \E minute \in Minutes :
        LET over(t) == t.day = clock.day /\ t.minute \in clock.minute..(minute - 1)
        IN  /\ clock' = At(clock.day, minute)
            /\ HourZero(clock) <=> HourZero(clock')
            /\ HourZero(clock) => minute <= clock.minute
            /\ missed' = missed \cup ({k \in Kinds : over(due[k])} \X {clock.day})
            /\ Cardinality(missed') <= MaxMissed
            /\ rounds' = 0
            /\ UNCHANGED <<now, pc, calcVars, firedDays, skippedDays, resetVars>>

\* The clock is set to any other time, at any moment: into hour 0 or out of it,
\* back over midnight, to another day (but not to before the day of open(), nor
\* in the middle of a calculation, which is one step).
ResetClock ==
    \E day \in 0..MaxResetDay, minute \in Minutes :
        /\ clock.day <= MaxResetDay
        /\ resets < MaxResets
        /\ resets' = resets + 1
        /\ clock' = At(day, minute)
        /\ resetDays' = resetDays \cup (clock.day..day) \cup (day..clock.day)
        /\ rounds' = 0
        /\ UNCHANGED <<now, pc, calcVars, firedDays, skippedDays, missed>>

-----------------------------------------------------------------------------
(* doWork.                                                                  *)

\* doWork returns and the worker is at the top of its loop again.
Return ==
    /\ pc' = "top"
    /\ rounds' = IF now = clock /\ rounds < Rounds THEN rounds + 1 ELSE rounds
    /\ UNCHANGED <<clock, now, skippedDays, missed, resetVars>>

CaptureNow ==
    /\ pc = "top"
    /\ now' = clock
    /\ pc' = "calc"
    /\ UNCHANGED <<clock, calcVars, rounds, firedDays, skippedDays, missed, resetVars>>

\* The due times of one calculation, for the day of the clock: in the worker
\* a calculation begins in the hour after midnight and stays in that day.
doCalc ==
    \E times \in Almanac :
        /\ due' = [k \in Kinds |-> At(clock.day, times[k])]
        /\ m_lastCalculation' = clock

\* Mutant of Calculate: the flag is not set.
CalculateUnflagged ==
    /\ pc = "calc"
    /\ ~m_bCalulationHasBeenDone
    /\ HourZero(clock)
    /\ doCalc
    /\ Return
    /\ UNCHANGED <<m_bCalulationHasBeenDone, firedDays>>

\* The calculation of the day; NEW_CALCULATION is sent and doWork returns.
Calculate ==
    /\ pc = "calc"
    /\ ~m_bCalulationHasBeenDone
    /\ HourZero(clock)
    /\ doCalc
    /\ m_bCalulationHasBeenDone' = TRUE
    /\ Return
    /\ UNCHANGED firedDays

NoCalculation ==
    /\ pc = "calc"
    /\ m_bCalulationHasBeenDone \/ ~HourZero(clock)
    /\ pc' = "reset"
    /\ UNCHANGED <<clock, now, calcVars, rounds, firedDays, skippedDays, missed,
                   resetVars>>

\* Mutant of ResetFlag: the flag is never lowered.
KeepFlag ==
    /\ pc = "reset"
    /\ pc' = "fire"
    /\ UNCHANGED <<clock, now, calcVars, rounds, firedDays, skippedDays, missed,
                   resetVars>>

\* "Trigger for next noon calculation": lowered in every hour but the first.
ResetFlag ==
    /\ pc = "reset"
    /\ pc' = "fire"
    /\ m_bCalulationHasBeenDone' = (m_bCalulationHasBeenDone /\ HourZero(clock))
    /\ UNCHANGED <<clock, now, due, m_lastCalculation, rounds, firedDays, skippedDays,
                   missed, resetVars>>

\* The first kind, in the order of the code, that is due at `now`: its event is
\* sent whether or not the kind is enabled.
Fire(k) ==
    /\ pc = "fire"
    /\ due[k] = now
    /\ \A j \in Kinds : due[j] = now => Rank[k] <= Rank[j]
    /\ due' = [due EXCEPT ![k] = Postpone(@)]
    /\ firedDays' = [firedDays EXCEPT ![k] = @ \cup {now.day}]
    /\ Return
    /\ UNCHANGED <<m_bCalulationHasBeenDone, m_lastCalculation>>

NothingDue ==
    /\ pc = "fire"
    /\ \A k \in Kinds : due[k] # now
    /\ Return
    /\ UNCHANGED <<calcVars, firedDays>>

doWork ==
    \/ CaptureNow
    \/ Calculate
    \/ NoCalculation
    \/ ResetFlag
    \/ \E k \in Kinds : Fire(k)
    \/ NothingDue

Next == Tick \/ TickOverMidnight \/ SetClock \/ ResetClock \/ doWork

Spec == Init /\ [][Next]_vars

-----------------------------------------------------------------------------
(* Properties.  A day that the clock was set to, from or past is exempt from *)
(* them: doWork goes by the hour the clock shows, calculates and announces   *)
(* again when it shows hour 0 again, sends again what is then due again, and  *)
(* misses what was set over.  The days after it are not exempt.              *)

\* The days that have no regular hour 0.
Irregular(d) == d \in skippedDays \/ d \in resetDays

\* No kind is sent twice for one day: not by a second round in the due minute,
\* not when a round that began before midnight meets the calculation of the
\* new day, not when two calculations are made on the day of open(), and not on
\* the day after one that the clock went through more than once.
NeverTwice ==
    [][\A k \in Kinds : Fire(k) => now.day \notin firedDays[k] \/ now.day \in resetDays]_vars

\* On every whole day the driver is up, each kind is sent, also when all five
\* fall into one minute, into the minute of the calculation, or into the last
\* minute of the day.  Lost is only what was due in minutes that the clock was
\* set over.  A day without a regular hour 0 does not disturb the next one.
EveryDay ==
    \A d \in 1..(clock.day - 1) :
        Irregular(d) \/ \A k \in Kinds : d \in firedDays[k] \/ <<k, d>> \in missed

\* On a day that has a regular hour 0, an event is sent at the time that was
\* calculated for that very day, never at yesterday's time 24 hours on.
FreshCalculation ==
    [][\A k \in Kinds : Fire(k) => m_lastCalculation.day = now.day \/ Irregular(now.day)]_vars

\* "Calculate ... once a day": the worker does not calculate, and announce a
\* calculation, on a day that is calculated already.  The code keeps this only
\* from the day after open() on, whose calculation it repeats if it falls into
\* hour 0, and only on days that the clock was not set to, from or past.
OneCalculationPerDay ==
    [][Calculate => \/ m_lastCalculation.day # clock.day
                    \/ clock.day = 0
                    \/ clock.day \in resetDays]_vars

\* "Calculations done every 24 hours and at startup": the last calculation is
\* never older than 24 hours.
CalculatedEvery24Hours ==
    \/ clock.day = m_lastCalculation.day
    \/ /\ clock.day = m_lastCalculation.day + 1
       /\ clock.minute <= m_lastCalculation.minute

\* What holds of it: the calculation is older only on a day without a regular
\* hour 0 and, until the next calculation, after such a day.
CalculatedUnlessSkipped ==
    \/ CalculatedEvery24Hours
    \/ Irregular(clock.day)
    \/ Irregular(clock.day - 1) /\ clock.minute = 0
=============================================================================
