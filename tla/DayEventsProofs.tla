-------------------------- MODULE DayEventsProofs ---------------------------
(***************************************************************************)
(* The schedule of the day for every length of day and hour, every almanac  *)
(* and every step of "+= SPAN24".  DayIInv says that no event comes twice;   *)
(* ClockIInv ties the last calculation to the clock on the days that have an *)
(* hour 0, and says how the schedule comes back after one that has none, or  *)
(* one to, from or past which the clock was set.                             *)
(***************************************************************************)
EXTENDS DayEvents, FiniteSetTheorems, TLAPS

\* The clock shows a day that it came to by itself, and was not set in since.
Steady == clock.day \notin resetDays

\* The clock was there on this day, or has been since.
NotAhead(d) == d <= clock.day \/ d \in resetDays

\* `now` is an earlier value of the clock: of the same minute once a round was
\* made in it, and of hour 0 if the clock, which may have been set back since, is.
NowBehind ==
    /\ NotAhead(now.day)
    /\ now.day = clock.day /\ HourZero(clock) /\ Steady => HourZero(now)
    /\ rounds > 0 => now = clock

\* What was sent lies in the past, and before the kind's next due time.
FiredBeforeDue ==
    \A k \in Kinds : \A d \in firedDays[k] :
        d \notin resetDays => d < due[k].day /\ d <= clock.day

\* While the calculation of the day is still to be made, nothing was sent for
\* that day, and a round that is past the test for it began another day.
NothingFiredYet ==
    ~m_bCalulationHasBeenDone /\ HourZero(clock) /\ Steady =>
        /\ \A k \in Kinds : clock.day \notin firedDays[k]
        /\ pc \in {"reset", "fire"} => now.day # clock.day
        /\ clock.day > 0 => m_lastCalculation.day # clock.day

DayIInv ==
    /\ TypeOK
    /\ NowBehind
    /\ FiredBeforeDue
    /\ NotAhead(m_lastCalculation.day)
    /\ NothingFiredYet

-----------------------------------------------------------------------------
\* The five kinds and the constants, with the types they have in the proofs.
LEMMA Constants ==
    /\ MinutesPerHour \in Nat /\ MinutesPerHour > 0
    /\ MinutesPerDay \in Nat /\ MinutesPerHour < MinutesPerDay
    /\ 0 \in Minutes /\ MinutesPerHour \in Minutes
    /\ \A m \in Minutes : m \in Nat
    /\ \A times \in Almanac : times \in [Kinds -> Minutes]
    /\ SpanDays \in Nat /\ SpanDays > 0
    /\ Rounds \in Nat /\ Rounds > 5
    /\ MaxDay \in Nat
    /\ MaxResets \in Nat
BY DayEventsAssumption DEF DayEventsAssumption, Minutes

\* The minute after a minute: the next one of the day, or the first of the next.
LEMMA NextMinuteFacts ==
    ASSUME NEW t \in Date
    PROVE  /\ NextMinute(t) \in Date
           /\ \/ /\ NextMinute(t).day = t.day
                 /\ NextMinute(t).minute = t.minute + 1
              \/ /\ NextMinute(t).day = t.day + 1
                 /\ NextMinute(t).minute = 0
                 /\ t.minute + 1 = MinutesPerDay
BY Constants DEF NextMinute, Date, Minutes

\* A date is the pair of its fields, and its fields have their types.
LEMMA DateFacts ==
    /\ \A d \in Nat, m \in Minutes : At(d, m) \in Date /\ At(d, m).day = d /\ At(d, m).minute = m
    /\ \A t \in Date : /\ t.day \in Nat /\ t.minute \in Minutes /\ t.minute \in Nat
                       /\ Postpone(t) \in Date /\ Postpone(t).day = t.day + SpanDays
BY Constants DEF At, Date, Postpone

\* The constructor, also when it meets midnight.
LEMMA DayInit == Init => DayIInv
<1> SUFFICES ASSUME Init
             PROVE  DayIInv
    OBVIOUS
<1>1. PICK opened \in Minutes, times \in Almanac, late \in BOOLEAN, armed \in 0..5 :
        LET before == At(0, opened)
            after == IF late THEN NextMinute(before) ELSE before
            seen(k) == IF ArmRank[k] <= armed THEN before ELSE after
        IN  /\ clock = after
            /\ now = after
            /\ pc = "top"
            /\ due = [k \in Kinds |-> At(seen(k).day, times[k])]
            /\ m_bCalulationHasBeenDone = FALSE
            /\ m_lastCalculation = before
            /\ rounds = 0
            /\ firedDays = [k \in Kinds |-> {}]
            /\ skippedDays = {}
            /\ missed = {}
            /\ resets = 0
            /\ resetDays = {}
    BY DEF Init
<1> DEFINE before == At(0, opened)
           after == IF late THEN NextMinute(before) ELSE before
<1>2. before \in Date /\ before.day = 0 /\ after \in Date
      /\ (after.day > 0 => before.day < after.day)
    BY DateFacts, NextMinuteFacts
<1>3. due \in [Kinds -> Date]
    <2>1. \A k \in Kinds : times[k] \in Minutes
        BY Constants
    <2> QED
        BY <1>1, <1>2, <2>1, DateFacts
<1>4. TypeOK
    <2>1. clock \in Date /\ now \in Date /\ m_lastCalculation \in Date
        BY <1>1, <1>2
    <2>3. /\ firedDays \in [Kinds -> SUBSET Nat] /\ rounds \in 0..Rounds
          /\ skippedDays \in SUBSET Nat /\ missed \in SUBSET (Kinds \X Nat)
          /\ resets \in 0..MaxResets /\ resetDays \in SUBSET Nat
        BY <1>1, Constants
    <2>4. pc \in {"top", "calc", "reset", "fire"} /\ m_bCalulationHasBeenDone \in BOOLEAN
        BY <1>1
    <2> QED
        BY <2>1, <2>3, <2>4, <1>3 DEF TypeOK
<1>5. NowBehind /\ FiredBeforeDue /\ NotAhead(m_lastCalculation.day)
    BY <1>1, <1>2, DateFacts DEF NowBehind, NotAhead, FiredBeforeDue
<1>6. NothingFiredYet
    BY <1>1, <1>2 DEF NothingFiredYet
<1> QED
    BY <1>4, <1>5, <1>6 DEF DayIInv

\* A step of the clock: of one minute, over the hour after midnight, or to another
\* minute of the day that leaves the day as it was.
ClockSteps == Tick \/ TickOverMidnight \/ SetClock

\* Where the clock goes.
LEMMA ClockMoves ==
    ASSUME TypeOK, ClockSteps
    PROVE  /\ clock' \in Date
           /\ UNCHANGED <<now, pc, calcVars, firedDays, resetVars>> /\ rounds' = 0
           /\ \/ /\ clock'.day = clock.day
                 /\ HourZero(clock') => HourZero(clock)
                 /\ skippedDays' = skippedDays
                 /\ \/ rounds = Rounds /\ clock'.minute = clock.minute + 1
                    \/ /\ HourZero(clock) => HourZero(clock')
                       /\ HourZero(clock) => clock'.minute <= clock.minute
              \/ /\ clock'.day = clock.day + 1 /\ clock'.minute = 0
                 /\ rounds = Rounds /\ clock.minute + 1 = MinutesPerDay
                 /\ skippedDays' = skippedDays
              \/ /\ clock'.day = clock.day + 1 /\ clock'.minute = MinutesPerHour
                 /\ rounds = Rounds
                 /\ skippedDays' = skippedDays \cup {clock.day + 1}
<1>1. /\ clock \in Date /\ clock.day \in Nat /\ clock.minute \in Nat
      /\ clock.minute \in Minutes /\ clock.day + 1 \in Nat
    BY DateFacts DEF TypeOK
<1>2. CASE Tick
    <2>1. clock' = NextMinute(clock) /\ rounds = Rounds /\ skippedDays' = skippedDays
        BY <1>2 DEF Tick
    <2>2. UNCHANGED <<now, pc, calcVars, firedDays, resetVars>> /\ rounds' = 0
        BY <1>2 DEF Tick
    <2>3. CASE clock'.day = clock.day /\ clock'.minute = clock.minute + 1
        <3>1. HourZero(clock') => HourZero(clock)
            BY <1>1, <2>3, Constants DEF HourZero
        <3> QED
            BY <1>1, <2>1, <2>2, <2>3, <3>1, NextMinuteFacts
    <2> QED
        BY <1>1, <2>1, <2>2, <2>3, NextMinuteFacts
<1>3. CASE TickOverMidnight
    BY <1>1, <1>3, DateFacts, Constants DEF TickOverMidnight
<1>4. CASE SetClock
    <2>1. PICK minute \in Minutes :
            /\ clock' = At(clock.day, minute)
            /\ HourZero(clock) <=> HourZero(clock')
            /\ HourZero(clock) => minute <= clock.minute
        BY <1>4 DEF SetClock
    <2> QED
        BY <1>1, <1>4, <2>1, DateFacts DEF SetClock
<1> QED
    BY <1>2, <1>3, <1>4 DEF ClockSteps

LEMMA DayClockStep == DayIInv /\ ClockSteps => DayIInv'
<1> SUFFICES ASSUME DayIInv, ClockSteps
             PROVE  DayIInv'
    OBVIOUS
<1> USE Constants
<1>1. /\ clock \in Date /\ now \in Date
      /\ clock.day \in Nat /\ clock.minute \in Nat /\ clock.minute \in Minutes
      /\ now.day \in Nat /\ now.minute \in Nat
    BY DateFacts DEF DayIInv, TypeOK
<1>2. /\ clock' \in Date /\ clock'.day \in Nat
      /\ \/ clock'.day = clock.day /\ (HourZero(clock') => HourZero(clock))
         \/ clock'.day = clock.day + 1
    BY ClockMoves, DateFacts DEF DayIInv
<1>3. /\ UNCHANGED <<now, pc, calcVars, firedDays, resets, resetDays>> /\ rounds' = 0
      /\ resetDays \in SUBSET Nat
    BY ClockMoves DEF DayIInv, TypeOK, resetVars
<1>s. skippedDays' \in SUBSET Nat
    <2>1. skippedDays \in SUBSET Nat /\ clock.day + 1 \in Nat
        BY <1>1 DEF DayIInv, TypeOK
    <2>2. skippedDays' = skippedDays \/ skippedDays' = skippedDays \cup {clock.day + 1}
        BY ClockMoves DEF DayIInv
    <2> QED
        BY <2>1, <2>2
<1>m. missed' \in SUBSET (Kinds \X Nat)
    BY <1>1 DEF ClockSteps, Tick, TickOverMidnight, SetClock, DayIInv, TypeOK
<1>4. TypeOK'
    BY <1>2, <1>3, <1>s, <1>m DEF DayIInv, TypeOK, calcVars
<1>c. ASSUME NEW d \in Nat, NotAhead(d)
      PROVE  /\ d <= clock'.day \/ d \in resetDays
             /\ clock'.day = clock.day + 1 /\ clock'.day \notin resetDays => d # clock'.day
    BY <1>1, <1>2, <1>c DEF NotAhead
<1>5. NowBehind' /\ FiredBeforeDue'
    <2>1. NotAhead(now.day)'
        BY <1>1, <1>3, <1>c DEF DayIInv, NowBehind, NotAhead
    <2>2. now.day = clock'.day /\ HourZero(clock') /\ clock'.day \notin resetDays => HourZero(now)
        BY <1>1, <1>2, <1>c DEF DayIInv, NowBehind, Steady
    <2>3. NowBehind'
        BY <1>3, <2>1, <2>2 DEF NowBehind, Steady
    <2>4. ASSUME NEW k \in Kinds, NEW d \in firedDays[k], d \notin resetDays
          PROVE  d < due[k].day /\ d <= clock'.day
        <3>1. d \in Nat /\ d < due[k].day /\ d <= clock.day
            BY <2>4 DEF DayIInv, TypeOK, FiredBeforeDue
        <3> QED
            BY <1>1, <1>2, <3>1
    <2> QED
        BY <1>3, <2>3, <2>4 DEF FiredBeforeDue, calcVars
<1>6. NotAhead(m_lastCalculation.day)'
    BY <1>3, <1>c, DateFacts DEF DayIInv, TypeOK, NotAhead, calcVars
<1>7. NothingFiredYet'
    <2>1. CASE clock'.day = clock.day + 1 /\ clock'.day \notin resetDays
        <3>1. \A k \in Kinds : clock'.day \notin firedDays'[k]
            BY <1>1, <1>3, <2>1 DEF DayIInv, FiredBeforeDue, TypeOK
        <3>2. now'.day # clock'.day
            BY <1>1, <1>3, <1>c, <2>1 DEF DayIInv, NowBehind
        <3>3. m_lastCalculation'.day # clock'.day
            BY <1>1, <1>3, <1>c, <2>1, DateFacts DEF DayIInv, TypeOK, calcVars
        <3> QED
            BY <3>1, <3>2, <3>3 DEF NothingFiredYet
    <2>2. CASE clock'.day = clock.day /\ (HourZero(clock') => HourZero(clock))
        BY <1>3, <2>2 DEF DayIInv, NothingFiredYet, Steady, calcVars
    <2>3. CASE clock'.day \in resetDays
        BY <1>3, <2>3 DEF NothingFiredYet, Steady
    <2> QED
        BY <1>2, <2>1, <2>2, <2>3
<1> QED
    BY <1>4, <1>5, <1>6, <1>7 DEF DayIInv

\* What ResetClock does: it exempts the day that the clock leaves and the day that
\* it comes to, and any day between them.
LEMMA ResetMoves ==
    ASSUME TypeOK, ResetClock
    PROVE  /\ clock' \in Date /\ clock'.day \in Nat /\ clock.day \in Nat
           /\ UNCHANGED <<now, pc, calcVars, firedDays, skippedDays, missed>> /\ rounds' = 0
           /\ resets' \in 0..MaxResets /\ resetDays' \in SUBSET Nat
           /\ resetDays \subseteq resetDays'
           /\ clock.day \in resetDays' /\ clock'.day \in resetDays'
           /\ \A d \in Nat : d <= clock.day => d <= clock'.day \/ d \in resetDays'
           /\ \A d \in Nat : d <= clock'.day => d < clock.day \/ d \in resetDays'
<1>1. PICK day \in 0..MaxResetDay, minute \in Minutes :
        /\ clock' = At(day, minute)
        /\ resets < MaxResets
        /\ resets' = resets + 1
        /\ resetDays' = resetDays \cup (clock.day..day) \cup (day..clock.day)
    BY DEF ResetClock
<1>2. clock.day \in Nat /\ day \in Nat /\ clock'.day = day /\ clock' \in Date
    BY <1>1, DateFacts, Constants DEF TypeOK
<1>3. resets' \in 0..MaxResets
    BY <1>1, Constants DEF TypeOK
<1>4. resetDays' \in SUBSET Nat
    <2>1. resetDays \subseteq Nat /\ clock.day..day \subseteq Nat /\ day..clock.day \subseteq Nat
        BY <1>2 DEF TypeOK
    <2> QED
        BY <1>1, <2>1
<1>5. UNCHANGED <<now, pc, calcVars, firedDays, skippedDays, missed>> /\ rounds' = 0
    BY DEF ResetClock
<1>6. clock.day \in resetDays' /\ clock'.day \in resetDays'
    BY <1>1, <1>2
<1> QED
    BY <1>1, <1>2, <1>3, <1>4, <1>5, <1>6

LEMMA DayReset == DayIInv /\ ResetClock => DayIInv'
<1> SUFFICES ASSUME DayIInv, ResetClock
             PROVE  DayIInv'
    OBVIOUS
<1>1. TypeOK
    BY DEF DayIInv
<1>2. /\ clock' \in Date /\ clock'.day \in Nat /\ clock.day \in Nat
      /\ UNCHANGED <<now, pc, calcVars, firedDays, skippedDays, missed>> /\ rounds' = 0
      /\ resets' \in 0..MaxResets /\ resetDays' \in SUBSET Nat
      /\ resetDays \subseteq resetDays'
      /\ clock'.day \in resetDays'
      /\ \A d \in Nat : d <= clock.day => d <= clock'.day \/ d \in resetDays'
    BY <1>1, ResetMoves
<1>3. TypeOK'
    BY <1>1, <1>2, Constants DEF TypeOK, calcVars
<1>4. ASSUME NEW d \in Nat, NotAhead(d)
      PROVE  d <= clock'.day \/ d \in resetDays'
    BY <1>2, <1>4 DEF NotAhead
<1>5. now.day \in Nat /\ m_lastCalculation.day \in Nat
    BY <1>1, DateFacts DEF TypeOK
<1>6. NowBehind' /\ NotAhead(m_lastCalculation.day)' /\ NothingFiredYet'
    BY <1>2, <1>4, <1>5 DEF DayIInv, NowBehind, NotAhead, NothingFiredYet, Steady, calcVars
<1>7. FiredBeforeDue'
    <2> SUFFICES ASSUME NEW k \in Kinds, NEW d \in firedDays[k], d \notin resetDays'
                 PROVE  d < due[k].day /\ d <= clock'.day
        BY <1>2 DEF FiredBeforeDue, calcVars
    <2>1. d \in Nat /\ d \notin resetDays
        BY <1>1, <1>2 DEF TypeOK
    <2>2. d < due[k].day /\ d <= clock.day
        BY <2>1 DEF DayIInv, FiredBeforeDue
    <2> QED
        BY <1>2, <2>1, <2>2
<1> QED
    BY <1>3, <1>6, <1>7 DEF DayIInv

\* What one round may do to the due times and to the history.
LEMMA FireFacts ==
    ASSUME DayIInv, NEW k \in Kinds, Fire(k)
    PROVE  /\ now.day \notin firedDays[k] \/ now.day \in resetDays
           /\ due' = [due EXCEPT ![k] = Postpone(due[k])]
           /\ due'[k].day = now.day + SpanDays
           /\ firedDays' = [firedDays EXCEPT ![k] = firedDays[k] \cup {now.day}]
           /\ UNCHANGED <<clock, now, m_bCalulationHasBeenDone, m_lastCalculation>>
           /\ pc = "fire" /\ pc' = "top"
<1>1. due[k] = now /\ now \in Date /\ due \in [Kinds -> Date]
    BY DEF Fire, DayIInv, TypeOK
<1>2. now.day \notin firedDays[k] \/ now.day \in resetDays
    <2>1. \A d \in firedDays[k] : d < now.day \/ d \in resetDays
        BY <1>1 DEF DayIInv, FiredBeforeDue
    <2> QED
        BY <1>1, <2>1, DateFacts
<1>3. due' = [due EXCEPT ![k] = Postpone(due[k])]
    BY DEF Fire
<1>4. due'[k].day = now.day + SpanDays
    BY <1>1, <1>3, DateFacts
<1> QED
    BY <1>2, <1>3, <1>4 DEF Fire, Return

\* A step of the worker.
LEMMA DayWorkStep == DayIInv /\ doWork => DayIInv'
<1> SUFFICES ASSUME DayIInv, doWork
             PROVE  DayIInv'
    OBVIOUS
<1>0. /\ clock \in Date /\ now \in Date /\ m_lastCalculation \in Date
      /\ clock.day \in Nat /\ clock.minute \in Nat
      /\ due \in [Kinds -> Date] /\ firedDays \in [Kinds -> SUBSET Nat]
      /\ \A k \in Kinds : due[k] \in Date /\ firedDays[k] \subseteq Nat
    BY DateFacts DEF DayIInv, TypeOK
<1>r. ASSUME Return
      PROVE  rounds' \in 0..Rounds
    BY <1>r, Constants DEF Return, DayIInv, TypeOK
<1>n. ASSUME Return
      PROVE  NowBehind'
    BY <1>n DEF Return, DayIInv, NowBehind, NotAhead, Steady, HourZero, resetVars
<1>s. /\ skippedDays' \in SUBSET Nat /\ missed' \in SUBSET (Kinds \X Nat)
      /\ resets' = resets /\ resetDays' = resetDays
      /\ resets' \in 0..MaxResets /\ resetDays' \in SUBSET Nat
    BY DEF doWork, CaptureNow, Calculate, NoCalculation, ResetFlag, Fire, NothingDue,
           Return, DayIInv, TypeOK, resetVars
<1> USE DEF NotAhead, Steady
<1>1. CASE CaptureNow
    <2>1. UNCHANGED <<clock, calcVars, rounds, firedDays>> /\ now' = clock /\ pc' = "calc"
        BY <1>1 DEF CaptureNow
    <2>2. TypeOK'
        BY <1>s, <2>1 DEF DayIInv, TypeOK, calcVars
    <2>3. NowBehind' /\ FiredBeforeDue' /\ NothingFiredYet'
        BY <1>0, <1>s, <2>1
           DEF DayIInv, NowBehind, FiredBeforeDue, NothingFiredYet, calcVars
    <2> QED
        BY <1>0, <1>s, <2>1, <2>2, <2>3 DEF DayIInv, calcVars
<1>2. CASE Calculate
    <2>1. /\ UNCHANGED <<clock, now, firedDays>> /\ pc' = "top"
          /\ m_bCalulationHasBeenDone' = TRUE
          /\ ~m_bCalulationHasBeenDone /\ HourZero(clock)
          /\ rounds' \in 0..Rounds
        BY <1>2, <1>r DEF Calculate, Return
    <2>2. PICK times \in Almanac : due' = [k \in Kinds |-> At(clock.day, times[k])]
        BY <1>2 DEF Calculate, doCalc
    <2>3. m_lastCalculation' = clock
        BY <1>2 DEF Calculate, doCalc
    <2>4. \A k \in Kinds : times[k] \in Minutes
        BY Constants
    <2>5. due' \in [Kinds -> Date] /\ \A k \in Kinds : due'[k].day = clock.day
        BY <1>0, <2>2, <2>4, DateFacts
    <2>6. TypeOK'
        BY <1>0, <1>s, <2>1, <2>3, <2>5 DEF DayIInv, TypeOK
    <2>7. FiredBeforeDue'
        <3>1. ASSUME NEW k \in Kinds, NEW d \in firedDays[k], d \notin resetDays
              PROVE  d < due'[k].day /\ d <= clock.day
            <4>1. d \in Nat /\ d <= clock.day /\ d # clock.day
                BY <1>0, <2>1, <3>1 DEF DayIInv, FiredBeforeDue, NothingFiredYet
            <4> QED
                BY <1>0, <4>1, <2>5
        <3> QED
            BY <1>s, <2>1, <3>1 DEF FiredBeforeDue
    <2>8. NowBehind' /\ NothingFiredYet' /\ NotAhead(m_lastCalculation.day)'
        BY <1>0, <1>2, <1>n, <1>s, <2>1, <2>3 DEF Calculate, NothingFiredYet
    <2> QED
        BY <2>6, <2>7, <2>8 DEF DayIInv
<1>3. CASE NoCalculation
    <2>1. /\ UNCHANGED <<clock, now, calcVars, rounds, firedDays>> /\ pc' = "reset"
          /\ m_bCalulationHasBeenDone \/ ~HourZero(clock)
        BY <1>3 DEF NoCalculation
    <2>2. TypeOK'
        BY <1>s, <2>1 DEF DayIInv, TypeOK, calcVars
    <2>3. NowBehind' /\ FiredBeforeDue'
        BY <1>s, <2>1 DEF DayIInv, NowBehind, FiredBeforeDue, calcVars
    <2>4. NothingFiredYet'
        BY <1>s, <2>1 DEF NothingFiredYet, calcVars
    <2> QED
        BY <1>s, <2>1, <2>2, <2>3, <2>4 DEF DayIInv, calcVars
<1>4. CASE ResetFlag
    <2>1. /\ UNCHANGED <<clock, now, due, m_lastCalculation, rounds, firedDays>>
          /\ pc = "reset" /\ pc' = "fire"
          /\ m_bCalulationHasBeenDone' = (m_bCalulationHasBeenDone /\ HourZero(clock))
        BY <1>4 DEF ResetFlag
    <2>2. m_bCalulationHasBeenDone' \in BOOLEAN
        BY <2>1
    <2>3. TypeOK'
        BY <1>s, <2>1, <2>2 DEF DayIInv, TypeOK
    <2>4. NowBehind' /\ FiredBeforeDue'
        BY <1>s, <2>1 DEF DayIInv, NowBehind, FiredBeforeDue
    <2>5. NothingFiredYet'
        <3>1. ~m_bCalulationHasBeenDone' /\ HourZero(clock) => ~m_bCalulationHasBeenDone
            BY <2>1
        <3> QED
            BY <1>s, <2>1, <3>1 DEF DayIInv, NothingFiredYet
    <2> QED
        BY <1>s, <2>1, <2>3, <2>4, <2>5 DEF DayIInv
<1>5. ASSUME NEW k \in Kinds, Fire(k)
      PROVE  DayIInv'
    <2>0. rounds' \in 0..Rounds
        BY <1>5, <1>r DEF Fire
    <2>1. /\ due' = [due EXCEPT ![k] = Postpone(due[k])]
          /\ due'[k].day = now.day + SpanDays
          /\ firedDays' = [firedDays EXCEPT ![k] = firedDays[k] \cup {now.day}]
          /\ UNCHANGED <<clock, now, m_bCalulationHasBeenDone, m_lastCalculation>>
          /\ pc = "fire" /\ pc' = "top"
          /\ due[k] = now /\ now.day \in Nat
        BY <1>0, <1>5, FireFacts, DateFacts DEF Fire
    <2>2. TypeOK'
        <3>1. Postpone(due[k]) \in Date
            BY <1>0, DateFacts
        <3> QED
            BY <1>0, <1>s, <2>0, <2>1, <3>1 DEF DayIInv, TypeOK
    <2>3. FiredBeforeDue'
        <3>1. ASSUME NEW j \in Kinds, NEW d \in firedDays'[j], d \notin resetDays
              PROVE  d < due'[j].day /\ d <= clock.day
            <4>1. CASE j # k
                BY <1>0, <2>1, <3>1, <4>1 DEF DayIInv, FiredBeforeDue
            <4>2. CASE j = k /\ d = now.day
                BY <1>0, <2>1, <3>1, <4>2, Constants DEF DayIInv, NowBehind
            <4>3. CASE j = k /\ d \in firedDays[k]
                <5>1. d \in Nat /\ d < now.day /\ d <= clock.day
                    BY <1>0, <2>1, <3>1, <4>3 DEF DayIInv, FiredBeforeDue
                <5> QED
                    BY <5>1, <4>3, <2>1, Constants
            <4> QED
                BY <1>0, <2>1, <4>1, <4>2, <4>3
        <3> QED
            BY <1>s, <2>1, <3>1 DEF FiredBeforeDue
    <2>4. NothingFiredYet'
        <3>1. ASSUME ~m_bCalulationHasBeenDone, HourZero(clock), Steady
              PROVE  \A j \in Kinds : clock.day \notin firedDays'[j]
            <4>1. now.day # clock.day /\ \A j \in Kinds : clock.day \notin firedDays[j]
                BY <1>0, <2>1, <3>1 DEF DayIInv, NothingFiredYet
            <4> QED
                BY <1>0, <2>1, <4>1
        <3> QED
            BY <1>s, <2>1, <3>1 DEF DayIInv, NothingFiredYet
    <2>5. NowBehind'
        BY <1>5, <1>n DEF Fire
    <2> QED
        BY <1>s, <2>1, <2>2, <2>3, <2>4, <2>5 DEF DayIInv
<1>6. CASE NothingDue
    <2>1. /\ UNCHANGED <<clock, now, calcVars, firedDays>> /\ pc' = "top"
          /\ rounds' \in 0..Rounds
        BY <1>6, <1>r DEF NothingDue, Return
    <2>2. TypeOK'
        BY <1>s, <2>1 DEF DayIInv, TypeOK, calcVars
    <2>3. FiredBeforeDue' /\ NothingFiredYet'
        BY <1>s, <2>1 DEF DayIInv, FiredBeforeDue, NothingFiredYet, calcVars
    <2>4. NowBehind'
        BY <1>6, <1>n DEF NothingDue
    <2> QED
        BY <1>s, <2>1, <2>2, <2>3, <2>4 DEF DayIInv, calcVars
<1> QED
    BY <1>1, <1>2, <1>3, <1>4, <1>5, <1>6 DEF doWork

-----------------------------------------------------------------------------
\* The invariant of every clock, also one that skips hour 0 or is set.
THEOREM DayInvariance == Spec => []DayIInv
<1>1. DayIInv /\ UNCHANGED vars => DayIInv'
    BY DEF DayIInv, TypeOK, NowBehind, NotAhead, FiredBeforeDue, NothingFiredYet, Steady,
           vars, calcVars, resetVars
<1>2. DayIInv /\ [Next]_vars => DayIInv'
    BY <1>1, DayClockStep, DayReset, DayWorkStep DEF Next, ClockSteps
<1> QED
    BY <1>2, DayInit, PTL DEF Spec

\* Types, for every value of the constants.
THEOREM DayTypeCorrect == Spec => []TypeOK
<1>1. DayIInv => TypeOK
    BY DEF DayIInv
<1> QED
    BY <1>1, DayInvariance, PTL

\* No kind of event is sent twice for one day, but for one that the clock is set
\* to, from or past.
THEOREM EachDayOnce == Spec => NeverTwice
<1>1. DayIInv => \A k \in Kinds :
          Fire(k) => now.day \notin firedDays[k] \/ now.day \in resetDays
    BY FireFacts
<1> QED
    BY <1>1, DayInvariance, PTL DEF NeverTwice

\* The worker calculates once a day at most, but for the day of open() and the
\* days that the clock is set to, from or past; the day after is not among them.
THEOREM OneCalculation == Spec => OneCalculationPerDay
<1>1. DayIInv /\ Calculate => \/ m_lastCalculation.day # clock.day
                              \/ clock.day = 0
                              \/ clock.day \in resetDays
    BY DateFacts DEF DayIInv, TypeOK, NothingFiredYet, Steady, Calculate
<1> QED
    BY <1>1, DayInvariance, PTL DEF OneCalculationPerDay

-----------------------------------------------------------------------------
(* The days that have an hour 0, and the day after one that has none.       *)

\* The last calculation is of today, except in the minute after midnight.
CalculationFollowsClock ==
    /\ m_bCalulationHasBeenDone \/ ~HourZero(clock)
           => m_lastCalculation.day = clock.day \/ Irregular(clock.day)
    /\ m_lastCalculation.day # clock.day
           => \/ Irregular(clock.day)
              \/ /\ clock.minute = 0
                 /\ \/ clock.day = m_lastCalculation.day + 1
                    \/ Irregular(clock.day - 1)

\* What a complete round in the current minute leaves behind.  On a day in which
\* the clock was set, the first round may have begun before that.
RoundsSettleFlag ==
    rounds > 1 \/ (rounds > 0 /\ Steady) => (m_bCalulationHasBeenDone <=> HourZero(clock))

\* What a round that began today knows of the flag.
RoundKnowsFlag ==
    (now.day = clock.day /\ Steady) \/ rounds > 0 =>
        /\ pc \in {"reset", "fire"} /\ HourZero(clock) => m_bCalulationHasBeenDone
        /\ pc = "fire" /\ ~HourZero(now) => ~m_bCalulationHasBeenDone

\* The round works on the day of the last calculation.
RoundIsOfCalculation ==
    m_lastCalculation.day = now.day \/ Irregular(now.day)

\* A round that is past the test, sure to pass it, or overtaken by midnight.
RoundKnowsDay ==
    \/ pc = "calc" /\ (m_bCalulationHasBeenDone \/ ~HourZero(clock) \/ now.day # clock.day)
    \/ pc \in {"reset", "fire"}
    => RoundIsOfCalculation

ClockIInv ==
    /\ CalculationFollowsClock
    /\ RoundsSettleFlag
    /\ RoundKnowsFlag
    /\ RoundKnowsDay

\* The constructor has just calculated; midnight may have passed since.
LEMMA ClockInit == Init => ClockIInv
<1> SUFFICES ASSUME Init
             PROVE  ClockIInv
    OBVIOUS
<1>1. PICK opened \in Minutes, late \in BOOLEAN :
        LET before == At(0, opened)
            after == IF late THEN NextMinute(before) ELSE before
        IN  /\ clock = after
            /\ pc = "top"
            /\ m_bCalulationHasBeenDone = FALSE
            /\ m_lastCalculation = before
            /\ rounds = 0
    BY DEF Init
<1>2. At(0, opened) \in Date /\ At(0, opened).day = 0 /\ At(0, opened).minute \in Nat
    BY DateFacts
<1>3. CASE clock = At(0, opened)
    BY <1>1, <1>2, <1>3
       DEF ClockIInv, CalculationFollowsClock, RoundsSettleFlag, RoundKnowsFlag, RoundKnowsDay
<1>4. CASE clock = NextMinute(At(0, opened))
    <2>1. \/ clock.day = 0
          \/ clock.day = 1 /\ clock.minute = 0
        BY <1>2, <1>4, NextMinuteFacts
    <2>2. clock.minute = 0 => HourZero(clock)
        BY Constants DEF HourZero
    <2> QED
        BY <1>1, <1>2, <2>1, <2>2
           DEF ClockIInv, CalculationFollowsClock, RoundsSettleFlag, RoundKnowsFlag, RoundKnowsDay
<1> QED
    BY <1>1, <1>3, <1>4

\* Once the rounds of a minute are made, the flag is settled: the round that is
\* under way works on the day of the last calculation.
LEMMA Settled ==
    ASSUME DayIInv, ClockIInv, rounds = Rounds
    PROVE  /\ m_bCalulationHasBeenDone <=> HourZero(clock)
           /\ m_lastCalculation.day = clock.day \/ Irregular(clock.day)
           /\ pc \in {"calc", "reset", "fire"} => RoundIsOfCalculation
<1>1. m_bCalulationHasBeenDone <=> HourZero(clock)
    BY Constants DEF ClockIInv, RoundsSettleFlag
<1> QED
    BY <1>1 DEF ClockIInv, CalculationFollowsClock, RoundKnowsDay

\* The clock moves.
LEMMA ClockTick == DayIInv /\ ClockIInv /\ ClockSteps => ClockIInv'
<1> SUFFICES ASSUME DayIInv, ClockIInv, ClockSteps
             PROVE  ClockIInv'
    OBVIOUS
<1> DEFINE SameDay == /\ clock'.day = clock.day /\ (HourZero(clock') => HourZero(clock))
                      /\ skippedDays' = skippedDays
           Forward == rounds = Rounds /\ clock'.minute = clock.minute + 1
           Within == (HourZero(clock) => HourZero(clock')) /\ (HourZero(clock) => clock'.minute <= clock.minute)
           Midnight == /\ clock'.day = clock.day + 1 /\ clock'.minute = 0
                       /\ rounds = Rounds /\ clock.minute + 1 = MinutesPerDay
                       /\ skippedDays' = skippedDays
           Over == /\ clock'.day = clock.day + 1 /\ clock'.minute = MinutesPerHour
                   /\ rounds = Rounds /\ skippedDays' = skippedDays \cup {clock.day + 1}
<1>1. (SameDay /\ (Forward \/ Within)) \/ Midnight \/ Over
    BY ClockMoves DEF DayIInv
<1>2. /\ clock.day \in Nat /\ clock.minute \in Nat /\ now.day \in Nat
      /\ clock'.day \in Nat /\ clock'.minute \in Nat
      /\ m_lastCalculation.day \in Nat
    BY ClockMoves, DateFacts DEF DayIInv, TypeOK
<1>3. /\ UNCHANGED <<now, pc, m_bCalulationHasBeenDone, m_lastCalculation, resetDays>>
      /\ rounds' = 0
    BY ClockMoves DEF DayIInv, calcVars, resetVars
<1>4. RoundsSettleFlag'
    BY <1>3 DEF RoundsSettleFlag
<1>5. CASE SameDay /\ Within
    BY <1>2, <1>3, <1>4, <1>5
       DEF ClockIInv, Irregular, Steady, CalculationFollowsClock, RoundKnowsFlag, RoundKnowsDay, RoundIsOfCalculation
<1>6. CASE rounds = Rounds /\ ((SameDay /\ Forward) \/ Midnight \/ Over)
    <2>1. /\ m_bCalulationHasBeenDone <=> HourZero(clock)
          /\ m_lastCalculation.day = clock.day \/ Irregular(clock.day)
          /\ pc \in {"calc", "reset", "fire"} => RoundIsOfCalculation
        BY <1>6, Settled
    <2>2. RoundKnowsDay'
        BY <1>3, <1>6, <2>1 DEF RoundKnowsDay, RoundIsOfCalculation, Irregular
    <2>3. CASE SameDay
        BY <1>2, <1>3, <1>4, <2>1, <2>2, <2>3
           DEF ClockIInv, CalculationFollowsClock, RoundKnowsFlag, Irregular, Steady
    <2>4. CASE Midnight \/ Over
        <3>1. now'.day # clock'.day \/ ~Steady'
            BY <1>2, <1>3, <2>4 DEF DayIInv, NowBehind, NotAhead, Steady
        <3>2. RoundKnowsFlag'
            BY <1>3, <3>1 DEF RoundKnowsFlag
        <3>3. CalculationFollowsClock'
            <4>1. CASE Midnight
                <5>1. ~HourZero(clock) /\ HourZero(clock') /\ ~m_bCalulationHasBeenDone
                    BY <1>2, <2>1, <4>1, Constants DEF HourZero
                <5>2. clock'.day - 1 = clock.day
                    BY <1>2, <4>1
                <5> QED
                    BY <1>2, <1>3, <2>1, <4>1, <5>1, <5>2 DEF CalculationFollowsClock, Irregular
            <4>2. CASE Over
                BY <4>2 DEF CalculationFollowsClock, Irregular
            <4> QED
                BY <2>4, <4>1, <4>2
        <3> QED
            BY <1>4, <2>2, <3>2, <3>3 DEF ClockIInv
    <2> QED
        BY <1>6, <2>3, <2>4
<1> QED
    BY <1>1, <1>5, <1>6

\* The clock is set: the round under way works on a day that is now exempt, or on
\* one that it knew to be calculated.
LEMMA ClockReset == DayIInv /\ ClockIInv /\ ResetClock => ClockIInv'
<1> SUFFICES ASSUME DayIInv, ClockIInv, ResetClock
             PROVE  ClockIInv'
    OBVIOUS
<1>1. /\ UNCHANGED <<now, pc, m_bCalulationHasBeenDone, m_lastCalculation, skippedDays>>
      /\ rounds' = 0 /\ resetDays \subseteq resetDays'
      /\ clock.day \in resetDays' /\ clock'.day \in resetDays'
    BY ResetMoves DEF DayIInv, calcVars
<1>2. CalculationFollowsClock' /\ RoundsSettleFlag' /\ RoundKnowsFlag'
    BY <1>1 DEF CalculationFollowsClock, RoundsSettleFlag, RoundKnowsFlag, Irregular, Steady
<1>3. RoundKnowsDay'
    <2>1. CASE now.day = clock.day
        BY <1>1, <2>1 DEF RoundKnowsDay, RoundIsOfCalculation, Irregular
    <2>2. CASE now.day # clock.day /\ pc \in {"calc", "reset", "fire"}
        <3>1. RoundIsOfCalculation
            BY <2>2 DEF ClockIInv, RoundKnowsDay
        <3> QED
            BY <1>1, <3>1 DEF RoundKnowsDay, RoundIsOfCalculation, Irregular
    <2> QED
        BY <1>1, <2>1, <2>2 DEF RoundKnowsDay
<1> QED
    BY <1>2, <1>3 DEF ClockIInv

\* A step of the worker.
LEMMA ClockWork == DayIInv /\ ClockIInv /\ doWork => ClockIInv'
<1> SUFFICES ASSUME DayIInv, ClockIInv, doWork
             PROVE  ClockIInv'
    OBVIOUS
<1> USE DEF ClockIInv, CalculationFollowsClock, RoundsSettleFlag, RoundKnowsFlag,
            RoundKnowsDay, RoundIsOfCalculation, Irregular, Steady
<1>0. rounds \in Nat /\ m_bCalulationHasBeenDone \in BOOLEAN
    BY Constants DEF DayIInv, TypeOK
<1>d. /\ now.day = clock.day /\ HourZero(clock) /\ Steady => HourZero(now)
      /\ rounds > 0 => now = clock
    BY DEF DayIInv, NowBehind
<1>s. UNCHANGED <<skippedDays, resetDays>>
    BY DEF doWork, CaptureNow, Calculate, NoCalculation, ResetFlag, Fire, NothingDue,
           Return, resetVars
<1>r. ASSUME Return, pc = "fire", m_bCalulationHasBeenDone' = m_bCalulationHasBeenDone
      PROVE  RoundsSettleFlag'
    <2>1. UNCHANGED <<clock, now, resetDays>>
        BY <1>r DEF Return, resetVars
    <2>2. CASE now = clock /\ (rounds > 0 \/ Steady)
        BY <1>0, <1>r, <2>1, <2>2 DEF Return
    <2>3. CASE rounds = 0 /\ ~Steady
        BY <1>r, <2>1, <2>3 DEF Return
    <2>4. CASE now # clock
        BY <1>0, <1>d, <1>r, <2>1, <2>4 DEF Return
    <2> QED
        BY <1>0, <2>2, <2>3, <2>4
<1>1. CASE CaptureNow
    BY <1>s, <1>1 DEF CaptureNow, calcVars
<1>2. CASE Calculate
    BY <1>s, <1>2 DEF Calculate, doCalc, Return
<1>3. CASE NoCalculation
    BY <1>s, <1>3 DEF NoCalculation, calcVars
<1>4. CASE ResetFlag
    BY <1>0, <1>d, <1>s, <1>4 DEF ResetFlag
<1>5. ASSUME NEW k \in Kinds, Fire(k)
      PROVE  ClockIInv'
    <2>1. /\ pc = "fire" /\ pc' = "top" /\ Return
          /\ UNCHANGED <<clock, now, m_bCalulationHasBeenDone, m_lastCalculation, skippedDays>>
        BY <1>5 DEF Fire, Return
    <2> QED
        BY <1>r, <1>s, <2>1
<1>6. CASE NothingDue
    <2>1. /\ pc = "fire" /\ pc' = "top" /\ Return
          /\ UNCHANGED <<clock, now, m_bCalulationHasBeenDone, m_lastCalculation, skippedDays>>
        BY <1>6 DEF NothingDue, Return, calcVars
    <2> QED
        BY <1>r, <1>s, <2>1
<1> QED
    BY <1>1, <1>2, <1>3, <1>4, <1>5, <1>6 DEF doWork

\* The calculation follows the clock wherever the clock has an hour 0.
THEOREM ClockInvariance == Spec => []ClockIInv
<1>1. ClockIInv /\ UNCHANGED vars => ClockIInv'
    BY DEF ClockIInv, CalculationFollowsClock, RoundsSettleFlag, RoundKnowsFlag,
           RoundKnowsDay, RoundIsOfCalculation, Irregular, Steady, vars, calcVars, resetVars
<1>2. DayIInv /\ ClockIInv /\ [Next]_vars => ClockIInv'
    BY <1>1, ClockTick, ClockReset, ClockWork DEF Next, ClockSteps
<1> QED
    BY <1>2, ClockInit, DayInvariance, PTL DEF Spec

\* On a day with a regular hour 0, an event is sent at the time calculated for it.
THEOREM TodaysTimes == Spec => FreshCalculation
<1>1. ClockIInv => \A k \in Kinds : Fire(k) =>
          m_lastCalculation.day = now.day \/ Irregular(now.day)
    BY DEF ClockIInv, RoundKnowsDay, RoundIsOfCalculation, Fire
<1> QED
    BY <1>1, ClockInvariance, PTL DEF FreshCalculation

\* The last calculation is older than 24 hours only on a day without a regular
\* hour 0, and in the first minute after one.
THEOREM DailyCalculation == Spec => []CalculatedUnlessSkipped
<1>1. DayIInv /\ ClockIInv => CalculatedUnlessSkipped
    BY DateFacts DEF DayIInv, TypeOK, ClockIInv, CalculationFollowsClock,
                     CalculatedUnlessSkipped, CalculatedEvery24Hours
<1> QED
    BY <1>1, ClockInvariance, DayInvariance, PTL

-----------------------------------------------------------------------------
(* Every event of a whole day.  Why the rounds of a minute are enough, and   *)
(* where an event is that has not been sent yet.                             *)

\* The kinds that the current minute has still to send.
DueNow == {k \in Kinds : due[k] = clock}

\* One round for each of five kinds and one for the calculation: while a kind is
\* still due in this minute, that many rounds have not been made yet.
RoundsLeft == DueNow # {} /\ Steady => rounds + Cardinality(DueNow) <= 6

\* Once a day is calculated, a kind is sent, was set over, or is still to come.
Pending ==
    clock.day > 0 /\ ~Irregular(clock.day) /\ m_lastCalculation.day = clock.day =>
        \A k \in Kinds :
            \/ clock.day \in firedDays[k]
            \/ <<k, clock.day>> \in missed
            \/ due[k].day = clock.day /\ clock.minute <= due[k].minute

ServiceIInv ==
    /\ RoundsLeft
    /\ Pending
    /\ EveryDay

\* There are five kinds.
LEMMA FiveKinds ==
    /\ IsFiniteSet(Kinds)
    /\ \A S \in SUBSET Kinds : IsFiniteSet(S) /\ Cardinality(S) \in 0..5
<1> DEFINE One == {"SUNRISE"}
           Two == One \cup {"SUNRISE_TWILIGHT_START"}
           Three == Two \cup {"SUNSET"}
           Four == Three \cup {"SUNSET_TWILIGHT_START"}
           Five == Four \cup {"CALCULATED_NOON"}
<1>1. IsFiniteSet(One) /\ Cardinality(One) = 1
    BY FS_Singleton
<1>2. IsFiniteSet(Two) /\ Cardinality(Two) = 2
    BY <1>1, FS_AddElement
<1>3. IsFiniteSet(Three) /\ Cardinality(Three) = 3
    BY <1>2, FS_AddElement
<1>4. IsFiniteSet(Four) /\ Cardinality(Four) = 4
    BY <1>3, FS_AddElement
<1>5. IsFiniteSet(Five) /\ Cardinality(Five) = 5
    BY <1>4, FS_AddElement
<1>6. Kinds = Five
    BY DEF Kinds, Rank
<1>7. ASSUME NEW S \in SUBSET Kinds
      PROVE  IsFiniteSet(S) /\ Cardinality(S) \in 0..5
    <2>1. IsFiniteSet(S) /\ Cardinality(S) <= 5
        BY <1>5, <1>6, FS_Subset
    <2> QED
        BY <2>1, FS_CardinalityType
<1> QED
    BY <1>5, <1>6, <1>7

\* A minute is not over before its events are sent.
LEMMA MinuteServed ==
    ASSUME RoundsLeft, Steady, rounds = Rounds, NEW k \in Kinds
    PROVE  due[k] # clock
<1> SUFFICES ASSUME due[k] = clock
             PROVE  FALSE
    OBVIOUS
<1>1. DueNow \in SUBSET Kinds /\ k \in DueNow
    BY DEF DueNow
<1>2. Cardinality(DueNow) \in Nat /\ Cardinality(DueNow) # 0
    BY <1>1, FiveKinds, FS_EmptySet
<1>3. rounds + Cardinality(DueNow) <= 6
    BY <1>1 DEF RoundsLeft
<1> QED
    BY <1>2, <1>3, Constants

\* No round is made yet, and the calculation of open() belongs to day 0.
LEMMA ServiceInit == Init => ServiceIInv
<1> SUFFICES ASSUME Init
             PROVE  ServiceIInv
    OBVIOUS
<1>1. rounds = 0
    BY DEF Init
<1>2. RoundsLeft
    <2>1. DueNow \in SUBSET Kinds
        BY DEF DueNow
    <2> QED
        BY <1>1, <2>1, FiveKinds DEF RoundsLeft
<1>3. PICK opened \in Minutes, late \in BOOLEAN :
        LET before == At(0, opened)
            after == IF late THEN NextMinute(before) ELSE before
        IN  clock = after /\ m_lastCalculation = before
    BY DEF Init
<1>4. m_lastCalculation.day = 0 /\ (clock.day = 0 \/ clock.day = 1)
    <2> DEFINE before == At(0, opened)
    <2>1. before \in Date /\ before.day = 0
        BY DateFacts
    <2>2. NextMinute(before).day = 0 \/ NextMinute(before).day = 1
        BY <2>1, NextMinuteFacts
    <2>3. m_lastCalculation = before /\ (clock = before \/ clock = NextMinute(before))
        BY <1>3
    <2> QED
        BY <2>1, <2>2, <2>3
<1> QED
    BY <1>2, <1>4 DEF ServiceIInv, Pending, EveryDay

\* The clock is set and what it passes is noted, or it ticks once the rounds of
\* the minute are made.
LEMMA ClockNotes ==
    ASSUME DayIInv, ClockSteps
    PROVE  /\ missed \subseteq missed'
           /\ \/ /\ clock'.day = clock.day /\ skippedDays' = skippedDays
                 /\ \A k \in Kinds :
                        due[k].day = clock.day /\ clock.minute <= due[k].minute =>
                            \/ clock'.minute <= due[k].minute
                            \/ <<k, clock.day>> \in missed'
              \/ /\ rounds = Rounds
                 /\ clock'.day = clock.day /\ skippedDays' = skippedDays
                 /\ clock'.minute = clock.minute + 1
              \/ /\ rounds = Rounds
                 /\ clock'.day = clock.day + 1 /\ skippedDays \subseteq skippedDays'
                 /\ clock.minute + 1 = MinutesPerDay
<1>1. /\ clock \in Date /\ clock.day \in Nat /\ clock.minute \in Nat /\ clock.day + 1 \in Nat
      /\ \A k \in Kinds : due[k].minute \in Nat
    BY DateFacts DEF DayIInv, TypeOK
<1>2. CASE Tick
    <2>1. clock' = NextMinute(clock) /\ rounds = Rounds /\ UNCHANGED <<skippedDays, missed>>
        BY <1>2 DEF Tick
    <2> QED
        BY <1>1, <2>1, NextMinuteFacts
<1>3. CASE TickOverMidnight
    <2>1. /\ clock' = At(clock.day + 1, MinutesPerHour) /\ rounds = Rounds
          /\ NextMinute(clock).day \in (clock.day + 1)..MaxDay
          /\ missed' = missed /\ skippedDays' = skippedDays \cup {clock.day + 1}
        BY <1>3 DEF TickOverMidnight
    <2>2. clock.minute + 1 = MinutesPerDay
        BY <1>1, <2>1, Constants, NextMinuteFacts
    <2> QED
        BY <1>1, <2>1, <2>2, Constants, DateFacts
<1>4. CASE SetClock
    <2> DEFINE over(t, minute) == t.day = clock.day /\ t.minute \in clock.minute..(minute - 1)
    <2>1. PICK minute \in Minutes :
            /\ clock' = At(clock.day, minute)
            /\ missed' = missed \cup ({k \in Kinds : over(due[k], minute)} \X {clock.day})
            /\ skippedDays' = skippedDays
        BY <1>4 DEF SetClock
    <2>2. clock'.day = clock.day /\ clock'.minute = minute /\ minute \in Nat
        BY <1>1, <2>1, DateFacts, Constants
    <2>3. ASSUME NEW k \in Kinds, due[k].day = clock.day, clock.minute <= due[k].minute,
                 ~(clock'.minute <= due[k].minute)
          PROVE  <<k, clock.day>> \in missed'
        <3>1. over(due[k], minute)
            BY <1>1, <2>2, <2>3
        <3> QED
            BY <2>1, <3>1
    <2> QED
        BY <2>1, <2>2, <2>3
<1> QED
    BY <1>2, <1>3, <1>4 DEF ClockSteps

\* The clock moves: a minute only when its events are sent, a day only when the
\* day is calculated and all of its events are sent or noted.
LEMMA ServiceTick == DayIInv /\ ClockIInv /\ ServiceIInv /\ ClockSteps => ServiceIInv'
<1> SUFFICES ASSUME DayIInv, ClockIInv, ServiceIInv, ClockSteps
             PROVE  ServiceIInv'
    OBVIOUS
<1>1. /\ clock.day \in Nat /\ clock.minute \in Nat /\ clock.minute \in Minutes
      /\ m_lastCalculation.day \in Nat /\ NotAhead(m_lastCalculation.day)
      /\ \A k \in Kinds : due[k] \in Date /\ due[k].minute \in Minutes /\ due[k].minute \in Nat
    BY DateFacts DEF DayIInv, TypeOK
<1>2. UNCHANGED <<due, m_lastCalculation, firedDays, resetDays>> /\ rounds' = 0
    BY ClockMoves DEF DayIInv, calcVars, resetVars
<1>3. RoundsLeft'
    <2>1. DueNow' \in SUBSET Kinds
        BY DEF DueNow
    <2> QED
        BY <1>2, <2>1, FiveKinds DEF RoundsLeft
<1>4. missed \subseteq missed'
    BY ClockNotes
<1> DEFINE Noted == \A k \in Kinds :
                        due[k].day = clock.day /\ clock.minute <= due[k].minute =>
                            \/ clock'.minute <= due[k].minute
                            \/ <<k, clock.day>> \in missed'
           Minute == rounds = Rounds /\ clock'.minute = clock.minute + 1
           Midnight == /\ rounds = Rounds
                       /\ clock'.day = clock.day + 1 /\ skippedDays \subseteq skippedDays'
                       /\ clock.minute + 1 = MinutesPerDay
<1>5. \/ clock'.day = clock.day /\ skippedDays' = skippedDays /\ (Noted \/ Minute)
      \/ Midnight
    BY ClockNotes
<1>6. rounds = Rounds /\ Steady => \A k \in Kinds : due[k] # clock
    BY MinuteServed DEF ServiceIInv
<1>7. ASSUME rounds = Rounds, Steady, NEW k \in Kinds, due[k].day = clock.day
      PROVE  due[k].minute # clock.minute
    <2>1. due[k] # clock /\ due[k] \in Date /\ clock \in Date
        BY <1>1, <1>6, <1>7 DEF DayIInv, TypeOK
    <2> QED
        BY <1>7, <2>1 DEF Date
<1>8. CASE clock'.day = clock.day /\ skippedDays' = skippedDays /\ (Noted \/ Minute)
    <2>1. Steady => Noted
        <3>1. CASE Minute
            BY <1>1, <1>7, <3>1
        <3> QED
            BY <1>8, <3>1
    <2>2. Pending'
        <3> SUFFICES ASSUME clock.day > 0, clock.day \notin skippedDays, Steady,
                            m_lastCalculation.day = clock.day, NEW k \in Kinds
                     PROVE  \/ clock.day \in firedDays[k]
                            \/ <<k, clock.day>> \in missed'
                            \/ due[k].day = clock.day /\ clock'.minute <= due[k].minute
            BY <1>2, <1>8 DEF Pending, Irregular, Steady
        <3> QED
            BY <1>4, <2>1 DEF ServiceIInv, Pending, Irregular, Steady
    <2>3. EveryDay'
        BY <1>2, <1>4, <1>8 DEF ServiceIInv, EveryDay, Irregular
    <2> QED
        BY <1>3, <2>2, <2>3 DEF ServiceIInv
<1>9. CASE Midnight
    <2>1. Pending'
        BY <1>1, <1>2, <1>9 DEF Pending, NotAhead, Irregular
    <2>2. ASSUME clock.day > 0, ~Irregular(clock.day), NEW k \in Kinds
          PROVE  clock.day \in firedDays[k] \/ <<k, clock.day>> \in missed
        <3>1. m_lastCalculation.day = clock.day
            BY <1>9, <2>2, Settled
        <3>2. ~(due[k].day = clock.day /\ clock.minute <= due[k].minute)
            <4>1. due[k].minute <= MinutesPerDay - 1
                BY <1>1, Constants DEF Minutes
            <4> QED
                BY <1>1, <1>7, <1>9, <2>2, <4>1, Constants DEF Irregular, Steady
        <3> QED
            BY <2>2, <3>1, <3>2 DEF ServiceIInv, Pending
    <2>3. EveryDay'
        <3> SUFFICES ASSUME NEW d \in 1..(clock'.day - 1), ~Irregular(d)', NEW k \in Kinds
                     PROVE  d \in firedDays[k] \/ <<k, d>> \in missed'
            BY <1>2 DEF EveryDay
        <3>1. ~Irregular(d)
            BY <1>2, <1>9 DEF Irregular
        <3>2. d = clock.day \/ d \in 1..(clock.day - 1)
            BY <1>1, <1>9
        <3>3. CASE d = clock.day
            BY <1>1, <1>4, <2>2, <3>1, <3>3
        <3>4. CASE d \in 1..(clock.day - 1)
            BY <1>4, <3>1, <3>4 DEF ServiceIInv, EveryDay
        <3> QED
            BY <3>2, <3>3, <3>4
    <2> QED
        BY <1>3, <2>1, <2>3 DEF ServiceIInv
<1> QED
    BY <1>5, <1>8, <1>9

\* The clock is set: to a day that is now exempt, as are the days between.
LEMMA ServiceReset == DayIInv /\ ServiceIInv /\ ResetClock => ServiceIInv'
<1> SUFFICES ASSUME DayIInv, ServiceIInv, ResetClock
             PROVE  ServiceIInv'
    OBVIOUS
<1>1. /\ clock'.day \in Nat /\ clock.day \in Nat
      /\ UNCHANGED <<firedDays, skippedDays, missed>> /\ rounds' = 0
      /\ resetDays \subseteq resetDays' /\ clock'.day \in resetDays'
      /\ \A d \in Nat : d <= clock'.day => d < clock.day \/ d \in resetDays'
    BY ResetMoves DEF DayIInv
<1>2. RoundsLeft'
    <2>1. DueNow' \in SUBSET Kinds
        BY DEF DueNow
    <2> QED
        BY <1>1, <2>1, FiveKinds DEF RoundsLeft
<1>3. Pending'
    BY <1>1 DEF Pending, Irregular
<1>4. EveryDay'
    <2> SUFFICES ASSUME NEW d \in 1..(clock'.day - 1), d \notin skippedDays, d \notin resetDays',
                        NEW k \in Kinds
                 PROVE  d \in firedDays[k] \/ <<k, d>> \in missed
        BY <1>1 DEF EveryDay, Irregular
    <2>1. d \in 1..(clock.day - 1) /\ ~Irregular(d)
        BY <1>1 DEF Irregular
    <2> QED
        BY <2>1 DEF ServiceIInv, EveryDay
<1> QED
    BY <1>2, <1>3, <1>4 DEF ServiceIInv

\* A step of the worker: a round of the current minute takes one kind off those
\* that are due in it, or finds none.
LEMMA ServiceWork == DayIInv /\ ClockIInv /\ ServiceIInv /\ doWork => ServiceIInv'
<1> SUFFICES ASSUME DayIInv, ClockIInv, ServiceIInv, doWork
             PROVE  ServiceIInv'
    OBVIOUS
<1>0. /\ clock \in Date /\ clock.day \in Nat /\ clock.minute \in Nat
      /\ now \in Date /\ now.day \in Nat
      /\ due \in [Kinds -> Date] /\ firedDays \in [Kinds -> SUBSET Nat] /\ rounds \in Nat
    BY DateFacts, Constants DEF DayIInv, TypeOK
<1>1. UNCHANGED <<clock, skippedDays, missed, resetDays>>
    BY DEF doWork, CaptureNow, Calculate, NoCalculation, ResetFlag, Fire, NothingDue, Return,
           resetVars
<1>2. \A k \in Kinds : firedDays[k] \subseteq firedDays'[k]
    BY <1>0 DEF doWork, CaptureNow, Calculate, NoCalculation, ResetFlag, Fire, NothingDue
<1>3. EveryDay'
    BY <1>1, <1>2 DEF ServiceIInv, EveryDay, Irregular
<1>4. DueNow \in SUBSET Kinds /\ DueNow' \in SUBSET Kinds
    BY DEF DueNow
<1>5. /\ IsFiniteSet(DueNow) /\ Cardinality(DueNow) \in 0..5
      /\ IsFiniteSet(DueNow') /\ Cardinality(DueNow') \in 0..5
    BY <1>4, FiveKinds
<1>6. CASE CaptureNow \/ NoCalculation \/ ResetFlag
    <2>1. UNCHANGED <<due, rounds, firedDays, m_lastCalculation>>
        BY <1>6 DEF CaptureNow, NoCalculation, ResetFlag, calcVars
    <2> QED
        BY <1>1, <1>3, <2>1 DEF ServiceIInv, RoundsLeft, DueNow, Pending, Irregular, Steady
<1>7. CASE Calculate
    <2>1. /\ ~m_bCalulationHasBeenDone /\ HourZero(clock)
          /\ m_lastCalculation' = clock /\ Return /\ firedDays' = firedDays
        BY <1>7 DEF Calculate, doCalc
    <2>2. rounds = 0 \/ ~Steady
        BY <1>0, <2>1 DEF ClockIInv, RoundsSettleFlag
    <2>3. RoundsLeft'
        BY <1>1, <1>5, <2>1, <2>2 DEF RoundsLeft, Return, Steady
    <2>4. PICK times \in Almanac : due' = [k \in Kinds |-> At(clock.day, times[k])]
        BY <1>7 DEF Calculate, doCalc
    <2>5. \A k \in Kinds : due'[k].day = clock.day /\ due'[k].minute \in Nat
        <3>1. \A k \in Kinds : times[k] \in Minutes
            BY Constants
        <3> QED
            BY <1>0, <2>4, <3>1, Constants, DateFacts
    <2>6. clock.day > 0 /\ ~Irregular(clock.day) => clock.minute = 0
        <3>1. clock.day > 0 /\ ~Irregular(clock.day) => m_lastCalculation.day # clock.day
            BY <2>1 DEF DayIInv, NothingFiredYet, Steady, Irregular
        <3> QED
            BY <1>0, <3>1 DEF ClockIInv, CalculationFollowsClock
    <2>7. Pending'
        BY <1>1, <2>5, <2>6 DEF Pending, Irregular
    <2> QED
        BY <1>3, <2>3, <2>7 DEF ServiceIInv
<1>8. ASSUME NEW k \in Kinds, Fire(k)
      PROVE  ServiceIInv'
    <2>1. /\ due[k] = now /\ Return /\ m_lastCalculation' = m_lastCalculation
          /\ due' = [due EXCEPT ![k] = Postpone(due[k])]
          /\ due'[k].day = now.day + SpanDays
          /\ firedDays' = [firedDays EXCEPT ![k] = firedDays[k] \cup {now.day}]
        BY <1>8, FireFacts DEF Fire
    <2>2. RoundsLeft'
        <3>1. CASE now = clock
            <4>1. k \in DueNow
                BY <2>1, <3>1 DEF DueNow
            <4>2. due'[k] # clock /\ \A j \in Kinds \ {k} : due'[j] = due[j]
                BY <1>0, <2>1, <3>1, Constants
            <4>3. DueNow' = DueNow \ {k}
                BY <1>1, <4>1, <4>2 DEF DueNow
            <4>4. Cardinality(DueNow') = Cardinality(DueNow) - 1
                BY <1>5, <4>1, <4>3, FS_RemoveElement
            <4>5. Steady => rounds + Cardinality(DueNow) <= 6
                BY <4>1 DEF ServiceIInv, RoundsLeft
            <4>6. rounds' <= rounds + 1 /\ rounds' \in Nat
                BY <1>0, <2>1 DEF Return
            <4> QED
                BY <1>0, <1>1, <1>5, <4>4, <4>5, <4>6 DEF RoundsLeft, Steady
        <3>2. CASE now # clock
            <4>1. rounds' = 0
                BY <1>0, <2>1, <3>2 DEF Return, DayIInv, NowBehind
            <4> QED
                BY <1>5, <4>1 DEF RoundsLeft
        <3> QED
            BY <3>1, <3>2
    <2>3. Pending'
        <3> SUFFICES ASSUME clock.day > 0, ~Irregular(clock.day),
                            m_lastCalculation.day = clock.day, NEW j \in Kinds
                     PROVE  \/ clock.day \in firedDays'[j]
                            \/ <<j, clock.day>> \in missed
                            \/ due'[j].day = clock.day /\ clock.minute <= due'[j].minute
            BY <1>1, <2>1 DEF Pending, Irregular
        <3>1. \/ clock.day \in firedDays[j]
              \/ <<j, clock.day>> \in missed
              \/ due[j].day = clock.day /\ clock.minute <= due[j].minute
            BY DEF ServiceIInv, Pending
        <3>2. CASE j = k /\ now.day = clock.day
            BY <1>0, <2>1, <3>2
        <3>3. CASE j = k /\ now.day # clock.day
            BY <1>2, <2>1, <3>1, <3>3
        <3>4. CASE j # k
            BY <1>0, <2>1, <3>1, <3>4
        <3> QED
            BY <3>2, <3>3, <3>4
    <2> QED
        BY <1>3, <2>2, <2>3 DEF ServiceIInv
<1>9. CASE NothingDue
    <2>1. /\ UNCHANGED <<due, firedDays, m_lastCalculation>> /\ Return
          /\ \A k \in Kinds : due[k] # now
        BY <1>9 DEF NothingDue, calcVars
    <2>2. DueNow' = DueNow
        BY <1>1, <2>1 DEF DueNow
    <2>3. RoundsLeft'
        <3>1. CASE now = clock
            BY <1>1, <2>1, <2>2, <3>1 DEF RoundsLeft, DueNow, Steady
        <3>2. CASE now # clock
            <4>1. rounds' = 0
                BY <1>0, <2>1, <3>2 DEF Return, DayIInv, NowBehind
            <4> QED
                BY <1>5, <4>1 DEF RoundsLeft
        <3> QED
            BY <3>1, <3>2
    <2>4. Pending'
        BY <1>1, <2>1 DEF ServiceIInv, Pending, Irregular
    <2> QED
        BY <1>3, <2>3, <2>4 DEF ServiceIInv
<1> QED
    BY <1>6, <1>7, <1>8, <1>9 DEF doWork

\* The invariant behind EveryDay: no kind is left over in a minute that ends.
THEOREM ServiceInvariance == Spec => []ServiceIInv
<1>1. ServiceIInv /\ UNCHANGED vars => ServiceIInv'
    BY DEF ServiceIInv, RoundsLeft, DueNow, Pending, EveryDay, Irregular, Steady, vars, calcVars,
           resetVars
<1>2. DayIInv /\ ClockIInv /\ ServiceIInv /\ [Next]_vars => ServiceIInv'
    BY <1>1, ServiceTick, ServiceReset, ServiceWork DEF Next, ClockSteps
<1> QED
    BY <1>2, ServiceInit, DayInvariance, ClockInvariance, PTL DEF Spec

\* On every whole day that has a regular hour 0 each kind is sent, unless the
\* clock was set over it: for any almanac, and any number of rounds of six or more a minute.
THEOREM EveryEventSent == Spec => []EveryDay
<1>1. ServiceIInv => EveryDay
    BY DEF ServiceIInv
<1> QED
    BY <1>1, ServiceInvariance, PTL
=============================================================================
