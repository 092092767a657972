------------------------------ MODULE SunTimes ------------------------------
(***************************************************************************)
(* CAutomation::doCalc with FNrange, FNsun, f0, f1 and convert2HourMinute   *)
(* (common/automation.cpp): from the sun's mean longitude and the products   *)
(* of tangents to the hour and minute at which each event is due.  Angles    *)
(* and times are both integers, a turn and a day being 86400 (doubles in the *)
(* code, in radians and hours).                                             *)
(***************************************************************************)
EXTENDS Integers

CONSTANTS
    Unit,       \* the integer for 1.0 in a sine; Unit - 1 is 0.99999
    Asin,       \* asin on -Unit..Unit
    Skies       \* what the day number, the place and the zone may yield

Day == 86400
Noon == 43200
Quarter == 21600
Hour == 3600

\* mean: the mean longitude before FNrange, as the file static L has it when
\* doCalc first reads it; drift: how far off it is at the second read, where
\* another driver object calculates at the same time and has stored its own;
\* eot: right ascension less mean longitude; fo, fi: what f0 and f1 take the
\* asin of (at -6 degrees more than at the horizon, in both hemispheres);
\* local: time zone less longitude.
Sky == [mean : Int, drift : Int, eot : 1-Noon..Noon-1, fo : Int, fi : Int, local : -Day..Day]

VARIABLES
    sky,            \* history: what doCalc worked with
    due,            \* the hour and minute set in m_SunriseTime and the others
    m_daylength

vars == <<sky, due, m_daylength>>

Kinds == {"twilightSunrise", "sunrise", "noon", "sunset", "twilightSunset"}

-----------------------------------------------------------------------------
\* x / n and x % n in C++, for n > 0.
Quotient(x, n) == IF x >= 0 THEN x \div n ELSE -((-x) \div n)
Remainder(x, n) == x - n * Quotient(x, n)

\* "returns an angle in the range 0 to 2*pi"
FNrange(x) ==
    LET a == Remainder(x, Day)
    IN  IF a < 0 THEN a + Day ELSE a

\* L as FNsun sets it, at its first and at its second read in doCalc; g and the
\* ecliptic longitude only enter into eot, fo and fi.
L(s) == FNrange(s.mean)
LTested(s) == FNrange(s.mean + s.drift)

\* The right ascension, by atan2: from minus to plus half a turn.
alpha(s) ==
    LET a == FNrange(L(s) + s.eot)
    IN  IF a > Noon THEN a - Day ELSE a

\* Mutant of TurnAdded: the comparison is turned round.
TurnAddedAbove(l) == IF l > Noon THEN Day ELSE 0

\* `if (L < pi) LL += 2.0 * pi`
TurnAdded(l) == IF l < Noon THEN Day ELSE 0

\* The equation of time, in seconds.
equation(s) == Day - (L(s) - alpha(s) + TurnAdded(LTested(s)))

\* "Calculating the hourangle": half a turn where the sun does not set.
HourAngle(f) == Asin[IF f > Unit - 1 THEN Unit ELSE f] + Quarter
f0(s) == HourAngle(s.fo)
f1(s) == HourAngle(s.fi)

ASSUME SunTimesAssumption ==
    /\ Unit \in Nat
    /\ Asin \in [-Unit..Unit -> -Quarter..Quarter]
    /\ \A x, y \in -Unit..Unit : x <= y => Asin[x] <= Asin[y]
    /\ Skies \subseteq Sky
    \* No polar night: it needs a latitude that cannot be configured.
    /\ \A s \in Skies : -Unit <= s.fo /\ s.fo <= s.fi
    \* When the mean longitude passes half a turn, in September, the right
    \* ascension is behind it.
    /\ \A s \in Skies : L(s) < Noon => L(s) + s.eot <= Noon

-----------------------------------------------------------------------------
\* Mutant of convert2HourMinute: the minutes are all that are left.
ConvertUnreduced(t) ==
    LET h == Remainder(Quotient(t, Hour), 24)
    IN  [hour |-> h, minute |-> Quotient(t - Hour * h, 60)]

convert2HourMinute(t) ==
    LET h == Remainder(Quotient(t, Hour), 24)
    IN  [hour |-> h, minute |-> Remainder(Quotient(t - Hour * h, 60), 60)]

\* `if (t > 24.0) t -= 24.0`.
Wrap(t) == IF t > Day THEN t - Day ELSE t

\* The times as doCalc computes them.  Noon is not wrapped.
Computed(s, k) ==
    LET sunriseTime == Noon - f0(s) + s.local + equation(s)
        sunsetTime == Noon + f0(s) + s.local + equation(s)
        twx == f1(s) - f0(s)
    IN  CASE k = "twilightSunrise" -> Wrap(sunriseTime - twx)
          [] k = "sunrise" -> Wrap(sunriseTime)
          [] k = "noon" -> sunriseTime + f0(s)
          [] k = "sunset" -> Wrap(sunsetTime)
          [] k = "twilightSunset" -> Wrap(sunsetTime + twx)

\* Mutant of daylen: from noon to sunset.
HalfDaylen(s) == f0(s)

\* `degs * ha / 7.5` hours.
daylen(s) == 2 * f0(s)

Calculated(s) ==
    /\ sky' = s
    /\ due' = [k \in Kinds |-> convert2HourMinute(Computed(s, k))]
    /\ m_daylength' = daylen(s)

\* The state after the constructor's calculation.
Init ==
    \E s \in Skies :
        /\ sky = s
        /\ due = [k \in Kinds |-> convert2HourMinute(Computed(s, k))]
        /\ m_daylength = daylen(s)

doCalc == \E s \in Skies : Calculated(s)

Next == doCalc

Spec == Init /\ [][Next]_vars

-----------------------------------------------------------------------------
(* Properties.                                                              *)

TypeOK ==
    /\ sky \in Skies
    /\ due \in [Kinds -> [hour : -23..23, minute : -59..59]]
    /\ m_daylength \in 0..Day

\* The exact moment of a kind, reckoned from the day's midnight.
Moment(s, k) ==
    Noon + s.local + s.eot +
        CASE k = "twilightSunrise" -> -f1(s)
          [] k = "sunrise" -> -f0(s)
          [] k = "noon" -> 0
          [] k = "sunset" -> f0(s)
          [] k = "twilightSunset" -> f1(s)

Minute(k) == 60 * due[k].hour + due[k].minute

\* "Display decimal hours in hours and minutes": hour and minute are those that
\* a clock shows at the moment, also when it lies after midnight, when the
\* equation of time comes out a day too large (September), and when L is another
\* object's at its second read.
ClockTime(k) ==
    /\ due[k].hour \in 0..23
    /\ due[k].minute \in 0..59
    /\ Minute(k) = (Moment(sky, k) % Day) \div 60

ClockTimes == \A k \in Kinds : ClockTime(k)

\* The length of the day that doCalc keeps for getDayLength() agrees, to the minute,
\* with the times of sunrise and sunset that it keeps for doWork.
DayLengthAgrees ==
    LET apart == ((Minute("sunset") - Minute("sunrise")) * 60 - m_daylength) % Day
    IN  apart < 60 \/ Day - apart < 60

\* Where ClockTimes holds: no moment lies before midnight, and the mean longitude
\* does not fall from a turn to nothing between the two reads of L.
NoneBefore(s) == Moment(s, "twilightSunrise") >= 0
NotLapped(s) == L(s) >= Noon /\ LTested(s) < Noon => L(s) + s.eot <= Noon
=============================================================================
