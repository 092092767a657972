----------------------------- MODULE DayNumber ------------------------------
(***************************************************************************)
(* CAutomation::FNday (common/automation.cpp), the first step of every       *)
(* calculation: the days from a date to the epoch J2000, in integer          *)
(* arithmetic that truncates like C++.  The date walks through the calendar  *)
(* and doCalc passes it on, with the hour of the local clock, although the   *)
(* comment of FNday says that its h is UT: d counts from noon by that clock. *)
(* A day is 24 hours here, so the double `luku - 730531.5 + h / 24` becomes  *)
(* an integer number of hours.                                               *)
(***************************************************************************)
EXTENDS Integers, FiniteSets

CONSTANTS
    FirstYear,  \* bound: the walk begins at new year, not before this year
    LastYear,   \* bound: the walk ends in this year
    HourStep    \* hours from one calculation to the next

\* The years FNday works for.
Years == 1901..2099

ASSUME DayNumberAssumption ==
    /\ FirstYear \in Years
    /\ LastYear \in Years
    /\ HourStep \in 1..24

VARIABLES
    date,       \* nowLocal: year, month, day, hour
    d           \* doCalc's local d, in hours

vars == <<date, d>>

-----------------------------------------------------------------------------
\* Mutant of Quotient: the quotient is rounded down.
Floor(a, b) == a \div b

\* a / b in C++, for b > 0.
Quotient(a, b) == IF a >= 0 THEN a \div b ELSE -((-a) \div b)

\* The long integer luku.
Luku(y, m, day) ==
    Quotient(-7 * (y + Quotient(m + 9, 12)), 4) + Quotient(275 * m, 9) + day + 367 * y

\* Mutant of FNday: the epoch is left out.
FNdayOfOurEra(t) == 24 * Luku(t.year, t.month, t.day) + t.hour

\* 730531.5 days.
J2000 == 17532756

FNday(t) == 24 * Luku(t.year, t.month, t.day) - J2000 + t.hour

-----------------------------------------------------------------------------
(* The calendar.                                                            *)

Leap(y) == y % 4 = 0 /\ (y % 100 # 0 \/ y % 400 = 0)

DaysIn(y, m) ==
    IF m = 2 THEN (IF Leap(y) THEN 29 ELSE 28)
    ELSE IF m \in {4, 6, 9, 11} THEN 30
    ELSE 31

At(y, m, day, h) == [year |-> y, month |-> m, day |-> day, hour |-> h]

\* The date at hour h of a day, which may lie on the next day.
Normal(y, m, day, h) ==
    IF h < 24 THEN At(y, m, day, h)
    ELSE IF day < DaysIn(y, m) THEN At(y, m, day + 1, h - 24)
    ELSE IF m < 12 THEN At(y, m + 1, 1, h - 24)
    ELSE At(y + 1, 1, 1, h - 24)

Later(t) == Normal(t.year, t.month, t.day, t.hour + HourStep)

\* A little more than a century, in hours.
Century == 885600

TypeOK ==
    /\ date \in [year : FirstYear..LastYear, month : 1..12, day : 1..31, hour : 0..23]
    /\ date.day <= DaysIn(date.year, date.month)
    /\ d \in -Century..Century

Init ==
    \E y \in FirstYear..LastYear :
        /\ date = At(y, 1, 1, 0)
        /\ d = FNday(date)

\* Time passes and a calculation is made.
doCalc ==
    /\ Later(date).year <= LastYear
    /\ date' = Later(date)
    /\ d' = FNday(date')

Next == doCalc

Spec == Init /\ [][Next]_vars

-----------------------------------------------------------------------------
(* Properties.                                                              *)

\* "FNday only works between 1901 to 2099": there, over the ends of months and
\* of years and through leap days, d advances by the hours that have passed.
DaysAdvance == [][d' - d = HourStep]_vars

\* The same from scratch: d is the number of days from noon of 1 January 2000,
\* counted by the rules of the calendar.
LeapsBetween(y, z) == Cardinality({x \in y..(z - 1) : Leap(x)})

DaysBefore(y) == 365 * (y - 2000) + LeapsBetween(2000, y) - LeapsBetween(y, 2000)

DayOfYear(t) ==
    t.day + Cardinality({p \in (1..(t.month - 1)) \X (1..31) : p[2] <= DaysIn(t.year, p[1])})

DaysToJ2000 == d = 24 * (DaysBefore(date.year) + DayOfYear(date) - 1) + date.hour - 12
=============================================================================
