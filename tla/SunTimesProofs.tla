--------------------------- MODULE SunTimesProofs ---------------------------
(***************************************************************************)
(* Every moment that does not lie before the local midnight is converted to *)
(* the hour and minute of a clock, whatever the almanac, zone and place.    *)
(***************************************************************************)
EXTENDS SunTimes, TLAPS

\* The due times and the length of the day are those of what was worked with.
IInv ==
    /\ sky \in Skies
    /\ due = [k \in Kinds |-> convert2HourMinute(Computed(sky, k))]
    /\ m_daylength = daylen(sky)

-----------------------------------------------------------------------------
\* The hour is the hour of the day, and the minute the minute of the hour.
LEMMA HourMinute ==
    ASSUME NEW t \in Nat
    PROVE  /\ convert2HourMinute(t).hour = (t \div Hour) % 24
           /\ convert2HourMinute(t).minute = (t \div 60) % 60
<1> DEFINE a == t \div Hour
           h == a % 24
           u == t - Hour * h
<1>1. Quotient(t, Hour) = a /\ a \in Nat /\ Hour * a <= t
    BY SMT DEF Quotient, Hour
<1>2. Remainder(a, 24) = h /\ h \in 0..23 /\ h <= a
    BY <1>1, SMT DEF Quotient, Hour, Remainder
<1>3. u \in Nat
    BY <1>1, <1>2, SMT DEF Hour
<1>4. Quotient(u, 60) = u \div 60 /\ u \div 60 \in Nat
    BY <1>3, SMT DEF Quotient, Hour
<1>5. Remainder(u \div 60, 60) = (u \div 60) % 60
    BY <1>4, SMT DEF Quotient, Hour, Remainder
<1>6. (u \div 60) % 60 = (t \div 60) % 60
    <2>1. u \div 60 = t \div 60 - 60 * h
        BY <1>2, SMT DEF Hour
    <2>2. \A x, y \in Int : (x - 60 * y) % 60 = x % 60
        BY SMT
    <2>3. t \div 60 \in Int /\ h \in Int
        BY <1>2, SMT
    <2> QED
        BY <2>1, <2>2, <2>3
<1>7. convert2HourMinute(t) = [hour |-> h, minute |-> (u \div 60) % 60]
    <2> HIDE DEF a, h
    <2> QED
        BY <1>1, <1>2, <1>4, <1>5 DEF convert2HourMinute
<1> QED
    BY <1>6, <1>7

\* Quotient and remainder make up the dividend.
LEMMA Divided ==
    ASSUME NEW x \in Nat
    PROVE  /\ x % 24 = x - 24 * (x \div 24)
           /\ x % 60 = x - 60 * (x \div 60)
           /\ x % Day = x - Day * (x \div Day)
<1>1. x % 24 = x - 24 * (x \div 24)
    BY SMT
<1>2. x % 60 = x - 60 * (x \div 60)
    BY SMT
<1>3. x % Day = x - Day * (x \div Day)
    BY SMT DEF Day
<1> QED
    BY <1>1, <1>2, <1>3

\* Together they are the minute of the day.
LEMMA MinuteOfDay ==
    ASSUME NEW t \in Nat
    PROVE  60 * ((t \div Hour) % 24) + ((t \div 60) % 60) = (t % Day) \div 60
<1> DEFINE a == t \div Hour
           b == t \div Day
           c == t \div 60
<1>1. a \in Nat /\ b \in Nat /\ c \in Nat
    BY SMT DEF Day, Hour
<1>2. a \div 24 = b /\ c \div 60 = a
    BY SMT DEF Day, Hour
<1>3. t % Day \in Nat /\ (t % Day) \div 60 = c - 60 * (24 * b)
    <2> DEFINE r == t % Day
    <2>1. r = t - Day * b /\ r \in Nat
        BY Divided, SMT DEF Day
    <2>2. (t - Day * b) \div 60 = c - 60 * (24 * b)
        <3>1. b \in Int
            BY <1>1
        <3> HIDE DEF b
        <3> QED
            BY <3>1, SMT DEF Day
    <2> QED
        BY <2>1, <2>2
<1> HIDE DEF a, b, c
<1>4. a % 24 = a - 24 * b /\ c % 60 = c - 60 * a
    BY <1>1, <1>2, Divided
<1>5. 60 * (a % 24) + (c % 60) = c - 60 * (24 * b)
    BY <1>1, <1>4, SMT
<1> QED
    BY <1>3, <1>5 DEF a, c

-----------------------------------------------------------------------------
\* The computed times, when none lies before midnight: the moments themselves,
\* up to a day.
LEMMA Wrapped ==
    ASSUME NEW t \in Nat
    PROVE  Wrap(t) \in Nat /\ Wrap(t) % Day = t % Day
<1>1. ASSUME NEW x \in Nat, x > Day
      PROVE  x - Day \in Nat /\ (x - Day) % Day = x % Day
    BY <1>1, SMT DEF Day
<1> QED
    BY <1>1 DEF Wrap

\* A day is two noons and a noon two quarters: all that the sums below need of
\* these numbers.
LEMMA Numbers ==
    /\ Day \in Int /\ Noon \in Int /\ Quarter \in Int
    /\ Day = Noon + Noon /\ Noon = Quarter + Quarter /\ Quarter > 1
BY SMT DEF Day, Noon, Quarter

\* What is left of a number of seconds when its whole days are taken away.
LEMMA WholeDays ==
    ASSUME NEW y \in Nat
    PROVE  LET r == y - Day * (y \div Day)
           IN  /\ r \in 0..Day-1
               /\ y < Day => r = y
               /\ Day <= y /\ y < Day + Day => r = y - Day
<1> DEFINE q == y \div Day
<1>1. q \in Nat /\ Day * q <= y /\ y < Day * q + Day
    BY SMT DEF Day
<1>2. /\ y < Day => q = 0
      /\ Day <= y /\ y < Day + Day => q = 1
    BY SMT DEF Day
<1> HIDE DEF q
<1>3. y - Day * q \in 0..Day-1
    <2> DEFINE p == Day * q
    <2>1. p \in Int
        BY <1>1, SMT DEF Day
    <2> HIDE DEF p
    <2> QED
        BY <1>1, <2>1, Numbers, SMT DEF p
<1>4. q = 0 => y - Day * q = y
    BY SMT DEF Day
<1>5. q = 1 => y - Day * q = y - Day
    BY SMT DEF Day
<1> QED
    BY <1>2, <1>3, <1>4, <1>5 DEF q

\* FNrange yields an angle within one turn, and less or more by one turn
\* where one turn is enough.
LEMMA WithinTurn ==
    ASSUME NEW x \in Int
    PROVE  /\ FNrange(x) \in 0..Day-1
           /\ -Day < x /\ x < 0 => FNrange(x) = x + Day
           /\ 0 <= x /\ x < Day => FNrange(x) = x
           /\ Day <= x /\ x < Day + Noon => FNrange(x) = x - Day
<1> DEFINE a == Remainder(x, Day)
<1>1. CASE x >= 0
    <2>1. a = x - Day * (x \div Day)
        BY <1>1, Zenon DEF Remainder, Quotient
    <2>2. x \in Nat
        BY <1>1, SMT
    <2> HIDE DEF a
    <2>3. /\ a \in 0..Day-1
          /\ x < Day => a = x
          /\ Day <= x /\ x < Day + Day => a = x - Day
        BY <2>1, <2>2, WholeDays, Zenon
    <2>4. FNrange(x) = IF a < 0 THEN a + Day ELSE a
        BY DEF FNrange, a
    <2> QED
        BY <1>1, <2>3, <2>4, Numbers, SMT
<1>2. CASE x < 0
    <2> DEFINE y == -x
               r == y - Day * (y \div Day)
    <2>1. y \in Nat /\ ~(x >= 0)
        BY <1>2, SMT
    <2>2. r \in 0..Day-1 /\ (y < Day => r = y)
        BY <2>1, WholeDays, Zenon
    <2>3. a = x - Day * (-(y \div Day))
        BY <2>1, Zenon DEF Remainder, Quotient
    <2>4. a = -r
        <3>1. y \div Day \in Int
            BY <2>1, SMT DEF Day
        <3>2. \A z \in Int : x - Day * (-z) = -(-x - Day * z)
            BY SMT DEF Day
        <3> QED
            BY <2>3, <3>1, <3>2
    <2>5. FNrange(x) = IF a < 0 THEN a + Day ELSE a
        BY DEF FNrange
    <2> HIDE DEF a, r
    <2> QED
        BY <1>2, <2>2, <2>4, <2>5, Numbers, SMT
<1> QED
    BY <1>1, <1>2, SMT

\* The hour angles of a sky lie between nothing and half a turn, and the sun is
\* longer above -6 degrees than above the horizon.
LEMMA HourAngles ==
    ASSUME NEW s \in Skies
    PROVE  f0(s) \in 0..Noon /\ f1(s) \in 0..Noon /\ f0(s) <= f1(s)
<1> DEFINE c(f) == IF f > Unit - 1 THEN Unit ELSE f
<1>1. Unit \in Nat /\ s.fo \in Int /\ s.fi \in Int /\ -Unit <= s.fo /\ s.fo <= s.fi
    <2>1. s \in Sky /\ Unit \in Nat /\ -Unit <= s.fo /\ s.fo <= s.fi
        BY SunTimesAssumption, Zenon DEF SunTimesAssumption
    <2> QED
        BY <2>1, Zenon DEF Sky
<1>2. c(s.fo) \in -Unit..Unit /\ c(s.fi) \in -Unit..Unit /\ c(s.fo) <= c(s.fi)
    BY <1>1, SMT
<1>3. /\ f0(s) = Asin[c(s.fo)] + Quarter
      /\ f1(s) = Asin[c(s.fi)] + Quarter
    BY DEF f0, f1, HourAngle
<1> HIDE DEF c
<1>4. /\ Asin[c(s.fo)] \in -Quarter..Quarter
      /\ Asin[c(s.fi)] \in -Quarter..Quarter
      /\ Asin[c(s.fo)] <= Asin[c(s.fi)]
    BY <1>2, SunTimesAssumption, Zenon DEF SunTimesAssumption
<1> QED
    BY <1>3, <1>4, Numbers, SMT

\* The equation of time comes out right, or a day too large.
LEMMA Equation ==
    ASSUME NEW s \in Skies, NotLapped(s)
    PROVE  equation(s) = s.eot \/ equation(s) = s.eot + Day
<1> DEFINE l == L(s)
           t == LTested(s)
           e == s.eot
           b == FNrange(l + e)
<1>1. s \in Sky /\ (l < Noon => l + e <= Noon)
    BY SunTimesAssumption, Zenon DEF SunTimesAssumption
<1>2. s.mean \in Int /\ s.drift \in Int /\ e \in 1-Noon..Noon-1
    BY <1>1, Zenon DEF Sky
<1>3. l \in 0..Day-1 /\ t \in 0..Day-1
    BY <1>2, WithinTurn DEF L, LTested
<1> DEFINE r == IF b > Noon THEN b - Day ELSE b
<1>4. /\ equation(s) = Day - (l - r + (IF t < Noon THEN Day ELSE 0))
      /\ l >= Noon /\ t < Noon => l + e <= Noon
    BY Zenon DEF equation, alpha, TurnAdded, NotLapped
<1> HIDE DEF l, t, e, r
<1>5. /\ l \in Int /\ 0 <= l /\ l < Day /\ t \in Int
      /\ e \in Int /\ -Noon < e /\ e < Noon
    BY <1>2, <1>3, Numbers, SMT
<1>6. r = IF l + e > Noon THEN l + e - Day ELSE l + e
    <2> DEFINE x == l + e
    <2>1. x \in Int /\ -Noon < x /\ x < Day + Noon
        BY <1>5, Numbers, SMT
    <2>2. /\ b \in 0..Day-1
          /\ -Day < x /\ x < 0 => b = x + Day
          /\ 0 <= x /\ x < Day => b = x
          /\ Day <= x /\ x < Day + Noon => b = x - Day
        BY <2>1, WithinTurn
    <2> HIDE DEF x, b
    <2>3. CASE b > Noon
        <3>1. (x > Noon /\ b - Day = x - Day) \/ (~(x > Noon) /\ b - Day = x)
            BY <2>1, <2>2, <2>3, Numbers, SMT
        <3> QED
            BY <1>5, <2>1, <2>2, <2>3, <3>1, Numbers, SMT DEF r, x
    <2>4. CASE ~(b > Noon)
        <3>1. (x > Noon /\ b = x - Day) \/ (~(x > Noon) /\ b = x)
            BY <2>1, <2>2, <2>4, Numbers, SMT
        <3> QED
            BY <1>5, <2>1, <2>2, <2>4, <3>1, Numbers, SMT DEF r, x
    <2> QED
        BY <2>3, <2>4
<1> HIDE DEF b
<1>7. r \in Int /\ (r = l + e \/ r = l + e - Day)
    BY <1>5, <1>6, Numbers, SMT
<1>8. CASE l < Noon
    BY <1>1, <1>4, <1>5, <1>6, <1>8, Numbers, SMT DEF e
<1>9. CASE ~(l < Noon)
    BY <1>4, <1>5, <1>6, <1>7, <1>9, Numbers, SMT DEF e
<1> QED
    BY <1>8, <1>9

\* What the code computes for each kind.
LEMMA ComputedKinds ==
    ASSUME NEW s
    PROVE  LET rise == Noon - f0(s) + s.local + equation(s)
               set == Noon + f0(s) + s.local + equation(s)
               twx == f1(s) - f0(s)
           IN  /\ Computed(s, "twilightSunrise") = Wrap(rise - twx)
               /\ Computed(s, "sunrise") = Wrap(rise)
               /\ Computed(s, "noon") = rise + f0(s)
               /\ Computed(s, "sunset") = Wrap(set)
               /\ Computed(s, "twilightSunset") = Wrap(set + twx)
BY DEF Computed

\* The exact moment of each kind.
LEMMA MomentKinds ==
    ASSUME NEW s
    PROVE  /\ Moment(s, "twilightSunrise") = Noon + s.local + s.eot + (-f1(s))
           /\ Moment(s, "sunrise") = Noon + s.local + s.eot + (-f0(s))
           /\ Moment(s, "noon") = Noon + s.local + s.eot + 0
           /\ Moment(s, "sunset") = Noon + s.local + s.eot + f0(s)
           /\ Moment(s, "twilightSunset") = Noon + s.local + s.eot + f1(s)
BY DEF Moment

\* Before the wrap a time is its moment, or a day later; the result is neither
\* negative nor at another time of day.
LEMMA SameTimeOfDay ==
    ASSUME NEW m \in Nat, NEW x, x = m \/ x = m + Day
    PROVE  /\ x \in Nat /\ x % Day = m % Day
           /\ Wrap(x) \in Nat /\ Wrap(x) % Day = m % Day
<1>1. m + Day \in Nat /\ (m + Day) % Day = m % Day
    BY SMT DEF Day
<1> QED
    BY <1>1, Wrapped

\* No computed time is negative, and the code's way to it comes to the same.
LEMMA ComputedTimes ==
    ASSUME NEW s \in Skies, NoneBefore(s), NotLapped(s), NEW k \in Kinds
    PROVE  /\ Computed(s, k) \in Nat
           /\ Moment(s, k) % Day = Computed(s, k) % Day
<1> DEFINE ha == f0(s)
           hb == f1(s)
           q == equation(s)
           e == s.eot
           c == s.local
           rise == Noon - ha + c + q
           set == Noon + ha + c + q
           Apart(x, mom) == mom \in Nat /\ (x = mom \/ x = mom + Day)
<1>1. ha \in Int /\ hb \in Int /\ 0 <= ha /\ ha <= hb
    <2>1. ha \in 0..Noon /\ hb \in 0..Noon /\ ha <= hb
        BY HourAngles
    <2> HIDE DEF ha, hb
    <2> QED
        BY <2>1, Numbers, SMT
<1>2. c \in Int /\ e \in Int /\ Noon \in Int /\ Day \in Int
    <2>1. s \in Sky
        BY SunTimesAssumption, Zenon DEF SunTimesAssumption
    <2>2. c \in -Day..Day /\ e \in 1-Noon..Noon-1
        BY <2>1, Zenon DEF Sky
    <2> HIDE DEF c, e
    <2> QED
        BY <2>2, Numbers, SMT
<1>3. q = e \/ q = e + Day
    BY Equation
<1>4. Noon + c + e + (-hb) >= 0
    BY MomentKinds DEF NoneBefore
<1>5. /\ Apart(rise - (hb - ha), Noon + c + e + (-hb))
      /\ Apart(rise, Noon + c + e + (-ha))
      /\ Apart(rise + ha, Noon + c + e + 0)
      /\ Apart(set, Noon + c + e + ha)
      /\ Apart(set + (hb - ha), Noon + c + e + hb)
    <2> HIDE DEF ha, hb, c, e, q
    <2> QED
        BY <1>1, <1>2, <1>3, <1>4, SMT
<1>6. \A x, m : Apart(x, m) => /\ x \in Nat /\ m % Day = x % Day
                              /\ Wrap(x) \in Nat /\ m % Day = Wrap(x) % Day
    BY SameTimeOfDay
<1> HIDE DEF rise, set, Apart
<1>7. CASE k = "twilightSunrise"
    <2>1. Computed(s, k) = Wrap(rise - (hb - ha)) /\ Moment(s, k) = Noon + c + e + (-hb)
        BY <1>7, ComputedKinds, MomentKinds, Zenon DEF rise
    <2> QED
        BY <1>5, <1>6, <2>1, Zenon
<1>8. CASE k = "sunrise"
    <2>1. Computed(s, k) = Wrap(rise) /\ Moment(s, k) = Noon + c + e + (-ha)
        BY <1>8, ComputedKinds, MomentKinds, Zenon DEF rise
    <2> QED
        BY <1>5, <1>6, <2>1, Zenon
<1>9. CASE k = "noon"
    <2>1. Computed(s, k) = rise + ha /\ Moment(s, k) = Noon + c + e + 0
        BY <1>9, ComputedKinds, MomentKinds, Zenon DEF rise
    <2> QED
        BY <1>5, <1>6, <2>1, Zenon
<1>10. CASE k = "sunset"
    <2>1. Computed(s, k) = Wrap(set) /\ Moment(s, k) = Noon + c + e + ha
        BY <1>10, ComputedKinds, MomentKinds, Zenon DEF set
    <2> QED
        BY <1>5, <1>6, <2>1, Zenon
<1>11. CASE k = "twilightSunset"
    <2>1. Computed(s, k) = Wrap(set + (hb - ha)) /\ Moment(s, k) = Noon + c + e + hb
        BY <1>11, ComputedKinds, MomentKinds, Zenon DEF set
    <2> QED
        BY <1>5, <1>6, <2>1, Zenon
<1> QED
    BY <1>7, <1>8, <1>9, <1>10, <1>11 DEF Kinds

-----------------------------------------------------------------------------
\* The due times are always those of the sky that doCalc worked with.
LEMMA SunTimesInvariance == Spec => []IInv
<1>1. Init => IInv
    BY DEF Init, IInv
<1>2. IInv /\ [Next]_vars => IInv'
    <2>1. IInv /\ UNCHANGED vars => IInv'
        BY DEF IInv, vars
    <2>2. IInv /\ Next => IInv'
        BY DEF IInv, Next, doCalc, Calculated
    <2> QED
        BY <2>1, <2>2
<1> QED
    BY <1>1, <1>2, PTL DEF Spec

\* If no moment lies before midnight, and no two objects calculate at the turn
\* of the mean longitude, each due time is what a clock shows at that moment,
\* for every almanac, zone and place.
THEOREM DueByTheClock ==
    ASSUME \A s \in Skies : NoneBefore(s) /\ NotLapped(s)
    PROVE  Spec => []ClockTimes
<1>1. ASSUME IInv
      PROVE  ClockTimes
    <2> SUFFICES ASSUME NEW k \in Kinds
                 PROVE  ClockTime(k)
        BY DEF ClockTimes
    <2> DEFINE t == Computed(sky, k)
    <2>1. t \in Nat /\ Moment(sky, k) % Day = t % Day
        <3>1. sky \in Skies
            BY <1>1 DEF IInv
        <3> QED
            BY <3>1, ComputedTimes
    <2>2. due[k] = convert2HourMinute(t)
        BY <1>1 DEF IInv
    <2> HIDE DEF t
    <2>3. due[k].hour = (t \div Hour) % 24 /\ due[k].minute = (t \div 60) % 60
        BY <2>1, <2>2, HourMinute
    <2>4. (t \div Hour) % 24 \in 0..23 /\ (t \div 60) % 60 \in 0..59
        BY <2>1, SMT DEF Hour
    <2>5. 60 * ((t \div Hour) % 24) + ((t \div 60) % 60) = (t % Day) \div 60
        BY <2>1, MinuteOfDay
    <2>6. Minute(k) = (Moment(sky, k) % Day) \div 60
        BY <2>1, <2>3, <2>5, Zenon DEF Minute
    <2> QED
        BY <2>3, <2>4, <2>6, Zenon DEF ClockTime
<1> QED
    BY <1>1, SunTimesInvariance, PTL

\* Every due time is a number of hours and of minutes of a day, before or after
\* midnight, for every almanac, zone and place.
LEMMA Remainders ==
    ASSUME NEW x \in Int
    PROVE  Remainder(x, 24) \in -23..23 /\ Remainder(x, 60) \in -59..59 /\ Quotient(x, Hour) \in Int
<1>1. CASE x >= 0
    <2>1. Quotient(x, 24) = x \div 24 /\ Quotient(x, 60) = x \div 60 /\ Quotient(x, Hour) = x \div Hour
        BY <1>1 DEF Quotient
    <2>2. x - 24 * (x \div 24) \in 0..23 /\ x - 60 * (x \div 60) \in 0..59 /\ x \div Hour \in Int
        BY <1>1, SMT DEF Hour
    <2> QED
        BY <2>1, <2>2, SMT DEF Remainder
<1>2. CASE x < 0
    <2> DEFINE y == -x
    <2>1. /\ Quotient(x, 24) = -(y \div 24) /\ Quotient(x, 60) = -(y \div 60)
          /\ Quotient(x, Hour) = -(y \div Hour)
        BY <1>2, SMT DEF Quotient
    <2>2. y \in Nat /\ x = -y
        BY <1>2, SMT
    <2> HIDE DEF y
    <2>3. /\ -y + 24 * (y \div 24) \in -23..0 /\ -y + 60 * (y \div 60) \in -59..0
          /\ -(y \div Hour) \in Int
        BY <2>2, SMT DEF Hour
    <2> QED
        BY <2>1, <2>2, <2>3, SMT DEF Remainder
<1> QED
    BY <1>1, <1>2, SMT

\* The types of the hour and minute.
LEMMA ConvertType ==
    ASSUME NEW t \in Int
    PROVE  convert2HourMinute(t) \in [hour : -23..23, minute : -59..59]
<1> DEFINE h == Remainder(Quotient(t, Hour), 24)
           u == t - Hour * h
           v == Quotient(u, 60)
<1>1. h \in -23..23
    BY Remainders
<1>2. u \in Int
    BY <1>1, SMT DEF Hour
<1>3. v \in Int
    BY <1>2, SMT DEF Quotient
<1>4. Remainder(v, 60) \in -59..59
    BY <1>3, Remainders
<1>5. convert2HourMinute(t) = [hour |-> h, minute |-> Remainder(v, 60)]
    BY DEF convert2HourMinute
<1> QED
    BY <1>1, <1>4, <1>5

\* The computed times are numbers.
LEMMA ComputedType ==
    ASSUME NEW s \in Skies, NEW k \in Kinds
    PROVE  Computed(s, k) \in Int
<1>1. f0(s) \in Int /\ f1(s) \in Int
    BY HourAngles, SMT
<1>2. s.local \in Int /\ s.eot \in Int /\ s.mean \in Int /\ s.drift \in Int
    BY SunTimesAssumption DEF SunTimesAssumption, Sky
<1>3. equation(s) \in Int
    <2>1. L(s) \in Int /\ LTested(s) \in Int
        BY <1>2, WithinTurn, SMT DEF L, LTested
    <2>2. FNrange(L(s) + s.eot) \in Int
        BY <1>2, <2>1, WithinTurn, SMT
    <2>3. alpha(s) \in Int /\ TurnAdded(LTested(s)) \in Int
        BY <2>2, Numbers, SMT DEF alpha, TurnAdded
    <2> QED
        BY <2>1, <2>3, Numbers, SMT DEF equation
<1>4. \A t \in Int : Wrap(t) \in Int
    BY Numbers, SMT DEF Wrap
<1> DEFINE rise == Noon - f0(s) + s.local + equation(s)
           set == Noon + f0(s) + s.local + equation(s)
           twx == f1(s) - f0(s)
<1>5. rise \in Int /\ set \in Int /\ rise - twx \in Int /\ set + twx \in Int /\ rise + f0(s) \in Int
    BY <1>1, <1>2, <1>3, Numbers, SMT
<1> HIDE DEF rise, set, twx
<1>6. Wrap(rise - twx) \in Int /\ Wrap(rise) \in Int /\ Wrap(set) \in Int /\ Wrap(set + twx) \in Int
    BY <1>4, <1>5
<1>7. \/ Computed(s, k) = Wrap(rise - twx) \/ Computed(s, k) = Wrap(rise)
      \/ Computed(s, k) = rise + f0(s)
      \/ Computed(s, k) = Wrap(set) \/ Computed(s, k) = Wrap(set + twx)
    BY ComputedKinds DEF rise, set, twx, Kinds
<1> QED
    BY <1>5, <1>6, <1>7

\* Types, also of due times that lie before midnight and come out negative.
THEOREM SunTimesTypeCorrect == Spec => []TypeOK
<1>1. ASSUME IInv
      PROVE  TypeOK
    <2>1. sky \in Skies
        BY <1>1 DEF IInv
    <2>2. \A k \in Kinds : convert2HourMinute(Computed(sky, k)) \in [hour : -23..23, minute : -59..59]
        BY <2>1, ComputedType, ConvertType
    <2>3. due \in [Kinds -> [hour : -23..23, minute : -59..59]]
        BY <1>1, <2>2 DEF IInv
    <2>4. m_daylength \in 0..Day
        <3>1. f0(sky) \in 0..Noon
            BY <2>1, HourAngles
        <3> QED
            BY <1>1, <3>1, Numbers, SMT DEF IInv, daylen
    <2> QED
        BY <2>1, <2>3, <2>4 DEF TypeOK
<1> QED
    BY <1>1, SunTimesInvariance, PTL

-----------------------------------------------------------------------------
\* Two moments, each cut to the minute of its day, are as far apart as the moments
\* are, up to a minute and to whole days.
LEMMA CutToMinutes ==
    ASSUME NEW x \in Nat, NEW y \in Nat
    PROVE  \/ (((y % Day) \div 60 - (x % Day) \div 60) * 60 - (y - x)) % Day < 60
           \/ Day - ((((y % Day) \div 60 - (x % Day) \div 60) * 60 - (y - x)) % Day) < 60
<1> DEFINE a == x \div Day
           b == y \div Day
           r == x % Day
           s == y % Day
           m == r \div 60
           n == s \div 60
<1>1. a \in Int /\ b \in Int /\ r \in Nat /\ s \in Nat /\ r = x - Day * a /\ s = y - Day * b
    BY Divided, SMT DEF Day
<1> HIDE DEF a, b, r, s
<1>2. /\ m \in Int /\ n \in Int
      /\ 60 * m <= r /\ r < 60 * m + 60
      /\ 60 * n <= s /\ s < 60 * n + 60
    BY <1>1, SMT
<1> HIDE DEF m, n
<1> DEFINE e == (r - 60 * m) - (s - 60 * n)
           c == a - b
<1>3. e \in -59..59 /\ c \in Int
    BY <1>1, <1>2, SMT
<1>4. (n - m) * 60 - (y - x) = Day * c + e
    BY <1>1, <1>2, SMT DEF Day
<1> HIDE DEF e, c
<1>5. (Day * c + e) % Day = IF e >= 0 THEN e ELSE Day + e
    BY <1>3, SMT DEF Day
<1>6. (Day * c + e) % Day < 60 \/ Day - ((Day * c + e) % Day) < 60
    BY <1>3, <1>5, Numbers, SMT
<1>7. ((n - m) * 60 - (y - x)) % Day < 60 \/ Day - (((n - m) * 60 - (y - x)) % Day) < 60
    BY <1>4, <1>6, Zenon
<1> QED
    BY <1>7 DEF m, n, r, s

\* Wherever the due times are those of a clock, m_daylength agrees with them to
\* the minute, also when sunset lies after midnight.
THEOREM DayLength ==
    ASSUME \A s \in Skies : NoneBefore(s) /\ NotLapped(s)
    PROVE  Spec => []DayLengthAgrees
<1>1. ASSUME IInv, ClockTimes
      PROVE  DayLengthAgrees
    <2> DEFINE x == Moment(sky, "sunrise")
               y == Moment(sky, "sunset")
    <2>1. sky \in Skies /\ m_daylength = 2 * f0(sky)
        BY <1>1 DEF IInv, daylen
    <2>2. /\ x = Noon + sky.local + sky.eot + (-f0(sky))
          /\ y = Noon + sky.local + sky.eot + f0(sky)
          /\ Moment(sky, "twilightSunrise") = Noon + sky.local + sky.eot + (-f1(sky))
        BY MomentKinds
    <2>3. sky.local \in Int /\ sky.eot \in Int
        BY <2>1, SunTimesAssumption DEF SunTimesAssumption, Sky
    <2>4. f0(sky) \in Int /\ f1(sky) \in Int /\ 0 <= f0(sky) /\ f0(sky) <= f1(sky)
        BY <2>1, HourAngles, Numbers, SMT
    <2>5. Moment(sky, "twilightSunrise") >= 0
        BY <2>1 DEF NoneBefore
    <2>6. x \in Nat /\ y \in Nat /\ y - x = m_daylength
        <3> HIDE DEF x, y
        <3> QED
            BY <2>1, <2>2, <2>3, <2>4, <2>5, Numbers, SMT
    <2>7. Minute("sunrise") = (x % Day) \div 60 /\ Minute("sunset") = (y % Day) \div 60
        BY <1>1 DEF ClockTimes, ClockTime, Kinds
    <2> HIDE DEF x, y
    <2>8. \/ (((y % Day) \div 60 - (x % Day) \div 60) * 60 - m_daylength) % Day < 60
          \/ Day - ((((y % Day) \div 60 - (x % Day) \div 60) * 60 - m_daylength) % Day) < 60
        BY <2>6, CutToMinutes, Zenon
    <2> QED
        BY <2>7, <2>8, Zenon DEF DayLengthAgrees
<1> QED
    BY <1>1, SunTimesInvariance, DueByTheClock, PTL
=============================================================================
