-------------------------- MODULE DayNumberProofs ---------------------------
(***************************************************************************)
(* FNday counts days over every year it is meant for, whatever the step      *)
(* between two calculations.                                                *)
(***************************************************************************)
EXTENDS DayNumber, FiniteSetTheorems, TLAPS

Months == 1..12
Days == 1..31
Hours == 0..23
Dates == [year : FirstYear..LastYear, month : Months, day : Days, hour : Hours]

\* Bounds of luku in Years.
MinLuku == 694100
MaxLuku == 767100

\* A date of the calendar.
Valid(t) == t \in Dates /\ t.day <= DaysIn(t.year, t.month)

\* The date is valid, and d is FNday's value for it.
IInv == Valid(date) /\ d = FNday(date)

-----------------------------------------------------------------------------
(* luku.                                                                    *)

\* luku is an integer.
LEMMA LukuInteger ==
    ASSUME NEW y \in Years, NEW m \in Months, NEW day \in Days
    PROVE  Luku(y, m, day) \in Int
BY SMT DEF Luku, Quotient, Years, Months, Days

\* Between 1901 and 2099 every fourth year is a leap year.
LEMMA LeapYears ==
    ASSUME NEW y \in Years
    PROVE  Leap(y) <=> y % 4 = 0
BY SMT DEF Leap, Years

\* A month has 28 to 31 days.
LEMMA MonthLengths ==
    ASSUME NEW y \in Years, NEW m \in Months
    PROVE  DaysIn(y, m) \in 28..31
BY SMT DEF DaysIn, Months

\* Within a month, luku counts the days.
LEMMA MonthDays ==
    ASSUME NEW y \in Years, NEW m \in Months, NEW day \in Days
    PROVE  Luku(y, m, day) = Luku(y, m, 1) + day - 1
<1>1. Quotient(-7 * (y + Quotient(m + 9, 12)), 4) \in Int /\ Quotient(275 * m, 9) \in Int
    BY SMT DEF Quotient, Years, Months
<1> QED
    BY <1>1, SMT DEF Luku, Years, Days

\* From one day to the next.
LEMMA DayEnds ==
    ASSUME NEW y \in Years, NEW m \in Months, NEW day \in 1..30
    PROVE  Luku(y, m, day + 1) = Luku(y, m, day) + 1
<1>1. Quotient(-7 * (y + Quotient(m + 9, 12)), 4) \in Int /\ Quotient(275 * m, 9) \in Int
    BY SMT DEF Quotient, Years, Months
<1> QED
    BY <1>1, SMT DEF Luku, Years

\* The last day of February is followed by the first of March.
LEMMA FebruaryEnds ==
    ASSUME NEW y \in Years
    PROVE  Luku(y, 3, 1) = Luku(y, 2, DaysIn(y, 2)) + 1
<1>1. DaysIn(y, 2) = IF y % 4 = 0 THEN 29 ELSE 28
    BY LeapYears DEF DaysIn
<1>2. (7 * (y + 1)) \div 4 = (7 * y) \div 4 + (IF y % 4 = 0 THEN 1 ELSE 2)
    BY SMT DEF Years
<1> QED
    BY <1>1, <1>2, SMT DEF Luku, Quotient, Years

\* The last day of every other month is followed by the first of the next.
LEMMA MonthEnds ==
    ASSUME NEW y \in Years, NEW m \in 1..11, m # 2
    PROVE  Luku(y, m + 1, 1) = Luku(y, m, DaysIn(y, m)) + 1
<1>1. m \in {1, 3, 4, 5, 6, 7, 8, 9, 10, 11}
    BY SMT
<1> QED
    BY <1>1, SMT DEF Luku, Quotient, DaysIn, Years

\* New Year's Eve is followed by New Year.
LEMMA YearEnds ==
    ASSUME NEW y \in Years, y # 2099
    PROVE  Luku(y + 1, 1, 1) = Luku(y, 12, 31) + 1
BY SMT DEF Luku, Quotient, Years

-----------------------------------------------------------------------------
(* Dates.                                                                   *)

\* The epoch is an integer: what follows needs no more of it.
LEMMA JulianEpoch == J2000 \in Int
BY SMT DEF J2000

\* The walk stays among the years FNday works for.
LEMMA WalkYears ==
    /\ FirstYear..LastYear \subseteq Years
    /\ \A y \in FirstYear..LastYear : y \in Int
    /\ \A y \in FirstYear..LastYear : y + 1 <= LastYear =>
           y + 1 \in FirstYear..LastYear /\ y # 2099
BY DayNumberAssumption, SMT DEF DayNumberAssumption, Years

\* A date is made of its fields.
LEMMA DateFields ==
    ASSUME NEW t \in Dates
    PROVE  /\ t = At(t.year, t.month, t.day, t.hour)
           /\ t.year \in FirstYear..LastYear
           /\ t.month \in Months /\ t.day \in Days /\ t.hour \in Hours
BY DEF Dates, At

\* A date that is made of fields has them, and FNday's value is made of them.
LEMMA DateAt ==
    ASSUME NEW y \in FirstYear..LastYear, NEW m \in Months, NEW day \in Days, NEW h \in Hours
    PROVE  /\ At(y, m, day, h) \in Dates
           /\ At(y, m, day, h).year = y
           /\ Valid(At(y, m, day, h)) <=> day <= DaysIn(y, m)
           /\ FNday(At(y, m, day, h)) = 24 * Luku(y, m, day) - J2000 + h
BY DEF At, Dates, FNday, Valid

\* The later date is valid, and luku has gone on with the hours.
LEMMA LaterAt ==
    ASSUME NEW y \in FirstYear..LastYear, NEW m \in Months, NEW day \in Days, NEW h \in Hours,
           day <= DaysIn(y, m),
           Later(At(y, m, day, h)).year <= LastYear
    PROVE  /\ Valid(Later(At(y, m, day, h)))
           /\ FNday(Later(At(y, m, day, h))) = FNday(At(y, m, day, h)) + HourStep
<1> DEFINE t == At(y, m, day, h)
           u == Later(t)
           k == h + HourStep
<1>1. /\ y \in Years /\ y \in Int /\ DaysIn(y, m) \in 28..31
      /\ Luku(y, m, day) \in Int
      /\ FNday(At(y, m, day, h)) = 24 * Luku(y, m, day) - J2000 + h
    BY WalkYears, MonthLengths, LukuInteger, DateAt
<1>2. HourStep \in 1..24 /\ k \in 0..47
    BY DayNumberAssumption, SMT DEF DayNumberAssumption, Hours
<1>3. u = IF k < 24 THEN At(y, m, day, k)
          ELSE IF day < DaysIn(y, m) THEN At(y, m, day + 1, k - 24)
          ELSE IF m < 12 THEN At(y, m + 1, 1, k - 24)
          ELSE At(y + 1, 1, 1, k - 24)
    <2>1. /\ t.year = y /\ t.month = m /\ t.day = day /\ t.hour = h
        BY DEF At
    <2> HIDE DEF t
    <2>2. u = Normal(y, m, day, k)
        BY <2>1 DEF Later
    <2> QED
        BY <2>2 DEF Normal
<1> HIDE DEF t, u, k
<1>4. CASE k < 24
    <2>1. u = At(y, m, day, k) /\ k \in Hours
        BY <1>2, <1>3, <1>4 DEF Hours
    <2>2. Valid(u) /\ FNday(u) = 24 * Luku(y, m, day) - J2000 + k
        BY <2>1, DateAt
    <2> QED
        BY <1>1, <1>2, <2>2, JulianEpoch DEF t, u, k, Hours
<1>5. CASE ~(k < 24)
    <2>1. k - 24 \in Hours
        BY <1>2, <1>5, SMT DEF Hours
    <2>2. CASE day < DaysIn(y, m)
        <3>1. day + 1 \in Days /\ day \in 1..30 /\ day + 1 <= DaysIn(y, m)
            BY <1>1, <2>2, SMT DEF Days
        <3>2. u = At(y, m, day + 1, k - 24)
            BY <1>3, <1>5, <2>2
        <3>3. Valid(u) /\ FNday(u) = 24 * Luku(y, m, day + 1) - J2000 + (k - 24)
            BY <2>1, <3>1, <3>2, DateAt
        <3>4. Luku(y, m, day + 1) = Luku(y, m, day) + 1
            BY <1>1, <3>1, DayEnds
        <3> QED
            BY <1>1, <1>2, <3>3, <3>4, JulianEpoch DEF t, u, k, Hours
    <2>3. CASE ~(day < DaysIn(y, m)) /\ m < 12
        <3>1. day = DaysIn(y, m) /\ m + 1 \in Months /\ m \in 1..11 /\ 1 \in Days
            BY <1>1, <2>3, SMT DEF Days, Months
        <3>2. u = At(y, m + 1, 1, k - 24)
            BY <1>3, <1>5, <2>3
        <3>3. 1 <= DaysIn(y, m + 1)
            <4>1. DaysIn(y, m + 1) \in 28..31
                BY <1>1, <3>1, MonthLengths
            <4> QED
                BY <4>1, SMT
        <3>4. Valid(u) /\ FNday(u) = 24 * Luku(y, m + 1, 1) - J2000 + (k - 24)
            BY <2>1, <3>1, <3>2, <3>3, DateAt
        <3>5. Luku(y, m + 1, 1) = Luku(y, m, day) + 1
            <4>1. CASE m = 2
                BY <1>1, <3>1, <4>1, FebruaryEnds
            <4>2. CASE m # 2
                BY <1>1, <3>1, <4>2, MonthEnds
            <4> QED
                BY <4>1, <4>2
        <3> QED
            BY <1>1, <1>2, <3>4, <3>5, JulianEpoch DEF t, u, k, Hours
    <2>4. CASE ~(day < DaysIn(y, m)) /\ ~(m < 12)
        <3>1. m = 12 /\ day = DaysIn(y, m) /\ 1 \in Days /\ 1 \in Months
            BY <1>1, <2>4, SMT DEF Days, Months
        <3>2. day = 31 /\ 1 <= DaysIn(y + 1, 1)
            BY <3>1 DEF DaysIn
        <3>3. u = At(y + 1, 1, 1, k - 24)
            BY <1>3, <1>5, <2>4
        <3>4. u.year = y + 1
            BY <3>3 DEF At
        <3>5. y + 1 \in FirstYear..LastYear /\ y # 2099
            BY <3>4, WalkYears DEF t, u
        <3>6. Valid(u) /\ FNday(u) = 24 * Luku(y + 1, 1, 1) - J2000 + (k - 24)
            BY <2>1, <3>1, <3>2, <3>3, <3>5, DateAt
        <3>7. Luku(y + 1, 1, 1) = Luku(y, m, day) + 1
            BY <1>1, <3>1, <3>2, <3>5, YearEnds
        <3> QED
            BY <1>1, <1>2, <3>6, <3>7, JulianEpoch DEF t, u, k, Hours
    <2> QED
        BY <2>2, <2>3, <2>4
<1> QED
    BY <1>4, <1>5

-----------------------------------------------------------------------------
\* Init establishes the invariant.
LEMMA DayNumberInit == Init => IInv
<1> SUFFICES ASSUME NEW y \in FirstYear..LastYear, date = At(y, 1, 1, 0), d = FNday(date)
             PROVE  IInv
    BY DEF Init
<1>1. 1 \in Months /\ 1 \in Days /\ 0 \in Hours /\ 1 <= DaysIn(y, 1)
    BY DEF Months, Days, Hours, DaysIn
<1> QED
    BY <1>1, DateAt DEF IInv

\* A calculation keeps the invariant and advances d by the hours passed.
LEMMA DayNumberStep ==
    ASSUME IInv, Next
    PROVE  IInv' /\ d' - d = HourStep
<1>1. Later(date).year <= LastYear /\ date' = Later(date) /\ d' = FNday(date')
    BY DEF Next, doCalc
<1>2. /\ date = At(date.year, date.month, date.day, date.hour)
      /\ date.year \in FirstYear..LastYear /\ date.month \in Months
      /\ date.day \in Days /\ date.hour \in Hours
      /\ date.day <= DaysIn(date.year, date.month)
    BY DateFields DEF IInv, Valid
<1>3. Valid(Later(date)) /\ FNday(Later(date)) = FNday(date) + HourStep
    BY <1>1, <1>2, LaterAt
<1>4. FNday(date) \in Int /\ HourStep \in Int
    <2>1. FNday(date) = 24 * Luku(date.year, date.month, date.day) - J2000 + date.hour
        BY DEF FNday
    <2>2. Luku(date.year, date.month, date.day) \in Int
        BY <1>2, WalkYears, LukuInteger
    <2>3. date.hour \in Int /\ HourStep \in Int
        BY <1>2, DayNumberAssumption DEF Hours, DayNumberAssumption
    <2> QED
        BY <2>1, <2>2, <2>3, JulianEpoch
<1>5. d = FNday(date)
    BY DEF IInv
<1>6. d' - d = HourStep
    BY <1>1, <1>3, <1>4, <1>5
<1> QED
    BY <1>1, <1>3, <1>6 DEF IInv

\* A stuttering step keeps the invariant.
LEMMA DayNumberInductive == IInv /\ [Next]_vars => IInv'
<1>1. IInv /\ UNCHANGED vars => IInv'
    BY DEF IInv, vars
<1> QED
    BY <1>1, DayNumberStep

\* d is always FNday of a date of the calendar.
LEMMA DayNumberInvariance == Spec => []IInv
BY DayNumberInit, DayNumberInductive, PTL DEF Spec

\* FNday counts the days of every year from 1901 to 2099, over the ends of
\* months and years and through leap days, whatever the step between two
\* calculations.
THEOREM DaysCount == Spec => DaysAdvance
<1>1. IInv /\ [Next]_vars => [d' - d = HourStep]_vars
    BY DayNumberStep
<1> QED
    BY <1>1, DayNumberInvariance, PTL DEF Spec, DaysAdvance

\* The date is one of the calendar, and d stays within 36900 days of J2000.
THEOREM DayNumberTypeCorrect == Spec => []TypeOK
<1>1. ASSUME NEW y \in Years, NEW m \in Months, NEW day \in Days
      PROVE  Luku(y, m, day) <= MaxLuku /\ MinLuku <= Luku(y, m, day)
    <2> DEFINE q == (m + 9) \div 12
               s == (7 * (y + q)) \div 4
               p == (275 * m) \div 9
    <2>1. q \in 0..1 /\ p \in 30..366
        BY SMT DEF Months
    <2>2. s \in Int /\ 4 * s <= 7 * (y + q) /\ 7 * (y + q) <= 4 * s + 3
        BY <2>1, SMT DEF Years
    <2>3. Luku(y, m, day) = p - s + day + 367 * y
        BY <2>1, SMT DEF Luku, Quotient, Years, Months
    <2> HIDE DEF q, s, p
    <2>4. /\ y \in Int /\ 1901 <= y /\ y <= 2099 /\ day \in Int /\ 1 <= day /\ day <= 31
          /\ p \in Int /\ 30 <= p /\ p <= 366 /\ q \in Int /\ 0 <= q /\ q <= 1
        BY <2>1, SMT DEF Years, Days
    <2>5. p - s + day + 367 * y <= MaxLuku
        BY <2>2, <2>4, SMT DEF MaxLuku
    <2>6. MinLuku <= p - s + day + 367 * y
        BY <2>2, <2>4, SMT DEF MinLuku
    <2> QED
        BY <2>3, <2>5, <2>6
<1>2. ASSUME NEW luku \in Int, NEW h \in Int,
             luku <= MaxLuku, MinLuku <= luku, 0 <= h, h <= 23
      PROVE  24 * luku - J2000 + h \in -Century..Century
    <2>1. 24 * luku - J2000 + h <= Century
        BY <1>2, SMT DEF J2000, Century, MaxLuku
    <2>2. -Century <= 24 * luku - J2000 + h
        BY <1>2, SMT DEF J2000, Century, MinLuku
    <2>3. Century \in Int
        BY SMT DEF Century
    <2> QED
        BY <2>1, <2>2, <2>3, JulianEpoch, SMT
<1>3. ASSUME IInv
      PROVE  TypeOK
    <2>1. /\ date.year \in Years /\ date.month \in Months
          /\ date.day \in Days /\ date.hour \in Hours
          /\ date \in Dates /\ date.day <= DaysIn(date.year, date.month)
        BY <1>3, DateFields, WalkYears DEF IInv, Valid
    <2>2. /\ Luku(date.year, date.month, date.day) <= MaxLuku
          /\ MinLuku <= Luku(date.year, date.month, date.day)
          /\ Luku(date.year, date.month, date.day) \in Int
        BY <1>1, <2>1, LukuInteger
    <2>3. date.hour \in Int /\ 0 <= date.hour /\ date.hour <= 23
        BY <2>1 DEF Hours
    <2>4. d = 24 * Luku(date.year, date.month, date.day) - J2000 + date.hour
        BY <1>3 DEF IInv, FNday
    <2>5. d \in -Century..Century
        BY <1>2, <2>2, <2>3, <2>4
    <2> QED
        BY <2>1, <2>5 DEF TypeOK, Dates, Months, Days, Hours
<1> QED
    BY <1>3, DayNumberInvariance, PTL
-----------------------------------------------------------------------------
(* The count of the calendar.                                               *)

\* The leap years from y on and before z are the quarters of an interval.
LEMMA LeapCount ==
    ASSUME NEW y \in Years, NEW z \in Years
    PROVE  LeapsBetween(y, z) = IF y <= z THEN (z + 3) \div 4 - (y + 3) \div 4 ELSE 0
<1> DEFINE L == {x \in y..(z - 1) : Leap(x)}
           a == (y + 3) \div 4
           b == (z + 3) \div 4
           Q == a..(b - 1)
           f == [q \in Q |-> 4 * q]
<1>1. /\ y \in Int /\ z \in Int /\ a \in Int /\ b \in Int
      /\ 4 * a - 3 <= y /\ y <= 4 * a /\ 4 * b - 3 <= z /\ z <= 4 * b
    BY SMT DEF Years
<1>2. y..(z - 1) \subseteq Years
    BY SMT DEF Years
<1>3. \A x \in y..(z - 1) : Leap(x) <=> x % 4 = 0
    BY <1>2, LeapYears
<1>4. \A q \in Q : 4 * q \in y..(z - 1) /\ (4 * q) % 4 = 0
    <2> HIDE DEF a, b
    <2> QED
        BY <1>1, SMT
<1>5. \A x \in y..(z - 1) : x % 4 = 0 => x \div 4 \in Q /\ 4 * (x \div 4) = x
    <2> HIDE DEF a, b
    <2> QED
        BY <1>1, SMT
<1>6. f \in Bijection(Q, L)
    <2>1. f \in [Q -> L]
        BY <1>3, <1>4, Zenon
    <2>2. \A p, q \in Q : f[p] = f[q] => p = q
        <3> HIDE DEF a, b
        <3> QED
            BY <1>1, SMT
    <2>3. \A x \in L : \E q \in Q : f[q] = x
        <3> SUFFICES ASSUME NEW x \in L
                     PROVE  \E q \in Q : f[q] = x
            OBVIOUS
        <3>1. x \div 4 \in Q /\ 4 * (x \div 4) = x
            BY <1>3, <1>5
        <3> QED
            BY <3>1, Zenon
    <2> HIDE DEF f, Q, L
    <2> QED
        BY <2>1, <2>2, <2>3, Zenon DEF Bijection, Injection, Surjection, IsInjective
<1>7. IsFiniteSet(Q) /\ Cardinality(Q) = IF a > b - 1 THEN 0 ELSE (b - 1) - a + 1
    <2> HIDE DEF a, b
    <2> QED
        BY <1>1, FS_Interval
<1>8. Cardinality(L) = Cardinality(Q)
    <2> HIDE DEF L, Q
    <2> QED
        BY <1>6, <1>7, FS_Bijection DEF ExistsBijection
<1>9. LeapsBetween(y, z) = Cardinality(L)
    BY DEF LeapsBetween
<1> HIDE DEF L, Q, f, a, b
<1>10. Cardinality(L) = IF y <= z THEN b - a ELSE 0
    BY <1>1, <1>7, <1>8, SMT
<1> QED
    BY <1>9, <1>10 DEF a, b

\* The days before a year.
LEMMA YearCount ==
    ASSUME NEW y \in Years
    PROVE  DaysBefore(y) = 365 * (y - 2000) + (y + 3) \div 4 - 500
<1>1. 2000 \in Years
    BY SMT DEF Years
<1>2. /\ LeapsBetween(2000, y) = IF 2000 <= y THEN (y + 3) \div 4 - (2000 + 3) \div 4 ELSE 0
      /\ LeapsBetween(y, 2000) = IF y <= 2000 THEN (2000 + 3) \div 4 - (y + 3) \div 4 ELSE 0
    BY <1>1, LeapCount
<1>3. (2000 + 3) \div 4 = 500 /\ (y + 3) \div 4 \in Int /\ y \in Int
    BY SMT DEF Years
<1>4. LeapsBetween(2000, y) - LeapsBetween(y, 2000) = (y + 3) \div 4 - 500
    BY <1>2, <1>3, SMT
<1>5. LeapsBetween(2000, y) \in Int /\ LeapsBetween(y, 2000) \in Int
    BY <1>2, <1>3, SMT
<1> QED
    BY <1>3, <1>4, <1>5, SMT DEF DaysBefore

\* New Year in FNday's count.
LEMMA NewYear ==
    ASSUME NEW y \in Years
    PROVE  Luku(y, 1, 1) = DaysBefore(y) + 730531
<1>1. Luku(y, 1, 1) = 367 * y + 31 - (7 * y) \div 4
    BY SMT DEF Luku, Quotient, Years
<1>2. (7 * y) \div 4 = 2 * y - (y + 3) \div 4
    BY SMT DEF Years
<1>3. (y + 3) \div 4 \in Int /\ y \in Int
    BY SMT DEF Years
<1> QED
    BY <1>1, <1>2, <1>3, YearCount, SMT

\* The days of the year before a month.
DaysOfMonths(y, m) == Cardinality({p \in (1..(m - 1)) \X (1..31) : p[2] <= DaysIn(y, p[1])})

\* One month more.
LEMMA MonthCount ==
    ASSUME NEW y \in Years, NEW m \in 1..11, DaysOfMonths(y, m) \in Nat
    PROVE  DaysOfMonths(y, m + 1) = DaysOfMonths(y, m) + DaysIn(y, m)
<1> DEFINE P == {p \in (1..(m - 1)) \X (1..31) : p[2] <= DaysIn(y, p[1])}
           M == {m} \X (1..DaysIn(y, m))
           N == {p \in (1..((m + 1) - 1)) \X (1..31) : p[2] <= DaysIn(y, p[1])}
<1>1. DaysIn(y, m) \in 28..31
    BY MonthLengths, SMT DEF Months
<1>2. IsFiniteSet(P)
    <2>1. IsFiniteSet((1..(m - 1)) \X (1..31))
        <3>1. m - 1 \in Int /\ 1 \in Int /\ 31 \in Int
            BY SMT
        <3>2. IsFiniteSet(1..(m - 1)) /\ IsFiniteSet(1..31)
            BY <3>1, FS_Interval
        <3> QED
            BY <3>2, FS_Product
    <2>2. P \in SUBSET ((1..(m - 1)) \X (1..31))
        OBVIOUS
    <2> QED
        BY <2>1, <2>2, FS_Subset
<1>3. IsFiniteSet(M) /\ Cardinality(M) = DaysIn(y, m)
    <2>1. IsFiniteSet({m}) /\ Cardinality({m}) = 1
        BY FS_Singleton
    <2>2. IsFiniteSet(1..DaysIn(y, m)) /\ Cardinality(1..DaysIn(y, m)) = DaysIn(y, m)
        <3>1. DaysIn(y, m) \in Int /\ 1 \in Int /\ DaysIn(y, m) >= 1
            BY <1>1, SMT
        <3>2. /\ IsFiniteSet(1..DaysIn(y, m))
              /\ Cardinality(1..DaysIn(y, m)) =
                     IF 1 > DaysIn(y, m) THEN 0 ELSE DaysIn(y, m) - 1 + 1
            BY <3>1, FS_Interval
        <3> QED
            BY <3>1, <3>2, SMT
    <2>3. IsFiniteSet(M) /\ Cardinality(M) = 1 * DaysIn(y, m)
        BY <2>1, <2>2, FS_Product
    <2> QED
        BY <1>1, <2>3, SMT
<1>4. P \cap M = {}
    BY SMT
<1>5. N = P \cup M
    <2>1. \A i : i \in 1..((m + 1) - 1) <=> i \in 1..(m - 1) \/ i = m
        BY SMT
    <2>2. 1..DaysIn(y, m) = {i \in 1..31 : i <= DaysIn(y, m)}
        BY <1>1, SMT
    <2>3. \A p \in (1..((m + 1) - 1)) \X (1..31) :
              p[2] <= DaysIn(y, p[1]) <=> p \in P \/ p \in M
        BY <2>1, <2>2, SMT
    <2>4. P \cup M \subseteq (1..((m + 1) - 1)) \X (1..31)
        BY <2>1, <2>2, SMT
    <2> HIDE DEF P, M
    <2> QED
        BY <2>3, <2>4
<1>6. Cardinality(N) = Cardinality(P) + Cardinality(M) - Cardinality({})
    <2> HIDE DEF P, M, N
    <2> QED
        BY <1>2, <1>3, <1>4, <1>5, FS_Union
<1>7. DaysOfMonths(y, m) = Cardinality(P) /\ DaysOfMonths(y, m + 1) = Cardinality(N)
    BY DEF DaysOfMonths
<1> HIDE DEF P, M, N
<1> QED
    BY <1>1, <1>3, <1>6, <1>7, FS_EmptySet, SMT

\* The first of a month in FNday's count.
LEMMA FirstOfMonth ==
    ASSUME NEW y \in Years, NEW m \in Months
    PROVE  /\ DaysOfMonths(y, m) \in Nat
           /\ Luku(y, m, 1) = Luku(y, 1, 1) + DaysOfMonths(y, m)
<1> DEFINE Counted(k) == /\ DaysOfMonths(y, k) \in Nat
                         /\ Luku(y, k, 1) = Luku(y, 1, 1) + DaysOfMonths(y, k)
<1>1. Counted(1)
    <2>1. {p \in (1..(1 - 1)) \X (1..31) : p[2] <= DaysIn(y, p[1])} = {}
        BY SMT
    <2>2. DaysOfMonths(y, 1) = 0
        BY <2>1, FS_EmptySet DEF DaysOfMonths
    <2>3. Luku(y, 1, 1) \in Int
        BY LukuInteger, SMT DEF Months, Days
    <2> QED
        BY <2>2, <2>3
<1>2. ASSUME NEW k \in 1..11, Counted(k)
      PROVE  Counted(k + 1)
    <2>1. DaysIn(y, k) \in 28..31 /\ k \in Months /\ Luku(y, 1, 1) \in Int /\ Luku(y, k, 1) \in Int
        BY MonthLengths, LukuInteger, SMT DEF Months, Days
    <2>2. DaysOfMonths(y, k + 1) = DaysOfMonths(y, k) + DaysIn(y, k)
        BY <1>2, MonthCount
    <2>3. Luku(y, k + 1, 1) = Luku(y, k, DaysIn(y, k)) + 1
        BY FebruaryEnds, MonthEnds, SMT
    <2>4. Luku(y, k, DaysIn(y, k)) = Luku(y, k, 1) + DaysIn(y, k) - 1
        <3>1. DaysIn(y, k) \in Days
            BY <2>1, SMT DEF Days
        <3> QED
            BY <2>1, <3>1, MonthDays
    <2> QED
        BY <1>2, <2>1, <2>2, <2>3, <2>4, SMT
<1> HIDE DEF Counted
<1>3. Counted(2) /\ Counted(3)
    BY <1>1, <1>2, SMT
<1>4. Counted(4) /\ Counted(5)
    BY <1>3, <1>2, SMT
<1>5. Counted(6) /\ Counted(7)
    BY <1>4, <1>2, SMT
<1>6. Counted(8) /\ Counted(9)
    BY <1>5, <1>2, SMT
<1>7. Counted(10) /\ Counted(11)
    BY <1>6, <1>2, SMT
<1>8. Counted(12)
    BY <1>7, <1>2, SMT
<1>9. m \in {1, 2, 3, 4, 5, 6, 7, 8, 9, 10, 11, 12}
    BY SMT DEF Months
<1>10. Counted(m)
    BY <1>1, <1>3, <1>4, <1>5, <1>6, <1>7, <1>8, <1>9
<1> QED
    BY <1>10 DEF Counted

\* FNday's day number, counted from scratch by the rules of the calendar.
THEOREM CountsFromJ2000 == Spec => []DaysToJ2000
<1>1. ASSUME IInv
      PROVE  DaysToJ2000
    <2> DEFINE y == date.year
               m == date.month
               day == date.day
    <2>1. y \in Years /\ m \in Months /\ day \in Days /\ date.hour \in Hours
        BY <1>1, DateFields, WalkYears DEF IInv, Valid
    <2>2. d = 24 * Luku(y, m, day) - J2000 + date.hour
        BY <1>1 DEF IInv, FNday
    <2>3. DayOfYear(date) = day + DaysOfMonths(y, m)
        BY DEF DayOfYear, DaysOfMonths
    <2> HIDE DEF y, m, day
    <2>4. /\ Luku(y, m, day) = Luku(y, m, 1) + day - 1
          /\ Luku(y, m, 1) = Luku(y, 1, 1) + DaysOfMonths(y, m)
          /\ Luku(y, 1, 1) = DaysBefore(y) + 730531
          /\ DaysOfMonths(y, m) \in Nat
        BY <2>1, MonthDays, FirstOfMonth, NewYear
    <2>5. DaysBefore(y) \in Int
        BY <2>1, YearCount, SMT DEF Years
    <2>6. d = 24 * (DaysBefore(y) + (day + DaysOfMonths(y, m)) - 1) + date.hour - 12
        BY <2>1, <2>2, <2>4, <2>5, SMT DEF J2000, Days, Hours
    <2> QED
        BY <2>3, <2>6 DEF DaysToJ2000, y
<1> QED
    BY <1>1, DayNumberInvariance, PTL
=============================================================================
