----------------------------- MODULE MCSunTimes -----------------------------
(* SunTimes on values around every boundary of doCalc and the conversion.   *)
EXTENDS SunTimes

\* 1.0 is 5; the hour angles come to 0, 29, 3599, 3600 seconds and so on, up to
\* half a turn.
MCUnit == 5
MCAsin == [x \in -5..5 |->
    CASE x = -5 -> -21600 [] x = -4 -> -21571 [] x = -3 -> -18001
      [] x = -2 -> -18000 [] x = -1 -> -30 [] x = 0 -> 0 [] x = 1 -> 30
      [] x = 2 -> 14399 [] x = 3 -> 21541 [] x = 4 -> 21599 [] OTHER -> 21600]

\* The quarters of the year and their ends, in the first, a later and an
\* earlier year; the sun ahead of or behind the mean sun.
Seasons == {s \in [mean : {5, 21600, 43195, 43205, 64800, 86395, 86405, -43205, -5},
                    drift : {-10, 0, 10}, eot : {-450, 3, 450},
                    fo : {0, 4}, fi : {1, 6}, local : {0, 43199}] :
                s.fo <= s.fi /\ (L(s) < Noon => L(s) + s.eot <= Noon)}

\* Every pair of hour angles, from a zone six hours west of the place to one
\* fourteen hours east of it.
Places == {s \in [mean : {21600}, drift : {0}, eot : {0}, fo : -5..6, fi : -5..6,
                   local : {-21600, -3601, -59, 0, 1, 59, 5430, 43200, 50400}] :
                s.fo <= s.fi}

MCAllSkies == Seasons \cup Places
MCSkies == {s \in MCAllSkies : NoneBefore(s) /\ NotLapped(s)}
=============================================================================
