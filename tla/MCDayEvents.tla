---------------------------- MODULE MCDayEvents -----------------------------
(* DayEvents on a day of four minutes, two of which are hour 0.             *)
EXTENDS DayEvents

\* The days a calculation may find: all events in the minute after midnight, and
\* a day with a twilight in hour 0 and three events in the last minute.
MCAlmanac == {
    [k \in Kinds |-> 0],
    [k \in Kinds |-> 3],
    [SUNRISE |-> 2, SUNRISE_TWILIGHT_START |-> 1, SUNSET |-> 3,
     SUNSET_TWILIGHT_START |-> 3, CALCULATED_NOON |-> 3]}
=============================================================================
