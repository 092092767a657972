---------------------------- MODULE MCSunEvents -----------------------------
(* SunEvents on a day of two hours of one minute.                           *)
EXTENDS SunEvents

\* Four events at once, in the hour of the calculation, and one in the last
\* minute of the day.
MCAlmanac == {
    [SUNRISE |-> 0, SUNRISE_TWILIGHT_START |-> 0, SUNSET |-> 1,
     SUNSET_TWILIGHT_START |-> 0, CALCULATED_NOON |-> 0]}

\* The filter rejects the noon.
MCAcceptedKinds == {"SUNRISE", "SUNRISE_TWILIGHT_START", "SUNSET",
                    "SUNSET_TWILIGHT_START", NewCalculation}
=============================================================================
