---------------------------- MODULE MCDayNumber -----------------------------
(* DayNumber over all the years it is meant for.                            *)
EXTENDS DayNumber
=============================================================================
