--------------------------- MODULE MCDriverTable ----------------------------
(* DriverTable on a small instance: the constants are in the .cfg files.    *)
EXTENDS DriverTable
=============================================================================
