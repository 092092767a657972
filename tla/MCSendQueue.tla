---------------------------- MODULE MCSendQueue -----------------------------
(* SendQueue on a small instance: the constants are in the .cfg files.      *)
EXTENDS SendQueue
=============================================================================
