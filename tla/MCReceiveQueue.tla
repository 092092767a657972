--------------------------- MODULE MCReceiveQueue ---------------------------
(* ReceiveQueue on a small instance: the constants are in the .cfg file.    *)
EXTENDS ReceiveQueue
=============================================================================
