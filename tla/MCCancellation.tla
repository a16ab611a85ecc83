--------------------------- MODULE MCCancellation ---------------------------
(* Module Cancellation with two cancelling threads and two runs. *)
EXTENDS Cancellation
=============================================================================
