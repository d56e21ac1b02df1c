--------------------------- MODULE MCCancellation ---------------------------
(***************************************************************************)
(* Small instances of Cancellation.  Two handles let a shutdown cancel or  *)
(* count one while a submit is on its way into the other.                  *)
(***************************************************************************)
EXTENDS Cancellation, TLC
=============================================================================
