----------------------------- MODULE MCJobQueue -----------------------------
(***************************************************************************)
(* A small instance of JobQueue.  Two workers and three units reach every  *)
(* ordering of a poll, a sleep and a skipped wake-up; a third worker adds  *)
(* sleepers that a single notification must choose between.                *)
(***************************************************************************)
EXTENDS JobQueue
=============================================================================
