--------------------------- MODULE MCWorkerThreads ---------------------------
(***************************************************************************)
(* A small instance of WorkerThreads: a pool of two, a replacement, and    *)
(* two submitters that find it short together.                             *)
(***************************************************************************)
EXTENDS WorkerThreads
=============================================================================
