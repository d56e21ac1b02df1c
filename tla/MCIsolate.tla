------------------------------ MODULE MCIsolate ------------------------------
(***************************************************************************)
(* Small instances of Isolate.  For the invariants there are two tickets,  *)
(* and either two callers with one permit, where the second waits for the  *)
(* first, or one caller with two, where two answers can be in the pipe.    *)
(* For the liveness there is one ticket, and two callers.                  *)
(***************************************************************************)
EXTENDS Isolate, TLC

MCInit == ProcStarts(1, Callers) \/ \E c \in Callers : ProcStarts(2, {c})

MCSpec == MCInit /\ [][ProcNext]_procVars

CallerSymmetry == Permutations(Callers)
=============================================================================
