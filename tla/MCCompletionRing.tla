-------------------------- MODULE MCCompletionRing --------------------------
(***************************************************************************)
(* Small instances of CompletionRing.                                      *)
(***************************************************************************)
EXTENDS CompletionRing, TLC

\* Results that may travel inline before and after one that may not.
MCKinds == <<{"small"}, {"stored"}, {"small"}>>
=============================================================================
