---------------------------- MODULE MCHandleState ----------------------------
(***************************************************************************)
(* Small instances of HandleState.  Two callers are enough for a waiter    *)
(* against a second waiter, a discard or a submitter; three tickets for a  *)
(* permit and a channel that are used again.                               *)
(***************************************************************************)
EXTENDS HandleState, TLC

\* Results that own a buffer, that travel inline or are copied, and that poison.
MCMixed == <<{"owned", "panic"}, {"inline", "stored"}, {"owned"}>>
MCOwned == [t \in 1..MaxTicket |-> {"owned"}]
MCInline == [t \in 1..MaxTicket |-> {"inline"}]

\* Callers, closers and channels are only ever compared for equality.
Symmetry == Permutations(Clients) \cup Permutations(Closers) \cup Permutations(Chans)
=============================================================================
