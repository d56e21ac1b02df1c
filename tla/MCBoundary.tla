------------------------------ MODULE MCBoundary -----------------------------
(***************************************************************************)
(* Small instances of five components beneath the exports that share no    *)
(* state: the firewall, the log ring, the completion pipe, the engine      *)
(* registry and the memory counters.  A behaviour moves one of them,       *)
(* chosen at the start, so that the states add up and do not multiply.     *)
(*                                                                         *)
(* The counters have a usize of seven values, so that a few bytes saturate *)
(* them.                                                                   *)
(***************************************************************************)
EXTENDS Firewall, LogRing, CompletionPipe, Dispatch, AllocCounters, TLC

VARIABLE part

\* One-byte and two-byte characters, and a line longer than the ring.
MCLines == {<<"a">>, <<"h", "c">>, <<"a", "h", "c", "h", "c", "h", "c">>}

BoundaryInit ==
    /\ GuardInit /\ LogInit /\ PipeInit /\ DispatchInit /\ Init
    /\ part \in {"guard", "log", "pipe", "dispatch", "counters"}
    \* A component's surroundings are chosen only where it is looked at.
    /\ part # "pipe" => linux /\ given /\ size = Max(PipeSizes) /\ limit = Max(GrowLimits)
    /\ part # "counters" => installed

BoundaryNext ==
    /\ UNCHANGED part
    /\ \/ part = "guard" /\ GuardNext /\ UNCHANGED <<logVars, pipeVars, dispatchVars, vars>>
       \/ part = "log" /\ LogNext /\ UNCHANGED <<guardVars, pipeVars, dispatchVars, vars>>
       \/ part = "pipe" /\ PipeNext /\ UNCHANGED <<guardVars, logVars, dispatchVars, vars>>
       \/ part = "dispatch" /\ DispatchNext /\ UNCHANGED <<guardVars, logVars, pipeVars, vars>>
       \/ part = "counters" /\ Next /\ UNCHANGED <<guardVars, logVars, pipeVars, dispatchVars>>

BoundarySpec == BoundaryInit /\ [][BoundaryNext]_<<guardVars, logVars, pipeVars, dispatchVars, vars, part>>

\* GuardThreads and Threads are one set of values, of which one component at most
\* moves.  Opcodes are only compared with each other.
BoundarySymmetry == Permutations(Threads) \cup Permutations(Opcodes)
=============================================================================
