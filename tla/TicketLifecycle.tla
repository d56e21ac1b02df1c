---------------------------- MODULE TicketLifecycle ----------------------------
(***************************************************************************)
(* What a handle promises about tickets, without saying how: at most Pool  *)
(* jobs are in flight, every result lands once, and a landed result goes   *)
(* to one claimant or to the bin, never to two.  HandleState implements    *)
(* it.                                                                     *)
(***************************************************************************)
EXTENDS Naturals, FiniteSets

CONSTANTS Tickets,  \* the tickets gusset_submit can issue
          Pool      \* the permits of the handle, one per worker

VARIABLE phase      \* phase[t]: where ticket t is in its life

Phases == {"new", "flight", "landed", "spent"}

PhaseInit == phase = [t \in Tickets |-> "new"]

InPhase(p) == {t \in Tickets : phase[t] = p}

(* gusset_submit issues a ticket, within the permits. *)
Issue(t) ==
    /\ phase[t] = "new"
    /\ Cardinality(InPhase("flight")) < Pool
    /\ phase' = [phase EXCEPT ![t] = "flight"]

(* The completion reader makes a result available to its owner. *)
Land(t) ==
    /\ phase[t] = "flight"
    /\ phase' = [phase EXCEPT ![t] = "landed"]

(* One caller takes a landed result out. *)
Claim(t) ==
    /\ phase[t] = "landed"
    /\ phase' = [phase EXCEPT ![t] = "spent"]

(* The result of an abandoned ticket is dropped as it comes off the ring. *)
Drop(t) ==
    /\ phase[t] = "flight"
    /\ phase' = [phase EXCEPT ![t] = "spent"]

(* Close, or the reader's exit, drops results nobody claimed. *)
DropLanded(S) ==
    /\ S \subseteq InPhase("landed")
    /\ phase' = [t \in Tickets |-> IF t \in S THEN "spent" ELSE phase[t]]

PhaseNext ==
    \/ \E t \in Tickets : Issue(t) \/ Land(t) \/ Claim(t) \/ Drop(t)
    \/ \E S \in SUBSET Tickets : DropLanded(S)

PhaseSpec == PhaseInit /\ [][PhaseNext]_phase
=============================================================================
