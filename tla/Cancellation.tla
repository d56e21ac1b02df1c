---------------------------- MODULE Cancellation ----------------------------
(***************************************************************************)
(* Who tells a unit of work to stop, and whether it hears: `submit`,       *)
(* `cancel`, `cancel_all` and the flag a unit carries (pool/mod.rs), the   *)
(* worker's early check and its removal of the flag (pool/worker.rs), the  *)
(* first half of `close_within`, and the process-wide `shutdown` and       *)
(* `rearm` over every live handle (pool/lifecycle.rs).                     *)
(*                                                                         *)
(* Each hold of a handle's `cancel_flags` lock is one action, and so is    *)
(* each load or store of `closed` and SHUTTING_DOWN outside one.  The job  *)
(* queue is JobQueue seen from here: it takes a unit or refuses it, never  *)
(* after its close.  Callers of `shutdown` are serialised by INIT_SHUTDOWN *)
(* and are one process.  A deadline is a cancellation seen by the unit     *)
(* alone, and may pass at any time.  Registry entries of freed handles are *)
(* not pruned: they have no unit left to cancel or to count.               *)
(***************************************************************************)
EXTENDS Naturals, FiniteSets

CONSTANTS Handles,     \* handles the process may open
          Submitters,  \* threads calling `submit`
          MaxTicket,   \* tickets issued
          NoHandle

ASSUME CancellationAssumption ==
    /\ IsFiniteSet(Handles)
    /\ NoHandle \notin Handles
    /\ MaxTicket \in Nat

Tickets == 1..MaxTicket
NoTicket == 0

VARIABLES
    shutting,   \* SHUTTING_DOWN
    live,       \* LIVE_HANDLES
    sd,         \* the thread in `shutdown`, which holds INIT_SHUTDOWN unless idle
    report,     \* what the last `shutdown` returned, until the next one or a rearm
    cpc,        \* how far the close of each handle has come
    sub,        \* each submitter: pc, handle, ticket
    home,       \* the handle each ticket was issued by
    flags,      \* tickets with an entry in their handle's cancel_flags
    cancelled,  \* tickets whose cancel flag is set
    unit        \* where each unit is

vars == <<shutting, live, sd, report, cpc, sub, home, flags, cancelled, unit>>
sdVars == <<shutting, sd, report>>
unitVars == <<home, flags, cancelled, unit>>

IdleSub == [pc |-> "idle", h |-> NoHandle, t |-> NoTicket]
IdleSd == [pc |-> "idle", todo |-> {}, sum |-> 0]
FlagsOf(h) == {t \in flags : home[t] = h}

TypeOK ==
    /\ shutting \in BOOLEAN
    /\ live \subseteq Handles
    /\ sd \in [pc : {"idle", "snapshot", "cancel", "look", "count"}, todo : SUBSET Handles, sum : 0..MaxTicket]
    /\ report \in {"none", "clean", "left"}
    /\ cpc \in [Handles -> {"open", "queue", "cancel", "join"}]
    /\ sub \in [Submitters -> [pc : {"idle", "check", "register", "send", "unregister"},
                               h : Handles \cup {NoHandle}, t : Tickets \cup {NoTicket}]]
    /\ home \in [Tickets -> Handles \cup {NoHandle}]
    /\ flags \subseteq Tickets
    /\ cancelled \subseteq Tickets
    /\ unit \in [Tickets -> {"none", "queued", "engine", "deliver", "published", "done"}]

Init ==
    /\ shutting = FALSE /\ live = {} /\ sd = IdleSd /\ report = "none"
    /\ cpc = [h \in Handles |-> "open"]
    /\ sub = [s \in Submitters |-> IdleSub]
    /\ home = [t \in Tickets |-> NoHandle]
    /\ flags = {} /\ cancelled = {}
    /\ unit = [t \in Tickets |-> "none"]

\* A handle is registered last, when nothing in `open` can fail any more.
Open(h) ==
    /\ h \notin live
    /\ live' = live \cup {h}
    /\ UNCHANGED <<sdVars, cpc, sub, unitVars>>

-----------------------------------------------------------------------------
(* submit_classified. *)

AtPC(s, pc) == sub[s].pc = pc
Return(s) == sub' = [sub EXCEPT ![s] = IdleSub]
Goto(s, pc) == sub' = [sub EXCEPT ![s].pc = pc]

\* Past the load of `closed`.
SubmitStart(s, h) ==
    /\ AtPC(s, "idle")
    /\ h \in live /\ cpc[h] = "open"
    /\ sub' = [sub EXCEPT ![s] = [pc |-> "check", h |-> h, t |-> NoTicket]]
    /\ UNCHANGED <<sdVars, live, cpc, unitVars>>

\* The load of SHUTTING_DOWN; a call may also be refused for its flags, its
\* input, a failed respawn or exhausted ids, all before a flag exists.
CheckShutting(s) ==
    /\ AtPC(s, "check")
    /\ \/ Return(s)
       \/ ~shutting /\ Goto(s, "register")
    /\ UNCHANGED <<sdVars, live, cpc, unitVars>>

NextTicket == Cardinality({t \in Tickets : home[t] # NoHandle}) + 1

\* Mutant: the shutdown is not looked at again under the lock.
RegisterUnchecked(s) ==
    /\ AtPC(s, "register")
    /\ NextTicket \in Tickets
    /\ home' = [home EXCEPT ![NextTicket] = sub[s].h]
    /\ flags' = flags \cup {NextTicket}
    /\ sub' = [sub EXCEPT ![s].pc = "send", ![s].t = NextTicket]
    /\ UNCHANGED <<sdVars, live, cpc, unit, cancelled>>

\* The flag goes in, already set if a shutdown began since the check.
Register(s) ==
    /\ AtPC(s, "register")
    /\ NextTicket \in Tickets
    /\ home' = [home EXCEPT ![NextTicket] = sub[s].h]
    /\ flags' = flags \cup {NextTicket}
    /\ cancelled' = IF shutting THEN cancelled \cup {NextTicket} ELSE cancelled
    /\ sub' = [sub EXCEPT ![s].pc = "send", ![s].t = NextTicket]
    /\ UNCHANGED <<sdVars, live, cpc, unit>>

QueueClosed(h) == cpc[h] \in {"cancel", "join"}

\* try_send: a full queue may refuse at any time, a closed one always does.
Send(s) ==
    /\ AtPC(s, "send")
    /\ \/ /\ ~QueueClosed(sub[s].h)
          /\ unit' = [unit EXCEPT ![sub[s].t] = "queued"]
          /\ Return(s)
       \/ Goto(s, "unregister") /\ UNCHANGED unit
    /\ UNCHANGED <<sdVars, live, cpc, home, flags, cancelled>>

\* Mutant: a refused unit leaves its flag behind.
UnregisterForgets(s) ==
    /\ AtPC(s, "unregister")
    /\ Return(s)
    /\ UNCHANGED <<sdVars, live, cpc, unitVars>>

Unregister(s) ==
    /\ AtPC(s, "unregister")
    /\ flags' = flags \ {sub[s].t}
    /\ Return(s)
    /\ UNCHANGED <<sdVars, live, cpc, home, cancelled, unit>>

-----------------------------------------------------------------------------
(* A worker and its unit: execute_unit and deliver. *)

\* The check before the engine call: a cancelled or expired unit never starts.
Start(t) ==
    /\ unit[t] = "queued"
    /\ \/ t \notin cancelled /\ unit' = [unit EXCEPT ![t] = "engine"]
       \/ unit' = [unit EXCEPT ![t] = "deliver"]
    /\ UNCHANGED <<sdVars, live, cpc, sub, home, flags, cancelled>>

EngineReturns(t) ==
    /\ unit[t] = "engine"
    /\ unit' = [unit EXCEPT ![t] = "deliver"]
    /\ UNCHANGED <<sdVars, live, cpc, sub, home, flags, cancelled>>

Publish(t) ==
    /\ unit[t] = "deliver"
    /\ unit' = [unit EXCEPT ![t] = "published"]
    /\ UNCHANGED <<sdVars, live, cpc, sub, home, flags, cancelled>>

\* Out of flight only after the completion is written, whatever happened to it.
RemoveFlag(t) ==
    /\ unit[t] = "published"
    /\ unit' = [unit EXCEPT ![t] = "done"]
    /\ flags' = flags \ {t}
    /\ UNCHANGED <<sdVars, live, cpc, sub, home, cancelled>>

Cancel(t) ==
    /\ t \in flags \ cancelled
    /\ cancelled' = cancelled \cup {t}
    /\ UNCHANGED <<sdVars, live, cpc, sub, home, flags, unit>>

CancelAll(h) == cancelled' = cancelled \cup FlagsOf(h)

\* gusset_cancel_all, called by the host.
CancelPending(h) ==
    /\ h \in live
    /\ CancelAll(h)
    /\ UNCHANGED <<sdVars, live, cpc, sub, home, flags, unit>>

-----------------------------------------------------------------------------
(* close_within, up to the join: the swap of `closed`, the queue, the flags. *)

CloseBegin(h) ==
    /\ h \in live /\ cpc[h] = "open"
    /\ cpc' = [cpc EXCEPT ![h] = "queue"]
    /\ UNCHANGED <<sdVars, live, sub, unitVars>>

CloseQueue(h) ==
    /\ cpc[h] = "queue"
    /\ cpc' = [cpc EXCEPT ![h] = "cancel"]
    /\ UNCHANGED <<sdVars, live, sub, unitVars>>

\* Mutant: close relies on the queue alone.
CloseCancelSkipped(h) ==
    /\ cpc[h] = "cancel"
    /\ cpc' = [cpc EXCEPT ![h] = "join"]
    /\ UNCHANGED <<sdVars, live, sub, unitVars>>

CloseCancel(h) ==
    /\ cpc[h] = "cancel"
    /\ CancelAll(h)
    /\ cpc' = [cpc EXCEPT ![h] = "join"]
    /\ UNCHANGED <<sdVars, live, sub, home, flags, unit>>

-----------------------------------------------------------------------------
(* shutdown and rearm. *)

SdGoto(pc, todo, sum) == sd' = [pc |-> pc, todo |-> todo, sum |-> sum]

ShutdownBegin ==
    /\ sd.pc = "idle"
    /\ shutting' = TRUE
    /\ report' = "none"
    /\ SdGoto("snapshot", {}, 0)
    /\ UNCHANGED <<live, cpc, sub, unitVars>>

\* The registry is copied under its lock and cancelled after it is released.
Snapshot ==
    /\ sd.pc = "snapshot"
    /\ SdGoto("cancel", live, 0)
    /\ UNCHANGED <<shutting, report, live, cpc, sub, unitVars>>

CancelHandle ==
    /\ sd.pc = "cancel"
    /\ \/ \E h \in sd.todo : CancelAll(h) /\ SdGoto("cancel", sd.todo \ {h}, 0)
       \/ sd.todo = {} /\ SdGoto("look", {}, 0) /\ UNCHANGED cancelled
    /\ UNCHANGED <<shutting, report, live, cpc, sub, home, flags, unit>>

\* total_in_flight: the registry again, then one handle at a time.
Look ==
    /\ sd.pc = "look"
    /\ SdGoto("count", live, 0)
    /\ UNCHANGED <<shutting, report, live, cpc, sub, unitVars>>

CountHandle ==
    /\ sd.pc = "count"
    /\ \E h \in sd.todo : SdGoto("count", sd.todo \ {h}, sd.sum + Cardinality(FlagsOf(h)))
    /\ UNCHANGED <<shutting, report, live, cpc, sub, unitVars>>

\* Returns with nothing left or the budget spent; else sleeps and looks again.
Decide ==
    /\ sd.pc = "count" /\ sd.todo = {}
    /\ \/ sd.sum = 0 /\ report' = "clean" /\ sd' = IdleSd
       \/ sd.sum > 0 /\ report' = "left" /\ sd' = IdleSd
       \/ sd.sum > 0 /\ SdGoto("look", {}, 0) /\ UNCHANGED report
    /\ UNCHANGED <<shutting, live, cpc, sub, unitVars>>

\* Mutant: rearm does not wait for INIT_SHUTDOWN.
RearmAtOnce ==
    /\ shutting
    /\ shutting' = FALSE
    /\ report' = "none"
    /\ UNCHANGED <<sd, live, cpc, sub, unitVars>>

\* gusset_init: waits for INIT_SHUTDOWN.
Rearm ==
    /\ sd.pc = "idle" /\ shutting
    /\ shutting' = FALSE
    /\ report' = "none"
    /\ UNCHANGED <<sd, live, cpc, sub, unitVars>>

-----------------------------------------------------------------------------
SubmitStep(s) == CheckShutting(s) \/ Register(s) \/ Send(s) \/ Unregister(s)
UnitStep(t) == Start(t) \/ Publish(t) \/ RemoveFlag(t)
ShutdownStep == Snapshot \/ CancelHandle \/ Look \/ CountHandle \/ Decide

Next ==
    \/ \E h \in Handles : Open(h) \/ CancelPending(h) \/ CloseBegin(h) \/ CloseQueue(h) \/ CloseCancel(h)
    \/ \E s \in Submitters : SubmitStep(s) \/ \E h \in Handles : SubmitStart(s, h)
    \/ \E t \in Tickets : UnitStep(t) \/ EngineReturns(t) \/ Cancel(t)
    \/ ShutdownBegin \/ ShutdownStep \/ Rearm

Spec == Init /\ [][Next]_vars

\* Threads run; an engine that was told to stop stops.  No other unit has to
\* end, and nobody has to submit, cancel, close or shut down.
FairSpec ==
    /\ Spec
    /\ \A s \in Submitters : WF_vars(SubmitStep(s))
    /\ \A t \in Tickets : WF_vars(UnitStep(t)) /\ WF_vars(t \in cancelled /\ EngineReturns(t))
    /\ WF_vars(ShutdownStep)

-----------------------------------------------------------------------------
(* Correctness. *)

InFlight(t) == unit[t] \in {"queued", "engine", "deliver", "published"}

\* mod.rs, `in_flight`: "the flag count is exactly the in-flight count", but
\* for calls that are still deciding: a unit keeps its flag until it is done,
\* and a refused unit leaves none.  So no count exceeds the tickets (TypeOK).
FlagsAreUnits ==
    /\ TypeOK
    /\ \A t \in Tickets :
        /\ InFlight(t) => t \in flags
        /\ t \in flags => InFlight(t) \/ \E s \in Submitters : sub[s].t = t

\* Once a shutdown has cancelled the handles it found, and until a rearm, no
\* unit is in flight uncancelled: neither one whose submit raced the store of
\* SHUTTING_DOWN nor one on a handle opened meanwhile (mod.rs, the comment in
\* `submit`: it "would run uncancelled and eat the whole drain budget").
ShutdownReachesAll ==
    (sd.pc \in {"look", "count"} \/ report # "none") => flags \subseteq cancelled

\* After a shutdown that reported a clean drain no engine code runs until a
\* rearm, though handles are counted one after the other and a submit may
\* still be on its way in (lifecycle.rs, "zero means a clean drain").
CleanDrain == report = "clean" => \A t \in Tickets : unit[t] # "engine"

\* `close` cancels every unit that made it into the queue, so none it joins
\* goes on unaware (mod.rs, the comment on the order of flag and send).
CloseReachesQueued ==
    \A t \in Tickets :
        (unit[t] \in {"queued", "engine"} /\ cpc[home[t]] = "join") => t \in cancelled

\* With engines that heed cancellation a shutdown returns even if its budget
\* never runs out (nothing obliges `Decide` to give up): the units in flight
\* end and those still arriving are cancelled.
DrainEnds == sd.pc # "idle" ~> sd.pc = "idle"

\* A cancellation reaches every unit it is meant for: those of a shutdown
\* (begin_shutdown) and those a close joins (close_within).
CancelReaches == ShutdownReachesAll /\ CloseReachesQueued
=============================================================================
