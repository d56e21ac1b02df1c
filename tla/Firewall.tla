------------------------------ MODULE Firewall -------------------------------
(***************************************************************************)
(* The panic firewall at the C boundary: what an export of                 *)
(* crates/gusset/src/ffi/mod.rs does around its body, ffi_guard_code, the  *)
(* panic hook and the table of panic locations (ffi/guard.rs), the status  *)
(* the caller reads (ffi/status.rs), and a worker's two firewalls          *)
(* (pool/worker.rs caught_panic).                                          *)
(*                                                                         *)
(* What a body does to a handle is the other modules'.  Here it returns,   *)
(* fails or panics, on several threads that share the location table and   *)
(* the poison latch of one handle.                                         *)
(*                                                                         *)
(* A location is known by the thread that panicked there and by how it     *)
(* relates to the call that thread is in: "thrown" is where the panic that *)
(* unwound out of the body began, "caught" where one that the body caught  *)
(* itself did, "payload" where a payload being disposed of panicked, and   *)
(* "old" is from before the call.                                          *)
(***************************************************************************)
EXTENDS Integers, Sequences, FiniteSets

CONSTANTS GuardThreads,
          Stranger,       \* a thread that is never inside Gusset
          MaxLocations,   \* MAX_PANIC_LOCATIONS
          NullCalls,      \* exports with a status that may be called without
          NoSite

ASSUME LocationsAssumption == MaxLocations \in Nat \ {0} /\ Stranger \notin GuardThreads

\* The exports, by what surrounds their body: submit and buf_alloc refuse a
\* poisoned handle; take, cancel, cancel_all, handle_ring and buf_free do not;
\* open and close have no handle to latch, and a close finds the hook installed;
\* init and shutdown return a code and no status; ring_release, status_free,
\* alloc_stats and drain_logs neither.
Bound == {"checked", "bound"}
Guarded == Bound \cup {"open"}
Calls == Guarded \cup {"init", "void", "job"}

Codes == {"OK", "ERR", "PANIC", "POISONED", "BAD_ARG"}

VARIABLES
    hook,        \* INSTALL: "none", the installing thread, or "in"
    opened,      \* the handle exists
    poisoned,    \* its latch
    locations,   \* PANIC_LOCATIONS, a sequence of [thread, at]
    evicted,     \* (ghost) threads whose entry of this call was evicted
    frame,       \* a thread's call: [pc, call, null, code, loc, hooked, bomb]
    status,      \* the caller's FfiStatus: [code, owns]
    messages     \* boxed messages not yet freed

guardVars == <<hook, opened, poisoned, locations, evicted, frame, status, messages>>

Outside == [pc |-> "out", call |-> "void", null |-> TRUE, code |-> "OK", loc |-> NoSite,
            hooked |-> FALSE, bomb |-> "quiet"]
OkStatus == [code |-> "OK", owns |-> FALSE]

GuardInit ==
    /\ hook = "none" /\ opened = FALSE /\ poisoned = FALSE
    /\ locations = <<>> /\ evicted = {}
    /\ frame = [t \in GuardThreads |-> Outside]
    /\ status = [t \in GuardThreads |-> OkStatus]
    /\ messages = 0

-----------------------------------------------------------------------------
(* The table of locations.                                                 *)

Entry(list, t) == {k \in DOMAIN list : list[k].thread = t}

\* The hook: one entry per thread, written over; the first goes when it is full.
Recorded(list, t, at) ==
    LET new == [thread |-> t, at |-> at]
    IN IF Entry(list, t) # {}
       THEN [k \in DOMAIN list |-> IF list[k].thread = t THEN new ELSE list[k]]
       ELSE Append(IF Len(list) >= MaxLocations THEN Tail(list) ELSE list, new)

\* Who loses their entry to a record by t.
Loser(list, t) ==
    IF Entry(list, t) = {} /\ Len(list) >= MaxLocations THEN {list[1].thread} ELSE {}

\* Threads whose location has still to be taken.
Inside == {t \in GuardThreads : frame[t].pc \in {"body", "poison", "locate"}}

\* What a record by t leaves of the table, and who has lost an entry by it.
AfterHook(t, at) == IF hook = "in" THEN Recorded(locations, t, at) ELSE locations
Losers(t) == IF hook = "in" THEN evicted \cup (Loser(locations, t) \cap Inside) ELSE evicted

Record(t, at) == locations' = AfterHook(t, at) /\ evicted' = Losers(t)

\* Mutant: the table is a stack, whoever recorded.
PositionLast(list, t) == Len(list)

Position(list, t) == CHOOSE k \in Entry(list, t) : TRUE

\* take_panic_location: swap_remove.
Taken(list, t) ==
    IF Entry(list, t) = {} THEN list
    ELSE SubSeq([list EXCEPT ![Position(list, t)] = list[Len(list)]], 1, Len(list) - 1)

LocationOf(list, t) == IF Entry(list, t) = {} THEN NoSite ELSE list[Position(list, t)]

Discard(t) == locations' = Taken(locations, t)

\* A call is over: what it leaves in the table is old.
Aged(list, t) ==
    [k \in DOMAIN list |-> IF list[k].thread = t THEN [list[k] EXCEPT !.at = "old"] ELSE list[k]]

-----------------------------------------------------------------------------
(* The status.                                                             *)

\* ptr::write of a fresh status over one that owns nothing.
WriteStatus(t, null, code, owns) ==
    IF null THEN UNCHANGED <<status, messages>>
    ELSE /\ status' = [status EXCEPT ![t] = [code |-> code, owns |-> owns]]
         /\ messages' = IF owns THEN messages + 1 ELSE messages

\* Mutant: the new status is written over a message that is still owned.
WriteOver(t, code) ==
    IF frame[t].null THEN UNCHANGED <<status, messages>>
    ELSE /\ status' = [status EXCEPT ![t] = [code |-> code, owns |-> TRUE]]
         /\ messages' = messages + 1

\* FfiStatus::overwrite.
Overwrite(t, code) ==
    IF frame[t].null THEN UNCHANGED <<status, messages>>
    ELSE /\ status' = [status EXCEPT ![t] = [code |-> code, owns |-> TRUE]]
         /\ messages' = (IF status[t].owns THEN messages - 1 ELSE messages) + 1

-----------------------------------------------------------------------------
(* A call.                                                                 *)

\* The caller enters an export, or a worker starts a unit.
Entering(t, e, null) ==
    /\ frame[t].pc = "out"
    /\ e \in Bound \cup {"job"} => opened
    /\ IF null THEN e \in NullCalls \/ e \notin Guarded ELSE e \in Guarded

NewCall(e, null) == [Outside EXCEPT !.call = e, !.null = null]

GuardGo(t, pc) == frame' = [frame EXCEPT ![t].pc = pc]
Leave(t, code) == frame' = [frame EXCEPT ![t].pc = "back", ![t].code = code]

\* refuse_arg and refuse_poisoned.
Refuse(t, e, null, code) ==
    /\ Entering(t, e, null)
    /\ frame' = [frame EXCEPT ![t] = [NewCall(e, null) EXCEPT !.pc = "back", !.code = code]]
    /\ WriteStatus(t, null, code, TRUE)
    /\ UNCHANGED <<hook, opened, poisoned, locations, evicted>>

RefuseArg(t, e, null) == e \in Guarded /\ Refuse(t, e, null, "BAD_ARG")
RefusePoisoned(t, e, null) == e = "checked" /\ poisoned /\ Refuse(t, e, null, "POISONED")

\* Mutant: the table is not looked at before the body.
EnterBodyStale(t, e, null) ==
    /\ Entering(t, e, null)
    /\ e = "checked" => ~poisoned
    /\ frame' = [frame EXCEPT ![t] = [NewCall(e, null) EXCEPT !.pc = IF e \in {"open", "init"} THEN "install" ELSE "body"]]
    /\ WriteStatus(t, null, "OK", FALSE)
    /\ UNCHANGED <<hook, opened, poisoned, locations, evicted>>

\* ffi_guard_code and execute_unit discard an earlier location; the exports
\* that catch by themselves do not look at the table.
EnterBody(t, e, null) ==
    /\ Entering(t, e, null)
    /\ e = "checked" => ~poisoned
    /\ frame' = [frame EXCEPT ![t] = [NewCall(e, null) EXCEPT !.pc = IF e \in {"open", "init"} THEN "install" ELSE "body"]]
    /\ WriteStatus(t, null, "OK", FALSE)
    /\ IF e \in Guarded \cup {"job"} THEN Discard(t) ELSE UNCHANGED locations
    /\ UNCHANGED <<hook, opened, poisoned, evicted>>

\* Mutant: a flag swapped before the hook is set lets a second caller through.
InstallFlagged(t) ==
    /\ frame[t].pc = "install"
    /\ \/ hook = "none" /\ hook' = t /\ UNCHANGED frame
       \/ hook = t /\ hook' = "in" /\ GuardGo(t, "body")
       \/ hook \notin {"none", t} /\ GuardGo(t, "body") /\ UNCHANGED hook
    /\ UNCHANGED <<opened, poisoned, locations, evicted, status, messages>>

\* install_panic_hook: call_once_force keeps a second caller until it is in.
Install(t) ==
    /\ frame[t].pc = "install"
    /\ \/ hook = "none" /\ hook' = t /\ UNCHANGED frame
       \/ hook = t /\ hook' = "in" /\ GuardGo(t, "body")
       \/ hook = "in" /\ GuardGo(t, "body") /\ UNCHANGED hook
    /\ UNCHANGED <<opened, poisoned, locations, evicted, status, messages>>

\* A panic the body itself catches leaves its location behind.
CaughtInside(t) ==
    /\ frame[t].pc = "body"
    /\ Record(t, "caught")
    /\ UNCHANGED <<hook, opened, poisoned, frame, status, messages>>

\* Code outside Gusset panics on a thread that will call it, or dies of it.
CaughtOutside(t) ==
    /\ frame[t].pc = "out"
    /\ Record(t, "old")
    /\ UNCHANGED <<hook, opened, poisoned, frame, status, messages>>

\* A thread that never enters Gusset panics: nobody takes its location.
StrangerPanics ==
    /\ Record(Stranger, "old")
    /\ UNCHANGED <<hook, opened, poisoned, frame, status, messages>>

BodyReturns(t) ==
    /\ frame[t].pc = "body"
    /\ opened' = (opened \/ frame[t].call = "open")
    /\ Leave(t, "OK")
    /\ UNCHANGED <<hook, poisoned, locations, evicted, status, messages>>

\* An error of the body; gusset_take reports a unit's panic as one.
BodyFails(t, code) ==
    /\ frame[t].pc = "body" /\ frame[t].call \in Guarded
    /\ code \in {"ERR", "BAD_ARG"} \/ (code = "PANIC" /\ frame[t].call = "bound" /\ poisoned)
    /\ frame' = [frame EXCEPT ![t].pc = "outcome", ![t].code = code]
    /\ WriteStatus(t, frame[t].null, code, TRUE)
    /\ UNCHANGED <<hook, opened, poisoned, locations, evicted>>

\* A panic unwinds out of the body.  One resumed from another thread does not
\* run the hook.  The payload may panic when it is described or dropped.
BodyPanics(t, hooked, bomb) ==
    /\ frame[t].pc = "body"
    /\ frame' = [frame EXCEPT ![t].pc = IF frame[t].call = "job" THEN "poison"
                                  ELSE IF frame[t].call \in Guarded THEN "locate" ELSE "dispose",
                        ![t].code = "PANIC", ![t].hooked = hooked, ![t].bomb = bomb]
    /\ IF hooked THEN Record(t, "thrown") ELSE UNCHANGED <<locations, evicted>>
    /\ UNCHANGED <<hook, opened, poisoned, status, messages>>

\* caught_panic poisons before anything else.
WorkerPoisons(t) ==
    /\ frame[t].pc = "poison"
    /\ poisoned' = TRUE
    /\ GuardGo(t, "locate")
    /\ UNCHANGED <<hook, opened, locations, evicted, status, messages>>

\* take_panic_location, before the payload is disposed of.
Locate(t) ==
    /\ frame[t].pc = "locate"
    /\ frame' = [frame EXCEPT ![t].pc = "dispose", ![t].loc = LocationOf(locations, t)]
    /\ Discard(t)
    /\ UNCHANGED <<hook, opened, poisoned, evicted, status, messages>>

\* extract_panic_payload and drop_panic_payload: a panic while describing
\* leaves its location; one while dropping is recorded and taken away again,
\* and may have evicted another's.  The exports that return nothing drop the
\* payload undescribed.
Dispose(t) ==
    /\ frame[t].pc = "dispose"
    /\ CASE frame[t].bomb = "describe" /\ frame[t].call # "void" -> Record(t, "payload")
         [] frame[t].bomb = "drop" ->
              locations' = Taken(AfterHook(t, "payload"), t) /\ evicted' = Losers(t)
         [] OTHER -> UNCHANGED <<locations, evicted>>
    /\ frame' = [frame EXCEPT ![t].pc = IF frame[t].call \in Guarded THEN "report" ELSE "back",
                        ![t].bomb = "quiet"]
    /\ UNCHANGED <<hook, opened, poisoned, status, messages>>

\* Mutant: only a worker's panic latches poison.
LatchNot(t) == UNCHANGED poisoned

\* A panic of an export that has a handle poisons it.
Latch(t) == poisoned' = (poisoned \/ (frame[t].code = "PANIC" /\ frame[t].call \in Bound))

\* The status of a caught panic, with its message or, if that panics, without;
\* and handle_outcome.
Report(t, owns) ==
    /\ frame[t].pc = "report"
    /\ WriteStatus(t, frame[t].null, "PANIC", owns)
    /\ Latch(t)
    /\ frame' = [frame EXCEPT ![t].pc = "back", ![t].loc = NoSite, ![t].hooked = FALSE]
    /\ UNCHANGED <<hook, opened, locations, evicted>>

\* handle_outcome and poison_checked_outcome, after an error of the body.
Outcome(t) ==
    /\ frame[t].pc = "outcome"
    /\ IF frame[t].call = "checked" /\ poisoned
       THEN Leave(t, "POISONED") /\ Overwrite(t, "POISONED")
       ELSE GuardGo(t, "back") /\ UNCHANGED <<status, messages>>
    /\ Latch(t)
    /\ UNCHANGED <<hook, opened, locations, evicted>>

\* The caller reads the code and hands the message to gusset_status_free.
StatusFree(t) ==
    /\ frame[t].pc = "back"
    /\ frame' = [frame EXCEPT ![t] = Outside]
    /\ status' = [status EXCEPT ![t] = OkStatus]
    /\ messages' = IF status[t].owns THEN messages - 1 ELSE messages
    /\ locations' = Aged(locations, t) /\ evicted' = evicted \ {t}
    /\ UNCHANGED <<hook, opened, poisoned>>

GuardNext ==
    \/ StrangerPanics
    \/ \E t \in GuardThreads :
        \/ \E e \in Calls, null \in BOOLEAN : RefuseArg(t, e, null) \/ RefusePoisoned(t, e, null) \/ EnterBody(t, e, null)
        \/ Install(t) \/ CaughtInside(t) \/ CaughtOutside(t) \/ BodyReturns(t)
        \/ \E code \in Codes : BodyFails(t, code)
        \/ \E hooked \in BOOLEAN : \E bomb \in {"quiet", "describe", "drop"} : BodyPanics(t, hooked, bomb)
        \/ WorkerPoisons(t) \/ Locate(t) \/ Dispose(t)
        \/ \E owns \in BOOLEAN : Report(t, owns)
        \/ Outcome(t) \/ StatusFree(t)

-----------------------------------------------------------------------------
(* Properties.                                                             *)

\* A panic for which the hook ran is reported where it began, on this thread: not
\* where an earlier call, a panic caught by the body, another thread or the
\* payload's destructor panicked.  It goes without a location only if the table
\* overflowed meanwhile, not because the hook was late.  A panic resumed without
\* the hook has no location, or that of a panic its own body caught (R2, R3,
\* execute_unit).
LocationRight ==
    \A t \in GuardThreads :
        frame[t].pc \in {"dispose", "report"} /\ frame[t].call \in Guarded \cup {"job"} =>
            \/ frame[t].loc = [thread |-> t, at |-> IF frame[t].hooked THEN "thrown" ELSE "caught"]
            \/ frame[t].loc = NoSite /\ (~frame[t].hooked \/ t \in evicted)

\* Once a caller or a waiter can read that a call on the handle panicked, the
\* latch is set, so that no later submit enters Rust (I2).
PanicPoisons ==
    \A t \in GuardThreads :
        frame[t].pc = "back" /\ frame[t].code = "PANIC" /\ frame[t].call \in Bound \cup {"job"} => poisoned

\* Every boxed message is owned by one status the caller still has to free, and
\* the status says what the return code says (R4, overwrite, free_msg).
MessagesOwned ==
    /\ messages = Cardinality({t \in GuardThreads : status[t].owns})
    /\ \A t \in GuardThreads : frame[t].pc = "back" /\ ~frame[t].null => status[t].code = frame[t].code
=============================================================================
