------------------------------- MODULE Buffers -------------------------------
(***************************************************************************)
(* Rust-owned buffers of one handle, on both sides of the boundary:        *)
(*                                                                         *)
(*   - the registry (crates/gusset/src/pool/buffers.rs), the id counter    *)
(*     (pool/mod.rs reserve_id) and the memory behind a slot, which a work *)
(*     unit shares while it reads it as its input (pool/sys.rs RawBuffer); *)
(*   - what a worker makes of an engine's answer (pool/worker.rs           *)
(*     execute_unit, buffers.rs adopt_output, claim_output,                *)
(*     materialize_result) and gusset_take;                                *)
(*   - Go's Buffer objects, their cleanup and the buffer budget            *)
(*     (buffer.go), the completion reader's take and Wait, WaitBuffer      *)
(*     (drain.go, wait.go), and Close, which ends every buffer.            *)
(*                                                                         *)
(* Lengths are classes and every Go buffer costs one unit of the budget.   *)
(* Permits, tickets and waiters are HandleState's.                         *)
(***************************************************************************)
EXTENDS Integers, FiniteSets

CONSTANTS Jobs,      \* work units
          Objects,   \* Go Buffer variables
          Ceiling,   \* ID_CEILING: ids are below it and the owned flag is its bit
          Budget,    \* WithBufferBudget
          NoSlot

ASSUME BufferConstants ==
    /\ Ceiling \in Nat \ {0, 1} /\ Budget \in Nat \ {0}
    /\ IsFiniteSet(Objects)
    /\ NoSlot \notin [claimed : BOOLEAN, held : BOOLEAN]

Ids == 1..(Ceiling - 1)

VARIABLES
    nextId,     \* NEXT_BUFFER_ID
    slots,      \* the registry: id -> [claimed, held]
    poisoned,   \* the Rust latch
    closed,     \* the Rust closed flag
    dropped,    \* the Handle, its registry with it, is gone
    goClosed, goPoisoned,  \* handleState.closed and poisoned
    cgo,        \* Buffer variables whose allocation holds cgoMu for reading
    bytes,      \* bufBytes
    obj,        \* Go Buffer objects: [pc, id, charge, armed]
    stage,      \* where a work unit is
    input,      \* the buffer a unit reads, 0 for none
    result      \* a unit's result: [kind, id]

rust == <<nextId, slots, poisoned, closed, dropped>>
go == <<goClosed, goPoisoned, cgo, bytes, obj>>
work == <<stage, input, result>>
vars == <<rust, go, work>>

NoObject == [pc |-> "none", id |-> 0, charge |-> 0, armed |-> FALSE]
NoResult == [kind |-> "none", id |-> 0]

Init ==
    /\ nextId = 1
    /\ slots = [i \in 0..Ceiling |-> NoSlot]
    /\ poisoned = FALSE /\ closed = FALSE /\ dropped = FALSE
    /\ goClosed = FALSE /\ goPoisoned = FALSE
    /\ cgo = {}
    /\ bytes = 0
    /\ obj = [g \in Objects |-> NoObject]
    /\ stage = [j \in Jobs |-> "new"]
    /\ input = [j \in Jobs |-> 0]
    /\ result = [j \in Jobs |-> NoResult]

-----------------------------------------------------------------------------
(* The registry.                                                           *)

\* Mutant: the comparison with the ceiling is off by one.
HasIdAtCeiling == nextId # 0 /\ nextId <= Ceiling

\* reserve_id hands out nextId and advances, or refuses without advancing.
HasId == nextId # 0 /\ nextId < Ceiling

\* A unit that is queued or running holds its input's memory.
Reading(i) == {j \in Jobs : stage[j] \in {"queued", "running"} /\ input[j] = i}

\* register: refused once closed or out of ids; the id is spent even when the
\* memory cannot be had.  One step, since until the insert nobody knows the id.
Refused == closed \/ ~HasId
Spend == ~Refused /\ nextId' = nextId + 1 /\ UNCHANGED slots
Register(claimed, held) ==
    /\ ~Refused
    /\ nextId' = nextId + 1
    /\ slots' = [slots EXCEPT ![nextId] = [claimed |-> claimed, held |-> held]]

\* buf_free: a missing id is success.
Freed(i) == [slots EXCEPT ![i] = NoSlot]

\* Mutants: a buffer Go still views may be claimed; one that a unit reads may.
MayClaimHeld(i) == slots[i] # NoSlot /\ ~slots[i].claimed /\ Reading(i) = {}
MayClaimRead(i) == slots[i] # NoSlot /\ ~slots[i].claimed /\ ~slots[i].held

\* The four refusals of claim_output; strong_count > 1 is a unit reading it.
MayClaim(i) ==
    /\ slots[i] # NoSlot
    /\ ~slots[i].claimed
    /\ ~slots[i].held
    /\ Reading(i) = {}

\* The owned flag gusset_take sets on an id, and Go's &^ that strips it.
Flagged(i) == IF i >= Ceiling THEN i ELSE i + Ceiling
Stripped(f) == IF f >= Ceiling THEN f - Ceiling ELSE f

-----------------------------------------------------------------------------
(* NewBuffer.                                                              *)

\* allocBuffer up to the reservation of the budget.
ReserveBudget(g) ==
    /\ obj[g].pc = "none"
    /\ ~goClosed /\ ~goPoisoned
    /\ bytes + 1 <= Budget
    /\ bytes' = bytes + 1
    /\ obj' = [obj EXCEPT ![g] = [pc |-> "reserved", id |-> 0, charge |-> 1, armed |-> FALSE]]
    /\ UNCHANGED <<rust, goClosed, goPoisoned, cgo, work>>

\* enterCgo.
EnterCgo(g) ==
    /\ obj[g].pc = "reserved" /\ g \notin cgo
    /\ ~goClosed
    /\ cgo' = cgo \cup {g}
    /\ UNCHANGED <<rust, goClosed, goPoisoned, bytes, obj, work>>

\* Mutant: the early return keeps the reservation.
GiveUpKeeps(g) ==
    /\ UNCHANGED bytes
    /\ obj' = [obj EXCEPT ![g] = NoObject]
    /\ cgo' = cgo \ {g}

\* Every refusal after the reservation: the handle closed before enterCgo, the
\* latch was set meanwhile, or gusset_buf_alloc failed.
GiveUp(g) ==
    /\ bytes' = bytes - obj[g].charge
    /\ obj' = [obj EXCEPT ![g] = NoObject]
    /\ cgo' = cgo \ {g}

AllocBufferFails(g) ==
    /\ obj[g].pc = "reserved"
    /\ \/ /\ g \notin cgo /\ goClosed
          /\ UNCHANGED <<rust, goPoisoned>>
       \/ /\ g \in cgo /\ (goPoisoned \/ poisoned)
          /\ goPoisoned' = TRUE
          /\ UNCHANGED rust
       \/ /\ g \in cgo /\ ~goPoisoned /\ ~poisoned
          /\ (Refused /\ UNCHANGED <<nextId, slots>>) \/ Spend
          /\ UNCHANGED <<poisoned, closed, dropped, goPoisoned>>
    /\ GiveUp(g)
    /\ UNCHANGED <<goClosed, work>>

\* gusset_buf_alloc (buf_alloc_published) and newBufferCharged.
AllocBuffer(g) ==
    /\ g \in cgo /\ ~goPoisoned /\ ~poisoned
    /\ Register(FALSE, TRUE)
    /\ obj' = [obj EXCEPT ![g] = [@ EXCEPT !.pc = "live", !.id = nextId, !.armed = TRUE]]
    /\ cgo' = cgo \ {g}
    /\ UNCHANGED <<poisoned, closed, dropped, goClosed, goPoisoned, bytes, work>>

-----------------------------------------------------------------------------
(* Free, and the cleanup of an object nobody freed.                        *)

\* Free up to the unlock of b.mu: freed is set and the cleanup stopped.
Free(g) ==
    /\ obj[g].pc = "live"
    /\ obj' = [obj EXCEPT ![g].pc = "freeing", ![g].armed = FALSE]
    /\ UNCHANGED <<rust, goClosed, goPoisoned, cgo, bytes, work>>

\* bufFree and releaseBudget.
FreeMemory(g) ==
    /\ obj[g].pc = "freeing"
    /\ slots' = IF goClosed THEN slots ELSE Freed(obj[g].id)
    /\ bytes' = bytes - obj[g].charge
    /\ obj' = [obj EXCEPT ![g].pc = "garbage"]
    /\ UNCHANGED <<nextId, poisoned, closed, dropped, goClosed, goPoisoned, cgo, work>>

\* The caller drops its last reference without Free.
Forget(g) ==
    /\ obj[g].pc = "live"
    /\ obj' = [obj EXCEPT ![g].pc = "garbage"]
    /\ UNCHANGED <<rust, goClosed, goPoisoned, cgo, bytes, work>>

\* The garbage collector takes the object; releaseForgottenBuffer if armed.
Collect(g) ==
    /\ obj[g].pc = "garbage"
    /\ slots' = IF obj[g].armed /\ ~goClosed THEN Freed(obj[g].id) ELSE slots
    /\ bytes' = IF obj[g].armed THEN bytes - obj[g].charge ELSE bytes
    /\ obj' = [obj EXCEPT ![g] = NoObject]
    /\ UNCHANGED <<nextId, poisoned, closed, dropped, goClosed, goPoisoned, cgo, work>>

-----------------------------------------------------------------------------
(* Work.                                                                   *)

\* submit: by Go, inline or with a Buffer it has not freed, or by a Rust host
\* with a buffer an engine allocated and no result has.  The unit clones the
\* slot's Arc.
Submit(j, i) ==
    /\ stage[j] = "new"
    /\ ~poisoned /\ ~closed /\ ~goClosed
    /\ \/ i = 0
       \/ /\ slots[i] # NoSlot
          /\ \/ \E g \in Objects : obj[g].pc = "live" /\ obj[g].id = i
             \/ ~slots[i].held /\ ~slots[i].claimed
    /\ stage' = [stage EXCEPT ![j] = "queued"]
    /\ input' = [input EXCEPT ![j] = i]
    /\ UNCHANGED <<rust, go, result>>

\* A submit refused for poison sets Go's latch.
SubmitPoisoned ==
    /\ poisoned /\ ~goPoisoned /\ ~goClosed
    /\ goPoisoned' = TRUE
    /\ UNCHANGED <<rust, goClosed, cgo, bytes, obj, work>>

\* A worker starts the unit, unless its context is already over.
Start(j) ==
    /\ stage[j] = "queued"
    /\ \/ /\ stage' = [stage EXCEPT ![j] = "running"]
          /\ UNCHANGED result
       \/ /\ stage' = [stage EXCEPT ![j] = "ended"]
          /\ result' = [result EXCEPT ![j].kind = "cancelled"]
    /\ UNCHANGED <<rust, go, input>>

\* An engine of a Rust host allocates a buffer (buf_alloc).
EngineAlloc(j) ==
    /\ stage[j] = "running"
    /\ ~poisoned
    /\ Register(FALSE, FALSE)
    /\ UNCHANGED <<poisoned, closed, dropped, go, work>>

End(j, kind, i) ==
    /\ stage[j] = "running"
    /\ stage' = [stage EXCEPT ![j] = "ended"]
    /\ result' = [result EXCEPT ![j] = [kind |-> kind, id |-> i]]
    /\ UNCHANGED <<input, poisoned, closed, dropped, go>>

\* Bytes up to the inline limit, or an empty output of either kind.
ReturnBytes(j) == End(j, "bytes", 0) /\ UNCHANGED <<nextId, slots>>

\* An error, or an output over MAX_BUFFER_BYTES.
ReturnError(j) == End(j, "error", 0) /\ UNCHANGED <<nextId, slots>>

\* Large bytes (materialize_result) or BufferAlloc memory (adopt_output): a
\* buffer born as this unit's output, or an error.  Poison is not consulted.
ReturnLarge(j) ==
    \/ Register(TRUE, FALSE) /\ End(j, "buffer", nextId)
    \/ Spend /\ End(j, "error", 0)
    \/ Refused /\ End(j, "error", 0) /\ UNCHANGED <<nextId, slots>>

\* A buffer id: zero and the unit's own input are refused before the claim.
ReturnBuffer(j, i) ==
    IF i # 0 /\ i # input[j] /\ MayClaim(i)
    THEN /\ End(j, "buffer", i)
         /\ slots' = [slots EXCEPT ![i].claimed = TRUE]
         /\ UNCHANGED nextId
    ELSE End(j, "error", 0) /\ UNCHANGED <<nextId, slots>>

ReturnPanic(j) ==
    /\ stage[j] = "running"
    /\ poisoned' = TRUE
    /\ stage' = [stage EXCEPT ![j] = "ended"]
    /\ result' = [result EXCEPT ![j].kind = "panic"]
    /\ UNCHANGED <<nextId, slots, closed, dropped, go, input>>

-----------------------------------------------------------------------------
(* Results.                                                                *)

\* drainPipe takes the result under cgoMu.  Bytes are copied to a buffer of
\* their own, which Go copies out and frees in the same hold; a Buffer keeps its
\* id, flagged.  During a close the result stays in Rust.
TakeBytes(j) ==
    /\ stage[j] = "ended" /\ ~goClosed /\ result[j].kind = "bytes"
    /\ stage' = [stage EXCEPT ![j] = "taken"]
    /\ \/ HasId /\ nextId' = nextId + 1 /\ UNCHANGED result
       \/ /\ IF HasId THEN nextId' = nextId + 1 ELSE UNCHANGED nextId
          /\ result' = [result EXCEPT ![j].kind = "error"]
    /\ UNCHANGED <<slots, poisoned, closed, dropped, go, input>>

TakeBuffer(j) ==
    /\ stage[j] = "ended" /\ ~goClosed /\ result[j].kind = "buffer"
    /\ stage' = [stage EXCEPT ![j] = "taken"]
    /\ result' = [result EXCEPT ![j] = IF slots[@.id] = NoSlot
                                       THEN [kind |-> "error", id |-> 0]
                                       ELSE [kind |-> "buffer", id |-> Stripped(Flagged(@.id))]]
    /\ UNCHANGED <<rust, go, input>>

\* Errors and cancels; a panic sets Go's latch.
TakeFailure(j) ==
    /\ stage[j] = "ended" /\ ~goClosed /\ result[j].kind \notin {"bytes", "buffer"}
    /\ stage' = [stage EXCEPT ![j] = "taken"]
    /\ goPoisoned' = (goPoisoned \/ result[j].kind = "panic")
    /\ UNCHANGED <<rust, goClosed, cgo, bytes, obj, input, result>>

TakeClosed(j) ==
    /\ stage[j] = "ended" /\ goClosed
    /\ stage' = [stage EXCEPT ![j] = "taken"]
    /\ result' = [result EXCEPT ![j] = NoResult]
    /\ UNCHANGED <<rust, go, input>>

\* An empty result has no buffer to free, and one that fitted its completion
\* record needs no take.
TakeInline(j) ==
    /\ stage[j] = "ended" /\ result[j].kind = "bytes"
    /\ stage' = [stage EXCEPT ![j] = "taken"]
    /\ UNCHANGED <<rust, go, input, result>>

\* Mutant: the copy is not followed by the free.
WaitCopies(j) ==
    /\ stage[j] = "taken"
    /\ stage' = [stage EXCEPT ![j] = "done"]
    /\ result' = [result EXCEPT ![j] = NoResult]
    /\ UNCHANGED <<rust, go, input>>

\* Wait copies a taken buffer out and frees it; Discard and an abandoned
\* ticket's bin only free it.  Once the handle is closing, close frees it.
Wait(j) ==
    /\ stage[j] = "taken"
    /\ stage' = [stage EXCEPT ![j] = "done"]
    /\ slots' = IF result[j].kind = "buffer" /\ ~goClosed THEN Freed(result[j].id) ELSE slots
    /\ result' = [result EXCEPT ![j] = NoResult]
    /\ UNCHANGED <<nextId, poisoned, closed, dropped, go, input>>

\* WaitBuffer wraps it in a Buffer, which costs nothing of the budget; bytes
\* become a Buffer over Go memory, with id 0 and no cleanup.
WaitBuffer(j, g) ==
    /\ stage[j] = "taken" /\ result[j].kind \in {"bytes", "buffer"}
    /\ obj[g].pc = "none" /\ ~goClosed
    /\ stage' = [stage EXCEPT ![j] = "done"]
    /\ obj' = [obj EXCEPT ![g] = [pc |-> "live", id |-> result[j].id, charge |-> 0,
                                  armed |-> result[j].id > 0]]
    /\ result' = [result EXCEPT ![j] = NoResult]
    /\ UNCHANGED <<rust, goClosed, goPoisoned, cgo, bytes, input>>

-----------------------------------------------------------------------------
(* Close.                                                                  *)

CloseBegins ==
    /\ ~goClosed
    /\ goClosed' = TRUE
    /\ UNCHANGED <<rust, goPoisoned, cgo, bytes, obj, work>>

\* gusset_handle_close, with cgoMu held exclusively.
CloseRust ==
    /\ goClosed /\ ~closed /\ cgo = {}
    /\ closed' = TRUE
    /\ UNCHANGED <<nextId, slots, poisoned, dropped, go, work>>

\* The last Arc goes once the workers are joined, by close or by its joiner.
DropHandle ==
    /\ closed /\ ~dropped
    /\ \A j \in Jobs : stage[j] \notin {"queued", "running"}
    /\ dropped' = TRUE
    /\ slots' = [i \in 0..Ceiling |-> NoSlot]
    /\ UNCHANGED <<nextId, poisoned, closed, go, work>>

Next ==
    \/ \E g \in Objects :
        \/ ReserveBudget(g) \/ EnterCgo(g) \/ AllocBufferFails(g) \/ AllocBuffer(g)
        \/ Free(g) \/ FreeMemory(g) \/ Forget(g) \/ Collect(g)
    \/ \E j \in Jobs :
        \/ \E i \in 0..(Ceiling - 1) : Submit(j, i) \/ ReturnBuffer(j, i)
        \/ Start(j) \/ EngineAlloc(j)
        \/ ReturnBytes(j) \/ ReturnError(j) \/ ReturnLarge(j) \/ ReturnPanic(j)
        \/ TakeBytes(j) \/ TakeBuffer(j) \/ TakeFailure(j) \/ TakeClosed(j)
        \/ TakeInline(j) \/ Wait(j)
        \/ \E g \in Objects : WaitBuffer(j, g)
    \/ SubmitPoisoned \/ CloseBegins \/ CloseRust \/ DropHandle

Spec == Init /\ [][Next]_vars

-----------------------------------------------------------------------------
(* Properties.                                                             *)

\* Who may read the memory of buffer i and will free it: the Buffer object that
\* has it, or the result that carries it.
Owners(i) ==
    {g \in Objects : obj[g].pc = "live" /\ obj[g].id = i}
        \cup {j \in Jobs : result[j].kind = "buffer" /\ result[j].id = i}

\* A buffer has one owner, and while the handle is open its slot is there: no
\* engine answer (claim_output), take, Free or cleanup releases memory under a
\* view, and no two results share a buffer.
OneOwner ==
    \A i \in Ids : /\ Cardinality(Owners(i)) <= 1
                   /\ (Owners(i) # {} /\ ~goClosed) => slots[i] # NoSlot

\* No buffer is forgotten: while the handle is open, a registered buffer that
\* was handed out has an owner, or a Free or cleanup of it is still to come.
NoLeak ==
    \A i \in DOMAIN slots :
        (slots[i] # NoSlot /\ (slots[i].claimed \/ slots[i].held) /\ ~goClosed) =>
            \/ Owners(i) # {}
            \/ \E g \in Objects : obj[g].id = i /\ (obj[g].pc = "freeing" \/ obj[g].armed)

\* A result's buffer is not also the input of a unit that was submitted before
\* the engine returned it (claim_output under the lock submit clones under).
OutputNotRead ==
    \A j \in Jobs : result[j].kind = "buffer" => Reading(result[j].id) = {}

\* The budget in use is the buffers allocated against it and not yet released,
\* allocations under way included, and never exceeds WithBufferBudget.
BudgetExact ==
    /\ bytes <= Budget
    /\ bytes = Cardinality({g \in Objects : obj[g].charge = 1
                                            /\ (obj[g].pc # "garbage" \/ obj[g].armed)})

\* An id is given to one buffer in the life of the process, and is never zero
\* nor reaches the bit of the owned flag.
IdsOnce ==
    [][/\ nextId' >= nextId
       /\ \A i \in DOMAIN slots :
            (slots[i] = NoSlot /\ slots'[i] # NoSlot) => i = nextId /\ i < nextId' /\ i \in Ids]_vars

\* A buffer is never aliased: one owner, who finds it registered, and no unit
\* reading what is handed out as a result (claim_output, free, submit).
NotAliased == OneOwner /\ OutputNotRead
=============================================================================
