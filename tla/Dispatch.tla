------------------------------ MODULE Dispatch -------------------------------
(***************************************************************************)
(* What a work unit runs: the engine registry and default_dispatch         *)
(* (crates/gusset/src/pool/engine.rs), and when it no longer may: the      *)
(* deadline and the cancel flag of its JobContext (src/header.rs), looked  *)
(* at by execute_unit (pool/worker.rs) before the engine and after an      *)
(* error of it.                                                            *)
(*                                                                         *)
(* The registry is the process's: several handles' units look it up while  *)
(* an adopter recovers from a panic by clear_engine_handlers and installs  *)
(* again.  A handler is a number, the order it was made in.  The clock is  *)
(* Instant::now, ClockEnd the last instant that can be represented.        *)
(***************************************************************************)
EXTENDS Integers, Sequences, FiniteSets

CONSTANTS WorkUnits, Opcodes, Timeouts, ClockEnd, MaxHandlers

ASSUME DispatchAssumption ==
    /\ 0 \notin Opcodes
    /\ ClockEnd \in Nat /\ Timeouts \subseteq Nat

VARIABLES
    globalEngine,  \* GLOBAL_ENGINE
    registry,      \* ENGINE_REGISTRY
    homes,         \* (ghost) the opcode each handler was made for
    clearing,      \* a clear has the write lock of GLOBAL_ENGINE
    doomed,        \* (ghost) how many handlers there were when it began
    discarded,     \* (ghost) handlers a finished clear found
    now,
    unit           \* [pc, opcode, diag, timeout, born, flag, engine, result]

dispatchVars == <<globalEngine, registry, homes, clearing, doomed, discarded, now, unit>>

NoEngine == 0
Diagnostic == -1

NewUnit == [pc |-> "new", opcode |-> 0, diag |-> FALSE, timeout |-> 0, born |-> 0,
            flag |-> FALSE, engine |-> NoEngine, result |-> "none"]

DispatchInit ==
    /\ globalEngine = NoEngine
    /\ registry = [o \in Opcodes |-> NoEngine]
    /\ homes = <<>>
    /\ clearing = FALSE /\ doomed = 0 /\ discarded = {}
    /\ now = 0
    /\ unit = [u \in WorkUnits |-> NewUnit]

-----------------------------------------------------------------------------
(* The registry.                                                           *)

\* set_engine_handler: the last one wins.
SetEngineHandler ==
    /\ Len(homes) < MaxHandlers
    /\ ~clearing
    /\ homes' = Append(homes, 0)
    /\ globalEngine' = Len(homes) + 1
    /\ UNCHANGED <<registry, clearing, doomed, discarded, now, unit>>

\* register_engine: opcode 0 and a second registration are refused, and then
\* nothing changes.
RegisterEngine(o) ==
    /\ Len(homes) < MaxHandlers
    /\ registry[o] = NoEngine
    /\ homes' = Append(homes, o)
    /\ registry' = [registry EXCEPT ![o] = Len(homes) + 1]
    /\ UNCHANGED <<globalEngine, clearing, doomed, discarded, now, unit>>

\* clear_engine_handlers: the global slot, and, its lock still held, the rest.
ClearGlobal ==
    /\ ~clearing
    /\ clearing' = TRUE
    /\ globalEngine' = NoEngine
    /\ doomed' = Len(homes)
    /\ UNCHANGED <<registry, homes, discarded, now, unit>>

\* Mutant: only the global slot is cleared.
ClearNothingElse ==
    /\ clearing
    /\ clearing' = FALSE
    /\ discarded' = 1..doomed /\ doomed' = 0
    /\ UNCHANGED <<globalEngine, registry, homes, now, unit>>

ClearRegistry ==
    /\ clearing
    /\ clearing' = FALSE
    /\ registry' = [o \in Opcodes |-> NoEngine]
    /\ discarded' = 1..doomed /\ doomed' = 0
    /\ UNCHANGED <<globalEngine, homes, now, unit>>

-----------------------------------------------------------------------------
(* A unit.                                                                 *)

\* Never reached.
NoDeadline == ClockEnd + 1

\* Mutant: a deadline that cannot be represented is none.
NoneOnOverflow(born, timeout) ==
    IF timeout = 0 \/ born + timeout > ClockEnd THEN NoDeadline ELSE born + timeout

ResolveDeadline(born, timeout) ==
    IF timeout = 0 THEN NoDeadline
    ELSE IF born + timeout > ClockEnd THEN born ELSE born + timeout

\* JobContext::check.
Check(u) ==
    IF unit[u].flag THEN "explicit"
    ELSE IF now >= ResolveDeadline(unit[u].born, unit[u].timeout) THEN "deadline" ELSE "go"

Registered == UNCHANGED <<globalEngine, registry, homes, clearing, doomed, discarded>>

\* JobContext::new, in submit.
SubmitUnit(u, o, diag, timeout) ==
    /\ unit[u].pc = "new"
    /\ unit' = [unit EXCEPT ![u] = [NewUnit EXCEPT !.pc = "queued", !.opcode = o, !.diag = diag,
                                                   !.timeout = timeout, !.born = now]]
    /\ Registered /\ UNCHANGED now

\* A cancel, from the caller, a close or a shutdown, before or after the end.
FlagUnit(u) ==
    /\ unit[u].pc # "new" /\ ~unit[u].flag
    /\ unit' = [unit EXCEPT ![u].flag = TRUE]
    /\ Registered /\ UNCHANGED now

EndUnit(u, result) ==
    /\ unit' = [unit EXCEPT ![u].pc = "done", ![u].result = result]
    /\ Registered /\ UNCHANGED now

\* execute_unit, before the engine.
StartUnit(u) ==
    /\ unit[u].pc = "queued"
    /\ IF Check(u) = "go"
       THEN /\ unit' = [unit EXCEPT ![u].pc = "lookup"]
            /\ Registered /\ UNCHANGED now
       ELSE EndUnit(u, Check(u))

\* Mutant: an opcode nobody registered falls back to the global engine.
FoundAnyway(u) ==
    IF unit[u].opcode # 0 /\ registry[unit[u].opcode] # NoEngine THEN registry[unit[u].opcode]
    ELSE IF globalEngine # NoEngine THEN globalEngine
    ELSE IF unit[u].diag THEN Diagnostic ELSE NoEngine

\* What default_dispatch finds.
Found(u) ==
    IF unit[u].opcode # 0 THEN registry[unit[u].opcode]
    ELSE IF globalEngine # NoEngine THEN globalEngine
    ELSE IF unit[u].diag THEN Diagnostic ELSE NoEngine

\* An error, of the engine or of dispatch, gives way to a cancel.
EndWithError(u) == EndUnit(u, IF Check(u) = "go" THEN "error" ELSE Check(u))

\* The slot is read, and the handler cloned, under its lock.
LookUp(u) ==
    /\ unit[u].pc = "lookup"
    /\ unit[u].opcode = 0 => ~clearing
    /\ IF Found(u) = NoEngine THEN EndWithError(u)
       ELSE /\ unit' = [unit EXCEPT ![u].pc = "running", ![u].engine = Found(u)]
            /\ Registered /\ UNCHANGED now

\* The engine returns, fails or panics.  A panic leaves it in its slot.  An output
\* is refused, and the context not looked at again, if it is the input buffer, no
\* buffer, one that cannot be claimed or adopted, or if the handle is gone.
EngineEnds(u) ==
    /\ unit[u].pc = "running"
    /\ \/ EndUnit(u, "ok") \/ EndUnit(u, "refused")
       \/ EndWithError(u) \/ EndUnit(u, "panic")

Tick ==
    /\ now < ClockEnd
    /\ now' = now + 1
    /\ Registered /\ UNCHANGED unit

DispatchNext ==
    \/ SetEngineHandler \/ ClearGlobal \/ ClearRegistry \/ Tick
    \/ \E o \in Opcodes : RegisterEngine(o)
    \/ \E u \in WorkUnits :
        \/ \E o \in Opcodes \cup {0}, diag \in BOOLEAN, n \in Timeouts : SubmitUnit(u, o, diag, n)
        \/ FlagUnit(u) \/ StartUnit(u) \/ LookUp(u) \/ EngineEnds(u)

-----------------------------------------------------------------------------
(* Properties.                                                             *)

\* A unit that reaches its engine after clear_engine_handlers has returned runs
\* nothing that was installed before the clear began, whatever was installed or
\* looked up meanwhile.  It runs what was made for its opcode, and the
\* diagnostic engine only by its flag, for opcode 0, with no engine to displace.
\* An error of the engine or of dispatch is told as one only while the unit is
\* neither cancelled nor late: a cancel is told as a cancel, whatever the engine
\* says (execute_unit, the check after an Err).  The refusal of an output is not
\* such an error, and is told in any case.
DispatchRight ==
    [][\A u \in WorkUnits :
        LET engine == unit'[u].engine
        IN /\ engine # unit[u].engine =>
                /\ engine \notin discarded
                /\ IF engine = Diagnostic
                   THEN unit[u].opcode = 0 /\ unit[u].diag /\ globalEngine = NoEngine
                   ELSE homes[engine] = unit[u].opcode
           /\ (unit[u].result = "none" /\ unit'[u].result = "error") =>
                ~unit[u].flag /\ (unit[u].timeout # 0 => now < unit[u].born + unit[u].timeout)
      ]_dispatchVars

\* A timeout means a deadline: a unit that has one ends as exceeded only when it
\* is, one whose deadline cannot be represented never runs, and one that
\* has none never ends that way (resolve_deadline, JobContext::check).
TimeoutKept ==
    \A u \in WorkUnits :
        LET due == unit[u].born + unit[u].timeout
        IN /\ unit[u].result = "deadline" =>
                unit[u].timeout # 0 /\ (now >= due \/ due > ClockEnd)
           /\ unit[u].timeout # 0 /\ due > ClockEnd => unit[u].engine = NoEngine

=============================================================================
