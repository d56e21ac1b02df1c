------------------------- MODULE CancellationProofs --------------------------
(***************************************************************************)
(* Proofs about Cancellation, for any handles, submitters and number of    *)
(* tickets: which units a close and a shutdown reach, that the flags of a  *)
(* handle are its units in flight, and that a clean drain is clean.        *)
(***************************************************************************)
EXTENDS Cancellation, FiniteSetTheorems, TLAPS

\* Tickets are issued in order, so NextTicket is a new one.
Issued == {t \in Tickets : home[t] # NoHandle}
IssuedInOrder == \E k \in 0..MaxTicket : Issued = 1..k

\* What a call inside `submit` holds.
Holds(s) == sub[s].pc \in {"send", "unregister"}
Calls ==
    /\ \A s \in Submitters :
        /\ sub[s].pc # "idle" => sub[s].h \in live
        /\ Holds(s) => /\ sub[s].t \in flags /\ home[sub[s].t] = sub[s].h
                       /\ unit[sub[s].t] = "none"
        /\ ~Holds(s) => sub[s].t = NoTicket
    /\ \A s, r \in Submitters : Holds(s) /\ Holds(r) /\ sub[s].t = sub[r].t => s = r

\* A unit, or a flag, is a ticket's, and a ticket a registered handle's.
Homes ==
    /\ \A t \in Tickets : home[t] # NoHandle => home[t] \in live
    /\ \A t \in Tickets : t \in flags \/ unit[t] # "none" => home[t] # NoHandle

\* How far a shutdown has come.
Shutdown ==
    /\ sd.pc # "idle" \/ report # "none" => shutting
    /\ sd.pc # "idle" => report = "none"
    /\ sd.pc = "cancel" => \A t \in flags : t \in cancelled \/ home[t] \in sd.todo
    /\ sd.pc = "count" /\ sd.sum = 0 =>
         \A t \in Tickets : unit[t] = "engine" => home[t] \in sd.todo

\* A ticket is counted once, with its handle.
Counted == {t \in Tickets : home[t] \in Handles \ sd.todo}
CountBound ==
    /\ sd.pc = "count" => sd.sum <= Cardinality(Counted)
    /\ sd.pc # "count" => sd.sum = 0

\* The inductive invariant.
IInv ==
    /\ FlagsAreUnits /\ CancelReaches /\ CleanDrain
    /\ IssuedInOrder /\ Calls /\ Homes /\ Shutdown /\ CountBound

-----------------------------------------------------------------------------
\* NextTicket has not been issued, and the tickets stay in order with it.
LEMMA NextIsFresh ==
    ASSUME TypeOK, IssuedInOrder, NextTicket \in Tickets
    PROVE  /\ home[NextTicket] = NoHandle
           /\ \E k \in 0..MaxTicket : Issued \cup {NextTicket} = 1..k
<1>1. PICK k \in 0..MaxTicket : Issued = 1..k
  BY DEF IssuedInOrder
<1>2. Cardinality(1..k) = k
  <2>1. k \in Nat /\ 1 \in Int /\ k \in Int
    BY CancellationAssumption, SMT
  <2>2. Cardinality(1..k) = IF 1 > k THEN 0 ELSE k - 1 + 1
    BY <2>1, FS_Interval
  <2> QED  BY <2>1, <2>2, SMT
<1>3. NextTicket = k + 1
  BY <1>1, <1>2 DEF NextTicket, Issued
<1>4. k + 1 \in Tickets /\ k + 1 \notin 1..k
  BY <1>3, SMT
<1>5. home[NextTicket] = NoHandle
  BY <1>1, <1>3, <1>4 DEF Issued
<1>6. (1..k) \cup {k + 1} = 1..(k + 1) /\ k + 1 \in 0..MaxTicket
  BY <1>4, CancellationAssumption, SMT DEF Tickets
<1> QED  BY <1>1, <1>3, <1>5, <1>6

\* Sets of tickets are finite, no larger than MaxTicket, and ordered by size.
LEMMA TicketSets ==
    ASSUME NEW S \in SUBSET Tickets, NEW T \in SUBSET S
    PROVE  /\ IsFiniteSet(S) /\ Cardinality(S) \in 0..MaxTicket
           /\ Cardinality(T) \in Nat /\ Cardinality(T) <= Cardinality(S)
           /\ Cardinality(S) = 0 <=> S = {}
<1>1. IsFiniteSet(Tickets) /\ Cardinality(Tickets) = MaxTicket
  <2>1. MaxTicket \in Int /\ 1 \in Int /\ MaxTicket \in Nat
    BY CancellationAssumption, SMT
  <2>2. IsFiniteSet(1..MaxTicket) /\ Cardinality(1..MaxTicket) = IF 1 > MaxTicket THEN 0 ELSE MaxTicket - 1 + 1
    BY <2>1, FS_Interval
  <2> QED  BY <2>1, <2>2, SMT DEF Tickets
<1>2. IsFiniteSet(S) /\ Cardinality(S) <= Cardinality(Tickets)
  BY <1>1, FS_Subset
<1>3. IsFiniteSet(T) /\ Cardinality(T) <= Cardinality(S)
  BY <1>2, FS_Subset
<1>4. Cardinality(S) \in Nat /\ Cardinality(T) \in Nat
  BY <1>2, <1>3, FS_CardinalityType
<1>5. Cardinality(S) = 0 <=> S = {}
  BY <1>2, FS_EmptySet
<1>6. Cardinality(S) \in 0..MaxTicket
  BY <1>1, <1>2, <1>4, SMT
<1> QED  BY <1>2, <1>3, <1>4, <1>5, <1>6

\* Counting one more handle keeps the bound, whatever its flags are by then.
LEMMA CountMore ==
    ASSUME TypeOK, Homes, NEW h \in sd.todo,
           sd.sum <= Cardinality(Counted),
           NEW D, D = {t \in Tickets : home[t] \in Handles \ (sd.todo \ {h})}
    PROVE  /\ sd.sum + Cardinality(FlagsOf(h)) <= Cardinality(D)
           /\ sd.sum + Cardinality(FlagsOf(h)) \in 0..MaxTicket
           /\ sd.sum + Cardinality(FlagsOf(h)) = 0 => sd.sum = 0 /\ FlagsOf(h) = {}
<1>1. h \in Handles /\ sd.sum \in Nat
  BY CancellationAssumption, SMT DEF TypeOK
<1>2. FlagsOf(h) \in SUBSET Tickets /\ Counted \in SUBSET Tickets /\ D \in SUBSET Tickets
  BY DEF FlagsOf, TypeOK, Counted
<1>3. FlagsOf(h) \cap Counted = {} /\ FlagsOf(h) \cup Counted \in SUBSET D
  BY <1>1 DEF FlagsOf, TypeOK, Counted
<1>4. /\ IsFiniteSet(FlagsOf(h)) /\ IsFiniteSet(Counted)
      /\ Cardinality(FlagsOf(h)) \in Nat /\ Cardinality(Counted) \in Nat
      /\ Cardinality(FlagsOf(h)) = 0 <=> FlagsOf(h) = {}
  <2>1. /\ IsFiniteSet(FlagsOf(h)) /\ Cardinality(FlagsOf(h)) \in Nat
        /\ Cardinality(FlagsOf(h)) = 0 <=> FlagsOf(h) = {}
    BY <1>2, TicketSets
  <2>2. IsFiniteSet(Counted) /\ Cardinality(Counted) \in Nat
    BY <1>2, TicketSets
  <2> QED  BY <2>1, <2>2
<1>5. Cardinality(FlagsOf(h) \cup Counted) = Cardinality(FlagsOf(h)) + Cardinality(Counted)
  <2>1. Cardinality(FlagsOf(h) \cup Counted)
          = Cardinality(FlagsOf(h)) + Cardinality(Counted) - Cardinality(FlagsOf(h) \cap Counted)
    BY <1>4, FS_Union
  <2>2. Cardinality(FlagsOf(h) \cap Counted) = 0
    BY <1>3, FS_EmptySet
  <2> QED  BY <1>4, <2>1, <2>2, SMT
<1>6. Cardinality(FlagsOf(h) \cup Counted) <= Cardinality(D) /\ Cardinality(D) \in 0..MaxTicket
  BY <1>2, <1>3, TicketSets
<1>7. MaxTicket \in Nat
  BY CancellationAssumption
<1> QED  BY <1>1, <1>4, <1>5, <1>6, <1>7, SMT
-----------------------------------------------------------------------------
(* The invariant but for the counts, one lemma per actor.                  *)

Core == FlagsAreUnits /\ CancelReaches /\ CleanDrain /\ Calls /\ Homes /\ Shutdown

\* open, cancel_all and close_within.
LEMMA CloseKeeps ==
    ASSUME IInv, NEW h \in Handles, Open(h) \/ CancelPending(h) \/ CloseBegin(h) \/ CloseQueue(h) \/ CloseCancel(h)
    PROVE  Core'
<1> USE CancellationAssumption DEF IInv, Core, TypeOK, FlagsAreUnits,
            CancelReaches, CleanDrain, Calls, Homes, Shutdown, ShutdownReachesAll,
            CloseReachesQueued, InFlight, Holds, sdVars, unitVars, NoTicket
<1>1. ASSUME Open(h)  PROVE Core'
  BY <1>1 DEF Open
<1>2. ASSUME CancelPending(h)  PROVE Core'
  BY <1>2 DEF CancelPending, CancelAll, FlagsOf
<1>3. ASSUME CloseBegin(h)  PROVE Core'
  BY <1>3 DEF CloseBegin
<1>4. ASSUME CloseQueue(h)  PROVE Core'
  BY <1>4 DEF CloseQueue
<1>5. ASSUME CloseCancel(h)  PROVE Core'
  BY <1>5 DEF CloseCancel, CancelAll, FlagsOf
<1> QED  BY <1>1, <1>2, <1>3, <1>4, <1>5

\* submit_classified: a new flag is set already if a shutdown has begun, and a
\* closed queue takes no unit.
LEMMA SubmitKeeps ==
    ASSUME IInv, NEW s \in Submitters, SubmitStep(s) \/ \E h \in Handles : SubmitStart(s, h)
    PROVE  Core'
<1> USE CancellationAssumption DEF IInv, Core, TypeOK, FlagsAreUnits,
            CancelReaches, CleanDrain, Calls, Homes, Shutdown, ShutdownReachesAll,
            CloseReachesQueued, InFlight, Holds, sdVars, unitVars, NoTicket
<1>1. ASSUME NEW h \in Handles, SubmitStart(s, h)  PROVE Core'
  BY <1>1 DEF SubmitStart, AtPC
<1>2. ASSUME CheckShutting(s)  PROVE Core'
  <2>1. CASE Return(s)
    BY <1>2, <2>1, SMTT(20) DEF CheckShutting, AtPC, Return, IdleSub
  <2>2. CASE ~shutting /\ Goto(s, "register")
    BY <1>2, <2>2, SMTT(20) DEF CheckShutting, AtPC, Goto
  <2> QED  BY <1>2, <2>1, <2>2 DEF CheckShutting
<1>3. ASSUME Register(s)  PROVE Core'
  <2>1. home[NextTicket] = NoHandle
    BY <1>3, NextIsFresh DEF Register
  <2>2. PICK n \in Tickets : n = NextTicket
    BY <1>3 DEF Register
  <2>3. n # 0 /\ home[n] = NoHandle /\ n \notin flags /\ unit[n] = "none"
    BY <2>1, <2>2 DEF Tickets
  <2>4. sub[s].h \in live /\ sub[s].h \in Handles /\ sub[s].pc = "register"
    BY <1>3 DEF Register, AtPC
  <2>5. /\ home' = [home EXCEPT ![n] = sub[s].h] /\ flags' = flags \cup {n}
        /\ cancelled' = IF shutting THEN cancelled \cup {n} ELSE cancelled
        /\ sub' = [sub EXCEPT ![s].pc = "send", ![s].t = n]
        /\ UNCHANGED <<shutting, sd, report, live, cpc, unit>>
    BY <1>3, <2>2 DEF Register
  <2>6. /\ sub'[s] = [pc |-> "send", h |-> sub[s].h, t |-> n]
        /\ \A r \in Submitters \ {s} : sub'[r] = sub[r]
        /\ sub' \in [Submitters -> [pc : {"idle", "check", "register", "send", "unregister"},
                                    h : Handles \cup {NoHandle}, t : Tickets \cup {NoTicket}]]
    <3> HIDE DEF IInv
    <3>1. sub \in [Submitters -> [pc : {"idle", "check", "register", "send", "unregister"},
                                  h : Handles \cup {NoHandle}, t : Tickets \cup {NoTicket}]]
      BY DEF IInv
    <3> QED  BY <2>5, <3>1
  <2>7. \A r \in Submitters : Holds(r) => sub[r].t # n
    BY <2>3
  <2>8. FlagsAreUnits'
    <3>1. TypeOK'
      BY <2>4, <2>5, <2>6
    <3>2. \A t \in Tickets : InFlight(t)' => t \in flags'
      BY <2>5
    <3>3. ASSUME NEW t \in Tickets, t \in flags'
          PROVE  InFlight(t)' \/ \E r \in Submitters : sub'[r].t = t
      <4>1. CASE t = n
        BY <2>6, <4>1
      <4>2. CASE t # n /\ InFlight(t)
        BY <2>5, <4>2
      <4>3. CASE t # n /\ ~InFlight(t)
        <5>1. PICK r \in Submitters : sub[r].t = t
          BY <2>5, <3>3, <4>3
        <5>2. r # s
          BY <2>4, <5>1 DEF Tickets
        <5> QED  BY <2>6, <5>1, <5>2
      <4> QED  BY <4>1, <4>2, <4>3
    <3> QED  BY <3>1, <3>2, <3>3
  <2>9. Calls'
    BY <2>3, <2>4, <2>5, <2>6, <2>7
  <2>10. Homes'
    BY <2>3, <2>4, <2>5
  <2>11. CancelReaches' /\ CleanDrain'
    BY <2>3, <2>4, <2>5
  <2>12. Shutdown'
    BY <2>3, <2>4, <2>5
  <2> QED  BY <2>8, <2>9, <2>10, <2>11, <2>12
<1>4. ASSUME Send(s)  PROVE Core'
  <2>1. CASE /\ ~QueueClosed(sub[s].h) /\ unit' = [unit EXCEPT ![sub[s].t] = "queued"]
             /\ Return(s)
    BY <1>4, <2>1, SMTT(20) DEF Send, AtPC, Return, IdleSub, QueueClosed
  <2>2. CASE Goto(s, "unregister") /\ UNCHANGED unit
    BY <1>4, <2>2 DEF Send, AtPC, Goto
  <2> QED  BY <1>4, <2>1, <2>2 DEF Send
<1>5. ASSUME Unregister(s)  PROVE Core'
  BY <1>5 DEF Unregister, AtPC, Return, IdleSub
<1> QED  BY <1>1, <1>2, <1>3, <1>4, <1>5 DEF SubmitStep

\* The worker: a unit that starts has its flag, and was not cancelled.
LEMMA UnitKeeps ==
    ASSUME IInv, NEW t \in Tickets, UnitStep(t) \/ EngineReturns(t) \/ Cancel(t)
    PROVE  Core'
<1> USE CancellationAssumption DEF IInv, Core, TypeOK, FlagsAreUnits,
            CancelReaches, CleanDrain, Calls, Homes, Shutdown, ShutdownReachesAll,
            CloseReachesQueued, InFlight, Holds, sdVars, unitVars, NoTicket
<1>1. ASSUME Start(t)  PROVE Core'
  BY <1>1 DEF Start
<1>2. ASSUME EngineReturns(t)  PROVE Core'
  BY <1>2 DEF EngineReturns
<1>3. ASSUME Publish(t)  PROVE Core'
  BY <1>3 DEF Publish
<1>4. ASSUME RemoveFlag(t)  PROVE Core'
  BY <1>4 DEF RemoveFlag
<1>5. ASSUME Cancel(t)  PROVE Core'
  BY <1>5 DEF Cancel
<1> QED  BY <1>1, <1>2, <1>3, <1>4, <1>5 DEF UnitStep

SdTypes == [pc : {"idle", "snapshot", "cancel", "look", "count"}, todo : SUBSET Handles, sum : 0..MaxTicket]

\* The record SdGoto makes.
LEMMA SdIsTyped ==
    ASSUME NEW pc \in {"idle", "snapshot", "cancel", "look", "count"},
           NEW todo \in SUBSET Handles, NEW n \in 0..MaxTicket
    PROVE  [pc |-> pc, todo |-> todo, sum |-> n] \in SdTypes
BY DEF SdTypes

\* A step of the shutdown sets flags at most: the rest of the invariant stays.
LEMMA ShutdownMoves ==
    ASSUME IInv, UNCHANGED <<live, cpc, sub, home, flags, unit>>,
           cancelled \subseteq cancelled', cancelled' \subseteq Tickets,
           shutting' \in BOOLEAN, report' \in {"none", "clean", "left"}, sd' \in SdTypes,
           ShutdownReachesAll', CleanDrain', Shutdown'
    PROVE  Core'
<1>1. TypeOK'
  BY DEF IInv, FlagsAreUnits, TypeOK, SdTypes
<1>2. FlagsAreUnits'
  BY <1>1 DEF IInv, FlagsAreUnits, InFlight
<1>3. CloseReachesQueued'
  BY DEF IInv, CancelReaches, CloseReachesQueued
<1>4. Calls' /\ Homes'
  BY DEF IInv, Calls, Homes, Holds
<1> QED  BY <1>2, <1>3, <1>4 DEF Core, CancelReaches

\* shutdown and rearm: when the handles have been cancelled one by one no flag is
\* unset, and a handle counted at zero has no engine running, nor gets one.
LEMMA ShutdownKeeps ==
    ASSUME IInv, ShutdownBegin \/ ShutdownStep \/ Rearm
    PROVE  Core'
<1> USE CancellationAssumption DEF ShutdownReachesAll, CleanDrain, Shutdown
<1>1. /\ UNCHANGED <<live, cpc, sub, home, flags, unit>>
      /\ sd.todo \in SUBSET Handles /\ sd.sum \in 0..MaxTicket /\ live \in SUBSET Handles
      /\ cancelled \in SUBSET Tickets /\ flags \in SUBSET Tickets
      /\ shutting \in BOOLEAN /\ report \in {"none", "clean", "left"}
      /\ {} \in SUBSET Handles /\ 0 \in 0..MaxTicket
  BY DEF IInv, FlagsAreUnits, TypeOK, ShutdownBegin, ShutdownStep, Snapshot, CancelHandle, Look,
         CountHandle, Decide, Rearm, unitVars
<1>2. ShutdownReachesAll /\ CleanDrain /\ Shutdown
  BY DEF IInv, CancelReaches
<1>3. \A t \in Tickets : /\ t \in flags => home[t] \in live
                         /\ unit[t] = "engine" => t \in flags /\ home[t] \in live
  BY DEF IInv, FlagsAreUnits, InFlight, Homes
<1>4. CASE ShutdownBegin
  <2>1. /\ sd' = [pc |-> "snapshot", todo |-> {}, sum |-> 0] /\ shutting' = TRUE
        /\ report' = "none" /\ cancelled' = cancelled
    BY <1>4 DEF ShutdownBegin, SdGoto, unitVars
  <2>2. sd' \in SdTypes
    BY <1>1, <2>1, SdIsTyped
  <2> QED  BY <1>1, <2>1, <2>2, ShutdownMoves
<1>5. CASE Snapshot
  <2>1. /\ sd.pc = "snapshot" /\ sd' = [pc |-> "cancel", todo |-> live, sum |-> 0]
        /\ UNCHANGED <<shutting, report, cancelled>>
    BY <1>5 DEF Snapshot, SdGoto, unitVars
  <2>2. sd' \in SdTypes
    BY <1>1, <2>1, SdIsTyped
  <2>3. ShutdownReachesAll' /\ CleanDrain' /\ Shutdown'
    BY <1>1, <1>2, <1>3, <2>1
  <2> QED  BY <1>1, <2>1, <2>2, <2>3, ShutdownMoves
<1>6. CASE CancelHandle
  <2>1. CASE \E h \in sd.todo : CancelAll(h) /\ SdGoto("cancel", sd.todo \ {h}, 0)
    <3>1. PICK h \in sd.todo : /\ cancelled' = cancelled \cup {t \in flags : home[t] = h}
                               /\ sd' = [pc |-> "cancel", todo |-> sd.todo \ {h}, sum |-> 0]
      BY <2>1 DEF CancelAll, FlagsOf, SdGoto
    <3>2. sd.pc = "cancel" /\ UNCHANGED <<shutting, report>>
      BY <1>6 DEF CancelHandle
    <3>3. sd.todo \ {h} \in SUBSET Handles
      BY <1>1
    <3>4. sd' \in SdTypes
      BY <1>1, <3>1, <3>3, SdIsTyped
    <3>5. ShutdownReachesAll' /\ CleanDrain' /\ Shutdown'
      BY <1>1, <1>2, <3>1, <3>2
    <3> QED  BY <1>1, <3>1, <3>2, <3>4, <3>5, ShutdownMoves
  <2>2. CASE sd.todo = {} /\ SdGoto("look", {}, 0) /\ UNCHANGED cancelled
    <3>1. /\ sd.pc = "cancel" /\ sd.todo = {} /\ sd' = [pc |-> "look", todo |-> {}, sum |-> 0]
          /\ UNCHANGED <<shutting, report, cancelled>>
      BY <1>6, <2>2 DEF CancelHandle, SdGoto
    <3>2. sd' \in SdTypes
      BY <1>1, <3>1, SdIsTyped
    <3>3. ShutdownReachesAll' /\ CleanDrain' /\ Shutdown'
      BY <1>1, <1>2, <3>1
    <3> QED  BY <1>1, <3>1, <3>2, <3>3, ShutdownMoves
  <2> QED  BY <1>6, <2>1, <2>2 DEF CancelHandle
<1>7. CASE Look
  <2>1. /\ sd.pc = "look" /\ sd' = [pc |-> "count", todo |-> live, sum |-> 0]
        /\ UNCHANGED <<shutting, report, cancelled>>
    BY <1>7 DEF Look, SdGoto, unitVars
  <2>2. sd' \in SdTypes
    BY <1>1, <2>1, SdIsTyped
  <2>3. ShutdownReachesAll' /\ CleanDrain' /\ Shutdown'
    BY <1>1, <1>2, <1>3, <2>1
  <2> QED  BY <1>1, <2>1, <2>2, <2>3, ShutdownMoves
<1>8. CASE CountHandle
  <2>1. PICK h \in sd.todo : sd' = [pc |-> "count", todo |-> sd.todo \ {h},
                                    sum |-> sd.sum + Cardinality(FlagsOf(h))]
    BY <1>8 DEF CountHandle, SdGoto
  <2>2. sd.pc = "count" /\ UNCHANGED <<shutting, report, cancelled>>
    BY <1>8 DEF CountHandle, unitVars
  <2>3. TypeOK /\ Homes /\ sd.sum <= Cardinality(Counted)
    BY <2>2 DEF IInv, FlagsAreUnits, CountBound
  <2>4. /\ sd.sum + Cardinality(FlagsOf(h)) \in 0..MaxTicket
        /\ sd.sum + Cardinality(FlagsOf(h)) = 0 => sd.sum = 0 /\ FlagsOf(h) = {}
    BY <2>3, CountMore
  <2>5. sd.todo \ {h} \in SUBSET Handles
    BY <1>1
  <2>6. sd' \in SdTypes
    BY <2>1, <2>4, <2>5, SdIsTyped
  <2>7. sd'.sum = 0 => sd.sum = 0 /\ \A t \in Tickets : unit[t] = "engine" => home[t] # h
    BY <1>3, <2>1, <2>4 DEF FlagsOf
  <2>8. sd'.pc = "count" /\ sd'.todo = sd.todo \ {h}
    BY <2>1
  <2>9. ShutdownReachesAll' /\ CleanDrain' /\ Shutdown'
    BY <1>1, <1>2, <2>2, <2>7, <2>8
  <2> QED  BY <1>1, <2>2, <2>6, <2>9, ShutdownMoves
<1>9. CASE Decide
  <2>1. sd.pc = "count" /\ sd.todo = {} /\ UNCHANGED <<shutting, cancelled>>
    BY <1>9 DEF Decide, unitVars
  <2>2. \/ sd.sum = 0 /\ report' = "clean" /\ sd' = [pc |-> "idle", todo |-> {}, sum |-> 0]
        \/ report' = "left" /\ sd' = [pc |-> "idle", todo |-> {}, sum |-> 0]
        \/ report' = report /\ sd' = [pc |-> "look", todo |-> {}, sum |-> 0]
    BY <1>9 DEF Decide, SdGoto, IdleSd
  <2>3. sd' \in SdTypes
    BY <1>1, <2>2, SdIsTyped
  <2>4. ShutdownReachesAll' /\ CleanDrain' /\ Shutdown'
    BY <1>1, <1>2, <2>1, <2>2
  <2> QED  BY <1>1, <2>1, <2>2, <2>3, <2>4, ShutdownMoves
<1>10. CASE Rearm
  <2>1. sd.pc = "idle" /\ shutting' = FALSE /\ report' = "none" /\ UNCHANGED <<sd, cancelled>>
    BY <1>10 DEF Rearm, unitVars
  <2>2. sd' \in SdTypes
    BY <2>1 DEF IInv, FlagsAreUnits, TypeOK, SdTypes
  <2>3. ShutdownReachesAll' /\ CleanDrain' /\ Shutdown'
    BY <2>1
  <2> QED  BY <1>1, <2>1, <2>2, <2>3, ShutdownMoves
<1> QED  BY <1>4, <1>5, <1>6, <1>7, <1>8, <1>9, <1>10 DEF ShutdownStep

-----------------------------------------------------------------------------
(* The counts, and the whole.                                              *)

\* Only Register issues a ticket, and tickets are counted where they are.
LEMMA CountsStay ==
    ASSUME IInv, UNCHANGED <<home, sd>>
    PROVE  IssuedInOrder' /\ CountBound'
BY DEF IInv, IssuedInOrder, Issued, CountBound, Counted

\* Register: the new ticket is the next one, and only adds to what is counted.
LEMMA RegisterCounts ==
    ASSUME IInv, NEW s \in Submitters, Register(s)
    PROVE  IssuedInOrder' /\ CountBound'
<1>1. TypeOK /\ IssuedInOrder /\ NextTicket \in Tickets
  BY DEF IInv, FlagsAreUnits, Register
<1>2. PICK n \in Tickets : n = NextTicket
  BY <1>1
<1>3. /\ home[n] = NoHandle /\ n \in Tickets
      /\ \E k \in 0..MaxTicket : Issued \cup {n} = 1..k
  BY <1>1, <1>2, NextIsFresh
<1>4. sub[s].h \in Handles
  BY DEF IInv, FlagsAreUnits, TypeOK, Calls, Register, AtPC
<1>5. home' = [home EXCEPT ![n] = sub[s].h] /\ sd' = sd
  BY <1>2 DEF Register, sdVars
<1>6. Issued' = Issued \cup {n}
  BY <1>1, <1>3, <1>4, <1>5, CancellationAssumption DEF Issued, TypeOK
<1>7. Counted \in SUBSET Counted' /\ Counted' \in SUBSET Tickets
  BY <1>1, <1>3, <1>5, CancellationAssumption DEF Counted, TypeOK
<1>8. /\ Cardinality(Counted) \in Nat /\ Cardinality(Counted') \in Nat
      /\ Cardinality(Counted) <= Cardinality(Counted')
  <2> DEFINE C == Counted
             D == Counted'
  <2>1. D \in SUBSET Tickets /\ C \in SUBSET D
    BY <1>7
  <2> HIDE DEF C, D
  <2>2. Cardinality(C) \in Nat /\ Cardinality(C) <= Cardinality(D) /\ Cardinality(D) \in 0..MaxTicket
    BY <2>1, TicketSets
  <2>3. Cardinality(D) \in Nat
    BY <2>2, CancellationAssumption, SMT
  <2> QED  BY <2>2, <2>3 DEF C, D
<1>9. IssuedInOrder'
  BY <1>3, <1>6 DEF IssuedInOrder
<1>10. CountBound'
  <2>1. sd.sum \in Nat /\ CountBound
    BY <1>1, CancellationAssumption, SMT DEF TypeOK, IInv
  <2>2. sd.pc = "count" => sd'.sum <= Cardinality(Counted')
    BY <1>5, <1>8, <2>1 DEF CountBound
  <2> QED  BY <1>5, <2>1, <2>2 DEF CountBound
<1> QED  BY <1>9, <1>10

\* The shutdown: a handle leaves the list when its flags are counted.
LEMMA ShutdownCounts ==
    ASSUME IInv, ShutdownBegin \/ ShutdownStep
    PROVE  IssuedInOrder' /\ CountBound'
<1>1. home' = home /\ TypeOK /\ Homes /\ CountBound /\ IssuedInOrder
  BY DEF IInv, FlagsAreUnits, ShutdownBegin, ShutdownStep, Snapshot, CancelHandle, Look,
         CountHandle, Decide, unitVars
<1>2. IssuedInOrder'
  BY <1>1 DEF IssuedInOrder, Issued
<1>3. CASE sd'.pc # "count" /\ sd'.sum = 0
  BY <1>2, <1>3 DEF CountBound
<1>4. CASE Look
  <2>1. sd' = [pc |-> "count", todo |-> live, sum |-> 0]
    BY <1>4 DEF Look, SdGoto
  <2> DEFINE D == Counted'
  <2>2. D \in SUBSET Tickets
    BY DEF Counted
  <2> HIDE DEF D
  <2>3. Cardinality(D) \in 0..MaxTicket
    BY <2>2, TicketSets
  <2>4. 0 <= Cardinality(D)
    BY <2>3, SMT
  <2> QED  BY <1>2, <2>1, <2>4 DEF CountBound, D
<1>5. CASE CountHandle
  <2>1. PICK h \in sd.todo : sd' = [pc |-> "count", todo |-> sd.todo \ {h},
                                    sum |-> sd.sum + Cardinality(FlagsOf(h))]
    BY <1>5 DEF CountHandle, SdGoto
  <2>2. sd.sum <= Cardinality(Counted)
    BY <1>1, <1>5 DEF CountHandle, CountBound
  <2>3. Counted' = {t \in Tickets : home[t] \in Handles \ (sd.todo \ {h})}
    BY <1>1, <2>1 DEF Counted
  <2>4. sd.sum + Cardinality(FlagsOf(h)) <= Cardinality(Counted')
    BY <1>1, <2>2, <2>3, CountMore
  <2> QED  BY <1>2, <2>1, <2>4 DEF CountBound
<1> QED
  BY <1>3, <1>4, <1>5 DEF ShutdownBegin, ShutdownStep, Snapshot, CancelHandle, Decide, SdGoto, IdleSd

\* No handle, no ticket, no shutdown.
LEMMA Initially == Init => IInv
<1> SUFFICES ASSUME Init  PROVE IInv
  OBVIOUS
<1> USE CancellationAssumption DEF Init
<1>1. FlagsAreUnits
  <2>1. {} \in SUBSET Handles /\ 0 \in 0..MaxTicket
    OBVIOUS
  <2>2. sd \in [pc : {"idle", "snapshot", "cancel", "look", "count"}, todo : SUBSET Handles, sum : 0..MaxTicket]
    BY <2>1 DEF IdleSd
  <2>3. TypeOK
    BY <2>2 DEF TypeOK, IdleSub
  <2> QED  BY <2>3 DEF FlagsAreUnits, InFlight
<1>2. CancelReaches /\ CleanDrain
  BY DEF CancelReaches, ShutdownReachesAll, CloseReachesQueued, CleanDrain, IdleSd
<1>3. Calls /\ Homes /\ Shutdown
  BY DEF Calls, Homes, Shutdown, Holds, IdleSub, IdleSd
<1>4. IssuedInOrder
  <2>1. Issued = 1..0 /\ 0 \in 0..MaxTicket
    BY DEF Issued
  <2> QED  BY <2>1 DEF IssuedInOrder
<1>5. CountBound
  BY DEF CountBound, IdleSd
<1> QED  BY <1>1, <1>2, <1>3, <1>4, <1>5 DEF IInv

\* Every step keeps the invariant.
LEMMA Inductive == IInv /\ [Next]_vars => IInv'
<1> SUFFICES ASSUME IInv, [Next]_vars  PROVE IInv'
  OBVIOUS
<1>1. ASSUME NEW h \in Handles,
             Open(h) \/ CancelPending(h) \/ CloseBegin(h) \/ CloseQueue(h) \/ CloseCancel(h)
      PROVE  IInv'
  <2>1. UNCHANGED <<home, sd>>
    BY <1>1 DEF Open, CancelPending, CloseBegin, CloseQueue, CloseCancel, sdVars, unitVars
  <2> QED  BY <1>1, <2>1, CloseKeeps, CountsStay DEF IInv, Core
<1>2. ASSUME NEW s \in Submitters, SubmitStep(s) \/ \E h \in Handles : SubmitStart(s, h)
      PROVE  IInv'
  <2>1. CASE Register(s)
    BY <1>2, <2>1, SubmitKeeps, RegisterCounts DEF IInv, Core
  <2>2. CASE ~Register(s)
    <3>1. UNCHANGED <<home, sd>>
      BY <1>2, <2>2 DEF SubmitStep, SubmitStart, CheckShutting, Send, Unregister, sdVars, unitVars
    <3> QED  BY <1>2, <3>1, SubmitKeeps, CountsStay DEF IInv, Core
  <2> QED  BY <2>1, <2>2
<1>3. ASSUME NEW t \in Tickets, UnitStep(t) \/ EngineReturns(t) \/ Cancel(t)
      PROVE  IInv'
  <2>1. UNCHANGED <<home, sd>>
    BY <1>3 DEF UnitStep, Start, EngineReturns, Publish, RemoveFlag, Cancel, sdVars
  <2> QED  BY <1>3, <2>1, UnitKeeps, CountsStay DEF IInv, Core
<1>4. CASE ShutdownBegin \/ ShutdownStep
  BY <1>4, ShutdownKeeps, ShutdownCounts DEF IInv, Core
<1>5. CASE Rearm
  <2>1. UNCHANGED <<home, sd>>
    BY <1>5 DEF Rearm, unitVars
  <2> QED  BY <1>5, <2>1, ShutdownKeeps, CountsStay DEF IInv, Core
<1>6. CASE UNCHANGED vars
  <2>1. FlagsAreUnits' /\ CancelReaches' /\ CleanDrain'
    BY <1>6 DEF vars, IInv, FlagsAreUnits, TypeOK, InFlight, CancelReaches, ShutdownReachesAll,
                CloseReachesQueued, CleanDrain
  <2>2. Calls' /\ Homes' /\ Shutdown'
    BY <1>6 DEF vars, IInv, Calls, Holds, Homes, Shutdown
  <2> QED  BY <1>6, <2>1, <2>2, CountsStay DEF vars, IInv
<1> QED  BY <1>1, <1>2, <1>3, <1>4, <1>5, <1>6 DEF Next

\* So it holds in every state.
LEMMA Invariant == Spec => []IInv
<1> QED  BY Initially, Inductive, PTL DEF Spec

\* The flags of a handle are its units in flight, and counts stay within the
\* tickets, for any number of handles and submitters (mod.rs, `in_flight`).
THEOREM FlagsCountUnits == Spec => []FlagsAreUnits
<1>1. IInv => FlagsAreUnits
  BY DEF IInv
<1> QED  BY <1>1, Invariant, PTL

\* A shutdown reaches the units that race it and a close those it joins, for any
\* number of each (begin_shutdown, submit_classified, close_within).
THEOREM CancellationReaches == Spec => []CancelReaches
<1>1. IInv => CancelReaches
  BY DEF IInv
<1> QED  BY <1>1, Invariant, PTL

\* A drain that counted the handles one by one and found nothing left nothing
\* running (total_in_flight, shutdown).
THEOREM DrainsAreClean == Spec => []CleanDrain
<1>1. IInv => CleanDrain
  BY DEF IInv
<1> QED  BY <1>1, Invariant, PTL
=============================================================================
