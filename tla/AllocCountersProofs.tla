------------------------- MODULE AllocCountersProofs -------------------------
(***************************************************************************)
(* Proofs about AllocCounters, for any number of threads, any sizes and    *)
(* any constants that leave the headroom the code asserts at compile time: *)
(* the cells stay within SATURATED plus one FAST_ADD_MAX per thread, so    *)
(* the unchecked fetch_add never wraps.                                    *)
(***************************************************************************)
EXTENDS AllocCounters, FiniteSetTheorems, SequenceTheorems, TLAPS

\* A thread on the fetch_add path has an add to land, and a small one.
FastIsSmall ==
    \A t \in Threads : at[t].pc = "fast" => Doing(t, Cells, "fast") /\ Now(t).n <= FAST_ADD_MAX

\* The inductive invariant.
IInv == TypeOK /\ FastIsSmall /\ Headroom

-----------------------------------------------------------------------------
(* Sets of threads and their sizes.                                        *)

\* When one member of a set of threads may change, its size follows.
LEMMA OneMoves ==
    ASSUME NEW t \in Threads, NEW P \in SUBSET Threads, NEW Q \in SUBSET Threads,
           P \ {t} = Q \ {t}
    PROVE  /\ Cardinality(P) \in Nat /\ Cardinality(Q) \in Nat
           /\ Cardinality(Q) <= Cardinality(Threads)
           /\ t \notin Q => Cardinality(Q) <= Cardinality(P)
           /\ t \in P /\ t \notin Q => Cardinality(P) = Cardinality(Q) + 1
<1>1. IsFiniteSet(P) /\ IsFiniteSet(Q) /\ Cardinality(Q) <= Cardinality(Threads)
  BY HeadroomAssumption, FS_Subset
<1>2. Cardinality(P) \in Nat /\ Cardinality(Q) \in Nat
  BY <1>1, FS_CardinalityType
<1>3. t \notin Q => Cardinality(Q) = Cardinality(P \ {t})
  <2>1. t \notin Q => Q = P \ {t}
    OBVIOUS
  <2> QED  BY <2>1, Zenon
<1>4. Cardinality(P \ {t}) = IF t \in P THEN Cardinality(P) - 1 ELSE Cardinality(P)
  BY <1>1, FS_RemoveElement
<1>5. t \notin Q => Cardinality(Q) <= Cardinality(P)
  BY <1>2, <1>3, <1>4, SMT
<1>6. t \in P /\ t \notin Q => Cardinality(P) = Cardinality(Q) + 1
  BY <1>2, <1>3, <1>4, SMT
<1> QED  BY <1>1, <1>2, <1>5, <1>6

\* Fewer threads need less headroom, and each needs one FAST_ADD_MAX.
LEMMA Scale ==
    ASSUME NEW a \in Nat, NEW b \in Nat
    PROVE  /\ a * FAST_ADD_MAX \in Nat
           /\ (a + 1) * FAST_ADD_MAX = a * FAST_ADD_MAX + FAST_ADD_MAX
           /\ a <= b => a * FAST_ADD_MAX <= b * FAST_ADD_MAX
<1>1. FAST_ADD_MAX \in Nat
  BY HeadroomAssumption
<1>2. a * FAST_ADD_MAX \in Nat /\ b * FAST_ADD_MAX \in Nat
  BY <1>1, SMT
<1>3. (a + 1) * FAST_ADD_MAX = a * FAST_ADD_MAX + FAST_ADD_MAX
  BY <1>1, SMT
<1>4. ASSUME a <= b  PROVE  a * FAST_ADD_MAX <= b * FAST_ADD_MAX
  <2>1. PICK d \in Nat : b = a + d
    BY <1>4, SMT
  <2>2. d * FAST_ADD_MAX \in Nat /\ b * FAST_ADD_MAX = a * FAST_ADD_MAX + d * FAST_ADD_MAX
    BY <1>1, <2>1, SMT
  <2> QED  BY <1>2, <2>2, SMT
<1> QED  BY <1>2, <1>3, <1>4

-----------------------------------------------------------------------------
(* The counter operations of a call.                                       *)

\* Every list of operations a call makes is well formed.
LEMMA CountsType ==
    ASSUME TypeOK, NEW k \in Kinds, NEW m \in Nat, NEW n \in Nat
    PROVE  /\ AllocCounts(k, n) \in Seq(CounterOps \cup WrapperOps)
           /\ DeallocCounts(k, n) \in Seq(CounterOps \cup WrapperOps)
           /\ ResizeCounts(k, m, n) \in Seq(CounterOps \cup WrapperOps)
<1> DEFINE All == CounterOps \cup WrapperOps
<1>1. \A j \in Nat : AddLive(j) \in Seq(CounterOps) /\ DecLive(j) \in Seq(CounterOps)
  <2> SUFFICES ASSUME NEW j \in Nat
               PROVE  AddLive(j) \in Seq(CounterOps) /\ DecLive(j) \in Seq(CounterOps)
    OBVIOUS
  <2>1. Op("live", j) \in CounterOps /\ Op("dec", j) \in CounterOps
    BY DEF Op, CounterOps
  <2> QED  BY <2>1 DEF AddLive, DecLive
<1>2. AddCount \in Seq(CounterOps)
  BY DEF AddCount, Op, CounterOps
<1>3. \A a, b \in Seq(CounterOps) : a \o b \in Seq(CounterOps)
  OBVIOUS
<1>4. /\ CountBufferAlloc(n) \in Seq(CounterOps)
      /\ CountAllocAlways(n) \in Seq(CounterOps)
  BY <1>1, <1>2, <1>3 DEF CountBufferAlloc, CountAllocAlways
<1>5. CountResize(m, n) \in Seq(CounterOps)
  <2>1. CASE n > m
    <3>1. n - m \in Nat
      BY <2>1
    <3> QED  BY <1>1, <1>2, <1>3, <2>1, <3>1 DEF CountResize
  <2>2. CASE ~(n > m)
    <3>1. m - n \in Nat
      BY <2>2
    <3> QED  BY <1>1, <1>2, <1>3, <2>2, <3>1 DEF CountResize
  <2> QED  BY <2>1, <2>2
<1>51. HookedResize(m, n) \in Seq(CounterOps)
  BY <1>1, <1>5 DEF HookedResize
<1>6. \A a \in Seq(CounterOps) : a \in Seq(All) /\ Wrapper(k, a) \in Seq(All)
  <2> SUFFICES ASSUME NEW a \in Seq(CounterOps)
               PROVE  a \in Seq(All) /\ Wrapper(k, a) \in Seq(All)
    OBVIOUS
  <2>1. a \in Seq(All)
    OBVIOUS
  <2>2. [op |-> "wrapper", kind |-> k, counts |-> a] \in All
    BY DEF WrapperOps
  <2>3. \A x \in All : <<x>> \in Seq(All)
    OBVIOUS
  <2>4. <<[op |-> "wrapper", kind |-> k, counts |-> a]>> \in Seq(All)
    <3> HIDE DEF All
    <3> QED  BY <2>2, <2>3, Zenon
  <2>5. <<>> \in Seq(All)
    OBVIOUS
  <2> QED  BY <2>1, <2>4, <2>5, Zenon DEF Wrapper
<1>7. \A a, b \in Seq(All) : a \o b \in Seq(All)
  OBVIOUS
<1>8. <<>> \in Seq(All)
  OBVIOUS
<1>9. AllocCounts(k, n) \in Seq(All)
  BY <1>1, <1>2, <1>3, <1>4, <1>6, <1>7, <1>8 DEF AllocCounts
<1>10. DeallocCounts(k, n) \in Seq(All)
  BY <1>1, <1>6, <1>7, <1>8 DEF DeallocCounts
<1>11. ResizeCounts(k, m, n) \in Seq(All)
  BY <1>5, <1>51, <1>6, <1>7, <1>8 DEF ResizeCounts
<1> QED  BY <1>9, <1>10, <1>11

-----------------------------------------------------------------------------
(* Type correctness.                                                       *)

Ops == CounterOps \cup WrapperOps
States == [pc : {"load", "fast", "slow", "raise", "max", "sub"}, v : Nat]

\* The ends of an operation keep the types of the per-thread state.
LEMMA EndsType ==
    ASSUME TypeOK, NEW t \in Threads, todo[t] # <<>>
    PROVE  /\ Finish(t) => todo' \in [Threads -> Seq(Ops)] /\ at' \in [Threads -> States]
           /\ \A pc \in {"load", "fast", "slow", "raise", "max", "sub"}, v \in Nat :
                Go(t, pc, v) => todo' \in [Threads -> Seq(Ops)] /\ at' \in [Threads -> States]
<1>1. todo \in [Threads -> Seq(Ops)] /\ at \in [Threads -> States]
  BY DEF TypeOK, Ops, States
<1>2. Rest \in States
  BY DEF Rest, States
<1>3. Tail(todo[t]) \in Seq(Ops)
  BY <1>1
<1>4. Finish(t) => todo' \in [Threads -> Seq(Ops)] /\ at' \in [Threads -> States]
  BY <1>1, <1>2, <1>3 DEF Finish
<1>5. ASSUME NEW pc \in {"load", "fast", "slow", "raise", "max", "sub"}, NEW v \in Nat, Go(t, pc, v)
      PROVE  todo' \in [Threads -> Seq(Ops)] /\ at' \in [Threads -> States]
  <2>1. [pc |-> pc, v |-> v] \in States
    BY DEF States
  <2> QED  BY <1>1, <1>5, <2>1 DEF Go
<1> QED  BY <1>4, <1>5

\* A thread's current operation on a cell carries an amount.
LEMMA NowType ==
    ASSUME TypeOK, NEW t \in Threads, todo[t] # <<>>
    PROVE  /\ Now(t) \in Ops
           /\ Now(t).op \in {"live", "count", "dec"} => Now(t).n \in Nat
           /\ Now(t).op = "wrapper" => Now(t).counts \in Seq(Ops)
<1>1. todo[t] \in Seq(Ops)
  BY DEF TypeOK, Ops
<1>2. Now(t) \in Ops
  BY <1>1 DEF Now
<1>3. Now(t) \in CounterOps => Now(t).op # "wrapper" /\ Now(t).n \in Nat
  BY DEF CounterOps
<1>4. Now(t) \in WrapperOps => Now(t).op = "wrapper" /\ Now(t).counts \in Seq(CounterOps)
  BY DEF WrapperOps
<1>5. \A a \in Seq(CounterOps) : a \in Seq(Ops)
  BY DEF Ops
<1> QED  BY <1>2, <1>3, <1>4, <1>5 DEF Ops

\* A call keeps the types when its counts are well formed.
LEMMA CallType ==
    ASSUME TypeOK, NEW t \in Threads, NEW b, NEW k, NEW n, NEW counts \in Seq(Ops),
           Call(t, b, k, n, counts)
    PROVE  /\ todo' \in [Threads -> Seq(Ops)] /\ at' \in [Threads -> States]
           /\ cell' \in [Cells -> Nat] /\ peak' \in Nat
           /\ active' \in BOOLEAN /\ installed' \in BOOLEAN
  BY DEF TypeOK, Call, Ops, States, Hooked

\* Every step keeps the types.
LEMMA TypeStep == TypeOK /\ [Next]_vars => TypeOK'
<1> SUFFICES ASSUME TypeOK, [Next]_vars  PROVE TypeOK'
  OBVIOUS
<1> DEFINE Blocks == [Ids -> [kind : Kinds, size : Nat] \cup {NoBlock}]
           Threaded == todo' \in [Threads -> Seq(Ops)] /\ at' \in [Threads -> States]
           Stored == cell' \in [Cells -> Nat] /\ peak' \in Nat
           Flags == active' \in BOOLEAN /\ installed' \in BOOLEAN
<1>1. Threaded /\ Stored /\ Flags /\ blocks' \in Blocks => TypeOK'
  BY DEF TypeOK, Ops, States
<1>2. /\ cell \in [Cells -> Nat] /\ peak \in Nat /\ blocks \in Blocks
      /\ active \in BOOLEAN /\ installed \in BOOLEAN
  BY DEF TypeOK
<1>3. CASE UNCHANGED vars
  BY <1>3 DEF TypeOK, vars
<1>4. ASSUME NEW t \in Threads, NEW b \in Ids, NEW k \in Kinds, AllocFails(t, b, k)  PROVE TypeOK'
  <2>1. <<>> \in Seq(Ops)
    OBVIOUS
  <2>2. Call(t, b, k, 1, <<>>) /\ UNCHANGED blocks
    BY <1>4 DEF AllocFails
  <2>3. Threaded /\ Stored /\ Flags
    BY <2>1, <2>2, CallType
  <2> QED  BY <1>1, <1>2, <2>2, <2>3
<1>41. ASSUME NEW t \in Threads, NEW b \in Ids, ResizeFails(t, b)  PROVE TypeOK'
  <2>1. <<>> \in Seq(Ops)
    OBVIOUS
  <2>2. Call(t, b, blocks[b].kind, 1, <<>>) /\ UNCHANGED blocks
    BY <1>41 DEF ResizeFails
  <2>3. Threaded /\ Stored /\ Flags
    BY <2>1, <2>2, CallType
  <2> QED  BY <1>1, <1>2, <2>2, <2>3
<1>5. ASSUME NEW t \in Threads, NEW b \in Ids, NEW k \in Kinds, NEW n \in Sizes, Alloc(t, b, k, n)
      PROVE TypeOK'
  <2>1. n \in Nat
    BY SizesAssumption
  <2>2. AllocCounts(k, n) \in Seq(Ops)
    BY <2>1, CountsType DEF Ops
  <2>3. Call(t, b, k, n, AllocCounts(k, n))
    BY <1>5 DEF Alloc
  <2>4. Threaded /\ Stored /\ Flags
    BY <2>2, <2>3, CallType
  <2>5. blocks' \in Blocks
    BY <1>2, <1>5, <2>1 DEF Alloc
  <2> QED  BY <1>1, <2>4, <2>5
<1>6. ASSUME NEW t \in Threads, NEW b \in Ids, Dealloc(t, b)  PROVE TypeOK'
  <2> DEFINE k == blocks[b].kind
             n == blocks[b].size
  <2>1. k \in Kinds /\ n \in Nat
    BY <1>2, <1>6 DEF Dealloc, Usable
  <2>2. DeallocCounts(k, n) \in Seq(Ops)
    BY <2>1, CountsType DEF Ops
  <2>3. Call(t, NoBlock, k, n, DeallocCounts(k, n))
    BY <1>6 DEF Dealloc
  <2> HIDE DEF k, n
  <2>4. Threaded /\ Stored /\ Flags
    BY <2>2, <2>3, CallType
  <2>5. blocks' \in Blocks
    BY <1>2, <1>6 DEF Dealloc
  <2> QED  BY <1>1, <2>4, <2>5
<1>7. ASSUME NEW t \in Threads, NEW b \in Ids, NEW m \in Sizes, Resize(t, b, m)  PROVE TypeOK'
  <2> DEFINE k == blocks[b].kind
             n == blocks[b].size
  <2>1. blocks[b] \in [kind : Kinds, size : Nat] /\ m \in Nat
    BY <1>2, <1>7, SizesAssumption DEF Resize, Usable
  <2>2. ResizeCounts(k, n, m) \in Seq(Ops)
    BY <2>1, CountsType DEF Ops
  <2>3. Call(t, b, k, n + m, ResizeCounts(k, n, m))
    BY <1>7 DEF Resize
  <2>4. blocks' \in Blocks
    BY <1>2, <1>7, <2>1 DEF Resize
  <2> HIDE DEF k, n
  <2>5. Threaded /\ Stored /\ Flags
    BY <2>2, <2>3, CallType
  <2> QED  BY <1>1, <2>4, <2>5
<1>8. ASSUME NEW t \in Threads, WrapperCounts(t)  PROVE TypeOK'
  <2>1. todo[t] # <<>> /\ Now(t).op = "wrapper"
    BY <1>8 DEF WrapperCounts, Doing
  <2>2. Now(t).counts \in Seq(Ops) /\ todo \in [Threads -> Seq(Ops)] /\ at \in [Threads -> States]
    BY <2>1, NowType DEF TypeOK, Ops, States
  <2>3. Now(t).counts \o Tail(todo[t]) \in Seq(Ops) /\ <<>> \o Tail(todo[t]) \in Seq(Ops)
    BY <2>1, <2>2
  <2>4. Threaded
    BY <1>8, <2>2, <2>3 DEF WrapperCounts
  <2> QED  BY <1>1, <1>2, <1>8, <2>4 DEF WrapperCounts, Still
<1>9. ASSUME NEW t \in Threads, LoadSeen(t)  PROVE TypeOK'
  <2>1. todo[t] # <<>> /\ cell[Now(t).op] \in Nat
    BY <1>2, <1>9 DEF LoadSeen, Doing
  <2>2. Threaded
    BY <1>9, <2>1, EndsType DEF LoadSeen
  <2> QED  BY <1>1, <1>2, <1>9, <2>2 DEF LoadSeen, Still
<1>10. ASSUME NEW t \in Threads, FetchAdd(t)  PROVE TypeOK'
  <2> DEFINE c == Now(t).op
             sum == cell[c] + Now(t).n
             out == IF sum >= Wrap THEN Wrap - 1 ELSE sum
  <2>1. todo[t] # <<>> /\ c \in Cells /\ cell[c] \in Nat
    BY <1>2, <1>10 DEF FetchAdd, Doing
  <2>2. sum \in Nat
    BY <2>1, NowType DEF Cells
  <2>3. Wrap \in Nat /\ Wrap > 0
    <3>1. Cardinality(Threads) \in Nat
      BY HeadroomAssumption, FS_CardinalityType
    <3>2. Cardinality(Threads) * FAST_ADD_MAX \in Nat
      BY <3>1, Scale
    <3> QED  BY <3>2, HeadroomAssumption
  <2>4. out \in Nat /\ sum % Wrap \in Nat
    BY <2>2, <2>3
  <2>5. Store(c, sum % Wrap) /\ Landed(t, out) /\ Still /\ UNCHANGED peak
    BY <1>10 DEF FetchAdd
  <2> HIDE DEF out, sum
  <2>6. Threaded
    BY <2>1, <2>4, <2>5, EndsType DEF Landed
  <2>7. Stored
    BY <1>2, <2>1, <2>4, <2>5 DEF Store
  <2> QED  BY <1>1, <1>2, <2>5, <2>6, <2>7 DEF Still
<1>11. ASSUME NEW t \in Threads, CasAdd(t)  PROVE TypeOK'
  <2> DEFINE c == Now(t).op
             next == IF at[t].v + Now(t).n < SATURATED THEN at[t].v + Now(t).n ELSE SATURATED
  <2>1. todo[t] # <<>> /\ c \in Cells /\ cell[c] \in Nat /\ at[t].v \in Nat
    BY <1>2, <1>11 DEF CasAdd, Doing, TypeOK
  <2>2. next \in Nat
    BY <2>1, NowType, HeadroomAssumption DEF Cells
  <2>3. /\ \/ Landed(t, at[t].v) /\ UNCHANGED cell
           \/ Store(c, next) /\ Landed(t, next)
           \/ Go(t, "slow", cell[c]) /\ UNCHANGED cell
        /\ Still /\ UNCHANGED peak
    BY <1>11 DEF CasAdd
  <2> HIDE DEF next
  <2>4. Threaded
    BY <2>1, <2>2, <2>3, EndsType DEF Landed
  <2>5. Stored
    BY <1>2, <2>1, <2>2, <2>3 DEF Store
  <2> QED  BY <1>1, <1>2, <2>3, <2>4, <2>5 DEF Still
<1>12. ASSUME NEW t \in Threads, RaisePeak(t)  PROVE TypeOK'
  <2>1. todo[t] # <<>> /\ at[t].v \in Nat
    BY <1>12 DEF RaisePeak, Doing, TypeOK
  <2>2. Threaded
    BY <1>12, <2>1, EndsType DEF RaisePeak
  <2> QED  BY <1>1, <1>2, <1>12, <2>2 DEF RaisePeak, Still
<1>13. ASSUME NEW t \in Threads, FetchMax(t)  PROVE TypeOK'
  <2>1. todo[t] # <<>> /\ at[t].v \in Nat
    BY <1>13 DEF FetchMax, Doing, TypeOK
  <2>2. Threaded
    BY <1>13, <2>1, EndsType DEF FetchMax
  <2>3. peak' \in Nat
    BY <1>2, <1>13, <2>1 DEF FetchMax
  <2> QED  BY <1>1, <1>2, <1>13, <2>2, <2>3 DEF FetchMax, Still
<1>14. ASSUME NEW t \in Threads, LoadDec(t)  PROVE TypeOK'
  <2>1. todo[t] # <<>> /\ cell["live"] \in Nat
    BY <1>2, <1>14 DEF LoadDec, Doing, Cells
  <2>2. Threaded
    BY <1>14, <2>1, EndsType DEF LoadDec
  <2> QED  BY <1>1, <1>2, <1>14, <2>2 DEF LoadDec, Still
<1>15. ASSUME NEW t \in Threads, CasDec(t)  PROVE TypeOK'
  <2> DEFINE less == IF at[t].v > Now(t).n THEN at[t].v - Now(t).n ELSE 0
  <2>1. todo[t] # <<>> /\ cell["live"] \in Nat /\ at[t].v \in Nat /\ Now(t).op = "dec"
    BY <1>2, <1>15 DEF CasDec, Doing, Cells, TypeOK
  <2>2. less \in Nat
    BY <2>1, NowType
  <2>3. /\ \/ Store("live", less) /\ Finish(t)
           \/ Go(t, "sub", cell["live"]) /\ UNCHANGED cell
        /\ Still /\ UNCHANGED peak
    BY <1>15 DEF CasDec
  <2> HIDE DEF less
  <2>4. Threaded
    BY <2>1, <2>3, EndsType
  <2>5. Stored
    BY <1>2, <2>2, <2>3 DEF Store, Cells
  <2> QED  BY <1>1, <1>2, <2>3, <2>4, <2>5 DEF Still
<1> QED
  BY <1>3, <1>4, <1>41, <1>5, <1>6, <1>7, <1>8, <1>9, <1>10, <1>11, <1>12, <1>13, <1>14, <1>15 DEF Next

-----------------------------------------------------------------------------
(* The headroom.                                                           *)

\* The step is thread t's: no other thread's place changes.
StepOf(t) == \A u \in Threads \ {t} : todo'[u] = todo[u] /\ at'[u] = at[u]

\* A step of t moves no other thread in or out of the adds past their check.
LEMMA Others ==
    ASSUME NEW t \in Threads, StepOf(t), NEW c \in Cells
    PROVE  /\ Passed(c) \in SUBSET Threads /\ Passed(c)' \in SUBSET Threads
           /\ Passed(c) \ {t} = Passed(c)' \ {t}
  BY DEF Passed, StepOf, Doing, Now

\* Every kind of step belongs to one thread.
LEMMA StepsAreOwned ==
    ASSUME TypeOK, NEW t \in Threads, todo[t] # <<>>
    PROVE  /\ Finish(t) => StepOf(t) /\ at'[t].pc = "load"
           /\ \A pc, v : Go(t, pc, v) => StepOf(t) /\ at'[t].pc = pc /\ todo'[t] = todo[t]
<1>1. todo \in [Threads -> Seq(Ops)] /\ at \in [Threads -> States]
  BY DEF TypeOK, Ops, States
<1>2. Finish(t) => StepOf(t) /\ at'[t].pc = "load"
  BY <1>1 DEF Finish, StepOf, Rest
<1>3. ASSUME NEW pc, NEW v, Go(t, pc, v)
      PROVE  StepOf(t) /\ at'[t].pc = pc /\ todo'[t] = todo[t]
  BY <1>1, <1>3 DEF Go, StepOf
<1> QED  BY <1>2, <1>3

\* A step of a thread that is then past no check, and that raises no cell or
\* leaves it at SATURATED at the most, keeps the headroom.
LEMMA QuietStep ==
    ASSUME IInv, NEW t \in Threads, StepOf(t), TypeOK',
           at'[t].pc # "fast",
           \A c \in Cells : cell'[c] <= cell[c] \/ cell'[c] <= SATURATED
    PROVE  FastIsSmall' /\ Headroom'
<1>1. FastIsSmall'
  BY DEF IInv, FastIsSmall, StepOf, Doing, Now
<1>2. ASSUME NEW c \in Cells
      PROVE  cell'[c] + Cardinality(Passed(c)') * FAST_ADD_MAX
                <= SATURATED + Cardinality(Threads) * FAST_ADD_MAX
  <2> DEFINE K == Cardinality(Passed(c))
             L == Cardinality(Passed(c)')
             T == Cardinality(Threads)
  <2>1. t \notin Passed(c)'
    BY DEF Passed, Doing
  <2>2. K \in Nat /\ L \in Nat /\ L <= T /\ L <= K
    BY <2>1, Others, OneMoves
  <2>3. T \in Nat
    BY HeadroomAssumption, FS_CardinalityType
  <2>4. cell[c] + K * FAST_ADD_MAX <= SATURATED + T * FAST_ADD_MAX
    BY DEF IInv, Headroom
  <2>5. cell[c] \in Nat /\ cell'[c] \in Nat /\ SATURATED \in Nat
    BY HeadroomAssumption DEF IInv, TypeOK
  <2> HIDE DEF K, L, T
  <2>6. /\ K * FAST_ADD_MAX \in Nat /\ L * FAST_ADD_MAX \in Nat /\ T * FAST_ADD_MAX \in Nat
        /\ L * FAST_ADD_MAX <= K * FAST_ADD_MAX /\ L * FAST_ADD_MAX <= T * FAST_ADD_MAX
    BY <2>2, <2>3, Scale
  <2> DEFINE KF == K * FAST_ADD_MAX
             LF == L * FAST_ADD_MAX
             TF == T * FAST_ADD_MAX
  <2>7. cell'[c] <= cell[c] \/ cell'[c] <= SATURATED
    OBVIOUS
  <2>8. cell'[c] + LF <= SATURATED + TF
    <3> HIDE DEF KF, LF, TF
    <3>1. KF \in Nat /\ LF \in Nat /\ TF \in Nat /\ LF <= KF /\ LF <= TF
      BY <2>6 DEF KF, LF, TF
    <3>2. cell[c] + KF <= SATURATED + TF
      BY <2>4 DEF KF, TF
    <3> QED  BY <2>5, <2>7, <3>1, <3>2, SMT
  <2> QED  BY <2>8 DEF K, L, T
<1> QED  BY <1>1, <1>2 DEF Headroom

\* An add that is past its check lands below the wrap.
LEMMA AddFits ==
    ASSUME IInv, NEW t \in Threads, FetchAdd(t)
    PROVE  LET c == Now(t).op
               n == Now(t).n
           IN /\ c \in Cells /\ n \in Nat /\ n <= FAST_ADD_MAX
              /\ cell[c] + n < Wrap
              /\ cell' = [cell EXCEPT ![c] = cell[c] + n]
<1> DEFINE c == Now(t).op
           n == Now(t).n
           K == Cardinality(Passed(c))
           T == Cardinality(Threads)
<1>1. todo[t] # <<>> /\ c \in Cells /\ at[t].pc = "fast"
  BY DEF FetchAdd, Doing
<1>2. n \in Nat /\ n <= FAST_ADD_MAX
  BY <1>1, NowType DEF IInv, FastIsSmall, Doing, Cells
<1>3. t \in Passed(c) /\ Passed(c) \in SUBSET Threads
  BY <1>1 DEF Passed, Doing
<1>4. K \in Nat /\ K >= 1
  <2>1. IsFiniteSet(Passed(c))
    BY <1>3, HeadroomAssumption, FS_Subset
  <2>2. K \in Nat
    BY <2>1, FS_CardinalityType
  <2>3. K # 0
    BY <1>3, <2>1, FS_EmptySet
  <2> QED  BY <2>2, <2>3
<1>5. cell[c] + K * FAST_ADD_MAX <= SATURATED + T * FAST_ADD_MAX
  BY <1>1 DEF IInv, Headroom
<1>6. SATURATED + T * FAST_ADD_MAX < Wrap /\ T \in Nat
  BY HeadroomAssumption, FS_CardinalityType
<1>7. cell[c] \in Nat /\ SATURATED \in Nat /\ FAST_ADD_MAX \in Nat /\ Wrap \in Nat
  BY <1>1, HeadroomAssumption DEF IInv, TypeOK
<1>8. cell[c] + n < Wrap
  <2> HIDE DEF c, n, K, T
  <2>1. K * FAST_ADD_MAX \in Nat /\ 1 * FAST_ADD_MAX <= K * FAST_ADD_MAX /\ T * FAST_ADD_MAX \in Nat
    BY <1>4, <1>6, Scale
  <2>2. FAST_ADD_MAX <= K * FAST_ADD_MAX
    BY <1>7, <2>1
  <2> DEFINE KF == K * FAST_ADD_MAX
             TF == T * FAST_ADD_MAX
  <2>3. KF \in Nat /\ TF \in Nat /\ FAST_ADD_MAX <= KF /\ cell[c] + KF <= SATURATED + TF
        /\ SATURATED + TF < Wrap
    BY <1>5, <1>6, <2>1, <2>2
  <2> HIDE DEF KF, TF
  <2> QED  BY <1>2, <1>7, <2>3, SMT
<1>9. cell[c] + n \in Nat /\ (cell[c] + n) % Wrap = cell[c] + n
  BY <1>2, <1>7, <1>8, SMT
<1>10. cell' = [cell EXCEPT ![c] = (cell[c] + n) % Wrap]
  BY DEF FetchAdd, Store
<1> QED  BY <1>1, <1>2, <1>8, <1>9, <1>10

\* The invariant holds initially.
LEMMA InitInv == Init => IInv
<1> SUFFICES ASSUME Init  PROVE IInv
  OBVIOUS
<1>1. TypeOK
  <2>1. <<>> \in Seq(Ops) /\ Rest \in States
    BY DEF Rest, States
  <2>2. todo \in [Threads -> Seq(Ops)] /\ at \in [Threads -> States]
    BY <2>1 DEF Init
  <2> QED  BY <2>2 DEF Init, TypeOK, Ops, States
<1>2. FastIsSmall
  BY DEF Init, FastIsSmall, Rest
<1>3. \A c \in Cells : Passed(c) = {}
  BY DEF Init, Passed, Doing
<1>4. Headroom
  <2> SUFFICES ASSUME NEW c \in Cells
               PROVE  cell[c] + Cardinality(Passed(c)) * FAST_ADD_MAX
                        <= SATURATED + Cardinality(Threads) * FAST_ADD_MAX
    BY DEF Headroom
  <2>1. Cardinality(Passed(c)) = 0
    BY <1>3, FS_EmptySet
  <2>2. cell[c] = 0
    BY DEF Init
  <2>3. Cardinality(Threads) \in Nat
    BY HeadroomAssumption, FS_CardinalityType
  <2>4. Cardinality(Threads) * FAST_ADD_MAX \in Nat
    BY <2>3, Scale
  <2>5. 0 * FAST_ADD_MAX = 0
    BY HeadroomAssumption, SMT
  <2> QED  BY <2>1, <2>2, <2>4, <2>5, HeadroomAssumption
<1> QED  BY <1>1, <1>2, <1>4 DEF IInv

\* Every step keeps the invariant.
LEMMA NextInv == IInv /\ [Next]_vars => IInv'
<1> SUFFICES ASSUME IInv, [Next]_vars  PROVE FastIsSmall' /\ Headroom'
  BY TypeStep DEF IInv
<1> DEFINE Goal == FastIsSmall' /\ Headroom'
<1>1. TypeOK /\ TypeOK'
  BY TypeStep DEF IInv
<1>2. \A c \in Cells : cell[c] \in Nat /\ cell'[c] \in Nat
  BY <1>1 DEF TypeOK
<1>3. UNCHANGED cell => \A c \in Cells : cell'[c] <= cell[c]
  BY <1>2
<1>4. CASE UNCHANGED vars
  <2>1. UNCHANGED <<cell, todo, at>>
    BY <1>4 DEF vars
  <2>2. FastIsSmall'
    BY <2>1, SMT DEF IInv, FastIsSmall, Doing, Now, Cells
  <2>3. \A c \in Cells : Passed(c)' = Passed(c)
    BY <2>1, SMT DEF Passed, Doing, Now
  <2>4. Headroom'
    BY <2>1, <2>3 DEF IInv, Headroom
  <2> QED  BY <2>2, <2>4
<1>5. ASSUME NEW t \in Threads, NEW b, NEW k, NEW n, NEW counts, Call(t, b, k, n, counts)  PROVE Goal
  <2>1. todo[t] = <<>> /\ UNCHANGED at /\ UNCHANGED cell /\ StepOf(t)
    BY <1>1, <1>5 DEF Call, StepOf, TypeOK
  <2>2. at'[t].pc # "fast"
    BY <2>1 DEF IInv, FastIsSmall, Doing
  <2> QED  BY <1>1, <1>3, <2>1, <2>2, QuietStep
<1>6. ASSUME NEW t \in Threads, WrapperCounts(t)  PROVE Goal
  <2>1. StepOf(t) /\ at'[t].pc = "load" /\ UNCHANGED cell
    BY <1>1, <1>6 DEF WrapperCounts, Doing, StepOf, TypeOK
  <2> QED  BY <1>1, <1>3, <2>1, QuietStep
<1>7. ASSUME NEW t \in Threads, LoadSeen(t)  PROVE Goal
  <2> DEFINE c == Now(t).op
             seen == cell[c]
  <2>1. todo[t] # <<>> /\ c \in Cells /\ UNCHANGED cell
    BY <1>7 DEF LoadSeen, Doing
  <2>2. CASE seen < SATURATED /\ Now(t).n <= FAST_ADD_MAX
    <3>1. Go(t, "fast", seen)
      BY <1>7, <2>2 DEF LoadSeen
    <3>2. StepOf(t) /\ at'[t].pc = "fast" /\ todo'[t] = todo[t]
      BY <1>1, <2>1, <3>1, StepsAreOwned
    <3>3. FastIsSmall'
      <4>1. ASSUME NEW u \in Threads, at'[u].pc = "fast"
            PROVE  Doing(u, Cells, "fast")' /\ Now(u)'.n <= FAST_ADD_MAX
        <5>1. CASE u = t
          BY <2>1, <2>2, <3>2, <4>1, <5>1 DEF Doing, Now
        <5>2. CASE u # t
          BY <3>2, <4>1, <5>2 DEF IInv, FastIsSmall, StepOf, Doing, Now
        <5> QED  BY <5>1, <5>2
      <4> QED  BY <4>1 DEF FastIsSmall
    <3>4. ASSUME NEW d \in Cells
          PROVE  cell'[d] + Cardinality(Passed(d)') * FAST_ADD_MAX
                    <= SATURATED + Cardinality(Threads) * FAST_ADD_MAX
      <4>1. CASE d = c
        <5> DEFINE LF == Cardinality(Passed(d)') * FAST_ADD_MAX
                   TF == Cardinality(Threads) * FAST_ADD_MAX
        <5>1. Cardinality(Passed(d)') \in Nat /\ Cardinality(Passed(d)') <= Cardinality(Threads)
          BY <3>2, Others, OneMoves
        <5>2. Cardinality(Threads) \in Nat
          BY HeadroomAssumption, FS_CardinalityType
        <5>3. LF \in Nat /\ TF \in Nat /\ LF <= TF
          BY <5>1, <5>2, Scale
        <5>4. cell'[d] \in Nat /\ cell'[d] < SATURATED /\ SATURATED \in Nat
          BY <1>2, <2>1, <2>2, <4>1, HeadroomAssumption
        <5> HIDE DEF LF, TF
        <5>5. cell'[d] + LF <= SATURATED + TF
          BY <5>3, <5>4, SMT
        <5> QED  BY <5>5 DEF LF, TF
      <4>2. CASE d # c
        <5>1. Passed(d)' = Passed(d)
          BY <2>1, <3>2, <4>2 DEF Passed, StepOf, Doing, Now
        <5> QED  BY <2>1, <5>1 DEF IInv, Headroom
      <4> QED  BY <4>1, <4>2
    <3> QED  BY <3>3, <3>4 DEF Headroom
  <2>3. CASE ~(seen < SATURATED /\ Now(t).n <= FAST_ADD_MAX)
    <3>1. Go(t, "slow", seen)
      BY <1>7, <2>3 DEF LoadSeen
    <3>2. StepOf(t) /\ at'[t].pc = "slow"
      BY <1>1, <2>1, <3>1, StepsAreOwned
    <3> QED  BY <1>1, <1>3, <2>1, <3>2, QuietStep
  <2> QED  BY <2>2, <2>3
<1>8. ASSUME NEW t \in Threads, FetchAdd(t)  PROVE Goal
  <2> DEFINE c == Now(t).op
             n == Now(t).n
  <2>1. todo[t] # <<>> /\ at[t].pc = "fast"
    BY <1>8 DEF FetchAdd, Doing
  <2>2. /\ c \in Cells /\ n \in Nat /\ n <= FAST_ADD_MAX
        /\ cell' = [cell EXCEPT ![c] = cell[c] + n]
    BY <1>8, AddFits
  <2>3. \E v : Landed(t, v)
    BY <1>8 DEF FetchAdd
  <2>4. StepOf(t) /\ at'[t].pc \in {"raise", "load"}
    BY <1>1, <2>1, <2>3, StepsAreOwned DEF Landed
  <2>5. FastIsSmall'
    BY <2>4 DEF IInv, FastIsSmall, StepOf, Doing, Now
  <2>6. ASSUME NEW d \in Cells
        PROVE  cell'[d] + Cardinality(Passed(d)') * FAST_ADD_MAX
                  <= SATURATED + Cardinality(Threads) * FAST_ADD_MAX
    <3> DEFINE K == Cardinality(Passed(d))
               L == Cardinality(Passed(d)')
    <3>1. cell[d] + K * FAST_ADD_MAX <= SATURATED + Cardinality(Threads) * FAST_ADD_MAX
      BY DEF IInv, Headroom
    <3>2. CASE d = c
      <4>1. t \in Passed(d) /\ t \notin Passed(d)'
        BY <2>1, <2>4, <3>2 DEF Passed, Doing
      <4>2. K \in Nat /\ L \in Nat /\ K = L + 1
        BY <2>4, <4>1, Others, OneMoves
      <4>3. cell'[d] = cell[d] + n
        BY <1>1, <2>2, <3>2 DEF TypeOK
      <4> HIDE DEF K, L, n
      <4>4. K * FAST_ADD_MAX = L * FAST_ADD_MAX + FAST_ADD_MAX /\ L * FAST_ADD_MAX \in Nat
        BY <4>2, Scale
      <4>5. /\ Cardinality(Threads) * FAST_ADD_MAX \in Nat
            /\ SATURATED \in Nat /\ FAST_ADD_MAX \in Nat /\ cell[d] \in Nat
        BY <1>2, HeadroomAssumption, FS_CardinalityType, Scale
      <4> DEFINE LF == L * FAST_ADD_MAX
                 TF == Cardinality(Threads) * FAST_ADD_MAX
      <4>6. /\ cell[d] + (LF + FAST_ADD_MAX) <= SATURATED + TF
            /\ LF \in Nat /\ TF \in Nat
        BY <3>1, <4>4, <4>5
      <4> HIDE DEF LF, TF
      <4>7. cell'[d] + LF <= SATURATED + TF
        BY <2>2, <4>3, <4>5, <4>6, SMT DEF n
      <4> QED  BY <4>7 DEF LF, TF, L
    <3>3. CASE d # c
      <4>1. Passed(d)' = Passed(d)
        BY <2>1, <2>4, <3>3 DEF Passed, StepOf, Doing, Now
      <4>2. cell'[d] = cell[d]
        BY <1>1, <2>2, <3>3 DEF TypeOK
      <4> QED  BY <3>1, <4>1, <4>2
    <3> QED  BY <3>2, <3>3
  <2> QED  BY <2>5, <2>6 DEF Headroom
<1>9. ASSUME NEW t \in Threads, CasAdd(t)  PROVE Goal
  <2> DEFINE c == Now(t).op
             next == IF at[t].v + Now(t).n < SATURATED THEN at[t].v + Now(t).n ELSE SATURATED
  <2>1. todo[t] # <<>> /\ c \in Cells /\ at[t].v \in Nat
    BY <1>1, <1>9 DEF CasAdd, Doing, TypeOK
  <2>2. next <= SATURATED
    BY <1>1, <2>1, NowType, HeadroomAssumption DEF Cells
  <2>3. \/ (\E v : Landed(t, v)) /\ UNCHANGED cell
        \/ Store(c, next) /\ (\E v : Landed(t, v))
        \/ Go(t, "slow", cell[c]) /\ UNCHANGED cell
    BY <1>9 DEF CasAdd
  <2> HIDE DEF next
  <2>4. StepOf(t) /\ at'[t].pc \in {"raise", "load", "slow"}
    BY <1>1, <2>1, <2>3, StepsAreOwned DEF Landed
  <2>5. \A d \in Cells : cell'[d] <= cell[d] \/ cell'[d] <= SATURATED
    <3>1. CASE UNCHANGED cell
      BY <1>3, <3>1
    <3>2. CASE cell' = [cell EXCEPT ![c] = next]
      <4> SUFFICES ASSUME NEW d \in Cells
                   PROVE  cell'[d] <= cell[d] \/ cell'[d] <= SATURATED
        OBVIOUS
      <4> HIDE DEF c
      <4>1. cell'[d] = next \/ cell'[d] = cell[d]
        BY <1>1, <3>2 DEF TypeOK
      <4> QED  BY <1>2, <2>2, <4>1
    <3> QED  BY <2>3, <3>1, <3>2 DEF Store
  <2> QED  BY <1>1, <2>4, <2>5, QuietStep
<1>10. ASSUME NEW t \in Threads, RaisePeak(t) \/ FetchMax(t) \/ LoadDec(t)  PROVE Goal
  <2>1. /\ todo[t] # <<>> /\ UNCHANGED cell
        /\ Finish(t) \/ (\E v : Go(t, "max", v)) \/ (\E v : Go(t, "sub", v))
    BY <1>10 DEF RaisePeak, FetchMax, LoadDec, Doing
  <2>2. StepOf(t) /\ at'[t].pc \in {"load", "max", "sub"}
    BY <1>1, <2>1, StepsAreOwned
  <2> QED  BY <1>1, <1>3, <2>1, <2>2, QuietStep
<1>11. ASSUME NEW t \in Threads, CasDec(t)  PROVE Goal
  <2>1. /\ todo[t] # <<>>
        /\ Finish(t) \/ Go(t, "sub", cell["live"])
    BY <1>11 DEF CasDec, Doing
  <2>2. StepOf(t) /\ at'[t].pc \in {"load", "sub"}
    BY <1>1, <2>1, StepsAreOwned
  <2>3. \A d \in Cells : cell'[d] <= cell[d]
    <3> DEFINE less == IF at[t].v > Now(t).n THEN at[t].v - Now(t).n ELSE 0
    <3>1. Now(t).n \in Nat /\ at[t].v \in Nat
      BY <1>1, <1>11, <2>1, NowType DEF CasDec, Doing, TypeOK
    <3>2. \/ cell["live"] = at[t].v /\ cell' = [cell EXCEPT !["live"] = less]
          \/ UNCHANGED cell
      BY <1>11 DEF CasDec, Store
    <3>3. less <= at[t].v
      BY <3>1
    <3> HIDE DEF less
    <3> QED  BY <1>1, <1>2, <3>2, <3>3 DEF TypeOK
  <2> QED  BY <1>1, <2>2, <2>3, QuietStep
<1> QED
  <2>1. CASE Next
    <3>1. \/ \E t \in Threads : \E b, k, n, counts : Call(t, b, k, n, counts)
          \/ \E t \in Threads : WrapperCounts(t)
          \/ \E t \in Threads : LoadSeen(t)
          \/ \E t \in Threads : FetchAdd(t)
          \/ \E t \in Threads : CasAdd(t)
          \/ \E t \in Threads : RaisePeak(t) \/ FetchMax(t) \/ LoadDec(t)
          \/ \E t \in Threads : CasDec(t)
      BY <2>1 DEF Next, AllocFails, ResizeFails, Alloc, Dealloc, Resize
    <3> QED  BY <1>5, <1>6, <1>7, <1>8, <1>9, <1>10, <1>11, <3>1
  <2> QED  BY <1>4, <2>1

-----------------------------------------------------------------------------
(* The theorems.                                                           *)

\* The inductive invariant holds throughout.
LEMMA Invariance == Spec => []IInv
  BY InitInv, NextInv, PTL DEF Spec

\* However many threads allocate and whatever the sizes, a counter never
\* holds more than SATURATED plus one FAST_ADD_MAX per thread, adds that are
\* past their check included: the argument in the doc of add_saturating.
THEOREM CountersHaveHeadroom == Spec => []Headroom
<1>1. IInv => Headroom
  BY DEF IInv
<1> QED  BY <1>1, Invariance, PTL

\* No step wraps a counter: the peak and the count a reader is shown never go
\* back, and the live total falls only by a free.
THEOREM CountersNeverWrap == Spec => NeverWraps
<1> DEFINE Up == /\ Reported(peak') >= Reported(peak)
                 /\ Reported(cell'["count"]) >= Reported(cell["count"])
                 /\ cell'["live"] < cell["live"] => \E t \in Threads : Doing(t, {"dec"}, "sub")
<1>1. IInv /\ [Next]_vars => [Up]_vars
  <2> SUFFICES ASSUME IInv, Next  PROVE Up
    OBVIOUS
  <2>1. TypeOK /\ TypeOK'
    BY TypeStep DEF IInv
  <2>2. /\ \A c \in Cells : cell[c] \in Nat /\ cell'[c] \in Nat
        /\ peak \in Nat /\ peak' \in Nat
    BY <2>1 DEF TypeOK
  <2>3. SATURATED \in Nat /\ Wrap \in Nat /\ SATURATED < Wrap
    <3>1. Cardinality(Threads) * FAST_ADD_MAX \in Nat
      BY HeadroomAssumption, FS_CardinalityType, Scale
    <3> QED  BY <3>1, HeadroomAssumption
  <2>4. \A a, b \in Nat : a <= b => Reported(b) >= Reported(a)
    BY <2>3 DEF Reported
  <2>5. /\ peak <= peak'
        /\ cell["count"] <= cell'["count"]
        /\ cell["live"] <= cell'["live"] \/ \E t \in Threads : Doing(t, {"dec"}, "sub")
        => Up
    BY <2>2, <2>4 DEF Cells
  <2>6. ASSUME UNCHANGED <<cell, peak>>  PROVE Up
    BY <2>2, <2>5, <2>6 DEF Cells
  <2>7. ASSUME NEW t \in Threads, FetchAdd(t)  PROVE Up
    <3> DEFINE c == Now(t).op
    <3>1. /\ c \in Cells /\ Now(t).n \in Nat
          /\ cell' = [cell EXCEPT ![c] = cell[c] + Now(t).n]
      BY <2>7, AddFits
    <3>2. \A d \in Cells : cell[d] <= cell'[d]
      BY <2>1, <2>2, <3>1 DEF TypeOK
    <3>3. peak <= peak'
      BY <2>2, <2>7 DEF FetchAdd
    <3> QED  BY <2>5, <3>2, <3>3 DEF Cells
  <2>8. ASSUME NEW t \in Threads, CasAdd(t)  PROVE Up
    <3> DEFINE c == Now(t).op
               next == IF at[t].v + Now(t).n < SATURATED THEN at[t].v + Now(t).n ELSE SATURATED
    <3>1. todo[t] # <<>> /\ c \in Cells /\ at[t].v \in Nat
      BY <2>1, <2>8 DEF CasAdd, Doing, TypeOK
    <3>2. Now(t).n \in Nat
      BY <2>1, <3>1, NowType DEF Cells
    <3>3. \/ UNCHANGED cell
          \/ /\ at[t].v < SATURATED
             /\ cell[c] = at[t].v
             /\ cell' = [cell EXCEPT ![c] = next]
      BY <2>8 DEF CasAdd, Store
    <3>4. at[t].v < SATURATED => at[t].v <= next
      BY <2>3, <3>1, <3>2
    <3> HIDE DEF next
    <3>5. ASSUME NEW d \in Cells  PROVE cell[d] <= cell'[d]
      <4>1. CASE UNCHANGED cell
        BY <2>2, <4>1
      <4>2. CASE ~UNCHANGED cell
        <5> HIDE DEF c
        <5>1. /\ cell[c] = at[t].v /\ at[t].v <= next
              /\ cell' = [cell EXCEPT ![c] = next]
          BY <3>3, <3>4, <4>2
        <5>2. cell'[d] = cell[d] \/ (d = c /\ cell'[d] = next)
          BY <2>1, <5>1 DEF TypeOK
        <5> QED  BY <2>2, <5>1, <5>2
      <4> QED  BY <4>1, <4>2
    <3>6. peak <= peak'
      BY <2>2, <2>8 DEF CasAdd
    <3> QED  BY <2>5, <3>5, <3>6 DEF Cells
  <2>9. ASSUME NEW t \in Threads, FetchMax(t)  PROVE Up
    <3>1. UNCHANGED cell /\ at[t].v \in Nat
      BY <2>1, <2>9 DEF FetchMax, TypeOK
    <3>2. peak <= peak'
      BY <2>2, <2>9, <3>1 DEF FetchMax
    <3> QED  BY <2>2, <2>5, <3>1, <3>2 DEF Cells
  <2>10. ASSUME NEW t \in Threads, CasDec(t)  PROVE Up
    <3>1. Doing(t, {"dec"}, "sub")
      BY <2>10 DEF CasDec
    <3>2. UNCHANGED peak /\ cell'["count"] = cell["count"]
      BY <2>1, <2>10 DEF CasDec, Store, TypeOK, Cells
    <3> QED  BY <2>2, <2>5, <3>1, <3>2 DEF Cells
  <2>11. \/ UNCHANGED <<cell, peak>>
         \/ \E t \in Threads : FetchAdd(t)
         \/ \E t \in Threads : CasAdd(t)
         \/ \E t \in Threads : FetchMax(t)
         \/ \E t \in Threads : CasDec(t)
    <3>1. PICK t \in Threads :
             \/ \E b \in Ids, k \in Kinds : AllocFails(t, b, k) \/ \E n \in Sizes : Alloc(t, b, k, n)
             \/ \E b \in Ids : Dealloc(t, b) \/ ResizeFails(t, b) \/ \E n \in Sizes : Resize(t, b, n)
             \/ WrapperCounts(t) \/ LoadSeen(t) \/ FetchAdd(t) \/ CasAdd(t)
             \/ RaisePeak(t) \/ FetchMax(t) \/ LoadDec(t) \/ CasDec(t)
      BY Zenon DEF Next
    <3>2. ASSUME NEW b, NEW k, NEW n, NEW counts, Call(t, b, k, n, counts)  PROVE UNCHANGED <<cell, peak>>
      BY <3>2 DEF Call
    <3>3. WrapperCounts(t) \/ LoadSeen(t) \/ RaisePeak(t) \/ LoadDec(t) => UNCHANGED <<cell, peak>>
      BY DEF WrapperCounts, LoadSeen, RaisePeak, LoadDec
    <3> QED  BY <3>1, <3>2, <3>3 DEF AllocFails, ResizeFails, Alloc, Dealloc, Resize
  <2> QED  BY <2>6, <2>7, <2>8, <2>9, <2>10, <2>11
<1> QED  BY <1>1, Invariance, PTL DEF Spec, NeverWraps

=============================================================================
