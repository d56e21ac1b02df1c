---------------------------- MODULE AllocCounters ----------------------------
(***************************************************************************)
(* The process-wide memory counters (crates/gusset/src/ffi/alloc.rs): the  *)
(* live, peak and count cells, the saturating add that is a plain          *)
(* fetch_add while there is room, and the four ways a block is counted:    *)
(*                                                                         *)
(*   "counted"  a Counting called through GlobalAlloc;                     *)
(*   "global"   Counting<Global> as a collection's allocator;              *)
(*   "system"   Counting over System, an arena or a pool;                  *)
(*   "buffer"   BufferAlloc, bare or under a Counting.                     *)
(*                                                                         *)
(* A call to an allocator is the list of counter operations it makes       *)
(* (todo), and every load, fetch_add, fetch_max and compare-and-swap of    *)
(* those operations is a step of its own.                                  *)
(***************************************************************************)
EXTENDS Integers, Sequences, FiniteSets, FiniteSetsExt

CONSTANTS Threads,        \* threads (and signal handlers) that allocate
          Kinds,          \* the kinds of allocator in use
          Sizes,          \* layout sizes
          Ids,            \* blocks that can be out at once
          MaxCalls,       \* bound on the calls of a behaviour
          Wrap,           \* 2^w for a usize of w bits
          SATURATED,
          FAST_ADD_MAX,
          NoBlock

ASSUME SizesAssumption == Sizes \subseteq Nat

\* The compile-time assertion beside the constants, for the threads of the
\* instance instead of the 2^25 the code reserves room for.
ASSUME HeadroomAssumption ==
    /\ IsFiniteSet(Threads)
    /\ SATURATED \in Nat /\ FAST_ADD_MAX \in Nat /\ Wrap \in Nat
    /\ SATURATED + Cardinality(Threads) * FAST_ADD_MAX < Wrap

VARIABLES
    cell,       \* [live, count]: the two hot cells, as stored
    peak,       \* the peak cell, as stored
    active,     \* COUNTING_ACTIVE
    installed,  \* a Counting is the #[global_allocator]
    todo,       \* per thread, the counter operations its call still makes
    at,         \* per thread, where the first of them is, and the value it read
    on,         \* per thread, the block its call is about
    blocks,     \* the blocks that are out, by id
    calls,      \* calls made, up to MaxCalls
    saturated,  \* history: the live cell has reached SATURATED
    top,        \* history: the highest value the live cell has held
    strayed     \* history: Counting<Global> used with nothing counted below it

vars == <<cell, peak, active, installed, todo, at, on, blocks, calls, saturated, top, strayed>>

Cells == {"live", "count"}
Rest == [pc |-> "load", v |-> 0]

\* What a reader sees for a stored value.
Reported(stored) == IF stored >= SATURATED THEN Wrap - 1 ELSE stored

Init ==
    /\ cell = [c \in Cells |-> 0]
    /\ peak = 0
    /\ active = FALSE
    /\ installed \in BOOLEAN
    /\ todo = [t \in Threads |-> <<>>]
    /\ at = [t \in Threads |-> Rest]
    /\ on = [t \in Threads |-> NoBlock]
    /\ blocks = [b \in Ids |-> NoBlock]
    /\ calls = 0
    /\ saturated = FALSE
    /\ top = 0
    /\ strayed = FALSE

-----------------------------------------------------------------------------
(* The counter operations a call is made of.                               *)

CounterOps == [op : {"live", "count", "dec"}, n : Nat]
WrapperOps == [op : {"wrapper"}, kind : Kinds, counts : Seq(CounterOps)]

Op(name, n) == [op |-> name, n |-> n]

\* add_live and dec_live return at once for a size of zero.
AddLive(n) == IF n = 0 THEN <<>> ELSE <<Op("live", n)>>
DecLive(n) == IF n = 0 THEN <<>> ELSE <<Op("dec", n)>>
AddCount == <<Op("count", 1)>>

CountBufferAlloc(n) == IF n = 0 THEN <<>> ELSE AddLive(n) \o AddCount
CountAllocAlways(n) == CountBufferAlloc(n)

CountResize(old, new) ==
    (IF new > old THEN AddLive(new - old) ELSE DecLive(old - new)) \o AddCount

\* The request passes through a Counting's GlobalAlloc methods; Global calls
\* none of them when there are no bytes to allocate, move or free.
Hooked(k, n) == k = "counted" \/ (k = "global" /\ installed /\ n # 0)

\* A resize there: Global turns a shrink to nothing into a dealloc.
HookedResize(old, new) == IF new = 0 THEN DecLive(old) ELSE CountResize(old, new)

\* Mutant: any Counting<A> steps back once the flag is set.
FlagAlone(k) == active

\* Counting<A> leaves the counting to what is below it.
ForwardsToCountedGlobal(k) == k = "buffer" \/ (k = "global" /\ active)

\* A Counting<A> decides whether to count once the allocator below is done.
Wrapper(k, counts) ==
    IF k = "counted" THEN <<>> ELSE <<[op |-> "wrapper", kind |-> k, counts |-> counts]>>

AllocCounts(k, n) ==
    (IF Hooked(k, n) THEN AddLive(n) \o AddCount
     ELSE IF k = "buffer" THEN CountBufferAlloc(n) ELSE <<>>)
    \o Wrapper(k, CountAllocAlways(n))

DeallocCounts(k, n) ==
    (IF Hooked(k, n) \/ k = "buffer" THEN DecLive(n) ELSE <<>>) \o Wrapper(k, DecLive(n))

ResizeCounts(k, old, new) ==
    (IF Hooked(k, old + new) THEN HookedResize(old, new)
     ELSE IF k = "buffer" THEN CountResize(old, new) ELSE <<>>)
    \o Wrapper(k, CountResize(old, new))

-----------------------------------------------------------------------------
(* The calls.  A block another call is still counting is not yet anyone's  *)
(* to free: the allocator has not returned it.                             *)

Usable(b) == blocks[b] # NoBlock /\ \A t \in Threads : on[t] # b

\* GlobalAlloc is never asked for no bytes.
Askable(k, n) == k = "counted" => n # 0

\* A call for n bytes, which mark_counting_active hears of when they pass it.
Call(t, b, k, n, counts) ==
    /\ todo[t] = <<>>
    /\ calls < MaxCalls
    /\ calls' = calls + 1
    /\ todo' = [todo EXCEPT ![t] = counts]
    /\ on' = [on EXCEPT ![t] = IF counts = <<>> THEN NoBlock ELSE b]
    /\ active' = (active \/ Hooked(k, n))
    /\ strayed' = (strayed \/ (k = "global" /\ ~installed))
    /\ UNCHANGED <<cell, peak, installed, at, saturated, top>>

\* Counting::alloc, alloc_zeroed, allocate; BufferAlloc::allocate.
Alloc(t, b, k, n) ==
    /\ blocks[b] = NoBlock /\ Askable(k, n)
    /\ blocks' = [blocks EXCEPT ![b] = [kind |-> k, size |-> n]]
    /\ Call(t, b, k, n, AllocCounts(k, n))

\* The allocator below has no memory for a block that has bytes: nothing is
\* counted, but GlobalAlloc was called.
AllocFails(t, b, k) ==
    /\ blocks[b] = NoBlock
    /\ Call(t, b, k, 1, <<>>)
    /\ UNCHANGED blocks

Dealloc(t, b) ==
    /\ Usable(b)
    /\ blocks' = [blocks EXCEPT ![b] = NoBlock]
    /\ LET k == blocks[b].kind
           n == blocks[b].size
       IN Call(t, NoBlock, k, n, DeallocCounts(k, n))

\* realloc, grow, grow_zeroed, shrink.
Resize(t, b, n) ==
    /\ Usable(b) /\ Askable(blocks[b].kind, n)
    /\ blocks' = [blocks EXCEPT ![b].size = n]
    /\ LET k == blocks[b].kind
           old == blocks[b].size
       IN Call(t, b, k, old + n, ResizeCounts(k, old, n))

\* No memory for the new size: the old block stays as it was.
ResizeFails(t, b) ==
    /\ Usable(b)
    /\ Call(t, b, blocks[b].kind, 1, <<>>)
    /\ UNCHANGED blocks

-----------------------------------------------------------------------------
(* The steps of one counter operation.                                     *)

Now(t) == Head(todo[t])
Doing(t, ops, pc) == todo[t] # <<>> /\ Now(t).op \in ops /\ at[t].pc = pc

\* The first operation is over.
Finish(t) ==
    /\ todo' = [todo EXCEPT ![t] = Tail(@)]
    /\ at' = [at EXCEPT ![t] = Rest]
    /\ on' = [on EXCEPT ![t] = IF Len(todo[t]) = 1 THEN NoBlock ELSE @]

Go(t, pc, v) ==
    /\ at' = [at EXCEPT ![t] = [pc |-> pc, v |-> v]]
    /\ UNCHANGED <<todo, on>>

\* An add has landed: the live total goes on to raise the peak.
Landed(t, stored) ==
    IF Now(t).op = "live" THEN Go(t, "raise", stored) ELSE Finish(t)

Store(c, v) ==
    /\ cell' = [cell EXCEPT ![c] = v]
    /\ saturated' = (saturated \/ (c = "live" /\ v >= SATURATED))
    /\ top' = IF c = "live" /\ v > top THEN v ELSE top

Still == UNCHANGED <<active, installed, blocks, calls, strayed>>

\* count_new, count_moved and deallocate of a Counting<A> read the flag.
WrapperCounts(t) ==
    /\ Doing(t, {"wrapper"}, "load")
    /\ LET mine == IF ForwardsToCountedGlobal(Now(t).kind) THEN <<>> ELSE Now(t).counts
           next == mine \o Tail(todo[t])
       IN /\ todo' = [todo EXCEPT ![t] = next]
          /\ on' = [on EXCEPT ![t] = IF next = <<>> THEN NoBlock ELSE @]
    /\ Still /\ UNCHANGED <<cell, peak, at, saturated, top>>

\* Mutants of LoadSeen: no check of the stored value, and none of the amount.
LoadNoCheck(t) ==
    /\ Doing(t, Cells, "load")
    /\ Go(t, "fast", cell[Now(t).op])
    /\ Still /\ UNCHANGED <<cell, peak, saturated, top>>

LoadAnySize(t) ==
    /\ Doing(t, Cells, "load")
    /\ LET seen == cell[Now(t).op]
       IN Go(t, IF seen < SATURATED THEN "fast" ELSE "slow", seen)
    /\ Still /\ UNCHANGED <<cell, peak, saturated, top>>

\* add_saturating's load decides between the fetch_add and the loop.
LoadSeen(t) ==
    /\ Doing(t, Cells, "load")
    /\ LET seen == cell[Now(t).op]
       IN Go(t, IF seen < SATURATED /\ Now(t).n <= FAST_ADD_MAX THEN "fast" ELSE "slow", seen)
    /\ Still /\ UNCHANGED <<cell, peak, saturated, top>>

FetchAdd(t) ==
    /\ Doing(t, Cells, "fast")
    /\ LET c == Now(t).op
           sum == cell[c] + Now(t).n
       IN /\ Store(c, sum % Wrap)
          /\ Landed(t, IF sum >= Wrap THEN Wrap - 1 ELSE sum)
    /\ Still /\ UNCHANGED peak

\* One turn of the saturating loop.
CasAdd(t) ==
    /\ Doing(t, Cells, "slow")
    /\ LET c == Now(t).op
           next == IF at[t].v + Now(t).n < SATURATED THEN at[t].v + Now(t).n ELSE SATURATED
       IN \/ /\ at[t].v >= SATURATED
             /\ Landed(t, at[t].v)
             /\ UNCHANGED <<cell, saturated, top>>
          \/ /\ at[t].v < SATURATED
             /\ cell[c] = at[t].v
             /\ Store(c, next)
             /\ Landed(t, next)
          \/ /\ at[t].v < SATURATED
             /\ cell[c] # at[t].v
             /\ Go(t, "slow", cell[c])
             /\ UNCHANGED <<cell, saturated, top>>
    /\ Still /\ UNCHANGED peak

\* raise_peak: a load first, and the fetch_max only above it.
RaisePeak(t) ==
    /\ Doing(t, {"live"}, "raise")
    /\ IF at[t].v > peak THEN Go(t, "max", at[t].v) ELSE Finish(t)
    /\ Still /\ UNCHANGED <<cell, peak, saturated, top>>

\* Mutant: a store instead of the fetch_max.
StorePeak(t) ==
    /\ Doing(t, {"live"}, "max")
    /\ peak' = at[t].v
    /\ Finish(t)
    /\ Still /\ UNCHANGED <<cell, saturated, top>>

FetchMax(t) ==
    /\ Doing(t, {"live"}, "max")
    /\ peak' = IF at[t].v > peak THEN at[t].v ELSE peak
    /\ Finish(t)
    /\ Still /\ UNCHANGED <<cell, saturated, top>>

LoadDec(t) ==
    /\ Doing(t, {"dec"}, "load")
    /\ Go(t, "sub", cell["live"])
    /\ Still /\ UNCHANGED <<cell, peak, saturated, top>>

CasDec(t) ==
    /\ Doing(t, {"dec"}, "sub")
    /\ IF cell["live"] = at[t].v
       THEN Store("live", IF at[t].v > Now(t).n THEN at[t].v - Now(t).n ELSE 0) /\ Finish(t)
       ELSE Go(t, "sub", cell["live"]) /\ UNCHANGED <<cell, saturated, top>>
    /\ Still /\ UNCHANGED peak

Next ==
    \E t \in Threads :
        \/ \E b \in Ids, k \in Kinds : AllocFails(t, b, k) \/ \E n \in Sizes : Alloc(t, b, k, n)
        \/ \E b \in Ids : Dealloc(t, b) \/ ResizeFails(t, b) \/ \E n \in Sizes : Resize(t, b, n)
        \/ WrapperCounts(t)
        \/ LoadSeen(t) \/ FetchAdd(t) \/ CasAdd(t)
        \/ RaisePeak(t) \/ FetchMax(t)
        \/ LoadDec(t) \/ CasDec(t)

Spec == Init /\ [][Next]_vars

-----------------------------------------------------------------------------
(* Properties.                                                             *)

TypeOK ==
    /\ cell \in [Cells -> Nat]
    /\ peak \in Nat
    /\ active \in BOOLEAN /\ installed \in BOOLEAN
    /\ todo \in [Threads -> Seq(CounterOps \cup WrapperOps)]
    /\ at \in [Threads -> [pc : {"load", "fast", "slow", "raise", "max", "sub"}, v : Nat]]
    /\ blocks \in [Ids -> [kind : Kinds, size : Nat] \cup {NoBlock}]

\* What a reader is shown of the peak and the count (AllocStats,
\* gusset_alloc_stats) never goes back, and the live total falls only when a
\* free lands: no interleaving of additions near saturation wraps a cell.
NeverWraps ==
    [][/\ Reported(peak') >= Reported(peak)
       /\ Reported(cell'["count"]) >= Reported(cell["count"])
       /\ cell'["live"] < cell["live"] => \E t \in Threads : Doing(t, {"dec"}, "sub")]_vars

\* The bound the doc of add_saturating argues for, SATURATED plus one
\* FAST_ADD_MAX per thread, with the adds already past their check counted in.
Passed(c) == {t \in Threads : Doing(t, {c}, "fast")}
Headroom ==
    \A c \in Cells :
        cell[c] + Cardinality(Passed(c)) * FAST_ADD_MAX
            <= SATURATED + Cardinality(Threads) * FAST_ADD_MAX

\* Between calls the live total is the bytes that are out, each counted once,
\* whatever allocator they came from and however late COUNTING_ACTIVE was set,
\* until the total saturates.  The exception is Counting<Global> in a process
\* whose global allocator is not a Counting: see README.
LiveExact ==
    (~saturated /\ ~strayed /\ \A t \in Threads : todo[t] = <<>>)
        => cell["live"] = MapThenSumSet(LAMBDA b : blocks[b].size,
                                        {b \in Ids : blocks[b] # NoBlock})

\* No rise of the live total is lost to the unlocked check in raise_peak: the
\* highest value is in the peak cell or on its way there.
PeakKept ==
    top = Max({peak} \cup {at[t].v : t \in {u \in Threads : at[u].pc \in {"raise", "max"}}})

\* Neither bytes nor peaks are lost between the steps of the counters: the two
\* above.
CountsKept == LiveExact /\ PeakKept

=============================================================================
