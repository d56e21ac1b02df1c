--------------------------- MODULE JobQueueProofs ---------------------------
(***************************************************************************)
(* Proofs about JobQueue, for any numbers of workers, senders and units    *)
(* and any capacity: the counters `push` decides on are exact, no unit is  *)
(* ever stranded beside a sleeping worker, no worker leaves a queue that   *)
(* is not drained, and the queue implements BoundedQueue.                  *)
(***************************************************************************)
EXTENDS JobQueue, FiniteSetTheorems, SequenceTheorems, TLAPS

\* The members of D whose program counter f is in S.
Class(D, f, S) == {v \in D : f[v] \in S}

\* x's contribution to the size of a class.
One(x, S) == IF x \in S THEN 1 ELSE 0

\* A unit that was never sent is not queued.
UnsentAbsent ==
    \A u \in Units : fate[u] = "unsent" => \A i \in 1..Len(items) : items[i] # u

\* A busy worker holds a unit that was handed out.
HandsTaken ==
    \A w \in Workers : wpc[w] = "busy" =>
        /\ hand[w] \in Units
        /\ fate[hand[w]] \in {"taken", "done"}

\* The inductive invariant.
IInv == /\ TypeOK
        /\ CountersExact
        /\ NoStrandedUnit
        /\ ExitOnlyDrained
        /\ UnsentAbsent
        /\ HandsTaken

-----------------------------------------------------------------------------
(* Counting threads by program counter.                                    *)

\* When one member moves, a class gains it, loses it or keeps its size.
LEMMA ClassMove ==
    ASSUME NEW D, NEW f, NEW g, NEW w \in D, NEW S,
           IsFiniteSet(D), \A v \in D \ {w} : g[v] = f[v]
    PROVE  /\ Cardinality(Class(D, f, S)) \in Nat
           /\ Cardinality(Class(D, g, S)) =
                Cardinality(Class(D, f, S)) + One(g[w], S) - One(f[w], S)
<1> DEFINE A == Class(D, f, S)
           B == Class(D, g, S)
<1>1. IsFiniteSet(A) /\ IsFiniteSet(B)
  BY FS_Subset DEF Class
<1>2. Cardinality(A) \in Nat /\ Cardinality(B) \in Nat
  BY <1>1, FS_CardinalityType
<1>3. CASE f[w] \in S <=> g[w] \in S
  <2>1. A = B
    BY <1>3 DEF Class
  <2> QED  BY <1>2, <1>3, <2>1 DEF One
<1>4. CASE f[w] \notin S /\ g[w] \in S
  <2>1. B = A \cup {w} /\ w \notin A
    BY <1>4 DEF Class
  <2>2. Cardinality(B) = Cardinality(A) + 1
    BY <1>1, <2>1, FS_AddElement
  <2> QED  BY <1>2, <1>4, <2>2 DEF One
<1>5. CASE f[w] \in S /\ g[w] \notin S
  <2>1. B = A \ {w} /\ w \in A
    BY <1>5 DEF Class
  <2>2. Cardinality(B) = Cardinality(A) - 1
    BY <1>1, <2>1, FS_RemoveElement
  <2> QED  BY <1>2, <1>5, <2>2 DEF One
<1> QED  BY <1>3, <1>4, <1>5

Sleepers == {w \in Workers : wpc[w] \in {"wait", "woken"}}

\* The counts of the invariants are natural numbers, and pollers are movers.
LEMMA Counts ==
    ASSUME TypeOK
    PROVE  /\ Cardinality(Pollers) \in Nat
           /\ Cardinality(Movers) \in Nat
           /\ Cardinality(Sleepers) \in Nat
           /\ Cardinality(Notifying) \in Nat
           /\ Cardinality(Pollers) <= Cardinality(Movers)
           /\ Cardinality(Sleepers) = 0 => Idle = {}
<1>1. /\ IsFiniteSet(Pollers)
      /\ IsFiniteSet(Movers)
      /\ IsFiniteSet(Sleepers)
      /\ IsFiniteSet(Notifying)
  BY JobQueueAssumption, FS_Subset DEF Pollers, Movers, Sleepers, Notifying
<1>2. Pollers \subseteq Movers /\ Idle \subseteq Sleepers
  BY DEF Pollers, Movers, Sleepers, Idle
<1>3. Cardinality(Pollers) <= Cardinality(Movers)
  BY <1>1, <1>2, FS_Subset
<1>4. Cardinality(Sleepers) = 0 => Idle = {}
  BY <1>1, <1>2, FS_EmptySet
<1> QED  BY <1>1, <1>3, <1>4, FS_CardinalityType

\* What the move of one worker does to the counts.
LEMMA WorkerMove ==
    ASSUME NEW w \in Workers, \A v \in Workers \ {w} : wpc'[v] = wpc[v]
    PROVE  /\ Cardinality(Pollers') =
                Cardinality(Pollers) + One(wpc'[w], {"poll"}) - One(wpc[w], {"poll"})
           /\ Cardinality(Movers') =
                Cardinality(Movers) + One(wpc'[w], {"poll", "lock", "woken"})
                    - One(wpc[w], {"poll", "lock", "woken"})
           /\ Cardinality(Sleepers') =
                Cardinality(Sleepers) + One(wpc'[w], {"wait", "woken"})
                    - One(wpc[w], {"wait", "woken"})
           /\ (Idle' # {} /\ wpc'[w] # "wait") => Idle # {}
<1>1. IsFiniteSet(Workers)
  BY JobQueueAssumption
<1>2. ASSUME NEW S
      PROVE  Cardinality(Class(Workers, wpc', S)) =
                Cardinality(Class(Workers, wpc, S)) + One(wpc'[w], S) - One(wpc[w], S)
  BY <1>1, ClassMove
<1>3. /\ Pollers = Class(Workers, wpc, {"poll"})
      /\ Movers = Class(Workers, wpc, {"poll", "lock", "woken"})
      /\ Sleepers = Class(Workers, wpc, {"wait", "woken"})
  BY DEF Pollers, Movers, Sleepers, Class
<1>4. /\ Pollers' = Class(Workers, wpc', {"poll"})
      /\ Movers' = Class(Workers, wpc', {"poll", "lock", "woken"})
      /\ Sleepers' = Class(Workers, wpc', {"wait", "woken"})
  BY DEF Pollers, Movers, Sleepers, Class
<1>5. (Idle' # {} /\ wpc'[w] # "wait") => Idle # {}
  BY DEF Idle
<1> QED  BY <1>2, <1>3, <1>4, <1>5

\* What the move of one sender does to the count of notifiers.
LEMMA SenderMove ==
    ASSUME NEW s \in Senders, \A v \in Senders \ {s} : spc'[v] = spc[v]
    PROVE  Cardinality(Notifying') =
               Cardinality(Notifying) + One(spc'[s], {"notify"}) - One(spc[s], {"notify"})
<1>1. IsFiniteSet(Senders)
  BY JobQueueAssumption
<1>2. ASSUME NEW S
      PROVE  Cardinality(Class(Senders, spc', S)) =
                Cardinality(Class(Senders, spc, S)) + One(spc'[s], S) - One(spc[s], S)
  BY <1>1, ClassMove
<1>3. Notifying = Class(Senders, spc, {"notify"}) /\ Notifying' = Class(Senders, spc', {"notify"})
  BY DEF Notifying, Class
<1> QED  BY <1>2, <1>3

-----------------------------------------------------------------------------
(* The invariant is inductive.                                             *)

\* The initial state of `JobQueue::new` satisfies the invariant.
LEMMA InitIInv == Init => IInv
<1> SUFFICES ASSUME Init PROVE IInv
  OBVIOUS
<1>1. TypeOK
  BY EmptySeq DEF Init, TypeOK, WorkerPC, Fates
<1>2. Pollers = {} /\ {w \in Workers : wpc[w] \in {"wait", "woken"}} = {}
  BY DEF Init, Pollers
<1>3. CountersExact
  BY <1>2, FS_EmptySet, EmptySeq DEF Init, CountersExact
<1>4. Idle = {}
  BY DEF Init, Idle
<1> QED
  BY <1>1, <1>3, <1>4, EmptySeq
  DEF IInv, Init, NoStrandedUnit, ExitOnlyDrained, UnsentAbsent, HandsTaken

\* Steps of a sender or of the closing thread.
LEMMA PushInv ==
    ASSUME IInv, NEW s \in Senders, NEW u \in Units, Push(s, u)
    PROVE  IInv'
<1> USE DEF IInv
<1>1. /\ items' \in Seq(Units)
      /\ Len(items') = Len(items) + 1
      /\ Len(items) \in Nat
      /\ \A i \in 1..Len(items') : items'[i] = IF i <= Len(items) THEN items[i] ELSE u
  BY AppendProperties DEF Push, TypeOK
<1>2. TypeOK'
  BY <1>1 DEF Push, TypeOK, Fates
<1>3. Pollers' = Pollers /\ Movers' = Movers /\ Idle' = Idle /\ Sleepers' = Sleepers
  BY DEF Push, Pollers, Movers, Idle, Sleepers
<1>4. CountersExact'
  BY <1>1, <1>3 DEF Push, CountersExact, Sleepers
<1>5. NoStrandedUnit'
  <2>0. spinning = Cardinality(Pollers) /\ sleepers = Cardinality(Sleepers)
    BY DEF CountersExact, Sleepers
  <2>1. CASE PushWake
    <3>1. /\ spc[s] = "idle" /\ spc'[s] = "notify"
          /\ \A v \in Senders \ {s} : spc'[v] = spc[v]
      BY <2>1 DEF Push, TypeOK
    <3>2. Cardinality(Notifying') = Cardinality(Notifying) + 1
      BY <3>1, SenderMove, Counts DEF One
    <3> QED  BY <1>1, <1>3, <3>2, Counts DEF NoStrandedUnit
  <2>2. CASE ~PushWake
    <3>1. Notifying' = Notifying
      BY <2>2 DEF Push, Notifying
    <3>2. sleepers = 0 \/ Len(items) + 1 <= spinning
      BY <1>1, <2>2 DEF PushWake, TypeOK
    <3> QED  BY <1>1, <1>3, <2>0, <3>1, <3>2, Counts DEF NoStrandedUnit
  <2> QED  BY <2>1, <2>2
<1>6. ExitOnlyDrained'
  BY DEF Push, ExitOnlyDrained
<1>7. UnsentAbsent'
  BY <1>1 DEF Push, UnsentAbsent, TypeOK
<1>8. HandsTaken'
  BY DEF Push, HandsTaken, TypeOK
<1> QED  BY <1>2, <1>4, <1>5, <1>6, <1>7, <1>8

\* A refused push (full or closed) changes only the sender and the unit.
LEMMA PushRefusedInv ==
    ASSUME IInv, NEW s \in Senders, NEW u \in Units, PushRefused(s, u)
    PROVE  IInv'
<1> USE DEF IInv
<1>1. TypeOK'
  BY DEF PushRefused, TypeOK, Fates
<1>2. CountersExact' /\ NoStrandedUnit' /\ ExitOnlyDrained'
  BY DEF PushRefused, CountersExact, NoStrandedUnit, ExitOnlyDrained,
         Pollers, Movers, Idle, Notifying
<1>3. UnsentAbsent' /\ HandsTaken'
  BY DEF PushRefused, UnsentAbsent, HandsTaken, TypeOK
<1> QED  BY <1>1, <1>2, <1>3

\* `notify_one` after the unlock in `push` wakes a sleeper, if there is one.
LEMMA NotifyOneInv ==
    ASSUME IInv, NEW s \in Senders, NotifyOne(s)
    PROVE  IInv'
<1> USE DEF IInv
<1>1. Cardinality(Notifying') = Cardinality(Notifying) - 1
  <2>1. /\ spc[s] = "notify" /\ spc'[s] = "idle"
        /\ \A v \in Senders \ {s} : spc'[v] = spc[v]
    BY DEF NotifyOne, TypeOK
  <2> QED  BY <2>1, SenderMove, Counts DEF One
<1>2. Len(items) \in Nat
  BY LenProperties DEF TypeOK
<1>3. TypeOK'
  BY DEF NotifyOne, TypeOK, WorkerPC
<1>4. CASE \A w \in Workers : wpc[w] # "wait"
  <2>1. wpc' = wpc
    BY <1>4 DEF NotifyOne
  <2>2. Idle' = {}
    BY <1>4, <2>1 DEF Idle
  <2>3. CountersExact'
    BY <2>1 DEF NotifyOne, CountersExact, Pollers
  <2> QED
    BY <1>3, <2>1, <2>2, <2>3
    DEF NotifyOne, NoStrandedUnit, ExitOnlyDrained, UnsentAbsent, HandsTaken
<1>5. ASSUME NEW w \in Workers, wpc[w] = "wait", wpc' = [wpc EXCEPT ![w] = "woken"]
      PROVE  IInv'
  <2>1. /\ Cardinality(Pollers') = Cardinality(Pollers)
        /\ Cardinality(Movers') = Cardinality(Movers) + 1
        /\ Cardinality(Sleepers') = Cardinality(Sleepers)
        /\ Idle' # {} => Idle # {}
    <3>1. wpc'[w] = "woken" /\ \A v \in Workers \ {w} : wpc'[v] = wpc[v]
      BY <1>5 DEF TypeOK
    <3> QED  BY <1>5, <3>1, WorkerMove, Counts DEF One
  <2>2. CountersExact'
    BY <2>1 DEF NotifyOne, CountersExact, Sleepers
  <2>3. NoStrandedUnit'
    BY <1>1, <1>2, <2>1, Counts DEF NotifyOne, NoStrandedUnit
  <2>4. ExitOnlyDrained' /\ UnsentAbsent' /\ HandsTaken'
    BY <1>5 DEF NotifyOne, ExitOnlyDrained, UnsentAbsent, HandsTaken, TypeOK
  <2> QED  BY <1>3, <2>2, <2>3, <2>4
<1> QED  BY <1>4, <1>5 DEF NotifyOne

\* `JobQueue::close` and its `notify_all`.
LEMMA CloseInv ==
    ASSUME IInv, Close \/ CloseNotify
    PROVE  IInv'
<1> USE DEF IInv
<1>1. CASE Close
  BY <1>1 DEF Close, TypeOK, CountersExact, NoStrandedUnit, ExitOnlyDrained,
              UnsentAbsent, HandsTaken, Pollers, Movers, Idle, Notifying
<1>2. CASE CloseNotify
  <2>1. TypeOK'
    BY <1>2 DEF CloseNotify, TypeOK, WorkerPC
  <2>2. Pollers' = Pollers /\ Sleepers' = Sleepers /\ Idle' = {}
    BY <1>2 DEF CloseNotify, Pollers, Sleepers, Idle, TypeOK
  <2>3. CountersExact'
    BY <1>2, <2>2 DEF CloseNotify, CountersExact, Sleepers
  <2>4. ExitOnlyDrained' /\ UnsentAbsent' /\ HandsTaken'
    BY <1>2 DEF CloseNotify, ExitOnlyDrained, UnsentAbsent, HandsTaken, TypeOK
  <2> QED  BY <2>1, <2>2, <2>3, <2>4 DEF NoStrandedUnit
<1> QED  BY <1>1, <1>2

\* Steps of a worker that leave the queue itself alone.
LEMMA QuietWorkerInv ==
    ASSUME IInv, NEW w \in Workers,
           StartPoll(w) \/ StopPoll(w) \/ PopNone(w) \/ Sleep(w) \/ SpuriousWake(w)
    PROVE  IInv'
<1> USE DEF IInv
<1>1. /\ items' = items /\ queued' = queued /\ closed' = closed
      /\ hand' = hand /\ fate' = fate /\ spc' = spc /\ cpc' = cpc
      /\ \A v \in Workers \ {w} : wpc'[v] = wpc[v]
  BY DEF StartPoll, StopPoll, PopNone, Sleep, SpuriousWake, TypeOK
<1>2. /\ Len(items) \in Nat
      /\ items = <<>> => Len(items) = 0
      /\ Notifying' = Notifying
  BY <1>1, LenProperties DEF TypeOK, Notifying
<1>3. /\ spinning = Cardinality(Pollers)
      /\ sleepers = Cardinality(Sleepers)
  BY DEF CountersExact, Sleepers
<1>a. /\ Cardinality(Pollers') =
            Cardinality(Pollers) + One(wpc'[w], {"poll"}) - One(wpc[w], {"poll"})
      /\ Cardinality(Movers') =
            Cardinality(Movers) + One(wpc'[w], {"poll", "lock", "woken"})
                - One(wpc[w], {"poll", "lock", "woken"})
      /\ Cardinality(Sleepers') =
            Cardinality(Sleepers) + One(wpc'[w], {"wait", "woken"})
                - One(wpc[w], {"wait", "woken"})
      /\ (Idle' # {} /\ wpc'[w] # "wait") => Idle # {}
  BY <1>1, WorkerMove
<1>b. /\ Cardinality(Pollers) \in Nat
      /\ Cardinality(Movers) \in Nat
      /\ Cardinality(Sleepers) \in Nat
      /\ Cardinality(Notifying) \in Nat
  BY Counts
<1>4. /\ wpc' \in [Workers -> WorkerPC]
      /\ spinning' = Cardinality(Pollers')
      /\ sleepers' = Cardinality(Sleepers')
      /\ NoStrandedUnit'
  <2>1. CASE StartPoll(w)
    <3>1. wpc[w] = "call" /\ wpc'[w] = "poll" /\ spinning' = spinning + 1 /\ sleepers' = sleepers
      BY <2>1 DEF StartPoll, TypeOK
    <3>2. wpc' \in [Workers -> WorkerPC]
      BY <2>1 DEF StartPoll, TypeOK, WorkerPC
    <3> QED  BY <1>1, <1>2, <1>3, <1>a, <1>b, <3>1, <3>2 DEF One, NoStrandedUnit
  <2>2. CASE StopPoll(w)
    <3>1. wpc[w] = "poll" /\ wpc'[w] = "lock" /\ spinning' = spinning - 1 /\ sleepers' = sleepers
      BY <2>2 DEF StopPoll, TypeOK
    <3>2. wpc' \in [Workers -> WorkerPC]
      BY <2>2 DEF StopPoll, TypeOK, WorkerPC
    <3> QED  BY <1>1, <1>2, <1>3, <1>a, <1>b, <3>1, <3>2 DEF One, NoStrandedUnit
  <2>3. CASE PopNone(w)
    <3>1. /\ wpc[w] \in {"lock", "woken"} /\ wpc'[w] = "exited"
          /\ spinning' = spinning /\ items = <<>>
          /\ sleepers' = sleepers - One(wpc[w], {"wait", "woken"})
      BY <2>3 DEF PopNone, Awake, SleepersAfterWake, TypeOK, One
    <3>2. wpc' \in [Workers -> WorkerPC]
      BY <2>3 DEF PopNone, TypeOK, WorkerPC
    <3>3. spinning' = Cardinality(Pollers') /\ sleepers' = Cardinality(Sleepers')
      BY <1>3, <1>a, <1>b, <3>1 DEF One
    <3>4. Cardinality(Movers') \in Nat
      <4>1. IsFiniteSet(Movers')
        BY JobQueueAssumption, FS_Subset DEF Movers
      <4> QED  BY <4>1, FS_CardinalityType
    <3>5. NoStrandedUnit'
      BY <1>1, <1>2, <1>b, <3>1, <3>4 DEF NoStrandedUnit
    <3> QED  BY <3>2, <3>3, <3>5
  <2>4. CASE Sleep(w)
    <3>1. /\ wpc[w] \in {"lock", "woken"} /\ wpc'[w] = "wait"
          /\ spinning' = spinning /\ items = <<>>
          /\ sleepers' = sleepers - One(wpc[w], {"wait", "woken"}) + 1
      BY <2>4 DEF Sleep, Awake, SleepersAfterWake, TypeOK, One
    <3>2. wpc' \in [Workers -> WorkerPC]
      BY <2>4 DEF Sleep, TypeOK, WorkerPC
    <3>3. spinning' = Cardinality(Pollers') /\ sleepers' = Cardinality(Sleepers')
      BY <1>3, <1>a, <1>b, <3>1 DEF One
    <3>4. Cardinality(Movers') \in Nat
      <4>1. IsFiniteSet(Movers')
        BY JobQueueAssumption, FS_Subset DEF Movers
      <4> QED  BY <4>1, FS_CardinalityType
    <3>5. NoStrandedUnit'
      BY <1>1, <1>2, <1>b, <3>1, <3>4 DEF NoStrandedUnit
    <3> QED  BY <3>2, <3>3, <3>5
  <2>5. CASE SpuriousWake(w)
    <3>1. wpc[w] = "wait" /\ wpc'[w] = "woken" /\ spinning' = spinning /\ sleepers' = sleepers
      BY <2>5 DEF SpuriousWake, TypeOK
    <3>2. wpc' \in [Workers -> WorkerPC]
      BY <2>5 DEF SpuriousWake, TypeOK, WorkerPC
    <3> QED  BY <1>1, <1>2, <1>3, <1>a, <1>b, <3>1, <3>2 DEF One, NoStrandedUnit
  <2> QED  BY <2>1, <2>2, <2>3, <2>4, <2>5
<1>5. TypeOK'
  <2>1. Cardinality(Pollers') \in Nat /\ Cardinality(Sleepers') \in Nat
    <3>1. IsFiniteSet(Pollers') /\ IsFiniteSet(Sleepers')
      BY JobQueueAssumption, FS_Subset DEF Pollers, Sleepers
    <3> QED  BY <3>1, FS_CardinalityType
  <2> QED  BY <1>1, <1>4, <2>1 DEF TypeOK
<1>6. CountersExact'
  BY <1>1, <1>4 DEF CountersExact, Sleepers
<1>7. ExitOnlyDrained'
  BY <1>1 DEF ExitOnlyDrained, StartPoll, StopPoll, PopNone, Sleep, SpuriousWake, TypeOK
<1>8. HandsTaken' /\ UnsentAbsent'
  BY <1>1 DEF HandsTaken, UnsentAbsent, StartPoll, StopPoll, PopNone, Sleep, SpuriousWake, TypeOK
<1> QED  BY <1>4, <1>5, <1>6, <1>7, <1>8

\* Taking the head of the queue, while polling or under the lock.
LEMMA TakeInv ==
    ASSUME IInv, NEW w \in Workers, PollTake(w) \/ LockedTake(w)
    PROVE  IInv'
<1> USE DEF IInv
<1>1. TakeHead(w) /\ closed' = closed /\ spc' = spc /\ cpc' = cpc
  BY DEF PollTake, LockedTake
<1>2. /\ Head(items) \in Units
      /\ items' \in Seq(Units)
      /\ Len(items') = Len(items) - 1
      /\ Len(items) \in Nat \ {0}
      /\ \A i \in 1..Len(items') : items'[i] = items[i + 1]
  BY <1>1, HeadTailProperties, EmptySeq DEF TakeHead, TypeOK
<1>3. /\ wpc'[w] = "busy"
      /\ wpc' \in [Workers -> WorkerPC]
      /\ \A v \in Workers \ {w} : wpc'[v] = wpc[v]
  BY <1>1 DEF TakeHead, TypeOK, WorkerPC
<1>4. Notifying' = Notifying
  BY <1>1 DEF Notifying
<1>5. /\ spinning = Cardinality(Pollers)
      /\ sleepers = Cardinality(Sleepers)
  BY DEF CountersExact, Sleepers
<1>6. /\ wpc[w] \in {"poll", "lock", "woken"}
      /\ spinning' = spinning - One(wpc[w], {"poll"})
      /\ sleepers' = sleepers - One(wpc[w], {"wait", "woken"})
  BY DEF PollTake, LockedTake, Awake, SleepersAfterWake, TypeOK, One
<1>a. /\ Cardinality(Pollers') =
            Cardinality(Pollers) + One(wpc'[w], {"poll"}) - One(wpc[w], {"poll"})
      /\ Cardinality(Movers') =
            Cardinality(Movers) + One(wpc'[w], {"poll", "lock", "woken"})
                - One(wpc[w], {"poll", "lock", "woken"})
      /\ Cardinality(Sleepers') =
            Cardinality(Sleepers) + One(wpc'[w], {"wait", "woken"})
                - One(wpc[w], {"wait", "woken"})
      /\ (Idle' # {} /\ wpc'[w] # "wait") => Idle # {}
  BY <1>3, WorkerMove
<1>b. /\ Cardinality(Pollers) \in Nat
      /\ Cardinality(Movers) \in Nat
      /\ Cardinality(Sleepers) \in Nat
      /\ Cardinality(Notifying) \in Nat
  BY Counts
<1>7. /\ spinning' = Cardinality(Pollers')
      /\ sleepers' = Cardinality(Sleepers')
      /\ NoStrandedUnit'
  BY <1>2, <1>3, <1>4, <1>5, <1>6, <1>a, <1>b DEF One, NoStrandedUnit
<1>8. TypeOK'
  <2>1. Cardinality(Pollers') \in Nat /\ Cardinality(Sleepers') \in Nat
    <3>1. IsFiniteSet(Pollers') /\ IsFiniteSet(Sleepers')
      BY JobQueueAssumption, FS_Subset DEF Pollers, Sleepers
    <3> QED  BY <3>1, FS_CardinalityType
  <2>2. hand' \in [Workers -> Units \cup {NoUnit}] /\ fate' \in [Units -> Fates] /\ queued' \in Nat
    BY <1>1, <1>2 DEF TakeHead, TypeOK, Fates
  <2> QED  BY <1>1, <1>2, <1>3, <1>7, <2>1, <2>2 DEF TypeOK
<1>9. CountersExact'
  BY <1>1, <1>2, <1>7 DEF TakeHead, CountersExact, Sleepers
<1>10. ExitOnlyDrained'
  BY <1>1, <1>3 DEF TakeHead, ExitOnlyDrained
<1>11. UnsentAbsent'
  BY <1>1, <1>2 DEF TakeHead, UnsentAbsent, TypeOK
<1>12. HandsTaken'
  BY <1>1, <1>2, <1>3 DEF TakeHead, HandsTaken, TypeOK
<1> QED  BY <1>7, <1>8, <1>9, <1>10, <1>11, <1>12

\* A worker that ends its unit returns to `pop`.
LEMMA FinishInv ==
    ASSUME IInv, NEW w \in Workers, Finish(w)
    PROVE  IInv'
<1> USE DEF IInv
<1>1. TypeOK'
  BY DEF Finish, TypeOK, WorkerPC, Fates
<1>2. Pollers' = Pollers /\ Movers' = Movers /\ Idle' = Idle /\ Sleepers' = Sleepers
  BY DEF Finish, Pollers, Movers, Idle, Sleepers, TypeOK
<1>3. CountersExact' /\ NoStrandedUnit'
  BY <1>2 DEF Finish, CountersExact, NoStrandedUnit, Sleepers, Notifying
<1>4. ExitOnlyDrained'
  BY DEF Finish, ExitOnlyDrained, TypeOK
<1>5. UnsentAbsent' /\ HandsTaken'
  BY DEF Finish, UnsentAbsent, HandsTaken, TypeOK
<1> QED  BY <1>1, <1>3, <1>4, <1>5

\* The invariant is inductive: every step of `push`, `pop` and `close` keeps it.
LEMMA NextIInv == IInv /\ [Next]_vars => IInv'
<1> SUFFICES ASSUME IInv, [Next]_vars PROVE IInv'
  OBVIOUS
<1>1. CASE UNCHANGED vars
  BY <1>1 DEF vars, IInv, TypeOK, CountersExact, NoStrandedUnit, ExitOnlyDrained,
              UnsentAbsent, HandsTaken, Pollers, Movers, Idle, Notifying
<1>2. CASE Next
  BY <1>2, PushInv, PushRefusedInv, NotifyOneInv, CloseInv, QuietWorkerInv, TakeInv, FinishInv
  DEF Next, WorkerStep, PopStep
<1> QED  BY <1>1, <1>2

\* The inductive invariant holds in every reachable state of the queue.
THEOREM Invariance == Spec => []IInv
BY InitIInv, NextIInv, PTL DEF Spec

\* Every variable keeps its type; in particular no counter of `queue.rs` is
\* ever decremented below zero.
THEOREM QueueTypes == Spec => []TypeOK
<1>1. IInv => TypeOK
  BY DEF IInv
<1> QED  BY <1>1, Invariance, PTL

\* `spinning`, `queued` and `sleepers` are exact whenever `push` reads them.
THEOREM CountersAreExact == Spec => []CountersExact
<1>1. IInv => CountersExact
  BY DEF IInv
<1> QED  BY <1>1, Invariance, PTL

\* The wake-up `push` skips is never the one a queued unit needed.
THEOREM NoUnitStranded == Spec => []NoStrandedUnit
<1>1. IInv => NoStrandedUnit
  BY DEF IInv
<1> QED  BY <1>1, Invariance, PTL

\* `pop` answers None only on a closed, drained queue.
THEOREM ExitsAreDrained == Spec => []ExitOnlyDrained
<1>1. IInv => ExitOnlyDrained
  BY DEF IInv
<1> QED  BY <1>1, Invariance, PTL

-----------------------------------------------------------------------------
(* The queue implements BoundedQueue.                                      *)

\* The abstract set of units handed out.
Taken == {u \in Units : fate[u] \in {"taken", "done"}}

\* Every step of the queue is a Put, a Get or a Shut of the abstract queue, or
\* leaves it unchanged.
LEMMA StepRefines == IInv /\ [Next]_vars => [Abstract!AbsNext]_(Abstract!absVars)
<1> SUFFICES ASSUME IInv, [Next]_vars
             PROVE  Abstract!AbsNext \/ (items' = items /\ Taken' = Taken /\ closed' = closed)
  BY DEF Abstract!absVars, Taken
<1> USE DEF IInv
<1>1. CASE UNCHANGED vars
  BY <1>1 DEF vars, Taken
<1>2. ASSUME NEW s \in Senders, NEW u \in Units, Push(s, u)
      PROVE  Abstract!Put(u)
  <2>1. u \notin Taken /\ Taken' = Taken
    BY <1>2 DEF Push, Taken, TypeOK
  <2>2. \A i \in 1..Len(items) : items[i] # u
    BY <1>2 DEF Push, UnsentAbsent
  <2> QED  BY <1>2, <2>1, <2>2 DEF Push, Abstract!Put, Abstract!InQueue, Taken
<1>3. ASSUME NEW s \in Senders, NEW u \in Units, PushRefused(s, u)
      PROVE  items' = items /\ Taken' = Taken /\ closed' = closed
  BY <1>3 DEF PushRefused, Taken, TypeOK
<1>4. ASSUME NEW w \in Workers, PollTake(w) \/ LockedTake(w)
      PROVE  Abstract!Get
  <2>1. TakeHead(w) /\ closed' = closed
    BY <1>4 DEF PollTake, LockedTake
  <2>2. Head(items) \in Units
    BY <2>1, HeadTailProperties DEF TakeHead, TypeOK
  <2>3. Taken' = Taken \cup {Head(items)}
    BY <2>1, <2>2 DEF TakeHead, Taken, TypeOK
  <2> QED  BY <2>1, <2>3 DEF TakeHead, Abstract!Get, Taken
<1>5. ASSUME NEW w \in Workers, Finish(w)
      PROVE  items' = items /\ Taken' = Taken /\ closed' = closed
  BY <1>5 DEF Finish, Taken, TypeOK, HandsTaken
<1>6. CASE Close
  <2>1. Taken' = Taken
    BY <1>6 DEF Close, Taken
  <2> QED  BY <1>6, <2>1 DEF Close, Abstract!AbsNext, Abstract!Shut, Taken
<1>7. ASSUME \/ \E s \in Senders : NotifyOne(s)
             \/ CloseNotify
             \/ \E w \in Workers : \/ StartPoll(w) \/ StopPoll(w) \/ PopNone(w)
                                   \/ Sleep(w) \/ SpuriousWake(w)
      PROVE  items' = items /\ Taken' = Taken /\ closed' = closed
  BY <1>7 DEF NotifyOne, CloseNotify, StartPoll, StopPoll, PopNone, Sleep, SpuriousWake, Taken
<1> QED
  BY <1>1, <1>2, <1>3, <1>4, <1>5, <1>6, <1>7
  DEF Next, WorkerStep, PopStep, Abstract!AbsNext

\* The polling, sleeping, counting queue of queue.rs is a bounded first-in
\* first-out queue that hands each unit out at most once and refuses every
\* unit after close.
THEOREM QueueRefinement == Spec => ImplementsBoundedQueue
<1>1. Init => Abstract!AbsInit
  BY DEF Init, Abstract!AbsInit
<1> QED
  BY <1>1, StepRefines, Invariance, PTL DEF Spec, ImplementsBoundedQueue, Abstract!AbsSpec
=============================================================================
