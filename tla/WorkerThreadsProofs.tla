------------------------- MODULE WorkerThreadsProofs -------------------------
(***************************************************************************)
(* Proofs about WorkerThreads, for any submitters, any size of the pool    *)
(* and any number of threads started: exits are counted once, a short pool *)
(* is noticed, no thread is left without a joiner, the pipe outlives the   *)
(* workers and a close that answers Ok has joined them.                    *)
(***************************************************************************)
EXTENDS WorkerThreads, FiniteSetTheorems, TLAPS

SubTypes == [pc : {"idle", "exited", "pending", "respawn", "recheck", "vec", "reap",
                   "spawn", "await", "remove", "join"},
             new : SUBSET Threads, failed : Threads \cup {0}, err : BOOLEAN]
Holding == {"recheck", "vec", "reap", "spawn", "await", "remove", "join"}
Leaving == {"failed", "marked", "finished"}

(* The inductive invariant.                                                *)

\* Who holds which lock.
Locks ==
    \A s \in Submitters :
        /\ sub[s].pc \in Holding <=> respawn = s
        /\ sub[s].pc \in {"reap", "spawn"} <=> wlock = s

\* Threads are started in order, and registered once they are.
Begun ==
    /\ \E n \in 0..MaxThread : \A i \in Threads : th[i] # "none" <=> i <= n
    /\ \A i \in workers : th[i] # "none"

\* A worker found to have failed is on its way out, and its entry is taken once.
Failing ==
    /\ \A i \in Threads : ready[i] = "err" => th[i] \in Leaving
    /\ \A s \in Submitters :
        /\ sub[s].pc \in {"remove", "join"} =>
            sub[s].failed \in Threads /\ th[sub[s].failed] \in Leaving
        /\ sub[s].pc = "join" => sub[s].failed \notin workers

\* How far a close is.
Closing ==
    /\ closed <=> cl.pc # "open"
    /\ cl.pc = "open" => cl.self = 0
    /\ cl.pc \in {"open", "drain"} => cl.taken = {}
    /\ cl.self \notin cl.taken
    /\ cl.pc \notin {"open", "drain"} => workers = {} /\ wlock = Nobody
    /\ pipeOpen <=> cl.pc \notin {"ok", "done"}
    /\ cl.pc \in {"ok", "done"} => Joined

\* The exits that count.
Counted == Dead \cap (workers \cup Removed)

\* They are all in `exited`, which may keep those of the workers a close took.
Exits ==
    /\ Cardinality(Counted) <= exited
    /\ cl.pc \in {"open", "drain"} => exited = Cardinality(Counted)

\* Without the retry flag the vector is full, and whoever repairs it raised it.
Strength ==
    /\ \A s \in Submitters :
        /\ sub[s].pc \in {"reap", "spawn", "await", "remove", "join"} => pending
        /\ (sub[s].pc \in {"await", "remove"} /\ ~sub[s].err /\ cl.pc \in {"open", "drain"}) =>
                Cardinality(workers) = Pool
    /\ (~pending /\ cl.pc \in {"open", "drain"}) => Cardinality(workers) = Pool

IInv == TypeOK /\ Locks /\ Begun /\ Failing /\ Closing /\ NoOrphan /\ Exits /\ Strength

-----------------------------------------------------------------------------
(* Numbers and sets.                                                       *)

LEMMA Sizes ==
    /\ MaxThread \in Nat /\ Pool \in Nat /\ 1 <= Pool /\ Pool <= MaxThread
    /\ Nobody \notin Submitters /\ 0 \notin Threads
BY ThreadsAssumption DEF Threads

\* Sets of threads are finite.
LEMMA ThreadSets ==
    ASSUME NEW S \in SUBSET Threads
    PROVE  IsFiniteSet(S) /\ Cardinality(S) \in Nat
<1>1. IsFiniteSet(Threads)
  BY Sizes, FS_Interval DEF Threads
<1> QED  BY <1>1, FS_Subset, FS_CardinalityType

\* Dead threads and removed ones are threads.
LEMMA Typed ==
    ASSUME TypeOK
    PROVE  /\ Counted \subseteq Threads
           /\ Cardinality(Counted) \in Nat /\ Cardinality(workers) \in Nat
<1>1. Counted \subseteq Threads
  BY DEF Counted, Dead
<1> QED  BY <1>1, ThreadSets DEF TypeOK

-----------------------------------------------------------------------------
(* Submitters.                                                             *)

\* A submitter moves, and nothing happens to the threads or the vector.
LEMMA SubmitterMoves ==
    ASSUME IInv, NEW s \in Submitters, NEW r \in SubTypes, sub' = [sub EXCEPT ![s] = r],
           UNCHANGED <<threadVars, workers, exited, closeVars>>,
           pending' \in BOOLEAN,
           wlock' \in Submitters \cup {Nobody}, respawn' \in Submitters \cup {Nobody},
           \A q \in Submitters : q # s => (respawn' = q <=> respawn = q) /\ (wlock' = q <=> wlock = q),
           r.pc \in Holding <=> respawn' = s,
           r.pc \in {"reap", "spawn"} <=> wlock' = s,
           cl.pc \notin {"open", "drain"} => wlock' = Nobody,
           sub[s].pc # "join", r.pc # "join",
           r.pc = "remove" => r.failed \in Threads /\ th[r.failed] \in Leaving,
           Strength'
    PROVE  IInv'
<1>1. /\ sub'[s] = r /\ \A q \in Submitters : q # s => sub'[q] = sub[q]
      /\ sub' \in [Submitters -> SubTypes]
  BY DEF IInv, TypeOK, SubTypes
<1>2. TypeOK'
  BY <1>1 DEF IInv, TypeOK, SubTypes, threadVars, closeVars
<1>3. Locks'
  BY <1>1 DEF IInv, Locks
<1>4. Begun'
  BY DEF IInv, Begun, threadVars
<1>5. Failing'
  BY <1>1 DEF IInv, Failing, threadVars
<1>6. Closing'
  BY DEF IInv, Closing, Joined, threadVars, closeVars
<1>7. Removed' = Removed
  BY <1>1 DEF Removed, At
<1>8. NoOrphan'
  BY <1>7 DEF IInv, NoOrphan, ToBeJoined, threadVars, closeVars
<1>9. Exits'
  <2>1. Counted' = Counted
    BY <1>7 DEF Counted, Dead, threadVars
  <2> QED  BY <2>1 DEF IInv, Exits, closeVars
<1> QED  BY <1>2, <1>3, <1>4, <1>5, <1>6, <1>8, <1>9 DEF IInv

\* Of a submitter that moves, that it and the flag keep their word.
LEMMA StrengthMoves ==
    ASSUME IInv, NEW s \in Submitters, NEW r \in SubTypes, sub' = [sub EXCEPT ![s] = r],
           UNCHANGED <<workers, cl>>, pending' = pending \/ pending' = TRUE,
           r.pc \in {"reap", "spawn", "await", "remove", "join"} => pending',
           (r.pc \in {"await", "remove"} /\ ~r.err /\ cl.pc \in {"open", "drain"}) =>
               Cardinality(workers) = Pool
    PROVE  Strength'
<1>1. sub'[s] = r /\ \A q \in Submitters : q # s => sub'[q] = sub[q]
  BY DEF IInv, TypeOK
<1> QED  BY <1>1 DEF IInv, Strength

\* Goto, spelled out.
LEMMA Goes ==
    ASSUME TypeOK, NEW s \in Submitters,
           NEW pc \in {"idle", "exited", "pending", "respawn", "recheck", "vec", "reap",
                       "spawn", "await", "remove", "join"},
           Goto(s, pc)
    PROVE  \E r \in SubTypes : /\ sub' = [sub EXCEPT ![s] = r]
                               /\ r.pc = pc /\ r.new = sub[s].new
                               /\ r.failed = sub[s].failed /\ r.err = sub[s].err
<1> DEFINE r == [sub[s] EXCEPT !.pc = pc]
<1>1. r \in SubTypes /\ r.pc = pc /\ r.new = sub[s].new /\ r.failed = sub[s].failed /\ r.err = sub[s].err
  BY DEF TypeOK, SubTypes
<1>2. sub' = [sub EXCEPT ![s] = r]
  BY DEF TypeOK, Goto
<1> HIDE DEF r
<1> QED  BY <1>1, <1>2, Zenon

LEMMA IdleTyped == IdleSub \in SubTypes /\ IdleSub.pc = "idle"
BY DEF IdleSub, SubTypes

\* What the locks and the flags say of a submitter.
LEMMA Standing ==
    ASSUME IInv, NEW s \in Submitters
    PROVE  /\ pending \in BOOLEAN
           /\ wlock \in Submitters \cup {Nobody} /\ respawn \in Submitters \cup {Nobody}
           /\ cl.pc \notin {"open", "drain"} => wlock = Nobody
           /\ closed <=> cl.pc # "open"
           /\ s # Nobody
           /\ sub[s].pc \in Holding <=> respawn = s
           /\ sub[s].pc \in {"reap", "spawn"} <=> wlock = s
           /\ sub[s].pc \in {"reap", "spawn", "await", "remove", "join"} => pending
           /\ (sub[s].pc \in {"await", "remove"} /\ ~sub[s].err /\ cl.pc \in {"open", "drain"}) =>
                  Cardinality(workers) = Pool
           /\ respawn = s => \A q \in Submitters : q # s => sub[q].pc \notin Holding
<1>1. TypeOK /\ Locks /\ Closing /\ Strength
  BY DEF IInv
<1>2. s # Nobody
  BY Sizes
<1>3. pending \in BOOLEAN /\ wlock \in Submitters \cup {Nobody} /\ respawn \in Submitters \cup {Nobody}
  BY <1>1 DEF TypeOK
<1>4. /\ sub[s].pc \in Holding <=> respawn = s
      /\ sub[s].pc \in {"reap", "spawn"} <=> wlock = s
      /\ respawn = s => \A q \in Submitters : q # s => sub[q].pc \notin Holding
  BY <1>1 DEF Locks
<1>5. (cl.pc \notin {"open", "drain"} => wlock = Nobody) /\ (closed <=> cl.pc # "open")
  BY <1>1 DEF Closing
<1> QED  BY <1>1, <1>2, <1>3, <1>4, <1>5 DEF Strength

LEMMA CheckKeeps ==
    ASSUME IInv, NEW s \in Submitters,
           CheckClosed(s) \/ LoadExited(s) \/ LoadPending(s)
    PROVE  IInv'
<1>1. PICK r \in SubTypes : /\ sub' = [sub EXCEPT ![s] = r]
                            /\ r.pc \in {"idle", "exited", "pending", "respawn"}
  <2>1. CASE CheckClosed(s)
    BY <2>1, Goes DEF CheckClosed, IInv
  <2>2. CASE LoadExited(s)
    BY <2>2, Goes DEF LoadExited, IInv
  <2>3. CASE LoadPending(s)
    BY <2>3, Goes, IdleTyped DEF LoadPending, Return, IInv
  <2> QED  BY <2>1, <2>2, <2>3
<1>2. /\ UNCHANGED <<threadVars, workers, exited, pending, wlock, respawn, closeVars, cl>>
      /\ sub[s].pc \in {"idle", "exited", "pending"}
  BY DEF CheckClosed, LoadExited, LoadPending, closeVars, At
<1>3. /\ pending' \in BOOLEAN /\ wlock' \in Submitters \cup {Nobody} /\ respawn' \in Submitters \cup {Nobody}
      /\ respawn # s /\ wlock # s /\ (cl.pc \notin {"open", "drain"} => wlock' = Nobody)
  BY <1>2, Standing DEF Holding
<1>4. Strength'
  BY <1>1, <1>2, StrengthMoves, Zenon
<1> QED  BY <1>1, <1>2, <1>3, <1>4, SubmitterMoves, Zenon DEF Holding

LEMMA LockRespawnKeeps ==
    ASSUME IInv, NEW s \in Submitters, LockRespawn(s)
    PROVE  IInv'
<1>1. PICK r \in SubTypes : sub' = [sub EXCEPT ![s] = r] /\ r.pc = "recheck"
  BY Goes DEF LockRespawn, IInv
<1>2. /\ UNCHANGED <<threadVars, workers, exited, pending, wlock, closeVars, cl>>
      /\ sub[s].pc = "respawn" /\ respawn = Nobody /\ respawn' = s
  BY DEF LockRespawn, closeVars, At
<1>3. /\ pending' \in BOOLEAN /\ wlock' \in Submitters \cup {Nobody} /\ respawn' \in Submitters \cup {Nobody}
      /\ wlock # s /\ (cl.pc \notin {"open", "drain"} => wlock' = Nobody)
      /\ \A q \in Submitters : respawn # q
  BY <1>2, Standing DEF Holding
<1>4. Strength'
  BY <1>1, <1>2, StrengthMoves, Zenon
<1> QED  BY <1>1, <1>2, <1>3, <1>4, SubmitterMoves, Zenon DEF Holding

LEMMA RecheckKeeps ==
    ASSUME IInv, NEW s \in Submitters, Recheck(s)
    PROVE  IInv'
<1>1. PICK r \in SubTypes : /\ sub' = [sub EXCEPT ![s] = r]
                            /\ \/ r.pc = "vec" /\ respawn' = respawn
                               \/ r.pc = "idle" /\ respawn' = Nobody
  BY Goes, IdleTyped DEF Recheck, Return, IInv
<1>2. /\ UNCHANGED <<threadVars, workers, exited, pending, wlock, closeVars, cl>>
      /\ sub[s].pc = "recheck"
  BY DEF Recheck, closeVars, At
<1>3. /\ pending' \in BOOLEAN /\ wlock' \in Submitters \cup {Nobody} /\ respawn' \in Submitters \cup {Nobody}
      /\ wlock # s /\ (cl.pc \notin {"open", "drain"} => wlock' = Nobody)
      /\ respawn = s /\ s # Nobody
      /\ \A q \in Submitters : q # s => (respawn' = q <=> respawn = q)
  BY <1>1, <1>2, Standing DEF Holding
<1>4. Strength'
  BY <1>1, <1>2, StrengthMoves, Zenon
<1> QED  BY <1>1, <1>2, <1>3, <1>4, SubmitterMoves, Zenon DEF Holding

LEMMA LockWorkersKeeps ==
    ASSUME IInv, NEW s \in Submitters, LockWorkers(s)
    PROVE  IInv'
<1>1. PICK r \in SubTypes : /\ sub' = [sub EXCEPT ![s] = r]
                            /\ \/ r.pc = "idle" /\ respawn' = Nobody /\ wlock' = wlock /\ pending' = pending
                               \/ /\ r.pc = "reap" /\ respawn' = respawn /\ wlock' = s /\ pending' = TRUE
                                  /\ ~closed
  BY Goes, IdleTyped DEF LockWorkers, Return, IInv
<1>2. /\ UNCHANGED <<threadVars, workers, exited, closeVars, cl>>
      /\ sub[s].pc = "vec" /\ wlock = Nobody
  BY DEF LockWorkers, closeVars, At
<1>3. /\ pending' \in BOOLEAN /\ wlock' \in Submitters \cup {Nobody} /\ respawn' \in Submitters \cup {Nobody}
      /\ (cl.pc \notin {"open", "drain"} => wlock' = Nobody)
      /\ respawn = s /\ s # Nobody
      /\ \A q \in Submitters : q # s => (respawn' = q <=> respawn = q) /\ (wlock' = q <=> wlock = q)
  BY <1>1, <1>2, Standing, Zenon DEF Holding
<1>4. Strength'
  BY <1>1, <1>2, StrengthMoves, Zenon
<1> QED  BY <1>1, <1>2, <1>3, <1>4, SubmitterMoves, Zenon DEF Holding

LEMMA AwaitOneKeeps ==
    ASSUME IInv, NEW s \in Submitters, AwaitOne(s)
    PROVE  IInv'
<1>1. sub[s] \in SubTypes /\ sub[s].pc = "await"
      /\ UNCHANGED <<threadVars, workers, exited, pending, wlock, respawn, closeVars, cl>>
  BY DEF AwaitOne, IInv, TypeOK, SubTypes, closeVars, At
<1>2. PICK i \in NextStartup(s) :
        \/ sub' = Collected(s)
        \/ /\ ready[i] = "err" \/ (ready[i] = "none" /\ th[i] \in {"marked", "finished"})
           /\ sub' = [Collected(s) EXCEPT ![s].failed = i, ![s].pc = "remove"]
  BY DEF AwaitOne
<1>3. i \in Threads
  BY <1>1 DEF NextStartup, SubTypes
<1>4. PICK r \in SubTypes : /\ sub' = [sub EXCEPT ![s] = r] /\ r.err = sub[s].err
                            /\ \/ r.pc = "await"
                               \/ r.pc = "remove" /\ r.failed = i /\ th[i] \in Leaving
  <2> DEFINE rest == sub[s].new \ {k \in sub[s].new : \A j \in sub[s].new : k <= j}
             one == [sub[s] EXCEPT !.new = rest]
             two == [sub[s] EXCEPT !.new = rest, !.failed = i, !.pc = "remove"]
  <2>1. rest \in SUBSET Threads
    BY <1>1 DEF SubTypes
  <2> HIDE DEF rest
  <2>2. /\ one \in SubTypes /\ one.err = sub[s].err /\ one.pc = "await"
        /\ two \in SubTypes /\ two.err = sub[s].err /\ two.pc = "remove" /\ two.failed = i
    BY <1>1, <1>3, <2>1, Zenon DEF SubTypes
  <2>3. Collected(s) = [sub EXCEPT ![s] = one]
    BY DEF Collected, rest, IInv, TypeOK
  <2>4. [Collected(s) EXCEPT ![s].failed = i, ![s].pc = "remove"] = [sub EXCEPT ![s] = two]
    BY <2>3, Zenon DEF IInv, TypeOK
  <2>5. ready[i] = "err" \/ (ready[i] = "none" /\ th[i] \in {"marked", "finished"}) => th[i] \in Leaving
    BY <1>3 DEF IInv, Failing, Leaving
  <2> HIDE DEF one, two
  <2> QED  BY <1>2, <2>2, <2>3, <2>4, <2>5, Zenon
<1>5. /\ pending' \in BOOLEAN /\ wlock' \in Submitters \cup {Nobody} /\ respawn' \in Submitters \cup {Nobody}
      /\ wlock # s /\ (cl.pc \notin {"open", "drain"} => wlock' = Nobody)
      /\ respawn = s /\ pending
      /\ (~sub[s].err /\ cl.pc \in {"open", "drain"} => Cardinality(workers) = Pool)
  BY <1>1, Standing DEF Holding
<1>6. Strength'
  BY <1>1, <1>4, <1>5, StrengthMoves, Zenon
<1> QED  BY <1>1, <1>3, <1>4, <1>5, <1>6, SubmitterMoves, Zenon DEF Holding

LEMMA AwaitedKeeps ==
    ASSUME IInv, NEW s \in Submitters, Awaited(s)
    PROVE  IInv'
<1>1. /\ sub[s].pc = "await" /\ sub' = [sub EXCEPT ![s] = IdleSub]
      /\ respawn' = Nobody /\ pending' = (IF sub[s].err THEN pending ELSE FALSE)
      /\ UNCHANGED <<threadVars, workers, exited, wlock, closeVars, cl>>
  BY DEF Awaited, Return, At, closeVars
<1>2. /\ pending' \in BOOLEAN /\ wlock' \in Submitters \cup {Nobody} /\ respawn' \in Submitters \cup {Nobody}
      /\ wlock # s /\ (cl.pc \notin {"open", "drain"} => wlock' = Nobody)
      /\ respawn = s /\ s # Nobody /\ pending
      /\ (~sub[s].err /\ cl.pc \in {"open", "drain"} => Cardinality(workers) = Pool)
      /\ \A q \in Submitters : q # s => (respawn' = q <=> respawn = q) /\ sub[q].pc \notin Holding
  BY <1>1, Standing, Zenon DEF Holding
<1>3. Strength'
  <2>1. sub'[s].pc = "idle" /\ \A q \in Submitters : q # s => sub'[q] = sub[q]
    BY <1>1, IdleTyped DEF IInv, TypeOK
  <2>2. \A q \in Submitters : sub'[q].pc \notin {"reap", "spawn", "await", "remove", "join"}
    BY <2>1, <1>2 DEF Holding
  <2> QED  BY <1>1, <1>2, <2>2 DEF Strength, IInv
<1> QED  BY <1>1, <1>2, <1>3, IdleTyped, SubmitterMoves, Zenon DEF Holding

-----------------------------------------------------------------------------
(* Threads.                                                                *)

\* A thread moves on.
LEMMA ThreadMoves ==
    ASSUME IInv, NEW i \in Threads, NEW x \in {"up", "failed", "marked", "finished"},
           NEW y \in {"none", "ok", "err"},
           th[i] \notin {"none", "finished"}, th[i] \in Leaving => x \in Leaving,
           y = "err" => x \in Leaving,
           th' = [th EXCEPT ![i] = x], ready' = [ready EXCEPT ![i] = y],
           UNCHANGED <<workers, pending, wlock, respawn, sub, closeVars>>,
           exited' \in Nat, Exits'
    PROVE  IInv'
<1>1. /\ th'[i] = x /\ \A k \in Threads : k # i => th'[k] = th[k]
      /\ ready'[i] = y /\ \A k \in Threads : k # i => ready'[k] = ready[k]
  BY DEF IInv, TypeOK
<1>2. TypeOK'
  BY DEF IInv, TypeOK, closeVars
<1>3. Locks' /\ Strength'
  BY DEF IInv, Locks, Strength, closeVars
<1>4. Begun'
  <2>1. \A k \in Threads : th'[k] # "none" <=> th[k] # "none"
    BY <1>1
  <2> QED  BY <2>1 DEF IInv, Begun, TypeOK
<1>5. Failing'
  BY <1>1 DEF IInv, Failing
<1>6. Closing'
  BY <1>1 DEF IInv, Closing, Joined, TypeOK, closeVars
<1>7. NoOrphan'
  <2>1. ToBeJoined' = ToBeJoined /\ cl' = cl
    BY DEF ToBeJoined, Removed, At, closeVars
  <2>2. th[i] \in {"starting", "up", "failed", "marked"}
    BY DEF IInv, TypeOK
  <2> QED  BY <1>1, <2>1, <2>2 DEF IInv, NoOrphan
<1> QED  BY <1>2, <1>3, <1>4, <1>5, <1>6, <1>7 DEF IInv

LEMMA StartUpKeeps ==
    ASSUME IInv, NEW i \in Threads, StartUp(i)
    PROVE  IInv'
<1>1. PICK x \in {"up", "failed"}, y \in {"none", "ok", "err"} :
        /\ th' = [th EXCEPT ![i] = x] /\ ready' = [ready EXCEPT ![i] = y]
        /\ y = "err" => x = "failed"
  <2>1. ready = [ready EXCEPT ![i] = ready[i]] /\ ready[i] \in {"none", "ok", "err"}
        /\ ready[i] # "err"
    BY DEF StartUp, IInv, TypeOK, Failing, Leaving
  <2> QED  BY <2>1 DEF StartUp, Become
<1>2. th[i] = "starting" /\ UNCHANGED <<workers, exited, pending, wlock, respawn, sub, closeVars>>
  BY DEF StartUp
<1>3. Exits' /\ exited' \in Nat
  <2>1. Dead' = Dead
    BY <1>1, <1>2 DEF Dead, IInv, TypeOK
  <2>2. Counted' = Counted
    BY <2>1, <1>2 DEF Counted, Removed, At
  <2> QED  BY <2>2, <1>2 DEF IInv, TypeOK, Exits, closeVars
<1> QED  BY <1>1, <1>2, <1>3, ThreadMoves, Zenon DEF Leaving

\* A worker that dies while the vector is the pool's is still registered there,
\* or a submitter has taken it out and will uncount it.
LEMMA ExitMarkKeeps ==
    ASSUME IInv, NEW i \in Threads, ExitMark(i)
    PROVE  IInv'
<1>1. /\ th[i] \in {"up", "failed"} /\ th' = [th EXCEPT ![i] = "marked"] /\ exited' = exited + 1
      /\ UNCHANGED <<ready, workers, pending, wlock, respawn, sub, closeVars, cl>>
  BY DEF ExitMark, Become, closeVars
<1>2. ready' = [ready EXCEPT ![i] = ready[i]] /\ ready[i] \in {"none", "ok", "err"}
  BY <1>1 DEF IInv, TypeOK
<1>3. exited \in Nat /\ Cardinality(Counted) \in Nat /\ IsFiniteSet(Counted)
  BY Typed, ThreadSets DEF IInv, TypeOK
<1>4. Dead' = Dead \cup {i} /\ i \notin Dead
  BY <1>1 DEF Dead, IInv, TypeOK
<1>5. Removed' = Removed
  BY <1>1 DEF Removed, At
<1>6. Exits'
  <2>1. CASE i \in workers \cup Removed
    <3>1. Counted' = Counted \cup {i} /\ i \notin Counted
      BY <1>1, <1>4, <1>5, <2>1 DEF Counted
    <3>2. Cardinality(Counted') = Cardinality(Counted) + 1
      BY <3>1, <1>3, FS_AddElement
    <3> QED  BY <3>2, <1>1, <1>3 DEF IInv, Exits
  <2>2. CASE i \notin workers \cup Removed
    <3>1. Counted' = Counted
      BY <1>1, <1>4, <1>5, <2>2 DEF Counted
    <3>2. cl.pc \notin {"open", "drain"}
      BY <1>1, <2>2, Sizes DEF IInv, NoOrphan, ToBeJoined, Closing, ExitMark
    <3> QED  BY <3>1, <3>2, <1>1, <1>3 DEF IInv, Exits
  <2> QED  BY <2>1, <2>2
<1>7. exited' \in Nat
  BY <1>1, <1>3
<1>8. ready[i] = "err" => "marked" \in Leaving
  BY DEF Leaving
<1> QED  BY <1>1, <1>2, <1>6, <1>7, <1>8, ThreadMoves, Zenon DEF Leaving

LEMMA ThreadEndsKeeps ==
    ASSUME IInv, NEW i \in Threads, ThreadEnds(i)
    PROVE  IInv'
<1>1. /\ th[i] = "marked" /\ th' = [th EXCEPT ![i] = "finished"]
      /\ UNCHANGED <<ready, workers, exited, pending, wlock, respawn, sub, closeVars>>
  BY DEF ThreadEnds, Become
<1>2. ready' = [ready EXCEPT ![i] = ready[i]] /\ ready[i] \in {"none", "ok", "err"}
  BY <1>1 DEF IInv, TypeOK
<1>3. Exits' /\ exited' \in Nat
  <2>1. Dead' = Dead
    BY <1>1 DEF Dead, IInv, TypeOK
  <2>2. Counted' = Counted
    BY <2>1, <1>1 DEF Counted, Removed, At
  <2> QED  BY <2>2, <1>1 DEF IInv, TypeOK, Exits, closeVars
<1> QED  BY <1>1, <1>2, <1>3, ThreadMoves, Zenon DEF Leaving

-----------------------------------------------------------------------------
(* The vector of workers.                                                  *)

\* Only finished threads leave the vector here, and nobody has one removed.
LEMMA ReapKeeps ==
    ASSUME IInv, NEW s \in Submitters, Reap(s)
    PROVE  IInv'
<1>1. /\ sub[s].pc = "reap" /\ workers' = workers \ Finished
      /\ exited' = exited - Cardinality(Finished)
      /\ UNCHANGED <<threadVars, th, ready, pending, wlock, respawn, closeVars, cl>>
  BY DEF Reap, At, threadVars, closeVars
<1>2. PICK r \in SubTypes : sub' = [sub EXCEPT ![s] = r] /\ r.pc = "spawn"
  BY Goes DEF Reap, IInv
<1>3. /\ sub'[s] = r /\ \A q \in Submitters : q # s => sub'[q] = sub[q]
      /\ sub' \in [Submitters -> SubTypes]
  BY <1>2 DEF IInv, TypeOK, SubTypes
<1>4. /\ respawn = s /\ wlock = s /\ pending /\ cl.pc \in {"open", "drain"} /\ s # Nobody
      /\ \A q \in Submitters : q # s => sub[q].pc \notin Holding
  BY <1>1, Standing DEF Holding
<1>5. Removed = {} /\ Removed' = {}
  BY <1>1, <1>2, <1>3, <1>4 DEF Removed, At, Holding
<1>6. /\ Finished \subseteq Counted /\ Counted' = Counted \ Finished
      /\ Counted \cap Finished = Finished
  BY <1>1, <1>5 DEF Finished, Counted, Dead, IInv, TypeOK
<1>7. /\ Cardinality(Counted') = Cardinality(Counted) - Cardinality(Finished)
      /\ Cardinality(Counted') \in Nat /\ exited = Cardinality(Counted)
  <2>1. Counted \in SUBSET Threads /\ Counted' \in SUBSET Threads
    BY <1>6, Typed DEF IInv
  <2>2. IsFiniteSet(Counted) /\ Cardinality(Counted') \in Nat
    BY <2>1, ThreadSets
  <2>3. Cardinality(Counted \ Finished) = Cardinality(Counted) - Cardinality(Counted \cap Finished)
    BY <2>2, FS_Difference, Zenon
  <2>4. exited = Cardinality(Counted)
    BY <1>4 DEF IInv, Exits
  <2> QED  BY <2>2, <2>3, <2>4, <1>6
<1>8. Exits' /\ exited' \in Nat
  BY <1>1, <1>7 DEF Exits
<1>9. TypeOK'
  BY <1>1, <1>3, <1>8 DEF IInv, TypeOK, SubTypes, closeVars
<1>10. Locks'
  BY <1>1, <1>2, <1>3, <1>4 DEF IInv, Locks, Holding
<1>11. Begun' /\ Failing'
  BY <1>1, <1>2, <1>3 DEF IInv, Begun, Failing
<1>12. Closing'
  BY <1>1, <1>4 DEF IInv, Closing, Joined, closeVars
<1>13. NoOrphan'
  BY <1>1, <1>5 DEF IInv, NoOrphan, ToBeJoined, Finished
<1>14. Strength'
  BY <1>1, <1>2, <1>3, <1>4 DEF Strength, Holding
<1> QED  BY <1>8, <1>9, <1>10, <1>11, <1>12, <1>13, <1>14 DEF IInv

\* The threads a spawn starts were not started before.
LEMMA SpawnsNext ==
    ASSUME IInv, NEW k \in Nat, NextThread..(NextThread + k - 1) \subseteq Threads
    PROVE  \E n \in 0..MaxThread :
               /\ \A i \in Threads : th[i] # "none" <=> i <= n
               /\ NextThread = n + 1 /\ n + k <= MaxThread
<1>1. PICK n \in 0..MaxThread : \A i \in Threads : th[i] # "none" <=> i <= n
  BY DEF IInv, Begun
<1>2. {i \in Threads : th[i] # "none"} = 1..n
  BY <1>1, Sizes DEF Threads
<1>3. Cardinality(1..n) = n
  BY FS_Interval, Sizes
<1>4. NextThread = n + 1
  BY <1>2, <1>3 DEF NextThread
<1>5. n + k <= MaxThread
  <2>1. CASE k = 0
    BY <2>1, Sizes
  <2>2. CASE k # 0
    <3>1. n + k \in NextThread..(NextThread + k - 1)
      BY <1>4, <2>2, Sizes
    <3> QED  BY <3>1, Sizes DEF Threads
  <2> QED  BY <2>1, <2>2
<1> QED  BY <1>1, <1>4, <1>5

LEMMA SpawnKeeps ==
    ASSUME IInv, NEW s \in Submitters, Spawn(s)
    PROVE  IInv'
<1>1. /\ sub[s].pc = "spawn" /\ wlock' = Nobody
      /\ UNCHANGED <<ready, exited, pending, closeVars, closed, cl, pipeOpen>>
  BY DEF Spawn, At, closeVars
<1>2. PICK k \in 0..Needed :
        LET new == NextThread..(NextThread + k - 1) IN
        /\ new \subseteq Threads
        /\ th' = [i \in Threads |-> IF i \in new THEN "starting" ELSE th[i]]
        /\ workers' = workers \cup new
        /\ IF k = Needed
           THEN sub' = [sub EXCEPT ![s].pc = "await", ![s].new = new] /\ UNCHANGED respawn
           ELSE Return(s) /\ respawn' = Nobody
  BY DEF Spawn
<1> DEFINE new == NextThread..(NextThread + k - 1)
<1>3. Cardinality(workers) \in Nat /\ Needed = Pool - Cardinality(workers) /\ k \in Nat
  BY Typed, Sizes DEF IInv, Needed
<1>4. PICK n \in 0..MaxThread :
        /\ \A i \in Threads : th[i] # "none" <=> i <= n
        /\ NextThread = n + 1 /\ n + k <= MaxThread
  BY <1>2, <1>3, SpawnsNext
<1>5. /\ new = (n + 1)..(n + k) /\ new \in SUBSET Threads
      /\ th' = [i \in Threads |-> IF i \in new THEN "starting" ELSE th[i]]
      /\ workers' = workers \cup new
  BY <1>2, <1>3, <1>4
<1>6. Cardinality(new) = k
  BY <1>3, <1>4, <1>5, FS_Interval
<1>7. PICK r \in SubTypes : /\ sub' = [sub EXCEPT ![s] = r]
                            /\ \/ r.pc = "await" /\ k = Needed /\ respawn' = respawn
                               \/ r.pc = "idle" /\ respawn' = Nobody
  <2>1. IF k = Needed
        THEN sub' = [sub EXCEPT ![s].pc = "await", ![s].new = new] /\ UNCHANGED respawn
        ELSE Return(s) /\ respawn' = Nobody
    BY <1>2
  <2> HIDE DEF new
  <2> DEFINE b == [sub[s] EXCEPT !.pc = "await", !.new = new]
  <2>2. b \in SubTypes /\ b.pc = "await"
    <3>1. sub[s] \in SubTypes
      BY DEF SubTypes, IInv, TypeOK
    <3> QED  BY <3>1, <1>5, Zenon DEF SubTypes
  <2>3. [sub EXCEPT ![s].pc = "await", ![s].new = new] = [sub EXCEPT ![s] = b]
    BY Zenon DEF IInv, TypeOK
  <2> HIDE DEF b
  <2> QED  BY <2>1, <2>2, <2>3, IdleTyped, Zenon DEF Return
<1>8. /\ \A i \in Threads : i \in new <=> n < i /\ i <= n + k
      /\ \A i \in new : th[i] = "none" /\ i \notin workers
  <2> HIDE DEF new
  <2>1. \A i \in Threads : i \in new <=> n < i /\ i <= n + k
    BY <1>3, <1>5, Sizes DEF Threads
  <2>2. \A i \in Threads : n < i => th[i] = "none"
    BY <1>4, Sizes DEF Threads
  <2> QED  BY <1>5, <2>1, <2>2 DEF IInv, Begun
<1> HIDE DEF new
<1>9. /\ sub'[s] = r /\ \A q \in Submitters : q # s => sub'[q] = sub[q]
      /\ sub' \in [Submitters -> SubTypes]
  BY <1>7 DEF IInv, TypeOK, SubTypes
<1>10. /\ respawn = s /\ wlock = s /\ pending /\ cl.pc \in {"open", "drain"} /\ s # Nobody
       /\ \A q \in Submitters : q # s => sub[q].pc \notin Holding
  BY <1>1, Standing DEF Holding
<1>11. Removed = {} /\ Removed' = {}
  BY <1>1, <1>7, <1>9, <1>10 DEF Removed, At, Holding
<1>12. TypeOK'
  BY <1>1, <1>5, <1>7, <1>9 DEF IInv, TypeOK, SubTypes
<1>13. Locks'
  <2>1. r.pc \in Holding <=> respawn' = s
    BY <1>7, <1>10 DEF Holding
  <2>2. \A q \in Submitters : q # s => respawn # q /\ respawn' # q /\ wlock # q /\ wlock' # q
    BY <1>1, <1>7, <1>10, Sizes
  <2>3. r.pc \notin {"reap", "spawn"} /\ wlock' # s
    BY <1>1, <1>7, <1>10
  <2> QED  BY <1>9, <2>1, <2>2, <2>3 DEF IInv, Locks
<1>14. Begun'
  <2>1. n + k \in 0..MaxThread /\ \A i \in Threads : th'[i] # "none" <=> i <= n + k
    BY <1>3, <1>4, <1>5, <1>8, Sizes DEF Threads
  <2>2. \A i \in workers' : th'[i] # "none"
    BY <1>5, <1>8 DEF IInv, Begun, TypeOK
  <2> QED  BY <2>1, <2>2 DEF Begun
<1>15. Failing'
  BY <1>1, <1>5, <1>7, <1>8, <1>9, <1>10 DEF IInv, Failing, Holding, Leaving
<1>16. Closing'
  BY <1>1, <1>10 DEF IInv, Closing, Joined
<1>17. NoOrphan'
  BY <1>1, <1>5, <1>10, <1>11 DEF IInv, NoOrphan, ToBeJoined
<1>18. Exits'
  <2>1. Dead' = Dead
    BY <1>5, <1>8, Zenon DEF Dead
  <2>2. Counted' = Counted
    BY <2>1, <1>5, <1>8, <1>11, Zenon DEF Counted, Dead
  <2> QED  BY <2>2, <1>1 DEF IInv, Exits
<1>19. Strength'
  <2>1. k = Needed => Cardinality(workers') = Pool
    <3>1. IsFiniteSet(workers) /\ IsFiniteSet(new) /\ workers \cap new = {}
      BY <1>5, <1>8, ThreadSets DEF IInv, TypeOK
    <3>2. Cardinality(workers \cup new) = Cardinality(workers) + k - 0
      BY <3>1, <1>6, FS_Union, FS_EmptySet
    <3> QED  BY <3>2, <1>3, <1>5, Sizes
  <2> QED  BY <2>1, <1>1, <1>7, <1>9, <1>10 DEF Strength, Holding
<1> QED  BY <1>12, <1>13, <1>14, <1>15, <1>16, <1>17, <1>18, <1>19 DEF IInv

LEMMA RemoveFailedKeeps ==
    ASSUME IInv, NEW s \in Submitters, RemoveFailed(s)
    PROVE  IInv'
<1> DEFINE f == sub[s].failed
<1>1. /\ sub[s].pc = "remove" /\ workers' = workers \ {f}
      /\ UNCHANGED <<threadVars, th, ready, exited, wlock, respawn, closeVars, cl>>
  BY DEF RemoveFailed, At, threadVars, closeVars
<1>2. /\ respawn = s /\ wlock # s /\ pending /\ (cl.pc \notin {"open", "drain"} => wlock = Nobody)
      /\ \A q \in Submitters : q # s => sub[q].pc \notin Holding
  BY <1>1, Standing DEF Holding
<1>3. f \in Threads /\ th[f] \in Leaving
  BY <1>1 DEF IInv, Failing
<1>4. CASE f \notin workers
  <2> DEFINE b == [sub[s] EXCEPT !.pc = "await", !.failed = 0, !.err = TRUE]
  <2>1. b \in SubTypes /\ b.pc = "await" /\ b.err
    <3>1. sub[s] \in SubTypes
      BY DEF SubTypes, IInv, TypeOK
    <3> QED  BY <3>1, Zenon DEF SubTypes
  <2>2. sub' = [sub EXCEPT ![s] = b] /\ pending' = TRUE /\ workers' = workers
    <3>1. sub' = [sub EXCEPT ![s].pc = "await", ![s].failed = 0, ![s].err = TRUE] /\ pending' = TRUE
      BY <1>4 DEF RemoveFailed
    <3>2. sub' = [sub EXCEPT ![s] = b]
      BY <3>1, Zenon DEF IInv, TypeOK
    <3> HIDE DEF b
    <3> QED  BY <1>1, <1>4, <3>1, <3>2, Zenon
  <2> HIDE DEF b
  <2>3. Strength'
    BY <2>1, <2>2, <1>1, StrengthMoves, Zenon
  <2>4. wlock \in Submitters \cup {Nobody} /\ respawn \in Submitters \cup {Nobody}
    BY DEF IInv, TypeOK
  <2> QED  BY <2>1, <2>2, <2>3, <2>4, <1>1, <1>2, SubmitterMoves, Zenon DEF Holding
<1>5. CASE f \in workers
  <2>1. PICK r \in SubTypes : sub' = [sub EXCEPT ![s] = r] /\ r.pc = "join" /\ r.failed = f
    BY <1>5, Goes DEF RemoveFailed, IInv
  <2>2. /\ sub'[s] = r /\ \A q \in Submitters : q # s => sub'[q] = sub[q]
        /\ sub' \in [Submitters -> SubTypes]
    BY <2>1 DEF IInv, TypeOK, SubTypes
  <2>3. pending' = pending
    BY <1>5 DEF RemoveFailed
  <2>4. Removed = {} /\ Removed' = {f}
    BY <1>1, <1>2, <2>1, <2>2 DEF Removed, At, Holding
  <2>5. cl.pc \in {"open", "drain"}
    BY <1>5 DEF IInv, Closing
  <2> HIDE DEF f
  <2>6. TypeOK'
    BY <1>1, <2>2, <2>3 DEF IInv, TypeOK, SubTypes, closeVars
  <2>7. Locks'
    BY <1>1, <1>2, <2>1, <2>2 DEF IInv, Locks, Holding
  <2>8. Begun' /\ Closing'
    BY <1>1, <2>5 DEF IInv, Begun, Closing, Joined, closeVars
  <2>9. Failing'
    BY <1>1, <1>2, <1>3, <2>1, <2>2 DEF IInv, Failing, Holding
  <2>10. workers' \cup Removed' = workers \cup Removed
    BY <1>1, <1>5, <2>4
  <2>11. NoOrphan'
    BY <1>1, <2>5, <2>10 DEF IInv, NoOrphan, ToBeJoined
  <2>12. Exits'
    <3>1. Counted' = Counted
      BY <1>1, <2>10 DEF Counted, Dead
    <3> QED  BY <3>1, <1>1 DEF IInv, Exits
  <2>13. Strength'
    BY <1>1, <1>2, <2>1, <2>2, <2>3 DEF Strength, Holding
  <2> QED  BY <2>6, <2>7, <2>8, <2>9, <2>11, <2>12, <2>13 DEF IInv
<1> QED  BY <1>4, <1>5

LEMMA JoinFailedKeeps ==
    ASSUME IInv, NEW s \in Submitters, JoinFailed(s)
    PROVE  IInv'
<1> DEFINE f == sub[s].failed
           b == [sub[s] EXCEPT !.pc = "await", !.failed = 0, !.err = TRUE]
<1>1. /\ sub[s].pc = "join" /\ th[f] = "finished" /\ exited' = exited - 1 /\ pending' = TRUE
      /\ UNCHANGED <<threadVars, th, ready, workers, wlock, respawn, closeVars, cl>>
  BY DEF JoinFailed, At, threadVars, closeVars
<1>2. b \in SubTypes /\ b.pc = "await" /\ b.err
  <2>1. sub[s] \in SubTypes
    BY DEF SubTypes, IInv, TypeOK
  <2> QED  BY <2>1, Zenon DEF SubTypes
<1>3. sub' = [sub EXCEPT ![s] = b]
  BY Zenon DEF JoinFailed, IInv, TypeOK
<1> HIDE DEF b
<1>4. /\ sub'[s] = b /\ \A q \in Submitters : q # s => sub'[q] = sub[q]
      /\ sub' \in [Submitters -> SubTypes]
  BY <1>2, <1>3 DEF IInv, TypeOK, SubTypes
<1>5. /\ respawn = s /\ wlock # s
      /\ \A q \in Submitters : q # s => sub[q].pc \notin Holding
  BY <1>1, Standing DEF Holding
<1>6. f \in Threads /\ f \notin workers
  BY <1>1 DEF IInv, Failing
<1>7. Removed = {f} /\ Removed' = {}
  BY <1>1, <1>2, <1>4, <1>5 DEF Removed, At, Holding
<1> HIDE DEF f
<1>8. f \in Counted /\ Counted' = Counted \ {f}
  BY <1>1, <1>6, <1>7 DEF Counted, Dead
<1>9. /\ Cardinality(Counted') = Cardinality(Counted) - 1 /\ Cardinality(Counted') \in Nat
      /\ Cardinality(Counted) \in Nat /\ exited \in Nat
  <2>1. Counted \in SUBSET Threads /\ Counted' \in SUBSET Threads
    BY <1>8, Typed DEF IInv
  <2>2. IsFiniteSet(Counted) /\ Cardinality(Counted') \in Nat /\ Cardinality(Counted) \in Nat
    BY <2>1, ThreadSets
  <2>3. Cardinality(Counted \ {f}) = Cardinality(Counted) - 1
    BY <2>2, <1>8, FS_RemoveElement
  <2> QED  BY <2>2, <2>3, <1>8 DEF IInv, TypeOK
<1>10. Exits' /\ exited' \in Nat
  BY <1>1, <1>9 DEF IInv, Exits
<1>11. TypeOK'
  BY <1>1, <1>4, <1>10 DEF IInv, TypeOK, SubTypes, closeVars
<1>12. Locks'
  BY <1>1, <1>2, <1>4, <1>5 DEF IInv, Locks, Holding
<1>13. Begun' /\ Failing'
  BY <1>1, <1>2, <1>4 DEF IInv, Begun, Failing
<1>14. Closing'
  BY <1>1 DEF IInv, Closing, Joined, closeVars
<1>15. NoOrphan'
  BY <1>1, <1>7 DEF IInv, NoOrphan, ToBeJoined
<1>16. Strength'
  BY <1>1, <1>2, <1>4 DEF IInv, Strength
<1> QED  BY <1>10, <1>11, <1>12, <1>13, <1>14, <1>15, <1>16 DEF IInv

-----------------------------------------------------------------------------
(* Close.                                                                  *)

CloseTypes == [pc : {"open", "drain", "join", "late", "ok", "done"}, self : Threads \cup {0},
               taken : SUBSET Threads, keeper : BOOLEAN]

\* A close moves, and the vector and the threads stay.
LEMMA CloseMoves ==
    ASSUME IInv, NEW c \in CloseTypes, cl' = c,
           UNCHANGED <<threadVars, th, ready, workers, exited, pending, wlock, respawn, sub>>,
           closed' \in BOOLEAN, pipeOpen' \in BOOLEAN,
           c.pc \in {"open", "drain"} => cl.pc \in {"open", "drain"},
           c.taken = cl.taken, c.self = cl.self \/ cl.self = 0,
           cl.pc \in {"open", "drain"} <=> c.pc \in {"open", "drain"},
           Closing'
    PROVE  IInv'
<1>1. TypeOK'
  BY DEF IInv, TypeOK, CloseTypes
<1>2. Locks' /\ Begun' /\ Failing' /\ Strength'
  BY DEF IInv, Locks, Begun, Failing, Strength
<1>3. Removed' = Removed /\ Dead' = Dead
  BY DEF Removed, At, Dead
<1>4. NoOrphan'
  <2>1. ToBeJoined' = ToBeJoined
    BY <1>3 DEF ToBeJoined
  <2> QED  BY <2>1, Sizes DEF IInv, NoOrphan
<1>5. Exits'
  BY <1>3 DEF IInv, Exits, Counted
<1> QED  BY <1>1, <1>2, <1>4, <1>5 DEF IInv

LEMMA CloseStartKeeps ==
    ASSUME IInv, CloseBegin \/ DropBegin
    PROVE  IInv'
<1>1. /\ cl \in CloseTypes /\ cl.pc = "open" /\ cl.self = 0 /\ cl.taken = {} /\ ~closed /\ pipeOpen
      /\ pipeOpen \in BOOLEAN
  BY Zenon DEF CloseBegin, DropBegin, IInv, TypeOK, Closing, CloseTypes
<1>2. PICK c \in CloseTypes : cl' = c /\ c.pc = "drain" /\ c.taken = {}
  <2>1. CASE CloseBegin
    <3> DEFINE d == [cl EXCEPT !.pc = "drain", !.keeper = TRUE]
    <3>1. cl' = d
      BY <2>1 DEF CloseBegin
    <3>2. d \in CloseTypes /\ d.pc = "drain" /\ d.taken = {}
      BY <1>1, Zenon DEF CloseTypes
    <3> HIDE DEF d
    <3> QED  BY <3>1, <3>2, Zenon
  <2>2. CASE DropBegin
    <3>1. PICK i \in {0} \cup Threads : cl' = [cl EXCEPT !.pc = "drain", !.self = i]
      BY <2>2, Zenon DEF DropBegin
    <3> DEFINE d == [cl EXCEPT !.pc = "drain", !.self = i]
    <3>2. d \in CloseTypes /\ d.pc = "drain" /\ d.taken = {}
      BY <1>1, Zenon DEF CloseTypes
    <3> QED  BY <3>1, <3>2, Zenon
  <2> QED  BY <2>1, <2>2
<1>3. /\ UNCHANGED <<threadVars, th, ready, workers, exited, pending, wlock, respawn, sub, pipeOpen>>
      /\ closed' = TRUE
  BY Zenon DEF CloseBegin, DropBegin, threadVars
<1>4. Closing'
  BY <1>1, <1>2, <1>3 DEF Closing
<1>5. closed' \in BOOLEAN /\ pipeOpen' \in BOOLEAN
  BY <1>1, <1>3
<1> QED  BY <1>1, <1>2, <1>3, <1>4, <1>5, CloseMoves, Zenon

LEMMA CloseEndKeeps ==
    ASSUME IInv, CloseJoined \/ CloseTimesOut
    PROVE  IInv'
<1>1. /\ cl \in CloseTypes /\ cl.pc \in {"join", "late"} /\ closed /\ pipeOpen /\ workers = {}
      /\ wlock = Nobody /\ pipeOpen \in BOOLEAN /\ closed \in BOOLEAN
  BY DEF CloseJoined, CloseTimesOut, IInv, TypeOK, Closing, CloseTypes
<1>2. PICK c \in CloseTypes : /\ cl' = c /\ c.taken = cl.taken /\ c.self = cl.self
                              /\ \/ c.pc \in {"ok", "done"} /\ pipeOpen' = FALSE /\ Joined
                                 \/ c.pc = "late" /\ pipeOpen' = pipeOpen
  <2>1. CASE CloseJoined
    <3> DEFINE d == [cl EXCEPT !.pc = IF cl.pc = "join" THEN "ok" ELSE "done"]
    <3>1. cl' = d /\ pipeOpen' = FALSE /\ Joined
      BY <2>1 DEF CloseJoined
    <3>2. d \in CloseTypes /\ d.pc \in {"ok", "done"} /\ d.taken = cl.taken /\ d.self = cl.self
      BY <1>1 DEF CloseTypes
    <3> HIDE DEF d
    <3> QED  BY <3>1, <3>2, Zenon
  <2>2. CASE CloseTimesOut
    <3> DEFINE d == [cl EXCEPT !.pc = "late"]
    <3>1. cl' = d /\ pipeOpen' = pipeOpen
      BY <2>2 DEF CloseTimesOut
    <3>2. d \in CloseTypes /\ d.pc = "late" /\ d.taken = cl.taken /\ d.self = cl.self
      BY <1>1 DEF CloseTypes
    <3> HIDE DEF d
    <3> QED  BY <3>1, <3>2, Zenon
  <2> QED  BY <2>1, <2>2, Zenon
<1>3. UNCHANGED <<threadVars, th, ready, workers, exited, pending, wlock, respawn, sub, closed>>
  BY DEF CloseJoined, CloseTimesOut, threadVars
<1>4. Closing'
  BY <1>1, <1>2, <1>3, Zenon DEF IInv, Closing, Joined
<1>5. closed' \in BOOLEAN /\ pipeOpen' \in BOOLEAN
  BY <1>1, <1>2, <1>3, Zenon
<1>6. c.pc \notin {"open", "drain"} /\ cl.pc \notin {"open", "drain"}
  BY <1>1, <1>2, Zenon
<1> QED  BY <1>2, <1>3, <1>4, <1>5, <1>6, CloseMoves, Zenon

LEMMA CloseDrainKeeps ==
    ASSUME IInv, CloseDrain
    PROVE  IInv'
<1>1. /\ cl \in CloseTypes /\ cl.pc = "drain" /\ wlock = Nobody /\ workers' = {} /\ closed /\ pipeOpen
      /\ workers \in SUBSET Threads /\ cl.taken = {}
      /\ UNCHANGED <<threadVars, th, ready, exited, pending, wlock, respawn, sub, closed, pipeOpen>>
  BY DEF CloseDrain, IInv, TypeOK, Closing, CloseTypes, threadVars
<1>2. PICK c \in CloseTypes : /\ cl' = c /\ c.pc = "join" /\ c.self = cl.self
                              /\ c.taken = workers \ {cl.self}
  <2> DEFINE d == [cl EXCEPT !.pc = "join", !.taken = workers \ {cl.self}]
  <2>1. cl' = d
    BY DEF CloseDrain
  <2>2. d \in CloseTypes /\ d.pc = "join" /\ d.self = cl.self /\ d.taken = workers \ {cl.self}
    <3>1. workers \ {cl.self} \in SUBSET Threads
      BY <1>1
    <3> QED  BY <1>1, <3>1, Zenon DEF CloseTypes
  <2> HIDE DEF d
  <2> QED  BY <2>1, <2>2, Zenon
<1>3. TypeOK'
  BY <1>1, <1>2 DEF IInv, TypeOK, CloseTypes
<1>4. Locks' /\ Begun' /\ Failing' /\ Strength'
  BY <1>1, <1>2 DEF IInv, Locks, Begun, Failing, Strength
<1>5. Closing'
  BY <1>1, <1>2 DEF Closing
<1>6. Removed' = Removed /\ Dead' = Dead
  BY <1>1 DEF Removed, At, Dead
<1>7. NoOrphan'
  BY <1>1, <1>2, <1>6 DEF IInv, NoOrphan, ToBeJoined
<1>8. Exits'
  <2>1. Counted' \subseteq Counted
    BY <1>1, <1>6 DEF Counted
  <2>2. Counted \in SUBSET Threads /\ IsFiniteSet(Counted)
    BY Typed, ThreadSets DEF IInv
  <2>3. Cardinality(Counted') <= Cardinality(Counted)
    BY <2>1, <2>2, FS_Subset
  <2> QED  BY <2>3, <1>1, <1>2 DEF IInv, Exits
<1> QED  BY <1>3, <1>4, <1>5, <1>7, <1>8 DEF IInv

-----------------------------------------------------------------------------
(* The invariant and what follows from it.                                 *)

LEMMA Initially == Init => IInv
<1> SUFFICES ASSUME Init PROVE IInv  OBVIOUS
<1>1. PICK slow \in SUBSET (1..Pool) :
        /\ th = [i \in Threads |-> IF i \in slow THEN "starting" ELSE IF i <= Pool THEN "up" ELSE "none"]
        /\ ready = [i \in Threads |-> IF i \in (1..Pool) \ slow THEN "ok" ELSE "none"]
  BY Zenon DEF Init
<1>2. /\ workers = 1..Pool /\ 1..Pool \subseteq Threads /\ Pool \in 0..MaxThread
      /\ \A i \in Threads : i \in 1..Pool <=> i <= Pool
  BY Sizes DEF Init, Threads
<1>3. /\ \A i \in Threads : th[i] # "none" <=> i <= Pool
      /\ \A i \in Threads : th[i] \in {"starting", "up", "none"} /\ ready[i] \in {"none", "ok"}
  BY <1>1, <1>2, Zenon
<1>4. \A s \in Submitters : sub[s] = IdleSub
  BY DEF Init
<1>5. TypeOK
  BY <1>1, <1>2, IdleTyped, Zenon DEF Init, TypeOK, SubTypes
<1>6. Locks
  BY <1>4, Sizes DEF Init, Locks, IdleSub, Holding
<1>7. Begun
  BY <1>2, <1>3 DEF Begun
<1>8. Failing
  BY <1>3, <1>4 DEF Failing, IdleSub
<1>9. Closing
  BY DEF Init, Closing
<1>10. NoOrphan
  BY <1>2, <1>3 DEF Init, NoOrphan, ToBeJoined
<1>11. Exits
  <2>1. Counted = {}
    BY <1>3 DEF Counted, Dead
  <2> QED  BY <2>1, FS_EmptySet DEF Init, Exits
<1>12. Strength
  <2>1. Cardinality(workers) = Pool
    BY <1>2, Sizes, FS_Interval
  <2> QED  BY <2>1, <1>4 DEF Strength, IdleSub
<1> QED  BY <1>5, <1>6, <1>7, <1>8, <1>9, <1>10, <1>11, <1>12 DEF IInv

LEMMA Inductive == IInv /\ [Next]_vars => IInv'
<1> SUFFICES ASSUME IInv, [Next]_vars PROVE IInv'  OBVIOUS
<1>1. ASSUME NEW i \in Threads, ThreadStep(i) PROVE IInv'
  BY <1>1, StartUpKeeps, ExitMarkKeeps, ThreadEndsKeeps DEF ThreadStep
<1>2. ASSUME NEW s \in Submitters, CheckClosed(s) \/ EnsureStep(s) PROVE IInv'
  BY <1>2, CheckKeeps, LockRespawnKeeps, RecheckKeeps, LockWorkersKeeps, ReapKeeps, SpawnKeeps,
     AwaitOneKeeps, RemoveFailedKeeps, JoinFailedKeeps, AwaitedKeeps DEF EnsureStep
<1>3. CASE CloseBegin \/ DropBegin \/ CloseStep \/ CloseTimesOut
  BY <1>3, CloseStartKeeps, CloseDrainKeeps, CloseEndKeeps DEF CloseStep
<1>4. CASE UNCHANGED vars
  BY <1>4 DEF vars, threadVars, closeVars, IInv, TypeOK, Locks, Begun, Failing, Closing, Joined,
              NoOrphan, ToBeJoined, Removed, At, Exits, Counted, Dead, Strength
<1> QED  BY <1>1, <1>2, <1>3, <1>4 DEF Next

LEMMA Invariant == Spec => []IInv
BY Initially, Inductive, PTL DEF Spec

\* `exited` counts each death in the pool once and never wraps, and a submit
\* that finds the pool short sees it: ExitMark, Reap, the join of a failed
\* worker and the retry flag agree, whatever close, drop or death races them.
THEOREM PoolIsCounted == Spec => []PoolCounted
<1>1. IInv => PoolCounted
  <2> SUFFICES ASSUME IInv PROVE PoolCounted  OBVIOUS
  <2>1. ExitedExact
    BY DEF IInv, ExitedExact, Exits, Counted
  <2>2. ShortPoolNoticed
    <3> SUFFICES ASSUME ~closed, respawn = Nobody, ~(exited > 0), ~pending
                 PROVE  Cardinality({i \in workers : th[i] \in {"starting", "up", "failed"}}) = Pool
      BY DEF ShortPoolNoticed
    <3>1. cl.pc = "open" /\ Cardinality(workers) = Pool
      BY DEF IInv, Closing, Strength
    <3>2. exited = Cardinality(Counted) /\ exited \in Nat /\ IsFiniteSet(Counted)
      BY <3>1, Typed, ThreadSets DEF IInv, Exits, TypeOK
    <3>3. Counted = {}
      BY <3>2, FS_EmptySet
    <3>4. {i \in workers : th[i] \in {"starting", "up", "failed"}} = workers
      BY <3>3 DEF Counted, Dead, IInv, TypeOK, Begun
    <3> QED  BY <3>1, <3>4
  <2> QED  BY <2>1, <2>2 DEF PoolCounted
<1> QED  BY <1>1, Invariant, PTL

\* Every thread that has not ended has somebody who will join it, the worker that
\* drops its own handle excepted; the write end of the pipe outlives every other
\* worker that may write to it; and a close that answered Ok, or its joiner once it
\* is over, has seen the threads it took end (join_workers, release_pipe).
THEOREM NothingIsLeftBehind == Spec => []NothingLeftBehind
<1>1. IInv => NothingLeftBehind
  <2> SUFFICES ASSUME IInv PROVE NothingLeftBehind  OBVIOUS
  <2>1. ASSUME ~pipeOpen, NEW i \in Threads \ {cl.self}, th[i] \in {"starting", "up"}
        PROVE  FALSE
    <3>1. cl.pc \in {"ok", "done"} /\ Joined
      BY <2>1 DEF IInv, Closing
    <3>2. i \in cl.taken \cup Removed
      BY <2>1, <3>1 DEF IInv, NoOrphan, ToBeJoined
    <3>3. i \notin cl.taken
      BY <2>1, <3>1 DEF Joined
    <3>4. i \notin Removed
      BY <2>1 DEF IInv, Failing, Removed, At, Leaving
    <3> QED  BY <3>2, <3>3, <3>4
  <2>2. PipeOutlivesWorkers
    BY <2>1 DEF PipeOutlivesWorkers, IInv, Closing
  <2>3. ASSUME cl.pc \in {"ok", "done"}, NEW i \in Threads \ (Removed \cup {cl.self})
        PROVE  th[i] \in {"none", "finished"}
    <3>1. Joined /\ th[i] \in {"none", "starting", "up", "failed", "marked", "finished"}
      BY <2>3 DEF IInv, Closing, TypeOK
    <3>2. th[i] \in {"starting", "up", "failed", "marked"} => i \in cl.taken
      BY <2>3 DEF IInv, NoOrphan, ToBeJoined
    <3> QED  BY <3>1, <3>2 DEF Joined
  <2>4. ClosedMeansJoined
    BY <2>3 DEF ClosedMeansJoined, IInv, Closing
  <2> QED  BY <2>2, <2>4 DEF NothingLeftBehind, IInv
<1> QED  BY <1>1, Invariant, PTL
=============================================================================
