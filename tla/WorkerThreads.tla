---------------------------- MODULE WorkerThreads ----------------------------
(***************************************************************************)
(* The OS threads of a pool: how they start and report (pool/worker.rs,    *)
(* spawn_workers_locked, await_ready), how `submit` replaces the ones that *)
(* died (ensure_workers), and how a close or a drop of the handle joins    *)
(* them and gives up the completion pipe (pool/lifecycle.rs, close_within, *)
(* join_workers, release_pipe).                                            *)
(*                                                                         *)
(* A hold of the `workers` lock that changes an atomic another thread may  *)
(* read is several actions with `wlock` held; `respawn` is the holder of   *)
(* respawn_lock.  A thread may die at any time; ExitMark counts it before  *)
(* it can be seen finished.  Startup and join budgets may run out at any   *)
(* time.                                                                   *)
(***************************************************************************)
EXTENDS Integers, FiniteSets

CONSTANTS Submitters,  \* threads inside `submit`
          MaxThread,   \* threads ever started
          Pool,        \* Handle.pool_size
          Nobody

ASSUME ThreadsAssumption ==
    /\ IsFiniteSet(Submitters)
    /\ Nobody \notin Submitters
    /\ MaxThread \in Nat
    /\ Pool \in 1..MaxThread

Threads == 1..MaxThread

VARIABLES
    th,       \* each thread: none, starting, up (in its loop), failed, marked, finished
    ready,    \* each thread's startup report
    workers,  \* Handle.workers
    exited,   \* Handle.exited
    pending,  \* Handle.respawn_pending
    wlock,    \* the submitter that holds `workers`, or Nobody
    respawn,  \* the submitter that holds `respawn_lock`, or Nobody
    sub,      \* each submitter: pc, the startups it waits for, the failed one it
              \* joins, whether one failed
    closed,   \* Handle.closed
    cl,       \* the one close that goes past the swap: pc, the worker thread it
              \* runs on (0 if none), the threads it joins, whether it can give up
    pipeOpen  \* pipe_write_fd is published and not released

threadVars == <<th, ready>>
closeVars == <<closed, cl, pipeOpen>>
vars == <<threadVars, workers, exited, pending, wlock, respawn, sub, closeVars>>

IdleSub == [pc |-> "idle", new |-> {}, failed |-> 0, err |-> FALSE]

TypeOK ==
    /\ th \in [Threads -> {"none", "starting", "up", "failed", "marked", "finished"}]
    /\ ready \in [Threads -> {"none", "ok", "err"}]
    /\ workers \subseteq Threads
    /\ exited \in Nat
    /\ pending \in BOOLEAN
    /\ wlock \in Submitters \cup {Nobody}
    /\ respawn \in Submitters \cup {Nobody}
    /\ sub \in [Submitters -> [pc : {"idle", "exited", "pending", "respawn", "recheck", "vec", "reap",
                                     "spawn", "await", "remove", "join"},
                               new : SUBSET Threads, failed : Threads \cup {0}, err : BOOLEAN]]
    /\ closed \in BOOLEAN
    /\ cl \in [pc : {"open", "drain", "join", "late", "ok", "done"}, self : Threads \cup {0},
               taken : SUBSET Threads, keeper : BOOLEAN]
    /\ pipeOpen \in BOOLEAN

\* A pool that `open` has brought up: every worker has reported, or was too
\* slow and let through.
Init ==
    /\ \E slow \in SUBSET (1..Pool) :
        /\ th = [i \in Threads |-> IF i \in slow THEN "starting" ELSE IF i <= Pool THEN "up" ELSE "none"]
        /\ ready = [i \in Threads |-> IF i \in (1..Pool) \ slow THEN "ok" ELSE "none"]
    /\ workers = 1..Pool
    /\ exited = 0 /\ pending = FALSE
    /\ wlock = Nobody /\ respawn = Nobody
    /\ sub = [s \in Submitters |-> IdleSub]
    /\ closed = FALSE
    /\ cl = [pc |-> "open", self |-> 0, taken |-> {}, keeper |-> FALSE]
    /\ pipeOpen = TRUE

-----------------------------------------------------------------------------
(* A worker thread. *)

Become(i, s) == th' = [th EXCEPT ![i] = s]

\* The report on its alternate signal stack, or death before any report.
StartUp(i) ==
    /\ th[i] = "starting"
    /\ \/ Become(i, "up") /\ ready' = [ready EXCEPT ![i] = "ok"]
       \/ Become(i, "failed") /\ ready' = [ready EXCEPT ![i] = "err"]
       \/ Become(i, "failed") /\ UNCHANGED ready
    /\ UNCHANGED <<workers, exited, pending, wlock, respawn, sub, closeVars>>

\* ExitMark: after the loop ends at a closed queue, after a failed start, or
\* because the thread died.  A worker inside a close of its own is not there.
ExitMark(i) ==
    /\ th[i] \in {"up", "failed"}
    /\ cl.self = i => cl.pc \in {"ok", "done"}
    /\ Become(i, "marked")
    /\ exited' = exited + 1
    /\ UNCHANGED <<ready, workers, pending, wlock, respawn, sub, closeVars>>

ThreadEnds(i) ==
    /\ th[i] = "marked"
    /\ Become(i, "finished")
    /\ UNCHANGED <<ready, workers, exited, pending, wlock, respawn, sub, closeVars>>

-----------------------------------------------------------------------------
(* ensure_workers. *)

At(s, pc) == sub[s].pc = pc
Goto(s, pc) == sub' = [sub EXCEPT ![s].pc = pc]
Return(s) == sub' = [sub EXCEPT ![s] = IdleSub]

\* submit_classified looks at `closed` some time before ensure_workers runs.
CheckClosed(s) ==
    /\ At(s, "idle") /\ ~closed
    /\ Goto(s, "exited")
    /\ UNCHANGED <<threadVars, workers, exited, pending, wlock, respawn, closeVars>>

LoadExited(s) ==
    /\ At(s, "exited")
    /\ Goto(s, IF exited = 0 THEN "pending" ELSE "respawn")
    /\ UNCHANGED <<threadVars, workers, exited, pending, wlock, respawn, closeVars>>

LoadPending(s) ==
    /\ At(s, "pending")
    /\ IF pending THEN Goto(s, "respawn") ELSE Return(s)
    /\ UNCHANGED <<threadVars, workers, exited, pending, wlock, respawn, closeVars>>

LockRespawn(s) ==
    /\ At(s, "respawn") /\ respawn = Nobody
    /\ respawn' = s
    /\ Goto(s, "recheck")
    /\ UNCHANGED <<threadVars, workers, exited, pending, wlock, closeVars>>

\* One step: under respawn_lock nobody else changes `pending` or lowers `exited`.
Recheck(s) ==
    /\ At(s, "recheck")
    /\ \/ (exited # 0 \/ pending) /\ Goto(s, "vec") /\ UNCHANGED respawn
       \/ exited = 0 /\ ~pending /\ Return(s) /\ respawn' = Nobody
    /\ UNCHANGED <<threadVars, workers, exited, pending, wlock, closeVars>>

\* Mutant: the handle is not looked at again under the `workers` lock.
LockWorkersUnchecked(s) ==
    /\ At(s, "vec") /\ wlock = Nobody
    /\ wlock' = s /\ pending' = TRUE /\ Goto(s, "reap") /\ UNCHANGED respawn
    /\ UNCHANGED <<threadVars, workers, exited, closeVars>>

\* close may have drained the vector already; else the retry is raised first.
LockWorkers(s) ==
    /\ At(s, "vec") /\ wlock = Nobody
    /\ \/ closed /\ Return(s) /\ respawn' = Nobody /\ UNCHANGED <<wlock, pending>>
       \/ ~closed /\ wlock' = s /\ pending' = TRUE /\ Goto(s, "reap") /\ UNCHANGED respawn
    /\ UNCHANGED <<threadVars, workers, exited, closeVars>>

Finished == {i \in workers : th[i] = "finished"}

\* Only the finished threads are taken off the vector, uncounted and joined.
Reap(s) ==
    /\ At(s, "reap")
    /\ workers' = workers \ Finished
    /\ exited' = exited - Cardinality(Finished)
    /\ Goto(s, "spawn")
    /\ UNCHANGED <<threadVars, pending, wlock, respawn, closeVars>>

NextThread == Cardinality({i \in Threads : th[i] # "none"}) + 1
Needed == Pool - Cardinality(workers)

\* Mutant: a spawn that falls short clears the retry.
SpawnForgetsRetry(s) ==
    /\ At(s, "spawn")
    /\ \E k \in 0..Needed :
        LET new == NextThread..(NextThread + k - 1) IN
        /\ new \subseteq Threads
        /\ th' = [i \in Threads |-> IF i \in new THEN "starting" ELSE th[i]]
        /\ workers' = workers \cup new
        /\ IF k = Needed
           THEN sub' = [sub EXCEPT ![s].pc = "await", ![s].new = new] /\ UNCHANGED <<respawn, pending>>
           ELSE Return(s) /\ respawn' = Nobody /\ pending' = FALSE
    /\ wlock' = Nobody
    /\ UNCHANGED <<ready, exited, closeVars>>

\* Threads are registered as they are created; the OS may refuse one, which
\* ends the call with an error and leaves the retry raised.
Spawn(s) ==
    /\ At(s, "spawn")
    /\ \E k \in 0..Needed :
        LET new == NextThread..(NextThread + k - 1) IN
        /\ new \subseteq Threads
        /\ th' = [i \in Threads |-> IF i \in new THEN "starting" ELSE th[i]]
        /\ workers' = workers \cup new
        /\ IF k = Needed
           THEN sub' = [sub EXCEPT ![s].pc = "await", ![s].new = new] /\ UNCHANGED respawn
           ELSE Return(s) /\ respawn' = Nobody
    /\ wlock' = Nobody
    /\ UNCHANGED <<ready, exited, pending, closeVars>>

-----------------------------------------------------------------------------
(* await_ready, with respawn_lock held and the vector free. *)

Collected(s) == [sub EXCEPT ![s].new = @ \ {i \in @ : \A j \in @ : i <= j}]
NextStartup(s) == {i \in sub[s].new : \A j \in sub[s].new : i <= j}

\* Mutant: wait for a report, however long, and for nothing else.
AwaitReport(s) ==
    /\ At(s, "await")
    /\ \E i \in NextStartup(s) :
        \/ /\ ready[i] = "ok"
           /\ sub' = Collected(s)
        \/ /\ ready[i] = "err"
           /\ sub' = [Collected(s) EXCEPT ![s].failed = i, ![s].pc = "remove"]
    /\ UNCHANGED <<threadVars, workers, exited, pending, wlock, respawn, closeVars>>

\* recv_timeout on each startup in turn: a report, or none in time (a starved
\* thread is let through), or the sender is gone, which drops after ExitMark.
AwaitOne(s) ==
    /\ At(s, "await")
    /\ \E i \in NextStartup(s) :
        \/ /\ ready[i] = "ok" \/ (ready[i] = "none" /\ th[i] # "finished")
           /\ sub' = Collected(s)
        \/ /\ ready[i] = "err" \/ (ready[i] = "none" /\ th[i] \in {"marked", "finished"})
           /\ sub' = [Collected(s) EXCEPT ![s].failed = i, ![s].pc = "remove"]
    /\ UNCHANGED <<threadVars, workers, exited, pending, wlock, respawn, closeVars>>

\* Whoever takes the entry out of the vector uncounts it.
RemoveFailed(s) ==
    /\ At(s, "remove") /\ wlock = Nobody
    /\ workers' = workers \ {sub[s].failed}
    /\ IF sub[s].failed \in workers
       THEN Goto(s, "join") /\ UNCHANGED pending
       ELSE sub' = [sub EXCEPT ![s].pc = "await", ![s].failed = 0, ![s].err = TRUE] /\ pending' = TRUE
    /\ UNCHANGED <<threadVars, exited, wlock, respawn, closeVars>>

\* Mutant: the failed worker's exit stays counted.
JoinFailedCounted(s) ==
    /\ At(s, "join") /\ th[sub[s].failed] = "finished"
    /\ pending' = TRUE
    /\ sub' = [sub EXCEPT ![s].pc = "await", ![s].failed = 0, ![s].err = TRUE]
    /\ UNCHANGED <<threadVars, workers, exited, wlock, respawn, closeVars>>

JoinFailed(s) ==
    /\ At(s, "join") /\ th[sub[s].failed] = "finished"
    /\ exited' = exited - 1
    /\ pending' = TRUE
    /\ sub' = [sub EXCEPT ![s].pc = "await", ![s].failed = 0, ![s].err = TRUE]
    /\ UNCHANGED <<threadVars, workers, wlock, respawn, closeVars>>

\* With an error the retry stays raised; else the pool is whole again.
Awaited(s) ==
    /\ At(s, "await") /\ sub[s].new = {}
    /\ Return(s)
    /\ respawn' = Nobody
    /\ pending' = IF sub[s].err THEN pending ELSE FALSE
    /\ UNCHANGED <<threadVars, workers, exited, wlock, closeVars>>

-----------------------------------------------------------------------------
(* close_within and Drop. *)

\* gusset_handle_close: the caller's Arc outlives the call, so a background
\* joiner can keep the handle if the budget runs out.
CloseBegin ==
    /\ ~closed
    /\ closed' = TRUE
    /\ cl' = [cl EXCEPT !.pc = "drain", !.keeper = TRUE]
    /\ UNCHANGED <<threadVars, workers, exited, pending, wlock, respawn, sub, pipeOpen>>

\* The last Arc goes without a close: on the host's thread, or on a worker
\* that had upgraded its Weak to deliver a result.
DropBegin ==
    /\ ~closed
    /\ \A s \in Submitters : At(s, "idle")
    /\ closed' = TRUE
    /\ \E i \in {0} \cup {j \in Threads : th[j] = "up"} : cl' = [cl EXCEPT !.pc = "drain", !.self = i]
    /\ UNCHANGED <<threadVars, workers, exited, pending, wlock, respawn, sub, pipeOpen>>

\* Mutant: a worker that drops the last Arc joins itself with the others.
CloseDrainAll ==
    /\ cl.pc = "drain" /\ wlock = Nobody
    /\ cl' = [cl EXCEPT !.pc = "join", !.taken = workers]
    /\ workers' = {}
    /\ UNCHANGED <<threadVars, exited, pending, wlock, respawn, sub, closed, pipeOpen>>

\* The vector is emptied; a closing worker does not join itself.
CloseDrain ==
    /\ cl.pc = "drain" /\ wlock = Nobody
    /\ cl' = [cl EXCEPT !.pc = "join", !.taken = workers \ {cl.self}]
    /\ workers' = {}
    /\ UNCHANGED <<threadVars, exited, pending, wlock, respawn, sub, closed, pipeOpen>>

Joined == \A i \in cl.taken : th[i] = "finished"

\* Joined in time, or by the joiner that a timed-out close left behind.
CloseJoined ==
    /\ cl.pc \in {"join", "late"} /\ Joined
    /\ pipeOpen' = FALSE
    /\ cl' = [cl EXCEPT !.pc = IF cl.pc = "join" THEN "ok" ELSE "done"]
    /\ UNCHANGED <<threadVars, workers, exited, pending, wlock, respawn, sub, closed>>

\* Mutant: a close that gives up also gives up the pipe.
CloseTimesOutReleases ==
    /\ cl.pc = "join" /\ cl.keeper /\ cl.taken # {}
    /\ pipeOpen' = FALSE
    /\ cl' = [cl EXCEPT !.pc = "late"]
    /\ UNCHANGED <<threadVars, workers, exited, pending, wlock, respawn, sub, closed>>

\* Mutant: a close that gives up leaves no joiner behind.
CloseTimesOutDetaches ==
    /\ cl.pc = "join" /\ cl.keeper /\ cl.taken # {}
    /\ cl' = [cl EXCEPT !.pc = "done"]
    /\ UNCHANGED <<threadVars, workers, exited, pending, wlock, respawn, sub, closed, pipeOpen>>

\* The budget runs out, perhaps as the last worker ends.  recv_timeout's other
\* error needs a joiner that unwinds before it sends: it only joins, drops
\* payloads under drop_panic_payload and releases the pipe, none of which does.
CloseTimesOut ==
    /\ cl.pc = "join" /\ cl.keeper /\ cl.taken # {}
    /\ cl' = [cl EXCEPT !.pc = "late"]
    /\ UNCHANGED <<threadVars, workers, exited, pending, wlock, respawn, sub, closed, pipeOpen>>

-----------------------------------------------------------------------------
ThreadStep(i) == StartUp(i) \/ ExitMark(i) \/ ThreadEnds(i)
EnsureStep(s) ==
    \/ LoadExited(s) \/ LoadPending(s) \/ LockRespawn(s) \/ Recheck(s) \/ LockWorkers(s) \/ Reap(s) \/ Spawn(s)
    \/ AwaitOne(s) \/ RemoveFailed(s) \/ JoinFailed(s) \/ Awaited(s)
CloseStep == CloseDrain \/ CloseJoined

Next ==
    \/ \E i \in Threads : ThreadStep(i)
    \/ \E s \in Submitters : CheckClosed(s) \/ EnsureStep(s)
    \/ CloseBegin \/ DropBegin \/ CloseStep \/ CloseTimesOut

Spec == Init /\ [][Next]_vars

\* Threads end their start-up and their exit, and leave a closed pool; a thread
\* of an open pool need not die, and a budget need not run out.
FairSpec ==
    /\ Spec
    /\ \A i \in Threads :
          /\ WF_vars(StartUp(i)) /\ WF_vars(ThreadEnds(i))
          /\ WF_vars((closed \/ th[i] = "failed") /\ ExitMark(i))
    /\ \A s \in Submitters : WF_vars(EnsureStep(s))
    /\ WF_vars(CloseStep)

-----------------------------------------------------------------------------
(* Correctness. *)

Dead == {i \in Threads : th[i] \in {"marked", "finished"}}
Removed == {sub[s].failed : s \in {r \in Submitters : At(r, "join")}}

\* While the vector is the pool's, `exited` is the number of its dead entries
\* and of the failed workers a submitter has removed and not uncounted yet
\* (worker.rs, "is not subtracted twice").  It is unsigned and never wraps, close
\* or no close (TypeOK).
ExitedExact ==
    /\ TypeOK
    /\ cl.pc \in {"open", "drain"} => exited = Cardinality(Dead \cap (workers \cup Removed))

\* A pool that is not whole is noticed by the next submit: unless somebody is
\* respawning, its fast path sees a count or the retry flag, or the thread that
\* is missing has not finished dying (Handle.respawn_pending, Handle.respawn_lock).
ShortPoolNoticed ==
    (~closed /\ respawn = Nobody) =>
        \/ exited > 0 \/ pending
        \/ Cardinality({i \in workers : th[i] \in {"starting", "up", "failed"}}) = Pool

\* Who will join whom: close looks at the vector once, when it drains it.
ToBeJoined == (IF cl.pc \in {"open", "drain"} THEN workers ELSE {}) \cup cl.taken \cup Removed

\* No thread is ever left to run with nobody to join it: it is in the vector of
\* a handle whose close is still to drain it, with the close, or with the
\* submitter that removed it (worker.rs, "would leave JoinHandles nobody
\* joins").  Only a worker that runs the drop of its own handle is detached.
NoOrphan ==
    \A i \in Threads : th[i] \in {"starting", "up", "failed", "marked"} => i \in ToBeJoined \cup {cl.self}

\* The write end of the pipe outlives every worker that may write to it, even
\* when close gave up waiting; a close that returned Ok has released it.
PipeOutlivesWorkers ==
    /\ ~pipeOpen => \A i \in Threads \ {cl.self} : th[i] \notin {"starting", "up"}
    /\ cl.pc \in {"ok", "done"} => ~pipeOpen

\* A close that returned Ok, or whose joiner is over, has seen every thread end
\* but the worker it runs on, which it never waits for, and a failed one that the
\* submitter who removed it is joining (join_workers, await_ready).
ClosedMeansJoined ==
    /\ cl.self \notin cl.taken
    /\ cl.pc \in {"ok", "done"} =>
         \A i \in Threads \ (Removed \cup {cl.self}) : th[i] \in {"none", "finished"}

\* A submit that holds respawn_lock lets go of it, although it waits for
\* threads meanwhile, and every submit caught by a close returns.  (The mutex is
\* not fair: on an open handle others may keep one submit waiting for it.)
EnsureReturns ==
    /\ \A s \in Submitters : respawn = s ~> respawn # s
    /\ closed ~> \A s \in Submitters : At(s, "idle")

\* Every close, timed out or not, and every drop ends with the pipe released.
CloseReleasesPipe == closed ~> ~pipeOpen

\* The pool knows its own strength: exits are counted once and a short pool is
\* noticed (ExitMark, ensure_workers, await_ready).
PoolCounted == ExitedExact /\ ShortPoolNoticed

\* The three above: no thread without a joiner, no pipe released under a writer,
\* no Ok from a close before the threads it took have ended.
NothingLeftBehind == NoOrphan /\ PipeOutlivesWorkers /\ ClosedMeansJoined

\* Submits that repair the pool and closes that tear it down both end.
WorkersSettle == EnsureReturns /\ CloseReleasesPipe
=============================================================================
