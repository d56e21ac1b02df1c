------------------------------ MODULE JobQueue ------------------------------
(***************************************************************************)
(* The work queue between `Handle::submit` and the worker threads          *)
(* (crates/gusset/src/pool/queue.rs): a mutex-protected VecDeque whose     *)
(* consumers poll an atomic counter for a while and then sleep on a        *)
(* condition variable, and whose `push` skips the wake-up while it counts  *)
(* enough polling workers to take what is queued.                          *)
(*                                                                         *)
(* Each critical section of the state mutex is one action.  What the code  *)
(* does outside the mutex is a step of its own: entering and leaving the   *)
(* polling phase (`spinning`), the notification after `push` has unlocked, *)
(* and the two halves of `close`.  How long a worker polls is a matter of  *)
(* time (WORKER_SPIN), so a polling worker may give up in any state; the   *)
(* atomic copy of `closed` only shortens that phase and is left out.       *)
(***************************************************************************)
EXTENDS Naturals, Sequences, FiniteSets

CONSTANTS Workers,   \* worker threads, the callers of `pop`
          Senders,   \* threads inside `try_send`
          Units,     \* units of work; each is sent at most once
          Cap,       \* JobQueue.cap
          NoUnit     \* a worker's hand when it is empty

ASSUME JobQueueAssumption ==
    /\ IsFiniteSet(Workers)
    /\ IsFiniteSet(Senders)
    /\ Cap \in Nat \ {0}
    /\ NoUnit \notin Units

VARIABLES items,     \* State.items
          closed,    \* State.closed
          sleepers,  \* State.sleepers
          spinning,  \* JobQueue.spinning
          queued,    \* JobQueue.queued
          wpc,       \* where each worker is
          hand,      \* the unit a busy worker runs
          spc,       \* where each sender is
          cpc,       \* where the closing thread is
          fate       \* what has become of each unit

vars == <<items, closed, sleepers, spinning, queued, wpc, hand, spc, cpc, fate>>

WorkerPC == {"call", "poll", "lock", "wait", "woken", "busy", "exited"}

Fates == {"unsent", "queued", "taken", "done", "full", "refused"}

TypeOK ==
    /\ items \in Seq(Units)
    /\ closed \in BOOLEAN
    /\ sleepers \in Nat
    /\ spinning \in Nat
    /\ queued \in Nat
    /\ wpc \in [Workers -> WorkerPC]
    /\ hand \in [Workers -> Units \cup {NoUnit}]
    /\ spc \in [Senders -> {"idle", "notify"}]
    /\ cpc \in {"open", "notify", "closed"}
    /\ fate \in [Units -> Fates]

Init ==
    /\ items = <<>>
    /\ closed = FALSE
    /\ sleepers = 0
    /\ spinning = 0
    /\ queued = 0
    /\ wpc = [w \in Workers |-> "call"]
    /\ hand = [w \in Workers |-> NoUnit]
    /\ spc = [s \in Senders |-> "idle"]
    /\ cpc = "open"
    /\ fate = [u \in Units |-> "unsent"]

-----------------------------------------------------------------------------
(* The sending half.                                                       *)

\* Mutant: the queue is measured before the unit is added.
PushWakeEarlyLen == sleepers > 0 /\ Len(items) > spinning

\* `push` under the state lock.  The wake decision reads `spinning` before
\* the lock is released; the notification itself comes after.
PushWake == sleepers > 0 /\ Len(items) + 1 > spinning

\* Mutant: one unit more than `cap` is accepted.
PushOverCap(s, u) ==
    /\ spc[s] = "idle"
    /\ fate[u] = "unsent"
    /\ ~closed
    /\ Len(items) <= Cap
    /\ items' = Append(items, u)
    /\ queued' = Len(items) + 1
    /\ fate' = [fate EXCEPT ![u] = "queued"]
    /\ spc' = IF PushWake THEN [spc EXCEPT ![s] = "notify"] ELSE spc
    /\ UNCHANGED <<closed, sleepers, spinning, wpc, hand, cpc>>

Push(s, u) ==
    /\ spc[s] = "idle"
    /\ fate[u] = "unsent"
    /\ ~closed
    /\ Len(items) < Cap
    /\ items' = Append(items, u)
    /\ queued' = Len(items) + 1
    /\ fate' = [fate EXCEPT ![u] = "queued"]
    /\ spc' = IF PushWake THEN [spc EXCEPT ![s] = "notify"] ELSE spc
    /\ UNCHANGED <<closed, sleepers, spinning, wpc, hand, cpc>>

\* The two refusals of `push`: PushError::Closed is tested first.
PushRefused(s, u) ==
    /\ spc[s] = "idle"
    /\ fate[u] = "unsent"
    /\ closed \/ Len(items) >= Cap
    /\ fate' = [fate EXCEPT ![u] = IF closed THEN "refused" ELSE "full"]
    /\ UNCHANGED <<items, closed, sleepers, spinning, queued, wpc, hand, spc, cpc>>

\* Condvar::notify_one: some thread waiting now is released; none, no effect.
NotifyOne(s) ==
    /\ spc[s] = "notify"
    /\ spc' = [spc EXCEPT ![s] = "idle"]
    /\ \/ \E w \in Workers : /\ wpc[w] = "wait"
                             /\ wpc' = [wpc EXCEPT ![w] = "woken"]
       \/ /\ \A w \in Workers : wpc[w] # "wait"
          /\ UNCHANGED wpc
    /\ UNCHANGED <<items, closed, sleepers, spinning, queued, hand, cpc, fate>>

\* `close`: the flag under the lock, then notify_all.
Close ==
    /\ cpc = "open"
    /\ closed' = TRUE
    /\ cpc' = "notify"
    /\ UNCHANGED <<items, sleepers, spinning, queued, wpc, hand, spc, fate>>

CloseNotify ==
    /\ cpc = "notify"
    /\ cpc' = "closed"
    /\ wpc' = [w \in Workers |-> IF wpc[w] = "wait" THEN "woken" ELSE wpc[w]]
    /\ UNCHANGED <<items, closed, sleepers, spinning, queued, hand, spc, fate>>

-----------------------------------------------------------------------------
(* The worker's half: `pop`, and the unit it runs between two pops.        *)

\* Mutant: a worker starts polling without counting itself.
StartPollUncounted(w) ==
    /\ wpc[w] = "call"
    /\ wpc' = [wpc EXCEPT ![w] = "poll"]
    /\ UNCHANGED <<items, closed, sleepers, spinning, queued, hand, spc, cpc, fate>>

StartPoll(w) ==
    /\ wpc[w] = "call"
    /\ wpc' = [wpc EXCEPT ![w] = "poll"]
    /\ spinning' = spinning + 1
    /\ UNCHANGED <<items, closed, sleepers, queued, hand, spc, cpc, fate>>

\* pop_front, the `queued` store, and the hand-over of the unit.
TakeHead(w) ==
    /\ items # <<>>
    /\ items' = Tail(items)
    /\ queued' = Len(items) - 1
    /\ hand' = [hand EXCEPT ![w] = Head(items)]
    /\ fate' = [fate EXCEPT ![Head(items)] = "taken"]
    /\ wpc' = [wpc EXCEPT ![w] = "busy"]

\* Mutant: the polling taker stays counted in `spinning` while it works.
PollTakeStillCounted(w) ==
    /\ wpc[w] = "poll"
    /\ queued > 0
    /\ TakeHead(w)
    /\ UNCHANGED <<closed, sleepers, spinning, spc, cpc>>

\* A poller that saw `queued` nonzero and got the lock.  It stops counting as
\* a poller before it unlocks.
PollTake(w) ==
    /\ wpc[w] = "poll"
    /\ queued > 0
    /\ TakeHead(w)
    /\ spinning' = spinning - 1
    /\ UNCHANGED <<closed, sleepers, spc, cpc>>

\* The polling window ran out, or the queue looked closed and empty.
StopPoll(w) ==
    /\ wpc[w] = "poll"
    /\ wpc' = [wpc EXCEPT ![w] = "lock"]
    /\ spinning' = spinning - 1
    /\ UNCHANGED <<items, closed, sleepers, queued, hand, spc, cpc, fate>>

\* The head of the locked loop: reached with the lock just taken ("lock") or
\* re-taken on return from the condition variable ("woken").
Awake(w) == wpc[w] \in {"lock", "woken"}

SleepersAfterWake(w) == IF wpc[w] = "woken" THEN sleepers - 1 ELSE sleepers

LockedTake(w) ==
    /\ Awake(w)
    /\ TakeHead(w)
    /\ sleepers' = SleepersAfterWake(w)
    /\ UNCHANGED <<closed, spinning, spc, cpc>>

\* Mutant: `pop` reports the end of the queue as soon as it sees `closed`.
PopNoneUndrained(w) ==
    /\ Awake(w)
    /\ closed
    /\ wpc' = [wpc EXCEPT ![w] = "exited"]
    /\ sleepers' = SleepersAfterWake(w)
    /\ UNCHANGED <<items, closed, spinning, queued, hand, spc, cpc, fate>>

PopNone(w) ==
    /\ Awake(w)
    /\ items = <<>>
    /\ closed
    /\ wpc' = [wpc EXCEPT ![w] = "exited"]
    /\ sleepers' = SleepersAfterWake(w)
    /\ UNCHANGED <<items, closed, spinning, queued, hand, spc, cpc, fate>>

Sleep(w) ==
    /\ Awake(w)
    /\ items = <<>>
    /\ ~closed
    /\ wpc' = [wpc EXCEPT ![w] = "wait"]
    /\ sleepers' = SleepersAfterWake(w) + 1
    /\ UNCHANGED <<items, closed, spinning, queued, hand, spc, cpc, fate>>

\* Condvar::wait may return without a notification.
SpuriousWake(w) ==
    /\ wpc[w] = "wait"
    /\ wpc' = [wpc EXCEPT ![w] = "woken"]
    /\ UNCHANGED <<items, closed, sleepers, spinning, queued, hand, spc, cpc, fate>>

\* The worker loop has run the unit and calls `pop` again.
Finish(w) ==
    /\ wpc[w] = "busy"
    /\ fate' = [fate EXCEPT ![hand[w]] = "done"]
    /\ hand' = [hand EXCEPT ![w] = NoUnit]
    /\ wpc' = [wpc EXCEPT ![w] = "call"]
    /\ UNCHANGED <<items, closed, sleepers, spinning, queued, spc, cpc>>

-----------------------------------------------------------------------------
PopStep(w) == StartPoll(w) \/ PollTake(w) \/ StopPoll(w) \/ LockedTake(w)
                \/ PopNone(w) \/ Sleep(w)

WorkerStep(w) == PopStep(w) \/ Finish(w)

Next ==
    \/ \E s \in Senders, u \in Units : Push(s, u) \/ PushRefused(s, u)
    \/ \E s \in Senders : NotifyOne(s)
    \/ Close
    \/ CloseNotify
    \/ \E w \in Workers : WorkerStep(w) \/ SpuriousWake(w)

Spec == Init /\ [][Next]_vars

\* Threads that can run do run: a worker inside `pop`, the notifying tail of
\* a push, the tail of a close.  Nobody is obliged to send, to close, or to
\* wake for no reason, and a unit may run for ever.
QueueFairSpec ==
    /\ Spec
    /\ \A w \in Workers : WF_vars(PopStep(w))
    /\ \A s \in Senders : WF_vars(NotifyOne(s))
    /\ WF_vars(CloseNotify)

\* Every unit ends.
UnitsEnd == \A w \in Workers : WF_vars(Finish(w))

-----------------------------------------------------------------------------
(* Correctness.                                                            *)

Idle == {w \in Workers : wpc[w] = "wait"}

Pollers == {w \in Workers : wpc[w] = "poll"}

\* Workers that will look at the queue, under the lock, before they sleep.
Movers == {w \in Workers : wpc[w] \in {"poll", "lock", "woken"}}

Notifying == {s \in Senders : spc[s] = "notify"}

\* No unit is stranded beside a sleeping worker: while some worker sleeps
\* un-notified, every queued unit has a worker on its way to the queue, or a
\* notification on its way to a sleeper.  This is what `push` relies on when
\* it skips the wake-up (queue.rs, the comment in `push`).
NoStrandedUnit ==
    Idle # {} => Len(items) <= Cardinality(Movers) + Cardinality(Notifying)

\* The two counters `push` and the pollers read without asking the workers
\* are exact: `spinning` counts the polling workers and `queued` the units,
\* so neither a poll nor a wake-up decision is taken on a stale value.
CountersExact ==
    /\ spinning = Cardinality(Pollers)
    /\ queued = Len(items)
    /\ sleepers = Cardinality({w \in Workers : wpc[w] \in {"wait", "woken"}})

\* A worker leaves `pop` with None only once the queue is closed and drained,
\* and the queue stays so: units queued before the close are still handed out
\* (queue.rs, the doc of `pop`).
ExitOnlyDrained ==
    (\E w \in Workers : wpc[w] = "exited") => closed /\ items = <<>>

\* The bounded queue the rest of the runtime believes in: capacity, order,
\* each unit handed out once, nothing accepted after close.
Abstract == INSTANCE BoundedQueue
    WITH queue <- items,
         taken <- {u \in Units : fate[u] \in {"taken", "done"}},
         shut <- closed

ImplementsBoundedQueue == Abstract!AbsSpec

\* A queued unit never waits out another unit's run beside a sleeping worker:
\* with no assumption that any running unit ends, it is taken or every worker
\* has been woken (queue.rs, the comment on the decrement in `pop`).
StartedBesideIdle ==
    \A u \in Units :
        (fate[u] = "queued" /\ Idle # {}) ~> (fate[u] # "queued" \/ Idle = {})

\* With units that end, every one that was queued is run, close or no close,
\* and every worker exits after `close`, which is what the join in
\* `Handle::close` waits for.
QueueDrains ==
    UnitsEnd =>
        /\ \A u \in Units : fate[u] = "queued" ~> fate[u] = "done"
        /\ closed ~> \A w \in Workers : wpc[w] = "exited"

\* What the pool is promised of its queue over time: prompt starts and a full
\* drain (`push`, `pop` and `close`).
QueueServes == StartedBesideIdle /\ QueueDrains
=============================================================================
