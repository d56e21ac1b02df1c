# Gusset: TLA+ models, model checking and proofs

Gusset runs Rust engine code inside a Go process. A Go caller submits a unit of
work to a bounded pool of Rust threads and later collects its result by ticket.
This directory specifies the concurrent protocols of that runtime, checks them
with TLC on small instances, and proves those of the job queue, the memory
counters, cancellation, the buffers and the worker threads with TLAPS for every
value of the constants. Every
definition is written from the code; the table `map` of `PROJECT.json` gives the
lines each one stands for.

## The system and its parts

| Part | Code | Role |
| --- | --- | --- |
| Handle calls | `submit.go`, `wait.go`, `tickets.go` | Submit takes a permit, enters cgo and issues a ticket; Wait, WaitBuffer and Discard claim or abandon one |
| Completion reader | `drain.go` | one goroutine per handle; takes completions and gives each to its waiter, the store or the bin |
| Ticket reader | `ticket_reader.go` | reads the ring, the pipe beside it, and parks between completions |
| Close | `handle.go` | stops calls, joins the pool within a budget, stops the reader, returns what is left |
| Job queue | `pool/queue.rs` | bounded FIFO; consumers poll and then sleep |
| Workers | `pool/worker.rs` | run units, contain panics, publish outcomes, respawn |
| Completion ring | `pool/ring.rs`, `pool/completion.rs` | multi-producer ring in shared memory, pipe as doorbell and as overflow |
| Pool | `pool/mod.rs`, `pool/lifecycle.rs` | open, submit, cancel, take; close, shutdown, rearm |
| Buffers | `pool/buffers.rs`, `buffer.go` | registry of buffers shared with Go; take buffers for results |
| Engines | `pool/engine.rs`, `header.rs` | process-wide registry of engine code by opcode; a unit's deadline and cancel flag |
| FFI boundary | `ffi/*.rs`, `internal/ffi` | statuses, panic firewall, memory counters, log ring |
| Isolated worker | `internal/isolate` | the same calls over pipes to a child process |
| Options, stats, host probe, tools | see `components` in `PROJECT.json` | configuration and reporting |

A unit's way through the system: Submit takes a permit of `sem`, checks the
handle, enters cgo and calls `gusset_submit`, which registers a cancel flag and
pushes the unit on the job queue. A worker pops it, runs it, stores or inlines
its outcome and publishes a record in the ring; if the reader was parked it
writes a token to the pipe. The reader pops the record, takes the outcome from
Rust unless it came inline, and delivers it. The ticket's permit returns when
its result is stored, collected or thrown away. Close may begin at any moment
of this.

The code states invariants under the names I1 (memory is never seen after it
is freed), I2 (a panic poisons the handle), I3 (an abandoned call keeps its
permit while its work runs), I4 (work in flight never exceeds the pool). The
properties below refer to them.

## Modules

| Module | Models | State and steps |
| --- | --- | --- |
| `JobQueue` | `pool/queue.rs` | `items`, `closed`, `sleepers`, `spinning`, `queued` as in the code, plus a program counter per worker, sender and closer. One action per critical section and one per step outside the lock |
| `BoundedQueue` | what the queue promises | a FIFO with a capacity that hands each unit out once and refuses after close |
| `CompletionRing` | `ring.rs`, `completion.rs`, `ticket_reader.go` | the ring's slots, `tail`, `waiting` and `overflow`; the pipe; each producer's locals inside `complete`; the reader's `head`, `overflowSeen`, `tokensOwed` and how far it has parsed its buffer (`start`). One action per access to a shared atomic or to the pipe |
| `CompletionPipe` | `open_classified`, `size_completion_pipe`, `sys.rs`, `write_completion` | how open checks, sizes and takes the caller's descriptor, and undoes it; records written to it under `pipe_write_lock`, and the reader and close beside them |
| `HandleState` | `handle.go`, `submit.go`, `wait.go`, `drain.go`, `tickets.go` | the fields of `handleState`, a program counter per caller, the reader's locals, the closers. One action per hold of `mu` and per channel operation between two holds |
| `TicketLifecycle` | what a handle promises | a ticket is new, in flight, landed or spent; at most a pool of them in flight |
| `Cancellation` | `pool/mod.rs`, `pool/lifecycle.rs`, `worker.rs` | SHUTTING_DOWN, the registry, the cancel flags of every handle; a program counter per submitter, per close and for `shutdown`; where each unit is. One action per hold of `cancel_flags` and per access to a latch |
| `WorkerThreads` | `pool/worker.rs`, `pool/lifecycle.rs` | each OS thread and its startup report; `workers`, `exited`, `respawn_pending`, the two locks; each submitter inside `ensure_workers`; the one close or drop that joins |
| `Buffers` | `pool/buffers.rs`, `pool/worker.rs`, `buffer.go`, `wait.go` | the registry and its ids, the memory a unit shares as its input, results on their way to Go, Go's Buffer objects with their cleanup, the budget, Close |
| `Dispatch` | `pool/engine.rs`, `header.rs`, `execute_unit` | the two engine cells and their locks, a clear in two holds, and one unit from its lookup to its outcome against a clock |
| `Firewall` | `ffi/guard.rs`, `ffi/status.rs`, the exports | each thread's call: hook, body, panic, disposal of the payload, location, latch, status; the location table, which threads that never enter Gusset also write; a worker's panics |
| `LogRing` | `log_event`, `gusset_drain_logs` | the ring's bytes, LOG_BUFFER and LOG_OWNER, a `log_event` re-entered by a panic hook, and the arithmetic of the two cuts |
| `AllocCounters` | `ffi/alloc.rs` | the three cells; a call to an allocator, of any size and whether or not it gets its memory, is the list of counter operations it makes, and every load, add, maximum and compare-exchange is a step |
| `Isolate` | `internal/isolate` | `Proc`'s table and latches, each caller and frame writer, the reader with its deadline and its probe, waitProc, Close; the two pipes; the worker's Serve and its jobs |
| `JobQueueProofs`, `AllocCountersProofs`, `CancellationProofs`, `BuffersProofs`, `WorkerThreadsProofs` | | TLAPS proofs |
| `MC...` | | the instances TLC checks, with their symmetry |

How they fit together: `JobQueue` ends where a worker begins a unit, and
`CompletionRing` starts where it has an outcome. `HandleState` sees both through
two steps: `FfiSubmit` starts a job, `Finish` lets it end with any outcome, and
`ReadInline`/`ReadStored` take completions in any order. That is weaker than
what those two modules establish (`QueueServes`, `RingIntact`,
`ReaderKeepsUp`), so the handle's properties do not depend on the order
in which the pool works. `CompletionRing` and `CompletionPipe` allow the permits
that `HandleState` grants: work in flight bounded by the pool (`PermitsKept`) is
why the ring never fills. `CompletionPipe` decides whether
records travel inline; `CompletionRing` takes either outcome (`InlinePools`).
`Cancellation` and `WorkerThreads` are two views of the
same Rust handle: the first follows units through submit, close and shutdown and
takes the threads for granted, the second follows the threads and leaves the
units out. Both begin a close with the swap of `closed`; `Cancellation` ends
where the join begins, and `WorkerThreads` takes closing the queue and cancelling
as one step, because only the vector of threads matters to it. `Buffers` follows
the memory that the tickets of `HandleState` stand for. `Isolate` sees
the worker's own handle as permits, engines that end or do not, and a poison
latch.

### Abstractions

* Atomics and fences interleave sequentially. The code pairs its SeqCst fences
  and orderings for exactly the park handshake; weaker orders are not explored.
* Time is left out except in `Dispatch`, which has a clock of a few instants up
  to the last that can be represented: a polling window, a join budget or a
  context may end in any state.
* A startup or join budget may run out at any time, and a thread may die at any
  time; the operating system may refuse a thread.
* Payloads, traces and error texts are left out. A payload is named
  after its ticket so that a mix-up is visible.
* Callers name only tickets that Submit has returned to one of them. The
  exception is `Isolate`, where a Wait may guess a ticket that is registered.
* `CompletionRing`: a record on the pipe is read whole, and its length is one word
  or, with its result inline, two: the reader compares lengths and nothing finer.
  Records the reader rejects as corrupt cannot be produced by the modelled
  writers.
* `CompletionPipe`: the kernel's pipe is external. It may take a
  write in part, which a real pipe does not do to a record of this size; the
  code handles it and reports the record as torn.
* `Buffers`: every Go buffer costs one unit of a budget that is set, lengths are
  classes, and registration is one step. The host submits as input a buffer from
  an engine only while no result has claimed it. A panic while a result is
  materialised is not modelled.
* `Dispatch`: one unit, because units do not touch each other in it; handlers are
  installed and cleared around it without end up to `MaxHandlers`.
* `Firewall`: a location is known by its thread and its relation to the call
  that thread is in: where the panic that left the body began, where one that the
  body caught did, in its payload, or older. Interning of file names is left out.
* `LogRing`: bytes are a newline, a one-byte character and the two bytes of a
  two-byte one.
* `AllocCounters`: a usize has `Wrap` values. A block belongs to the caller
  when the call that counts it has returned. `Global` does not reach the global
  allocator for zero bytes, and turns a resize to or from zero into a dealloc or
  an alloc.
* `WorkerThreads`: `join_workers` has an answer for a joiner that ends without
  sending (`Disconnected`). The joiner only joins, drops payloads under
  `drop_panic_payload` and releases the pipe before it sends, and none of these
  unwinds, so the branch is unreachable and has no step.
* `Isolate`: a frame is two halves, which is what a cut inside a frame can tell
  apart, and an answer either carries a poison or does not. The pipe stands for
  itself and for what the reader has buffered. Whether a descendant holds the
  pipes is decided when the worker dies, as nothing depends on it before.
  `p.frames` is kept as the one comparison made with it. The probe may run out
  in any state after it was armed, whether or not the pipe holds something by
  then; reading and running out race. The context that ends before `writeMu` is
  free and the one found ended with `writeMu` in hand are one step, as neither
  writes anything. Start's handshake comes before Init. Answers of Wait and
  Discard that change nothing have no step.

## What is checked

A run checks its invariants and its temporal properties over the same states.
Some properties are conjunctions of facts that make one argument; the
conjuncts are named in parentheses.

### Job queue

`queue` (3 workers, 2 senders, 3 units, capacity 2, one close).

* `CountersExact`: `spinning`, `queued` and `sleepers` equal what they count, in
  every state in which `push` may read them.
* `NoStrandedUnit`: when `push` skips its wake-up, the unit is not left beside
  a sleeping worker: a poller, a woken worker or a pending notification covers
  every queued unit that a sleeper could have had.
* `ExitOnlyDrained`: `pop` answers None only from a closed, drained queue.
* `ImplementsBoundedQueue`: refinement of `BoundedQueue`.
* `QueueServes` (`StartedBesideIdle`, `QueueDrains`): a queued unit is taken
  while some worker is idle, even if the running units never end, which is the
  reason for the early decrement of `spinning` in `pop`; and with units that
  end, every unit queued runs and every worker exits after close.

Three units and a capacity of two give a full queue and a refused push; the
third worker lets polling, sleeping and waking coincide.

### Completion ring

`ring` (2 producers, 3 completions of mixed kinds, 2 slots, a pipe of two
records, 2, 3 or 4 permits of which the first two have a pipe sized for records).

* `NoSleepingReader`: a reader parked beside a published slot has a wake-up in
  the pipe or on its way.
* `RingIntact` (`TokensAccounted`, `OverflowIsThere`, `HandedIntact`, `OneCopy`,
  `PermitsFitRing`): tokens in the pipe, in the read buffer or still to be
  written are those the reader expects; `overflow` never runs ahead of the
  records in the pipe; each completion is in exactly one place and whole until
  it is delivered, laps of the ring and overflow included; and no more permits
  than slots never fill the ring.
* `ReaderKeepsUp`: with no more permits than slots, which is what Go grants, the
  reader catches up again and again: all that was published, spilled or rung is
  delivered, or the handle closes, and a closing handle stops its reader.

Three completions over two slots are the shortest behaviour in which a slot is
reused, and in which a third completion finds the ring full.

### Handle

`handle_safe` (2 callers, 2 closers, 3 tickets of inline, owned and panicking
jobs, 2 permits, 2 recycled channels, a ceiling of one uncollected result, a
reader that may fail) and `handle_live` (2 callers, 1 closer, 2 tickets, 1
permit).

* `PermitsKept` (`PermitsConserved`, `InFlightBounded`, `PermitsFollowWork`,
  `UncollectedBound`): permits out are the live tickets, the submitters on their
  way and the one in the reader's hand; work in Rust never exceeds the pool,
  abandoned work and a failed reader included; a permit never outlives its work;
  and the bound `WithMaxUncollected` does achieve.
* `ResultsKept` (`OneHolder`, `TakeViewLive`, `TakeBuffersOwned`,
  `PanicLatched`): a result is never in two places, so it is claimed once; a
  take buffer is read only while Rust owns it, and none is leaked or freed early
  while the handle is open; nobody sees a panic before the handle refuses work.
* `WaiterWillHear`: a parked waiter has its own answer in its channel or is
  registered for one still to come; channels are not shared although they are
  recycled.
* `CloseLeavesNothing`: what Close has cleaned up when it returns.
* `ImplementsTickets`: refinement of `TicketLifecycle`.
* `WaiterReturns`: with jobs that end, waits are answered.
* `CallersReleased` (`SubmitterAdmitted`, `ReleasedByClose`): with jobs that end,
  submitters leave the semaphore; Close returns and releases every parked caller
  even if a job never ends.

Three tickets let a channel and a permit be used again by a later ticket while
another is abandoned or panics. With one permit every second Submit parks.

### Shutdown, close and cancellation

`shutdown_drain` (2 handles, 1 submitter, 2 tickets; shutdown, rearm, close and
cancel at any time).

* `FlagsAreUnits`: the flags of a handle are its units in flight, apart from
  calls still deciding; this is what `in_flight` counts.
* `CancelReaches` (`ShutdownReachesAll`, `CloseReachesQueued`): after a shutdown
  has cancelled what it found, nothing is in flight uncancelled until a rearm,
  although submits race it and handles open meanwhile; a close cancels every
  unit it then waits for.
* `CleanDrain`: a shutdown that returned zero leaves no engine code running
  until a rearm, although it counts one handle after the other.
* `DrainEnds`: with engines that heed cancellation a drain ends without its
  budget.

Two handles let a shutdown be past one of them while a submit enters the other;
a second ticket lets a unit arrive behind one that is being counted. One
submitter is enough for that, since it returns before its unit ends.

### Worker threads

`workers` (pool of 2, 2 submitters, 3 threads in all).

* `PoolCounted` (`ExitedExact`, `ShortPoolNoticed`): `exited` counts the dead
  threads not yet taken off the vector, each once, so it cannot wrap; when a
  pool lacks a worker and nobody is repairing it, the fast path of the next
  submit sees it, partly failed respawns and failed start-ups included.
* `NothingLeftBehind` (`NoOrphan`, `PipeOutlivesWorkers`, `ClosedMeansJoined`):
  every running thread
  has somebody to join it; the pipe's write end is released after the last
  worker; and a close that answers Ok, or its joiner once it is over, has seen
  every thread it took end, and never waits for the thread it runs on.
* `WorkersSettle` (`EnsureReturns`, `CloseReleasesPipe`): a respawn lets go of
  its lock, and a close lets every submit return and ends with the pipe
  released, whether it was in time, timed out, or was a drop on the host or on a
  worker. On an open handle a submit may lose the race for `respawn_lock` again
  and again, since the mutex is not fair.

The third thread is a replacement: a respawn can succeed, fail, or find that the
other submitter has repaired the pool.

### Buffers

`buffers` (2 work units, 2 Go Buffer variables, ids up to 3, a budget of one).

* `NotAliased`: a buffer has one owner, who finds it registered; nobody frees it
  under a view; and a buffer handed out as a result is not the input of a unit
  submitted before the engine returned it.
* `NoLeak`: while the handle is open, every buffer handed out has an owner, or a
  Free or cleanup of it is still to come, across panics, abandoned waits and
  failed allocations.
* `BudgetExact`: the budget in use is the Go buffers that are allocated or being
  allocated, and stays within `WithBufferBudget`.
* `IdsOnce`: an id is given out once, and stops before the flag bit.

Two units over two variables let one result be claimed while the other's input
is shared; four values for ids bring the ceiling into reach.

### Beneath the exports

`boundary` checks five components that share no state. A behaviour moves one of
them, chosen by `part` in the initial state, so that their states add up.

* `Firewall` (2 threads and one that never enters Gusset, a location table of two
  entries). `LocationRight`: a panic for which the hook ran is reported where it
  began, on this thread, not where an earlier call, a panic the body caught,
  another thread or the payload's destructor panicked; it goes without a location
  only if the table overflowed meanwhile. One resumed without the hook has no
  location, or that of a panic its own body caught. Two entries and three
  threads are the least with which a table holds another's entry and overflows.
  `PanicPoisons`: whoever can read that a call panicked finds the handle latched.
  `MessagesOwned`: every message belongs to one status still to be freed, and
  status and return code agree.
* `LogRing` (2 threads, a ring of 6 bytes, three lines one of which is longer
  than the ring, drains of 1 and 3 bytes). `LogSound` (`NoSelfWait`,
  `TextWhole`, `CutsExact`): no thread waits for the ring it holds, though a
  panic hook logs inside it; the ring is whole lines within its capacity; and
  eviction and drain take the fewest and the most that they may.
* `CompletionPipe` (3 writers, several sizes and limits of the pipe). `PipeKept`
  (`RefusalUntouched`, `NeverFull`, `Framing`): a refused open leaves the
  descriptor as it was unless restoring it failed, which the error says; a pipe
  that could be sized is never found full; and records do not interleave.
* `Dispatch` (1 unit, 2 opcodes and 0, 3 handlers, a timeout of two on a clock
  that ends at two). `DispatchRight`: a unit that comes after a clear runs nothing
  from before it, and otherwise what was made for its opcode; the diagnostic
  engine runs only by its flag, for opcode 0 and with no engine to displace; an
  error of the engine or of dispatch is told as one only while the unit is neither
  cancelled nor late. The refusal of an output (the unit's own input, no buffer,
  one that cannot be claimed) comes after the last look at the context and is told
  in any case. `TimeoutKept`: a timeout that cannot be represented as an
  instant never becomes no timeout.
* `AllocCounters` (2 threads, 4 calls of all four kinds, 2 blocks of 0, 1 or 3
  bytes, 7 values of a usize of which 3 is saturated). `Headroom`: a cell stays
  within SATURATED plus one FAST_ADD_MAX per thread. `NeverWraps`: the reported
  peak and count never go back, and live falls only by a free. `CountsKept`
  (`LiveExact`, `PeakKept`): between calls the live total is the bytes that are
  out, each counted once, until it saturates; no peak is lost.

`LiveExact` has an exception. COUNTING_ACTIVE says that some `Counting` has
been called through `GlobalAlloc`, not that the global allocator is one.
In a process that uses `Counting<Global>` over an uncounted global allocator,
and calls another `Counting` through `GlobalAlloc`, a block may be counted when
it comes and not when it goes, or the reverse. The doc of `counting_is_active`
mentions it ("a non-global `Counting` called through `GlobalAlloc` sets it
too"). The ghost `strayed` marks those behaviours.

### Isolated worker

`isolate` (2 tickets, a stdin that holds one frame beyond the one being read, and
2 callers with one permit or 1 caller with two) and `isolate_live` (2 callers, 1
ticket, 1 permit).

* `StreamsWhole`: nothing follows a frame cut short on stdin, and no deadline of
  one frame cuts the next; the reader takes the halves of one frame after the
  other, across the deadline that unblocks it.
* `ProcTickets`: until the reader ends, permits out are the owed tickets and the
  submits about to register one, whichever of deliver, a failed send, a Wait
  that gives up, Discard and Close came first; an answer that arrives is
  owed, so a worker is never killed for a late one; and a caller is parked
  with an empty channel exactly when its ticket names it.
* `AnswersKept`: what the worker had written whole when it died is delivered,
  although a descendant may hold the pipe open and a deadline must end the read.
  The exceptions are a descriptor closed by Close or for want of deadlines, and a
  probe that ran out with no frame delivered since it was armed: there is one
  whole probe for each frame.
* `ProcSettles`: once stdin is closed or the worker gone, the reader ends, no
  caller is left in Submit, in a write or in Wait, and Close returns, though an
  engine never does.

The worker dies at any step, contexts end at any step, and a descendant of
the worker may keep both pipes open (`heir`). With one permit the second submit
waits for the first, and meets an engine left over from a cancelled job.
With two permits two answers can be written at once, which is what `wmu` is for,
and both can be in the pipe when the worker dies, which is what the renewed probe
is for. The two instances keep the run small; their union is the initial states
of `MCIsolate`.

### Where the code disagrees with its description

* `uncollected_ceiling`: `handle.go` says that `maxUncollected` "bounds
  uncollected completed results". Submitters that pass the check together store
  up to `maxUncollected + pool - 1` of them.
* `uncollected_wakeup`: two submitters are parked on `uncollectedCh`; a claim
  leaves one token; the submitter that takes it does not pass it on (with a
  ceiling of one), its result goes straight to a waiter, and the other submitter
  stays parked with nothing uncollected.
* The comment on Submit says that "a caller that never collects is not slowed
  down: its results accumulate on the handle until Wait, Discard or Close, without
  bound" (`submit.go:80`). Submit parks at `maxUncollected`, which is 1024 unless an
  option says otherwise (`options.go:123`), and results stay below
  `maxUncollected + pool` (`UncollectedBound`); submitters parked there are where
  the counterexample of `uncollected_wakeup` starts.

Three more were met while modelling; no run is devoted to them, and the
properties above are stated so as to hold in spite of them.

* `proc.go:50` says of the probe that it "only expires once no frame has arrived
  for this long". Any second deadline ends the read: a reader that is not
  scheduled for a whole probe finds it expired and leaves the answers that
  were in the pipe all along. `AnswersKept` excepts it.
* `guard.rs:55` says that losing a location degrades a message "never to a wrong
  location". A panic resumed without the hook, in a body that caught another
  panic before, is reported at the place of that other one. `LocationRight` says
  so.
* `ticket_reader.go:148` compares `tr.end` before and after a read that
  first moves the buffer's contents to its front. A read of just as many
  bytes as were parsed looks like none, and the reader may park beside an
  overflow record it has read, until the next token. This needs more permits than
  slots, which the Go side does not grant; `ReaderKeepsUp` is restricted to that.

Two comments say more than the code does, without harm to a property. `guard.rs`
says of the location table "Overflow evicts the oldest entry"; entries are taken
out by `swap_remove`, so that an overflow may evict a younger one, and its
thread's panic is reported without a location. `serve.go` says that "the worker's
own semaphore never queues"; a cancelled job is answered while its engine still
holds the worker's permit, and the next submit the host admits waits there, within
its context.

### Fairness

* Threads and goroutines that can take a step eventually do (weak fairness per
  worker, sender, producer, caller, closer and for the reader). The reader is
  owed its steps only while there is something to read, to deliver or to stop
  for: a pipe never has to fail.
* Strong fairness for one step of the ring, a compare-exchange on `tail`: it
  fails only if another producer's succeeded, and producers are finite.
* Units and jobs need not end. Properties that need it say so in their premise
  (`UnitsEnd`, `JobsEnd`). `JobsEnd` also asks for strong fairness of the
  semaphore, which Go's channels provide by serving parked senders in order.
* In `Cancellation` an engine ends once it is told to stop, other units need not;
  no budget has to run out. In `WorkerThreads` a thread finishes its start-up and
  its exit and leaves a closed pool (its units were cancelled); a thread of an
  open pool need not die. Mutexes get weak fairness only.
* In `Isolate` timers expire: the budget of a cancel, the drain window, the probe
  and Close's budget are `time` calls of the code. Contexts of callers need not
  end, engines need not return and the worker need not die.
* Nobody is obliged to submit, to wait or to close, and contexts may end or not.

## What is proved

`JobQueueProofs`, for any finite sets of workers and senders, any units and any
capacity: `QueueTypes`, `CountersAreExact`, `NoUnitStranded`, `ExitsAreDrained`
and `QueueRefinement`. They rest on `JobQueueAssumption` alone.

The inductive invariant `IInv` joins the four checked invariants with two facts
about units: a unit never sent is not in the queue, and a busy worker holds a
unit that was handed out. Both are needed for the refinement (a unit is put
once, taken once). `NoStrandedUnit` is not inductive alone: whether a skipped
wake-up was safe depends on `spinning` and `queued` being exact, which depends
on the place of every worker. The proof therefore counts workers by program
counter: `ClassMove` says what one worker's move does to the size of a class,
and `WorkerMove` and `SenderMove` turn a step of `pop` or `push` into arithmetic
on three counts.

`AllocCountersProofs`, for any finite set of threads, any sizes and any width:
`CountersHaveHeadroom` and `CountersNeverWrap`. They rest on `SizesAssumption`
and on `HeadroomAssumption`, the compile-time assertion beside the constants in
`alloc.rs`, for the threads there are instead of the 2^25 it makes room for.
The invariant `IInv` is the type invariant, `FastIsSmall` (a thread past the
check has an add of at most FAST_ADD_MAX to land) and `Headroom`. `Headroom`
counts the adds that are past their check but not yet made, for without them the
bound is not inductive: any number of threads may have read a small value.
`OneMoves` and `Scale` are the arithmetic of one thread entering or leaving that
set.

`CancellationProofs`, for any finite set of handles, any submitters and any number of tickets:
`FlagsCountUnits`, `CancellationReaches` and `DrainsAreClean`. They rest on
`CancellationAssumption` alone. None of the three invariants is inductive, and
`IInv` adds what links them: tickets are issued in order (`IssuedInOrder`), so a
new flag is nobody else's; what each call inside `submit` holds (`Calls`); every
flag and unit belongs to a registered handle (`Homes`), so the shutdown's
snapshot of the registry misses none; and how far the shutdown has come
(`Shutdown`): while it cancels, a flag not yet set belongs to a handle still to
be cancelled, and while it counts with a sum of zero, a running engine belongs
to a handle still to be counted. The second is what makes a count taken handle
by handle sound, and it rests on the first: once the loop is over every flag is
set, so no unit starts on a handle that was already counted. `CountBound` keeps
the sum within the tickets; it counts each ticket with its handle, because flags
come and go during the count and tickets do not. `ShutdownMoves` and one lemma
per actor carry the steps.

`BuffersProofs`, for any jobs, any finite set of Buffer variables, any ceiling
of the ids and any budget: `BufferIsNotAliased`, `BufferIsNotLeaked`,
`BudgetIsExact` and `IdsAreGivenOnce`. They rest on `BufferConstants` alone. What
the properties say of owners is not inductive, because a buffer changes hands
between Go's variables and Rust's results, and the registry only has two marks for
it. `IInv` says who will free a buffer (`Holds`, a variable; `Carries`, a result),
that there is at most one of them (`Once`), that the registry's marks show it
(`Marked`), that a marked buffer has one (`Kept`), and that no unit reads what a
result carries (`Unread`); `Fresh` keeps the next id clear of every id in use. The
lemmas say what a variable or a result that gains, keeps or gives up a buffer
does to those five, and each action is one of these moves. The budget is a
cardinality, moved by `Charging`.

`WorkerThreadsProofs`, for any pool and any number of threads and submitters:
`PoolIsCounted` and `NothingIsLeftBehind`: exits are counted once and a short
pool is noticed; every thread that has not ended has somebody to join it, but for
the worker that drops its own handle; the pipe's write end outlives every other
worker; and a close that answers Ok, or its joiner once it is over, has seen
every thread it took end, itself not among them. They rest on `ThreadsAssumption`
alone. `IInv` adds who holds which lock (`Locks`), so that the vector changes
under its lock; that a worker found to have failed is on its way out and is taken
off once (`Failing`), without which `exited` would be counted down twice; how far
the close is (`Closing`), which says that after its drain nobody pushes to the
vector; `exited` as the number of dead threads still on the vector or in a
submitter's hand (`Exits`), where workers taken by a close may leave a remainder;
and a full vector whenever the retry flag is down (`Strength`).

Checked by TLC only: liveness, since fairness and ENABLED are outside what the
prover handles; `CountsKept`, a sum over blocks; and the properties of the other
modules.

## Not modelled

`components` lists every part with the reason. In short: the cgo bridge and the
exports' pointer checks marshal arguments; trace headers, stats and options do
not change the state of the protocols; the wire format's encoding and Start's
handshake are left out of `Isolate`, and the ticket reader's mode without a ring
out of `CompletionRing`; the host probe, code generation, tools, examples and
benchmarks are not part of the running system.
