------------------------------- MODULE Isolate -------------------------------
(***************************************************************************)
(* The out-of-process handle (internal/isolate): Proc on the host, with    *)
(* its callers, its frame writers, the protocol reader, waitProc and       *)
(* Close (proc.go), and the worker's Serve with its jobs (serve.go).       *)
(*                                                                         *)
(* One step per hold of mu, per channel operation and per half of a frame: *)
(* writeFrame writes a header and then a body, and either may be the last  *)
(* thing that gets through.  Contexts end, budgets run out and the worker  *)
(* dies at any time.  `heir` says that a descendant of a dead worker keeps *)
(* its ends of both pipes open.                                            *)
(***************************************************************************)
EXTENDS Integers, Sequences, FiniteSets

CONSTANTS Callers,
          MaxTicket,
          PoolSizes,  \* what the worker's hello may announce
          PipeFrames, \* frames the worker's stdin holds
          Nobody

ASSUME IsolateAssumption == MaxTicket \in Nat /\ PoolSizes \subseteq Nat \ {0} /\ PipeFrames \in Nat

Tickets == 1..MaxTicket

\* Who writes to the worker's stdin: a submit, and the goroutine that cancels a
\* ticket whose waiter gave up.
Senders == Callers \cup Tickets

VARIABLES
    pool,                        \* the permits the worker has
    sem, next, tickets,          \* Proc, under mu; a ticket [in, res, waiter, abandoned]
    closed, poisoned, dead,
    call,                        \* a caller: [pc, t, mail], mail the waiter's channel
    writeMu, snd,                \* its holder, and each sender's [pc, ended, cut]
    helper, past,                \* whose context is watched; the write deadline is past
    stdin, stdinOpen,            \* frames [op, id, whole]
    rpc, probed, half,           \* read
    rdPast, rdClosed,            \* its deadline is past; its descriptor is closed
    landed,                      \* (ghost) a frame was delivered since the probe was armed
    moved, wait, procExited,     \* waitProc: p.frames is not what its window saw; its place
    cpc,                         \* close
    worker, heir, hpoisoned,     \* the process, and the latch of its handle
    job,                         \* [pc, cancelled, engine, res]
    out                          \* the protocol pipe: halves [id, part, res]

table == <<pool, sem, next, tickets>>
latches == <<closed, poisoned, dead>>
sending == <<writeMu, snd, helper, past, stdin, stdinOpen>>
reading == <<rpc, probed, half, rdPast, rdClosed, landed, moved>>
waiting == <<wait, procExited>>
child == <<worker, heir, hpoisoned, job>>
procVars == <<table, latches, call, sending, reading, waiting, cpc, child, out>>

Blank == [in |-> FALSE, res |-> "none", waiter |-> Nobody, abandoned |-> FALSE]
Quiet == [pc |-> "idle", t |-> 0, mail |-> "none"]
Absent == [Quiet EXCEPT !.pc = "absent"]
Unsent == [pc |-> "out", ended |-> FALSE, cut |-> "no"]
NoJob == [pc |-> "none", cancelled |-> FALSE, engine |-> FALSE, res |-> "none"]

\* After the handshake of Start: n permits, and these callers.
ProcStarts(n, users) ==
    /\ pool = n /\ sem = 0 /\ next = 0 /\ tickets = [t \in Tickets |-> Blank]
    /\ closed = FALSE /\ poisoned = FALSE /\ dead = FALSE
    /\ call = [c \in Callers |-> IF c \in users THEN Quiet ELSE Absent]
    /\ writeMu = Nobody /\ snd = [x \in Senders |-> Unsent]
    /\ helper = Nobody /\ past = FALSE
    /\ stdin = <<>> /\ stdinOpen = TRUE
    /\ rpc = "read" /\ probed = FALSE /\ half = 0 /\ rdPast = FALSE
    /\ rdClosed = FALSE /\ landed = FALSE
    /\ moved = FALSE /\ wait = "wait" /\ procExited = FALSE
    /\ cpc = "open"
    /\ worker = "serve" /\ heir = FALSE /\ hpoisoned = FALSE
    /\ job = [t \in Tickets |-> NoJob]
    /\ out = <<>>

ProcInit == \E n \in PoolSizes : ProcStarts(n, Callers)

Calling(c, pc) == call[c].pc = pc
CallGoes(c, pc) == call' = [call EXCEPT ![c].pc = pc]
Owed(t) == tickets[t].in /\ tickets[t].res = "none"
Gone == worker = "exited"

\* The worker's jobs, and its handle, end with its process, if it still ran.
Exit ==
    /\ worker' = "exited" /\ job' = [t \in Tickets |-> NoJob] /\ hpoisoned' = FALSE
    /\ heir' \in IF Gone THEN {heir} ELSE BOOLEAN

-----------------------------------------------------------------------------
(* Submit.                                                                 *)

refusal == closed \/ dead \/ procExited \/ poisoned

SubmitStart(c) ==
    /\ Calling(c, "idle") /\ ~refusal
    /\ next + Cardinality({d \in Callers : call[d].pc \in {"sem", "register"}}) < MaxTicket
    /\ CallGoes(c, "sem")
    /\ UNCHANGED <<table, latches, sending, reading, waiting, cpc, child, out>>

AcquirePermit(c) ==
    /\ Calling(c, "sem") /\ sem < pool
    /\ sem' = sem + 1
    /\ CallGoes(c, "register")
    /\ UNCHANGED <<pool, next, tickets, latches, sending, reading, waiting, cpc, child, out>>

\* The context ends, or the reader has.
LeaveSem(c) ==
    /\ Calling(c, "sem")
    /\ CallGoes(c, "idle")
    /\ UNCHANGED <<table, latches, sending, reading, waiting, cpc, child, out>>

RegisterTicket(c) ==
    /\ Calling(c, "register")
    /\ IF refusal
       THEN /\ sem' = sem - 1
            /\ CallGoes(c, "idle")
            /\ UNCHANGED <<next, tickets, snd>>
       ELSE /\ next' = next + 1
            /\ tickets' = [tickets EXCEPT ![next + 1] = [Blank EXCEPT !.in = TRUE]]
            /\ call' = [call EXCEPT ![c].pc = "send", ![c].t = next + 1]
            /\ snd' = [snd EXCEPT ![c] = [Unsent EXCEPT !.pc = "lock"]]
            /\ UNCHANGED sem
    /\ UNCHANGED <<pool, latches, writeMu, helper, past, stdin, stdinOpen, reading, waiting, cpc, child, out>>

\* Mutant: the ticket is taken back without its permit.
SendFailedKeeps(c) ==
    /\ Calling(c, "failed")
    /\ LET t == call[c].t
           w == tickets[t].waiter
       IN /\ tickets' = IF Owed(t) THEN [tickets EXCEPT ![t] = Blank] ELSE tickets
          /\ call' = [d \in Callers |->
                        IF d = c THEN [Quiet EXCEPT !.pc = IF snd[c].ended THEN "idle" ELSE "await"]
                        ELSE IF Owed(t) /\ d = w THEN [call[d] EXCEPT !.mail = "told"] ELSE call[d]]
          /\ snd' = [snd EXCEPT ![c] = Unsent]
    /\ UNCHANGED <<pool, sem, next, latches, writeMu, helper, past, stdin, stdinOpen, reading, waiting, cpc, child, out>>

\* The send failed.  A ticket that is still owed is taken back, and a waiter
\* that guessed it is told.
SendFailed(c) ==
    /\ Calling(c, "failed")
    /\ LET t == call[c].t
           w == tickets[t].waiter
       IN /\ tickets' = IF Owed(t) THEN [tickets EXCEPT ![t] = Blank] ELSE tickets
          /\ sem' = IF Owed(t) THEN sem - 1 ELSE sem
          /\ call' = [d \in Callers |->
                        IF d = c THEN [Quiet EXCEPT !.pc = IF snd[c].ended THEN "idle" ELSE "await"]
                        ELSE IF Owed(t) /\ d = w THEN [call[d] EXCEPT !.mail = "told"] ELSE call[d]]
          /\ snd' = [snd EXCEPT ![c] = Unsent]
    /\ UNCHANGED <<pool, next, latches, writeMu, helper, past, stdin, stdinOpen, reading, waiting, cpc, child, out>>

\* Submit answers with the worker's exit, or its context's end.
AwaitReader(c) ==
    /\ Calling(c, "await")
    /\ CallGoes(c, "idle")
    /\ UNCHANGED <<table, latches, sending, reading, waiting, cpc, child, out>>

-----------------------------------------------------------------------------
(* send and writeLocked.                                                   *)

\* What a write to the worker fails on.
Broken == ~stdinOpen \/ (Gone /\ ~heir)

rest == <<table, latches, reading, waiting, cpc, child, out>>

\* What a sender does next: a submit returns or fails, a cancel is best effort.
SendReturns(x, err, ended) ==
    /\ snd' = [snd EXCEPT ![x] = [Unsent EXCEPT !.ended = err /\ ended /\ x \in Callers]]
    /\ call' = IF x \notin Callers THEN call
               ELSE IF err THEN [call EXCEPT ![x].pc = "failed"] ELSE [call EXCEPT ![x] = Quiet]

\* The context ends before the lock is there, or is seen to have ended once it
\* is: nothing is written.
LeaveLock(x) ==
    /\ snd[x].pc = "lock"
    /\ SendReturns(x, TRUE, TRUE)
    /\ UNCHANGED <<rest, writeMu, helper, past, stdin, stdinOpen>>

\* With writeMu the deadline is armed, which fails on a closed pipe, the context
\* is watched, and the frame begins.
LockWrite(x) ==
    /\ snd[x].pc = "lock" /\ writeMu = Nobody
    /\ \/ /\ ~stdinOpen
          /\ SendReturns(x, TRUE, FALSE)
          /\ UNCHANGED <<writeMu, helper, stdin>>
       \/ /\ stdinOpen
          /\ writeMu' = x /\ helper' = x
          /\ snd' = [snd EXCEPT ![x].pc = IF Broken THEN "stop" ELSE "body",
                                ![x].cut = IF Broken THEN "broken" ELSE "no"]
          /\ stdin' = IF Broken THEN stdin ELSE
               Append(stdin, [op |-> IF x \in Callers THEN "submit" ELSE "cancel",
                              id |-> IF x \in Callers THEN call[x].t ELSE x, whole |-> FALSE])
          /\ UNCHANGED call
    /\ UNCHANGED <<rest, past, stdinOpen>>

SendContextEnds(x) ==
    /\ snd[x].pc \in {"body", "stop"} /\ ~snd[x].ended
    /\ snd' = [snd EXCEPT ![x].ended = TRUE]
    /\ UNCHANGED <<rest, call, writeMu, helper, past, stdin, stdinOpen>>

\* The goroutine that moves the deadline into the past.
WatchFires ==
    /\ helper # Nobody /\ snd[helper].ended
    /\ past' = TRUE /\ helper' = Nobody
    /\ UNCHANGED <<rest, call, writeMu, snd, stdin, stdinOpen>>

WriteBody(x) ==
    /\ snd[x].pc = "body" /\ ~past /\ ~Broken
    /\ Len(stdin) <= PipeFrames
    /\ stdin' = [stdin EXCEPT ![Len(stdin)].whole = TRUE]
    /\ snd' = [snd EXCEPT ![x].pc = "stop"]
    /\ UNCHANGED <<rest, call, writeMu, helper, past, stdinOpen>>

\* A deadline, a closed stdin or a worker that is gone cuts the frame off.
WriteCut(x) ==
    /\ snd[x].pc = "body" /\ (past \/ Broken)
    /\ snd' = [snd EXCEPT ![x].pc = "stop", ![x].cut = IF past /\ stdinOpen THEN "late" ELSE "broken"]
    /\ UNCHANGED <<rest, call, writeMu, helper, past, stdin, stdinOpen>>

Poisons(x) == snd[x].cut = "late" \/ (snd[x].cut = "broken" /\ snd[x].ended)

WriteReturns(x) ==
    /\ past' = FALSE
    /\ IF Poisons(x) THEN snd' = [snd EXCEPT ![x].pc = "poison", ![x].cut = "no"] /\ UNCHANGED <<writeMu, call>>
       ELSE writeMu' = Nobody /\ SendReturns(x, snd[x].cut # "no", snd[x].ended)
    /\ UNCHANGED <<rest, stdin, stdinOpen>>

\* Mutant: writeLocked does not wait for the goroutine it started.
StopWatchNoWait(x) == snd[x].pc = "stop" /\ WriteReturns(x) /\ UNCHANGED helper

\* The goroutine is stopped and waited for, and the deadline cleared.
StopWatch(x) == snd[x].pc = "stop" /\ WriteReturns(x) /\ helper' = Nobody

\* poisonStream: the latch, and then the pipe.
PoisonStream(x) ==
    /\ snd[x].pc = "poison"
    /\ poisoned' = (poisoned \/ ~closed)
    /\ snd' = [snd EXCEPT ![x].pc = "shut"]
    /\ UNCHANGED <<table, closed, dead, reading, waiting, cpc, child, out, call, writeMu, helper, past, stdin, stdinOpen>>

\* Mutant: the latch alone.
ShutStdinNot(x) ==
    /\ snd[x].pc = "shut"
    /\ writeMu' = Nobody /\ SendReturns(x, TRUE, snd[x].ended)
    /\ UNCHANGED <<rest, helper, past, stdin, stdinOpen>>

\* writeMu comes back once the pipe is closed.
ShutStdin(x) ==
    /\ snd[x].pc = "shut"
    /\ stdinOpen' = FALSE
    /\ writeMu' = Nobody /\ SendReturns(x, TRUE, snd[x].ended)
    /\ UNCHANGED <<rest, helper, past, stdin>>

-----------------------------------------------------------------------------
(* Wait, Discard and Close.                                                *)

\* Answers that change nothing (closed, dead, unknown or busy) are left out.
Claimable(t) == ~closed /\ tickets[t].in /\ ~tickets[t].abandoned /\ tickets[t].waiter = Nobody

WaitTicket(c, t) ==
    /\ Calling(c, "idle") /\ Claimable(t)
    /\ IF Owed(t)
       THEN /\ tickets' = [tickets EXCEPT ![t].waiter = c]
            /\ call' = [call EXCEPT ![c] = [Quiet EXCEPT !.pc = "wait", !.t = t]]
       ELSE tickets' = [tickets EXCEPT ![t] = Blank] /\ UNCHANGED call
    /\ UNCHANGED <<pool, sem, next, latches, sending, reading, waiting, cpc, child, out>>

TakeAnswer(c) ==
    /\ Calling(c, "wait") /\ call[c].mail # "none"
    /\ call' = [call EXCEPT ![c] = Quiet]
    /\ UNCHANGED <<table, latches, sending, reading, waiting, cpc, child, out>>

WaitContextEnds(c) ==
    /\ Calling(c, "wait")
    /\ CallGoes(c, "giveup")
    /\ UNCHANGED <<table, latches, sending, reading, waiting, cpc, child, out>>

\* Mutant: the ticket leaves the table with its waiter, though its answer is owed.
WaitGivesUpForgets(c) ==
    /\ Calling(c, "giveup")
    /\ call' = [call EXCEPT ![c] = Quiet]
    /\ IF call[c].mail # "none" THEN UNCHANGED <<tickets, sem, snd>>
       ELSE /\ tickets' = [tickets EXCEPT ![call[c].t] = Blank]
            /\ sem' = sem - 1
            /\ snd' = [snd EXCEPT ![call[c].t] = [Unsent EXCEPT !.pc = "lock"]]
    /\ UNCHANGED <<pool, next, latches, writeMu, helper, past, stdin, stdinOpen, reading, waiting, cpc, child, out>>

\* Under mu: an answer delivered meanwhile, or the ticket given up and a cancel
\* sent on a goroutine of its own.
WaitGivesUp(c) ==
    /\ Calling(c, "giveup")
    /\ call' = [call EXCEPT ![c] = Quiet]
    /\ IF call[c].mail # "none" THEN UNCHANGED <<tickets, snd>>
       ELSE /\ tickets' = [tickets EXCEPT ![call[c].t].waiter = Nobody, ![call[c].t].abandoned = TRUE]
            /\ snd' = [snd EXCEPT ![call[c].t] = [Unsent EXCEPT !.pc = "lock"]]
    /\ UNCHANGED <<pool, sem, next, latches, writeMu, helper, past, stdin, stdinOpen, reading, waiting, cpc, child, out>>

Discard(t) ==
    /\ Claimable(t)
    /\ tickets' = [tickets EXCEPT ![t] = IF Owed(t) THEN [@ EXCEPT !.abandoned = TRUE] ELSE Blank]
    /\ UNCHANGED <<pool, sem, next, latches, call, sending, reading, waiting, cpc, child, out>>

\* Callers told by the tickets they wait for.
Mailed(ts) ==
    [c \in Callers |-> IF \E t \in ts : tickets[t].waiter = c
                       THEN [call[c] EXCEPT !.mail = "told"] ELSE call[c]]

CloseBegin ==
    /\ cpc = "open"
    /\ closed' = TRUE
    /\ tickets' = [t \in Tickets |-> IF Owed(t) THEN [tickets[t] EXCEPT !.waiter = Nobody, !.abandoned = TRUE]
                                     ELSE Blank]
    /\ call' = Mailed({t \in Tickets : Owed(t)})
    /\ cpc' = "stdin"
    /\ UNCHANGED <<pool, sem, next, poisoned, dead, sending, reading, waiting, child, out>>

\* Without writeMu.
CloseStdin ==
    /\ cpc = "stdin"
    /\ stdinOpen' = FALSE
    /\ cpc' = "wait"
    /\ UNCHANGED <<table, latches, call, writeMu, snd, helper, past, stdin, reading, waiting, child, out>>

CloseKill ==
    /\ cpc = "wait"
    /\ Exit
    /\ rdClosed' = TRUE /\ rdPast' = FALSE
    /\ cpc' = "killed"
    /\ UNCHANGED <<table, latches, call, sending, rpc, probed, half, landed, moved, waiting, out>>

CloseReturns ==
    /\ cpc \in {"wait", "killed"} /\ rpc = "done"
    /\ cpc' = "done"
    /\ UNCHANGED <<table, latches, call, sending, reading, waiting, child, out>>

-----------------------------------------------------------------------------
(* read, and deliver.                                                      *)

\* read's SetReadDeadline with queuedFrameProbe.
ArmProbe == rdPast' = FALSE /\ landed' = FALSE

\* Mutant: the probe is armed once.
ArmOnce == UNCHANGED rdPast /\ landed' = probed

\* After a frame was delivered, the next one gets a whole probe.
Rearm == IF probed THEN ArmProbe ELSE UNCHANGED <<rdPast, landed>>

\* A stored result stays for its Wait; an abandoned one is dropped.
Deliver(t, answer) ==
    /\ sem' = sem - 1
    /\ poisoned' = (poisoned \/ answer = "poison")
    /\ IF tickets[t].abandoned \/ tickets[t].waiter # Nobody
       THEN tickets' = [tickets EXCEPT ![t] = Blank]
       ELSE tickets' = [tickets EXCEPT ![t].res = "stored"]
    /\ call' = Mailed({t})
    /\ moved' = (wait = "drain")
    /\ Rearm
    /\ UNCHANGED <<pool, next, closed, dead, rpc, worker, heir, hpoisoned, job>>

\* What the reader has buffered is still read once its descriptor is closed.
ReadHead ==
    /\ rpc = "read" /\ half = 0 /\ out # <<>>
    /\ half' = Head(out).id /\ out' = Tail(out)
    /\ UNCHANGED <<table, latches, call, sending, rpc, probed, rdPast, rdClosed, landed, moved, waiting, cpc, child>>

\* A whole frame; an id that is not owed ends the stream and the worker.
ReadBody ==
    /\ rpc = "read" /\ half # 0 /\ out # <<>>
    /\ half' = 0 /\ out' = Tail(out)
    /\ IF Owed(half) THEN Deliver(half, Head(out).res)
       ELSE /\ rpc' = "ended" /\ Exit
            /\ UNCHANGED <<table, poisoned, closed, dead, call, moved, rdPast, landed>>
    /\ UNCHANGED <<sending, probed, rdClosed, waiting, cpc>>

\* Mutant: the bytes of a frame cut by the deadline are lost.
ReadDeadlineDrops ==
    /\ rpc = "read" /\ ~rdClosed /\ rdPast /\ ~probed
    /\ probed' = TRUE
    /\ half' = 0 /\ out' = out
    /\ ArmProbe
    /\ UNCHANGED <<table, latches, call, sending, rpc, rdClosed, moved, waiting, cpc, child>>

\* Mutant: the deadline ends the stream.
ReadDeadlineEnds ==
    /\ rpc = "read" /\ ~rdClosed /\ rdPast /\ ~probed
    /\ rpc' = "ended"
    /\ UNCHANGED <<table, latches, call, sending, probed, half, rdPast, rdClosed, landed, moved, waiting, cpc, child, out>>

\* The first deadline: what was consumed of a frame is put back, and one more
\* pass is made with a fresh reader.
ReadDeadline ==
    /\ rpc = "read" /\ ~rdClosed /\ rdPast /\ ~probed
    /\ probed' = TRUE
    /\ half' = 0
    /\ out' = IF half = 0 THEN out ELSE <<[id |-> half, part |-> 1, res |-> "none"]>> \o out
    /\ ArmProbe
    /\ UNCHANGED <<table, latches, call, sending, rpc, rdClosed, moved, waiting, cpc, child>>

\* The probe runs out, whatever the pipe holds by then.
ProbeLapses ==
    /\ rpc = "read" /\ ~rdClosed /\ probed /\ ~rdPast
    /\ rdPast' = TRUE
    /\ UNCHANGED <<table, latches, call, sending, rpc, probed, half, rdClosed, landed, moved, waiting, cpc, child, out>>

\* The end of the stream; a second deadline; or the descriptor closed, by Close
\* or by waitProc.
ReadEnds ==
    /\ rpc = "read"
    /\ \/ Gone /\ ~heir /\ out = <<>>
       \/ probed /\ rdPast
       \/ rdClosed
    /\ rpc' = "ended"
    /\ IF procExited THEN UNCHANGED child ELSE Exit
    /\ UNCHANGED <<table, latches, call, sending, probed, half, rdPast, rdClosed, landed, moved, waiting, cpc, out>>

\* The reader's end of the pipe is closed, as that of stdin is, whoever has the
\* others; its locals are gone.
ReaderGone ==
    /\ rpc' = "done" /\ rdClosed' = TRUE /\ heir' = FALSE
    /\ out' = <<>> /\ half' = 0 /\ probed' = FALSE /\ rdPast' = FALSE /\ landed' = FALSE

\* Mutant: the waiters are not told.
SweepSilently ==
    /\ rpc = "ended" /\ procExited
    /\ dead' = (dead \/ ~closed)
    /\ tickets' = [t \in Tickets |-> IF tickets[t].res # "none" /\ ~closed THEN tickets[t] ELSE Blank]
    /\ ReaderGone
    /\ UNCHANGED <<pool, sem, next, closed, poisoned, call, sending, moved, waiting, cpc, worker, hpoisoned, job>>

\* The descriptor is closed and the worker reaped: every waiter is told, and
\* stored results are kept.
Sweep ==
    /\ rpc = "ended" /\ procExited
    /\ dead' = (dead \/ ~closed)
    /\ call' = Mailed(Tickets)
    /\ tickets' = [t \in Tickets |-> IF tickets[t].res # "none" /\ ~closed THEN tickets[t] ELSE Blank]
    /\ ReaderGone
    /\ UNCHANGED <<pool, sem, next, closed, poisoned, sending, moved, waiting, cpc, worker, hpoisoned, job>>

-----------------------------------------------------------------------------
(* waitProc.                                                               *)

\* cmd.Wait returns: it closes the host's end of stdin, which nobody reads any more.
Reap ==
    /\ wait = "wait" /\ Gone
    /\ procExited' = TRUE /\ stdinOpen' = FALSE /\ stdin' = <<>>
    /\ wait' = "drain" /\ moved' = FALSE
    /\ UNCHANGED <<table, latches, call, writeMu, snd, helper, past, rpc, probed, half, rdPast, rdClosed, landed,
                   cpc, child, out>>

\* Mutant: a window without a frame is followed by another.
DrainWindowAgain ==
    /\ wait = "drain"
    /\ \/ /\ rpc = "done"
          /\ wait' = "out" /\ UNCHANGED moved
       \/ moved' = FALSE /\ UNCHANGED wait
    /\ UNCHANGED <<table, latches, call, sending, rpc, probed, half, rdPast, rdClosed, landed, procExited, cpc, child, out>>

\* readerDone, or a window runs out: another when a frame was delivered in it,
\* and otherwise the read is unblocked: by a deadline, or by closing a descriptor
\* that takes none.
DrainWindow ==
    /\ wait = "drain"
    /\ \/ /\ rpc = "done"
          /\ wait' = "out" /\ UNCHANGED <<moved, rdPast, rdClosed>>
       \/ /\ moved
          /\ moved' = FALSE /\ UNCHANGED <<wait, rdPast, rdClosed>>
       \/ /\ ~moved
          /\ \/ ~rdClosed /\ rdPast' = TRUE /\ UNCHANGED rdClosed
             \/ rdClosed' = TRUE /\ rdPast' = FALSE
          /\ wait' = "out" /\ UNCHANGED moved
    /\ UNCHANGED <<table, latches, call, sending, rpc, probed, half, landed, procExited, cpc, child, out>>

-----------------------------------------------------------------------------
(* The worker: Serve, and one goroutine per submit.                        *)

host == <<table, latches, call, writeMu, snd, helper, past, stdinOpen, reading, waiting, cpc>>

\* Jobs the map of cancels still holds.
Cancellable(t) == job[t].pc \in {"wants", "runs"}
Cancelled(ts) == [t \in Tickets |-> IF t \in ts /\ Cancellable(t)
                                    THEN [job[t] EXCEPT !.cancelled = TRUE] ELSE job[t]]

ServeFrame ==
    /\ worker = "serve" /\ stdin # <<>> /\ Head(stdin).whole
    /\ stdin' = Tail(stdin)
    /\ job' = IF Head(stdin).op = "cancel" THEN Cancelled({Head(stdin).id})
              ELSE [job EXCEPT ![Head(stdin).id].pc = "wants"]
    /\ UNCHANGED <<host, worker, heir, hpoisoned, out>>

\* The end of stdin, perhaps inside a frame cut short.
ServeEnds ==
    /\ worker = "serve" /\ ~stdinOpen
    /\ stdin # <<>> => ~Head(stdin).whole
    /\ worker' = "stop" /\ stdin' = <<>>
    /\ job' = Cancelled(Tickets)
    /\ UNCHANGED <<host, heir, hpoisoned, out>>

\* Every job is answered: Serve returns and the process ends.
WorkerReturns ==
    /\ worker = "stop" /\ \A t \in Tickets : job[t].pc = "none"
    /\ Exit
    /\ UNCHANGED <<host, stdin, out>>

\* The process dies, of anything.
Crash ==
    /\ ~Gone
    /\ Exit
    /\ UNCHANGED <<host, stdin, out>>

\* The deadline a request carries.
JobDeadline(t) ==
    /\ Cancellable(t) /\ ~job[t].cancelled
    /\ job' = Cancelled({t})
    /\ UNCHANGED <<host, worker, heir, hpoisoned, stdin, out>>

Engines == {t \in Tickets : job[t].engine}

\* h.Submit with a permit of the worker's own semaphore.
Admit(t) ==
    /\ job[t].pc = "wants" /\ ~hpoisoned /\ Cardinality(Engines) < pool
    /\ job' = [job EXCEPT ![t].pc = "runs", ![t].engine = TRUE]
    /\ UNCHANGED <<host, worker, heir, hpoisoned, stdin, out>>

\* h.Submit refused by a poisoned handle, and h.Submit or h.Wait left with the
\* context: the engine goes on.
RunReturns(t) ==
    /\ \/ job[t].pc = "wants" /\ hpoisoned
       \/ Cancellable(t) /\ job[t].cancelled
    /\ job' = [job EXCEPT ![t].pc = "answer", ![t].cancelled = FALSE, ![t].res = IF job[t].cancelled THEN "plain" ELSE "poison"]
    /\ UNCHANGED <<host, worker, heir, hpoisoned, stdin, out>>

\* The engine returns or panics; a Wait that is still there has its answer.
EngineEnds(t) ==
    /\ job[t].engine
    /\ \E r \in {"plain", "poison"} :
         /\ hpoisoned' = (hpoisoned \/ r = "poison")
         /\ job' = [job EXCEPT ![t].engine = FALSE,
                               ![t].cancelled = @ /\ job[t].pc # "runs",
                               ![t].pc = IF @ = "runs" THEN "answer" ELSE @,
                               ![t].res = IF job[t].pc = "runs" THEN r ELSE @]
    /\ UNCHANGED <<host, worker, heir, stdin, out>>

\* A header and then a body; the job is over, but its engine may not be.
Half(t) ==
    /\ out' = Append(out, [id |-> t, part |-> IF job[t].pc = "answer" THEN 1 ELSE 2, res |-> job[t].res])
    /\ job' = [job EXCEPT ![t] = IF @.pc = "answer" THEN [@ EXCEPT !.pc = "head"]
                                ELSE [NoJob EXCEPT !.engine = job[t].engine]]
    /\ UNCHANGED <<host, worker, heir, hpoisoned, stdin>>

\* Under wmu.
Answer(t) ==
    /\ job[t].pc \in {"answer", "head"} /\ \A u \in Tickets \ {t} : job[u].pc # "head"
    /\ Half(t)

-----------------------------------------------------------------------------
Caller(c) ==
    \/ SubmitStart(c) \/ AcquirePermit(c) \/ LeaveSem(c) \/ RegisterTicket(c) \/ SendFailed(c) \/ AwaitReader(c)
    \/ \E t \in Tickets : WaitTicket(c, t)
    \/ TakeAnswer(c) \/ WaitContextEnds(c) \/ WaitGivesUp(c)

\* The steps of a send that nothing outside it decides.
Sender(x) ==
    \/ LockWrite(x) \/ WriteBody(x) \/ WriteCut(x)
    \/ StopWatch(x) \/ PoisonStream(x) \/ ShutStdin(x)

Reader == ReadHead \/ ReadBody \/ ReadDeadline \/ ReadEnds \/ Sweep
WaitProc == Reap \/ DrainWindow
Close == CloseBegin \/ CloseStdin \/ CloseKill \/ CloseReturns
Serve == ServeFrame \/ ServeEnds \/ WorkerReturns
Job(t) == Admit(t) \/ RunReturns(t) \/ Answer(t)

ProcNext ==
    \/ \E c \in Callers : Caller(c)
    \/ \E x \in Senders : Sender(x) \/ LeaveLock(x) \/ SendContextEnds(x)
    \/ \E t \in Tickets : Discard(t) \/ Job(t) \/ JobDeadline(t) \/ EngineEnds(t)
    \/ WatchFires \/ Reader \/ ProbeLapses \/ WaitProc \/ Close \/ Serve \/ Crash

ProcSpec == ProcInit /\ [][ProcNext]_procVars

\* Goroutines run, and timers expire: the cancel's budget, the drain window, the
\* probe and Close's budget.  Nothing is asked of a caller's context, of an
\* engine or of the moment a worker dies.
ProcFairSpec ==
    /\ ProcSpec
    /\ \A c \in Callers : WF_procVars(RegisterTicket(c) \/ SendFailed(c) \/ TakeAnswer(c) \/ WaitGivesUp(c)
                                  \/ (rpc = "done" /\ (LeaveSem(c) \/ AwaitReader(c))))
    /\ \A x \in Senders : WF_procVars(Sender(x))
    /\ \A t \in Tickets : WF_procVars(SendContextEnds(t) \/ LeaveLock(t)) /\ WF_procVars(Job(t))
    /\ WF_procVars(WatchFires) /\ WF_procVars(Reader) /\ WF_procVars(ProbeLapses)
    /\ WF_procVars(WaitProc) /\ WF_procVars(Serve)
    /\ WF_procVars(CloseStdin \/ CloseKill \/ CloseReturns)

-----------------------------------------------------------------------------
ProcTypes ==
    /\ pool \in PoolSizes /\ sem \in 0..pool /\ next \in 0..MaxTicket
    /\ tickets \in [Tickets -> [in : BOOLEAN, res : {"none", "stored"},
                                waiter : Callers \cup {Nobody}, abandoned : BOOLEAN]]
    /\ {closed, poisoned, dead, past, stdinOpen, probed, rdPast, rdClosed, landed, moved, procExited, heir, hpoisoned} \subseteq BOOLEAN
    /\ \A c \in Callers : call[c].pc \in {"absent", "idle", "sem", "register", "send", "failed", "await", "wait", "giveup"}
    /\ {writeMu, helper} \subseteq Senders \cup {Nobody}
    /\ \A x \in Senders : snd[x].pc \in {"out", "lock", "body", "stop", "poison", "shut"}
    /\ rpc \in {"read", "ended", "done"} /\ half \in 0..MaxTicket
    /\ cpc \in {"open", "stdin", "wait", "killed", "done"} /\ worker \in {"serve", "stop", "exited"}
    /\ \A t \in Tickets : job[t].pc \in {"none", "wants", "runs", "answer", "head"}

\* Neither stream is misread.  On stdin nothing follows a frame that was cut
\* short, and only the writer that holds writeMu can be writing one (writeLocked,
\* poisonStream).  A write is cut by a deadline only when the writer's own context
\* has ended: the deadline of an earlier frame does not outlive it.  On the
\* protocol pipe the reader takes the halves of one frame after another, across
\* the deadline that waitProc sets (read, streamSrc).
StreamsWhole ==
    /\ \A i \in 1..Len(stdin) : stdin[i].whole \/ i = Len(stdin)
    /\ stdin # <<>> /\ ~stdin[Len(stdin)].whole /\ stdinOpen /\ (~Gone \/ heir) => writeMu # Nobody
    /\ past => writeMu # Nobody /\ snd[writeMu].ended
    /\ rpc = "read" /\ out # <<>> =>
         IF half = 0 THEN Head(out).part = 1 ELSE Head(out).part = 2 /\ Head(out).id = half

\* An id is on its way to the worker, in it or on its way back.
Travels(t) ==
    \/ \E i \in 1..Len(stdin) : stdin[i] = [op |-> "submit", id |-> t, whole |-> TRUE]
    \/ job[t].pc \in {"wants", "runs", "answer", "head"}
    \/ half = t \/ \E i \in 1..Len(out) : out[i].id = t

\* The table, the permits and the callers agree until the reader ends: a permit is
\* out for each submit that registers and for each ticket that is owed, whichever
\* of deliver, a failed send, a giving up, Discard and Close came first; an answer
\* that comes is the answer of an owed ticket; and a caller is parked in Wait with
\* an empty channel exactly when its ticket names it, so that none is left parked
\* by the sweep.
ProcTickets ==
    /\ ProcTypes
    /\ rpc # "done" =>
         sem = Cardinality({t \in Tickets : Owed(t)}) + Cardinality({c \in Callers : Calling(c, "register")})
    /\ rpc = "read" => \A t \in Tickets : Travels(t) => Owed(t)
    /\ \A c \in Callers :
         (call[c].pc \in {"wait", "giveup"} /\ call[c].mail = "none")
           <=> (\E t \in Tickets : tickets[t].waiter = c)
    /\ \A t \in Tickets : tickets[t].waiter # Nobody => Owed(t) /\ call[tickets[t].waiter].t = t /\ rpc # "done"

\* The deadlines that unblock the reader discard nothing by themselves: an answer
\* that the worker had written whole when it died is left in the pipe only when a
\* whole probe has run out without a delivery, or when the descriptor was closed,
\* by Close's kill or because it takes no deadline (read, waitProc).
AnswersKept ==
    rpc # "read" /\ ~rdClosed /\ ~(probed /\ rdPast /\ ~landed)
        => \A i \in 1..Len(out) : out[i].part # 2

\* However the transport fails it settles.  Once the worker's stdin is closed, by
\* Close, by a cut frame or by the worker's exit, the reader ends, though a
\* descendant holds the pipes and an engine never returns; no caller is then left
\* in Wait, in Submit or in a write; and Close returns.
ProcSettles ==
    /\ (~stdinOpen \/ Gone) ~> (rpc = "done" /\ \A c \in Callers : Calling(c, "idle"))
    /\ closed ~> cpc = "done"
=============================================================================
