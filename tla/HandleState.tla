----------------------------- MODULE HandleState -----------------------------
(***************************************************************************)
(* The Go side of a handle (handle.go, submit.go, wait.go, drain.go,       *)
(* tickets.go): callers inside Submit, Wait, WaitBuffer and Discard, the   *)
(* completion reader `drainPipe`, and callers of Close, over the Rust pool *)
(* seen through the FFI.                                                   *)
(*                                                                         *)
(* Each hold of `mu` is one action, and so is each atomic load or channel  *)
(* operation between two holds.  `cgoMu` is read-held by a caller whose pc *)
(* is in CgoPC.  A take buffer has the id of its ticket.  A context may    *)
(* end at any time.  The pool finishes jobs in any order and, when Close   *)
(* gives up on its join, possibly never.  Callers only name tickets that   *)
(* Submit has returned.                                                    *)
(***************************************************************************)
EXTENDS Naturals, FiniteSets

CONSTANTS Clients,         \* goroutines calling Submit, Wait and Discard
          Closers,         \* goroutines calling Close
          MaxTicket,       \* tickets issued
          Chans,           \* the waiters' result channels, fresh or recycled
          Kinds,           \* how a ticket's result may come back
          Pool,            \* cap(sem), the pool size
          MaxUncollected,  \* handleState.maxUncollected, 0 = unlimited
          ReaderMayFail,   \* the pipe may fail while the handle is open
          NoChan,          \* pending has no entry
          Collecting       \* pending's nil: delivered, its waiter is collecting

ASSUME HandleAssumption ==
    /\ IsFiniteSet(Clients)
    /\ MaxTicket \in Nat
    /\ Pool \in Nat \ {0}
    /\ MaxUncollected \in Nat
    /\ ReaderMayFail \in BOOLEAN
    /\ Kinds \in [1..MaxTicket -> SUBSET {"inline", "stored", "owned", "panic"}]
    /\ NoChan \notin Chans /\ Collecting \notin Chans /\ NoChan # Collecting

Tickets == 1..MaxTicket
NoTicket == 0

VARIABLES
    cl,          \* each caller: pc, ticket, result channel, answer, holds a take id
    sem,         \* len(sem): permits out
    semTickets,  \* live tickets, each with a permit
    pending,     \* ticket -> its waiter's channel
    chan,        \* what each result channel holds
    completed,   \* results no waiter has claimed
    abandoned,   \* tickets whose result is promised to the bin
    takeIDs,     \* delivered tickets whose result is in a Rust take buffer
    token,       \* uncollectedCh holds its one token
    poisoned,    \* handleState.poisoned
    closed,      \* handleState.closed
    drainExited, \* handleState.drainExited
    rd,          \* the reader: pc, ticket, answer, take id held, ids to free
    kpc,         \* where each caller of Close is
    stopped,     \* the read deadline is set: reads of the pipe fail
    closeDone,   \* closeDone is closed
    job,         \* the pool's view of each ticket
    rustPoison,  \* Handle.poisoned in Rust
    takeBufs,    \* take buffers alive in the Rust registry
    known        \* tickets Submit has returned to a caller

callVars == <<sem, semTickets, pending, chan, completed, abandoned, takeIDs, token>>
flagVars == <<poisoned, closed, drainExited, stopped, closeDone>>
rustVars == <<job, rustPoison, takeBufs>>
vars == <<cl, callVars, flagVars, rd, kpc, rustVars, known>>

ClientPC == {"idle", "sem", "recheck", "throttle", "uncollected", "enter", "ffi", "insert",
             "parked", "collect", "detach", "discard", "view", "copy", "free"}
\* cgoMu is read-held from enterCgo to RUnlock: across the insert and the copy.
\* Mutant: the lock is dropped before the ticket is inserted.
CgoPCBeforeInsert == {"ffi", "copy"}
CgoPC == {"ffi", "insert", "copy"}
Answers == {"none", "ok", "panic", "closed", "stopped"}
Finished == {"inline", "stored", "owned", "panic"}
Jobs == {"none", "running", "read"} \cup Finished

At(c, pc) == cl[c].pc = pc
Idle == [pc |-> "idle", t |-> NoTicket, ch |-> NoChan, ans |-> "none", id |-> FALSE]
NoAnswer == [t |-> NoTicket, ans |-> "none"]
Completed == {t \in Tickets : completed[t] # "none"}
Unread == {t \in Tickets : job[t] \in Finished}
Running == {t \in Tickets : job[t] = "running"}
InCgo == {c \in Clients : cl[c].pc \in CgoPC}

TypeOK ==
    /\ cl \in [Clients -> [pc : ClientPC, t : Tickets \cup {NoTicket},
                           ch : Chans \cup {NoChan}, ans : Answers, id : BOOLEAN]]
    /\ sem \in 0..Pool
    /\ semTickets \subseteq Tickets
    /\ pending \in [Tickets -> Chans \cup {NoChan, Collecting}]
    /\ chan \in [Chans -> [t : Tickets \cup {NoTicket}, ans : Answers]]
    /\ completed \in [Tickets -> Answers \ {"stopped"}]
    /\ abandoned \subseteq Tickets
    /\ takeIDs \subseteq Tickets
    /\ {token, poisoned, closed, drainExited, stopped, closeDone, rustPoison} \subseteq BOOLEAN
    /\ rd \in [pc : {"next", "deliver", "discard", "free", "done"}, t : Tickets \cup {NoTicket},
               ans : Answers, id : BOOLEAN, held : BOOLEAN, free : SUBSET Tickets]
    /\ kpc \in [Closers -> {"idle", "lock", "join", "await", "second", "done"}]
    /\ job \in [Tickets -> Jobs]
    /\ takeBufs \subseteq Tickets
    /\ known \subseteq Tickets

Init ==
    /\ cl = [c \in Clients |-> Idle]
    /\ sem = 0 /\ semTickets = {}
    /\ pending = [t \in Tickets |-> NoChan]
    /\ chan = [ch \in Chans |-> NoAnswer]
    /\ completed = [t \in Tickets |-> "none"]
    /\ abandoned = {} /\ takeIDs = {} /\ token = FALSE
    /\ poisoned = FALSE /\ closed = FALSE /\ drainExited = FALSE
    /\ rd = [pc |-> "next", t |-> NoTicket, ans |-> "none", id |-> FALSE, held |-> FALSE, free |-> {}]
    /\ kpc = [k \in Closers |-> "idle"]
    /\ stopped = FALSE /\ closeDone = FALSE
    /\ job = [t \in Tickets |-> "none"]
    /\ rustPoison = FALSE /\ takeBufs = {} /\ known = {}

-----------------------------------------------------------------------------
(* Helpers of tickets.go and handle.go. *)

Goto(c, pc) == cl' = [cl EXCEPT ![c].pc = pc]
Leave(c) == cl' = [cl EXCEPT ![c] = Idle]

(* enterCgo: only while the handle is open.  A closer sets `closed` before it
   asks for the exclusive lock, so TryRLock never fails on an open handle. *)
EnterCgo == ~closed

(* <-s.sem by whoever holds the permit. *)
GiveBack == sem' = sem - 1

(* A call refused after it took its permit. *)
Refuse(c) ==
    /\ Leave(c) /\ GiveBack
    /\ UNCHANGED <<semTickets, pending, chan, completed, abandoned, takeIDs, token>>

(* releaseSemLocked: the permit of a live ticket comes back. *)
ReleaseSem(t) ==
    /\ semTickets' = semTickets \ {t}
    /\ sem' = IF t \in semTickets THEN sem - 1 ELSE sem

(* collectLocked: the waiter's entry, its take id and its permit go together. *)
Collect(t) ==
    /\ pending' = [pending EXCEPT ![t] = NoChan]
    /\ takeIDs' = takeIDs \ {t}
    /\ ReleaseSem(t)

(* takeUnclaimedLocked: what it drops and the take ids among it. *)
UnclaimedIDs == Completed \cap takeIDs
TakeUnclaimed ==
    /\ completed' = [t \in Tickets |-> "none"]
    /\ takeIDs' = takeIDs \ Completed
    /\ token' = TRUE

(* Where a claimant goes with its answer: an error frees the take buffer, a
   result in a take buffer is read under cgoMu, anything else returns. *)
WithAnswer(t, ans) ==
    IF t \notin takeIDs
    THEN Idle
    ELSE [pc |-> IF ans = "ok" THEN "view" ELSE "free",
          t |-> t, ch |-> NoChan, ans |-> ans, id |-> TRUE]

(* claimLocked: a stored result moves out; a live ticket with no waiter is
   there to be registered on or abandoned; anything else is refused. *)
\* Mutant: a claimed result stays in `completed`.
ClaimStoredKeepsResult(t) ==
    /\ t \in Completed
    /\ token' = TRUE
    /\ Collect(t)
    /\ UNCHANGED <<chan, abandoned, completed>>
ClaimStored(t) ==
    /\ t \in Completed
    /\ completed' = [completed EXCEPT ![t] = "none"]
    /\ token' = TRUE
    /\ Collect(t)
    /\ UNCHANGED <<chan, abandoned>>

Claimable(t) ==
    /\ t \notin Completed \cup abandoned
    /\ ~closed /\ ~drainExited
    /\ t \in semTickets
    /\ pending[t] = NoChan

-----------------------------------------------------------------------------
(* Submit. *)

Refusing == closed \/ drainExited

SubmitStart(c) ==
    /\ At(c, "idle")
    /\ ~Refusing /\ ~poisoned
    /\ Goto(c, "sem")
    /\ UNCHANGED <<callVars, flagVars, rd, kpc, rustVars, known>>

\* Mutant: the semaphore has no capacity.
AcquireAnyway(c) ==
    /\ At(c, "sem")
    /\ sem' = sem + 1
    /\ Goto(c, "recheck")
    /\ UNCHANGED <<semTickets, pending, chan, completed, abandoned, takeIDs, token,
                   flagVars, rd, kpc, rustVars, known>>
AcquirePermit(c) ==
    /\ At(c, "sem")
    /\ sem < Pool
    /\ sem' = sem + 1
    /\ Goto(c, "recheck")
    /\ UNCHANGED <<semTickets, pending, chan, completed, abandoned, takeIDs, token,
                   flagVars, rd, kpc, rustVars, known>>

(* The checks repeated once the permit is held. *)
Recheck(c) ==
    /\ At(c, "recheck")
    /\ \/ (Refusing \/ poisoned) /\ Refuse(c)
       \/ /\ ~Refusing /\ ~poisoned
          /\ Goto(c, IF MaxUncollected > 0 THEN "throttle" ELSE "enter")
          /\ UNCHANGED callVars
    /\ UNCHANGED <<flagVars, rd, kpc, rustVars, known>>

(* One hold of mu at the head of the uncollected-results loop. *)
\* Mutant: the uncollected results are not counted.
ThrottleUnchecked(c) ==
    /\ At(c, "throttle")
    /\ Goto(c, "enter")
    /\ UNCHANGED <<callVars, flagVars, rd, kpc, rustVars, known>>
Throttle(c) ==
    /\ At(c, "throttle")
    /\ \/ Refusing /\ Refuse(c)
       \/ /\ ~Refusing /\ Cardinality(Completed) >= MaxUncollected
          /\ Goto(c, "uncollected")
          /\ UNCHANGED callVars
       \/ /\ ~Refusing /\ Cardinality(Completed) < MaxUncollected
          /\ Goto(c, "enter")
          /\ token' = (token \/ Cardinality(Completed) + 1 < MaxUncollected)
          /\ UNCHANGED <<sem, semTickets, pending, chan, completed, abandoned, takeIDs>>
    /\ UNCHANGED <<flagVars, rd, kpc, rustVars, known>>

TakeToken(c) ==
    /\ At(c, "uncollected")
    /\ token
    /\ token' = FALSE
    /\ Goto(c, "throttle")
    /\ UNCHANGED <<sem, semTickets, pending, chan, completed, abandoned, takeIDs,
                   flagVars, rd, kpc, rustVars, known>>

(* drainDone wakes the submitters parked in either select. *)
DrainDoneWakes(c) ==
    /\ rd.pc = "done"
    /\ \/ At(c, "sem") /\ Leave(c) /\ UNCHANGED callVars
       \/ At(c, "uncollected") /\ Refuse(c)
    /\ UNCHANGED <<flagVars, rd, kpc, rustVars, known>>

Enter(c) ==
    /\ At(c, "enter")
    /\ \/ EnterCgo /\ Goto(c, "ffi") /\ UNCHANGED callVars
       \/ ~EnterCgo /\ Refuse(c)
    /\ UNCHANGED <<flagVars, rd, kpc, rustVars, known>>

NextTicket == Cardinality({t \in Tickets : job[t] # "none"}) + 1

(* ffi.Submit under cgoMu: refused by the poison flag of either side or by the
   pool itself, or a job runs under a new ticket. *)
FfiSubmit(c) ==
    /\ At(c, "ffi")
    /\ \/ /\ Refuse(c)
          /\ poisoned' = (poisoned \/ rustPoison)
          /\ UNCHANGED job
       \/ /\ ~poisoned /\ ~rustPoison
          /\ NextTicket \in Tickets
          /\ job' = [job EXCEPT ![NextTicket] = "running"]
          /\ cl' = [cl EXCEPT ![c].pc = "insert", ![c].t = NextTicket]
          /\ UNCHANGED <<callVars, poisoned>>
    /\ UNCHANGED <<closed, drainExited, stopped, closeDone, rd, kpc, rustPoison, takeBufs, known>>

(* The permit becomes the ticket's, unless its result has landed already. *)
\* Mutant: a result that landed first is not looked for.
InsertLate(c) ==
    /\ At(c, "insert")
    /\ semTickets' = semTickets \cup {cl[c].t}
    /\ known' = known \cup {cl[c].t}
    /\ Leave(c)
    /\ UNCHANGED <<sem, pending, chan, completed, abandoned, takeIDs, token, flagVars, rd, kpc, rustVars>>
\* Mutant: the permit is given back and the ticket kept live.
InsertKeepsTicket(c) ==
    /\ At(c, "insert")
    /\ semTickets' = semTickets \cup {cl[c].t}
    /\ IF cl[c].t \in Completed THEN GiveBack ELSE UNCHANGED sem
    /\ known' = known \cup {cl[c].t}
    /\ Leave(c)
    /\ UNCHANGED <<pending, chan, completed, abandoned, takeIDs, token, flagVars, rd, kpc, rustVars>>
Insert(c) ==
    /\ At(c, "insert")
    /\ IF cl[c].t \in Completed
       THEN GiveBack /\ UNCHANGED semTickets
       ELSE semTickets' = semTickets \cup {cl[c].t} /\ UNCHANGED sem
    /\ known' = known \cup {cl[c].t}
    /\ Leave(c)
    /\ UNCHANGED <<pending, chan, completed, abandoned, takeIDs, token, flagVars, rd, kpc, rustVars>>

-----------------------------------------------------------------------------
(* Wait, WaitBuffer and Discard. *)

FreeChans == {ch \in Chans : \A c \in Clients : cl[c].ch # ch}

Wait(c, t) ==
    /\ At(c, "idle") /\ t \in known
    /\ \/ /\ ClaimStored(t)
          /\ cl' = [cl EXCEPT ![c] = WithAnswer(t, completed[t])]
       \/ /\ Claimable(t)
          /\ \E ch \in FreeChans :
                /\ pending' = [pending EXCEPT ![t] = ch]
                /\ cl' = [cl EXCEPT ![c] = [Idle EXCEPT !.pc = "parked", !.t = t, !.ch = ch]]
          /\ UNCHANGED <<sem, semTickets, chan, completed, abandoned, takeIDs, token>>
    /\ UNCHANGED <<flagVars, rd, kpc, rustVars, known>>

(* pollResult, or the select that follows it, takes the answer. *)
Receive(c) ==
    /\ At(c, "parked")
    /\ chan[cl[c].ch] # NoAnswer
    /\ chan' = [chan EXCEPT ![cl[c].ch] = NoAnswer]
    /\ cl' = [cl EXCEPT ![c].pc = "collect", ![c].ans = chan[cl[c].ch].ans]
    /\ UNCHANGED <<sem, semTickets, pending, completed, abandoned, takeIDs, token,
                   flagVars, rd, kpc, rustVars, known>>

CollectAnswer(c) ==
    /\ At(c, "collect")
    /\ Collect(cl[c].t)
    /\ cl' = [cl EXCEPT ![c] = WithAnswer(cl[c].t, cl[c].ans)]
    /\ UNCHANGED <<chan, completed, abandoned, token, flagVars, rd, kpc, rustVars, known>>

(* The caller's context ends while it is parked, or before its permit is used. *)
CtxEnds(c) ==
    /\ \/ At(c, "sem") /\ Leave(c) /\ UNCHANGED callVars
       \/ (At(c, "recheck") \/ At(c, "uncollected")) /\ Refuse(c)
       \/ At(c, "parked") /\ Goto(c, "detach") /\ UNCHANGED callVars
    /\ UNCHANGED <<flagVars, rd, kpc, rustVars, known>>

(* After ffi.Cancel: take a completion that raced the context, or abandon. *)
\* Mutant: an abandoning waiter returns the permit itself.
DetachReturnsPermit(c) ==
    /\ At(c, "detach")
    /\ chan' = [chan EXCEPT ![cl[c].ch] = NoAnswer]
    /\ IF chan[cl[c].ch] # NoAnswer
       THEN /\ Collect(cl[c].t)
            /\ cl' = [cl EXCEPT ![c] = WithAnswer(cl[c].t, "none")]
            /\ UNCHANGED abandoned
       ELSE /\ pending' = [pending EXCEPT ![cl[c].t] = NoChan]
            /\ abandoned' = abandoned \cup {cl[c].t}
            /\ ReleaseSem(cl[c].t)
            /\ Leave(c)
            /\ UNCHANGED takeIDs
    /\ UNCHANGED <<completed, token, flagVars, rd, kpc, rustVars, known>>
Detach(c) ==
    /\ At(c, "detach")
    /\ IF chan[cl[c].ch] # NoAnswer
       THEN /\ chan' = [chan EXCEPT ![cl[c].ch] = NoAnswer]
            /\ Collect(cl[c].t)
            /\ cl' = [cl EXCEPT ![c] = WithAnswer(cl[c].t, "none")]
            /\ UNCHANGED abandoned
       ELSE /\ pending' = [pending EXCEPT ![cl[c].t] = NoChan]
            /\ abandoned' = abandoned \cup {cl[c].t}
            /\ Leave(c)
            /\ UNCHANGED <<sem, semTickets, chan, takeIDs>>
    /\ UNCHANGED <<completed, token, flagVars, rd, kpc, rustVars, known>>

Discard(c, t) ==
    /\ At(c, "idle") /\ t \in known
    /\ ~closed
    /\ cl' = [cl EXCEPT ![c].pc = "discard", ![c].t = t]
    /\ UNCHANGED <<callVars, flagVars, rd, kpc, rustVars, known>>

DiscardClaim(c) ==
    /\ At(c, "discard")
    /\ LET t == cl[c].t IN
       \/ ClaimStored(t) /\ cl' = [cl EXCEPT ![c] = WithAnswer(t, "none")]
       \/ /\ Claimable(t)
          /\ abandoned' = abandoned \cup {t}
          /\ Leave(c)
          /\ UNCHANGED <<sem, semTickets, pending, chan, completed, takeIDs, token>>
       \/ /\ t \notin Completed /\ ~Claimable(t)
          /\ Leave(c)
          /\ UNCHANGED callVars
    /\ UNCHANGED <<flagVars, rd, kpc, rustVars, known>>

(* A result in a take buffer is copied or wrapped with cgoMu held. *)
\* Mutant: the take buffer is read without cgoMu.
ViewUnlocked(c) ==
    /\ At(c, "view")
    /\ Goto(c, "copy")
    /\ UNCHANGED <<callVars, flagVars, rd, kpc, rustVars, known>>
View(c) ==
    /\ At(c, "view")
    /\ IF EnterCgo THEN Goto(c, "copy") ELSE Leave(c)
    /\ UNCHANGED <<callVars, flagVars, rd, kpc, rustVars, known>>

Copied(c) ==
    /\ At(c, "copy")
    /\ Goto(c, "free")
    /\ UNCHANGED <<callVars, flagVars, rd, kpc, rustVars, known>>

(* bufFree: Close frees every buffer itself once it has begun. *)
BufFree(t) == takeBufs' = IF EnterCgo THEN takeBufs \ {t} ELSE takeBufs

Free(c) ==
    /\ At(c, "free")
    /\ BufFree(cl[c].t)
    /\ Leave(c)
    /\ UNCHANGED <<callVars, flagVars, rd, kpc, job, rustPoison, known>>

-----------------------------------------------------------------------------
(* The Rust pool.  A panic poisons the handle before its completion is
   published.  A pool that outlived its Close is freed by its last worker. *)
Finish(t, k) ==
    /\ job[t] = "running"
    /\ job' = [job EXCEPT ![t] = k]
    /\ rustPoison' = (rustPoison \/ k = "panic")
    /\ takeBufs' = IF stopped /\ Running = {t} THEN {} ELSE takeBufs
    /\ UNCHANGED <<cl, callVars, flagVars, rd, kpc, known>>

-----------------------------------------------------------------------------
(* The completion reader. *)

ReaderIdle == [rd EXCEPT !.pc = "next", !.t = NoTicket, !.ans = "none", !.id = FALSE, !.held = FALSE]

(* A small success arrives whole: no take, no cgoMu. *)
ReadInline(t) ==
    /\ rd.pc = "next"
    /\ job[t] = "inline"
    /\ job' = [job EXCEPT ![t] = "read"]
    /\ rd' = [rd EXCEPT !.pc = "deliver", !.t = t, !.ans = "ok"]
    /\ UNCHANGED <<cl, callVars, flagVars, kpc, rustPoison, takeBufs, known>>

(* Anything else is taken from Rust, unless the handle is closing. *)
\* Mutant: a taken panic does not latch the poison.
ReadStoredUnlatched(t) ==
    /\ rd.pc = "next"
    /\ job[t] \in Finished \ {"inline"}
    /\ job' = [job EXCEPT ![t] = "read"]
    /\ rd' = [rd EXCEPT !.pc = "deliver", !.t = t, !.ans = IF job[t] = "panic" THEN "panic" ELSE "ok",
                        !.id = (job[t] = "owned")]
    /\ takeBufs' = IF job[t] = "owned" THEN takeBufs \cup {t} ELSE takeBufs
    /\ UNCHANGED <<cl, callVars, flagVars, kpc, rustPoison, known>>
ReadStored(t) ==
    /\ rd.pc = "next"
    /\ job[t] \in Finished \ {"inline"}
    /\ job' = [job EXCEPT ![t] = "read"]
    /\ IF EnterCgo
       THEN /\ rd' = [rd EXCEPT !.pc = "deliver", !.t = t, !.id = (job[t] = "owned"),
                                !.ans = IF job[t] = "panic" THEN "panic" ELSE "ok"]
            /\ poisoned' = (poisoned \/ job[t] = "panic")
            /\ takeBufs' = IF job[t] = "owned" THEN takeBufs \cup {t} ELSE takeBufs
       ELSE /\ rd' = [rd EXCEPT !.pc = "deliver", !.t = t, !.ans = "closed"]
            /\ UNCHANGED <<poisoned, takeBufs>>
    /\ UNCHANGED <<cl, callVars, closed, drainExited, stopped, closeDone, kpc, rustPoison, known>>

(* deliver: to the bin, to the waiter's channel, or to `completed`. *)
DeliverAbandoned ==
    /\ rd.pc = "deliver" /\ rd.t \in abandoned
    /\ abandoned' = abandoned \ {rd.t}
    /\ semTickets' = semTickets \ {rd.t}
    /\ rd' = [rd EXCEPT !.pc = "discard", !.held = (rd.t \in semTickets)]
    /\ UNCHANGED <<sem, pending, chan, completed, takeIDs, token>>
    /\ UNCHANGED <<cl, flagVars, kpc, rustVars, known>>

NoteTakeID == takeIDs' = IF rd.id THEN takeIDs \cup {rd.t} ELSE takeIDs

\* Mutant: the pending entry goes before its waiter collects.
DeliverToWaiterDropsEntry ==
    /\ rd.pc = "deliver" /\ rd.t \notin abandoned
    /\ pending[rd.t] \in Chans
    /\ NoteTakeID
    /\ pending' = [pending EXCEPT ![rd.t] = NoChan]
    /\ chan' = [chan EXCEPT ![pending[rd.t]] = [t |-> rd.t, ans |-> rd.ans]]
    /\ rd' = ReaderIdle
    /\ UNCHANGED <<sem, semTickets, completed, abandoned, token>>
    /\ UNCHANGED <<cl, flagVars, kpc, rustVars, known>>
DeliverToWaiter ==
    /\ rd.pc = "deliver" /\ rd.t \notin abandoned
    /\ pending[rd.t] \in Chans
    /\ chan[pending[rd.t]] = NoAnswer
    /\ NoteTakeID
    /\ pending' = [pending EXCEPT ![rd.t] = Collecting]
    /\ chan' = [chan EXCEPT ![pending[rd.t]] = [t |-> rd.t, ans |-> rd.ans]]
    /\ rd' = ReaderIdle
    /\ UNCHANGED <<sem, semTickets, completed, abandoned, token>>
    /\ UNCHANGED <<cl, flagVars, kpc, rustVars, known>>

\* Mutant: a stored result keeps its permit until it is claimed.
DeliverToStoreKeepsPermit ==
    /\ rd.pc = "deliver" /\ rd.t \notin abandoned
    /\ pending[rd.t] \notin Chans
    /\ NoteTakeID
    /\ completed' = [completed EXCEPT ![rd.t] = rd.ans]
    /\ rd' = ReaderIdle
    /\ UNCHANGED <<sem, semTickets, pending, chan, abandoned, token>>
    /\ UNCHANGED <<cl, flagVars, kpc, rustVars, known>>
DeliverToStore ==
    /\ rd.pc = "deliver" /\ rd.t \notin abandoned
    /\ pending[rd.t] \notin Chans
    /\ NoteTakeID
    /\ completed' = [completed EXCEPT ![rd.t] = rd.ans]
    /\ ReleaseSem(rd.t)
    /\ rd' = ReaderIdle
    /\ UNCHANGED <<pending, chan, abandoned, token>>
    /\ UNCHANGED <<cl, flagVars, kpc, rustVars, known>>

(* The tail of deliver's abandoned branch, after it has unlocked mu. *)
\* Mutant: the bin forgets the take buffer.
DiscardAbandonedKeepsTake ==
    /\ rd.pc = "discard"
    /\ sem' = IF rd.held THEN sem - 1 ELSE sem
    /\ rd' = ReaderIdle
    /\ UNCHANGED <<semTickets, pending, chan, completed, abandoned, takeIDs, token>>
    /\ UNCHANGED <<cl, flagVars, kpc, rustVars, known>>
DiscardAbandoned ==
    /\ rd.pc = "discard"
    /\ IF rd.id THEN BufFree(rd.t) ELSE UNCHANGED takeBufs
    /\ sem' = IF rd.held THEN sem - 1 ELSE sem
    /\ rd' = ReaderIdle
    /\ UNCHANGED <<semTickets, pending, chan, completed, abandoned, takeIDs, token>>
    /\ UNCHANGED <<cl, flagVars, kpc, job, rustPoison, known>>

(* The pipe ends: every waiter hears it and, unless Close owns them, the stored
   results are dropped. *)
Waited == {t \in Tickets : pending[t] \in Chans}
\* Mutant: the reader stops without telling its waiters.
DrainExitSilent ==
    /\ rd.pc = "next"
    /\ stopped \/ ReaderMayFail
    /\ rd' = [rd EXCEPT !.pc = "free"]
    /\ drainExited' = TRUE
    /\ abandoned' = {}
    /\ UNCHANGED <<sem, semTickets, pending, chan, completed, takeIDs, token>>
    /\ UNCHANGED <<cl, poisoned, closed, stopped, closeDone, kpc, rustVars, known>>
DrainExit ==
    /\ rd.pc = "next"
    /\ stopped \/ ReaderMayFail
    /\ \A t \in Waited : chan[pending[t]] = NoAnswer
    /\ chan' = [ch \in Chans |-> IF \E t \in Waited : pending[t] = ch
                                 THEN [t |-> CHOOSE t \in Waited : pending[t] = ch, ans |-> "stopped"]
                                 ELSE chan[ch]]
    /\ pending' = [t \in Tickets |-> IF t \in Waited THEN Collecting ELSE pending[t]]
    /\ IF closed
       THEN rd' = [rd EXCEPT !.pc = "free"] /\ UNCHANGED <<completed, takeIDs, token>>
       ELSE rd' = [rd EXCEPT !.pc = "free", !.free = UnclaimedIDs] /\ TakeUnclaimed
    /\ drainExited' = TRUE
    /\ abandoned' = {}
    /\ UNCHANGED <<sem, semTickets>>
    /\ UNCHANGED <<cl, poisoned, closed, stopped, closeDone, kpc, rustVars, known>>

(* Its take buffers are freed one by one; then drainDone closes. *)
DrainFree ==
    /\ rd.pc = "free"
    /\ \/ \E t \in rd.free : rd' = [rd EXCEPT !.free = @ \ {t}] /\ BufFree(t)
       \/ rd.free = {} /\ rd' = [rd EXCEPT !.pc = "done"] /\ UNCHANGED takeBufs
    /\ UNCHANGED <<cl, callVars, flagVars, kpc, job, rustPoison, known>>

-----------------------------------------------------------------------------
(* Close. *)

CloseBegin(k) ==
    /\ kpc[k] = "idle"
    /\ kpc' = [kpc EXCEPT ![k] = IF closed THEN "second" ELSE "lock"]
    /\ closed' = TRUE
    /\ UNCHANGED <<cl, callVars, poisoned, drainExited, stopped, closeDone, rd, rustVars, known>>

(* cgoMu is held exclusively from here to the end of CloseHandle. *)
CloseLock(k) ==
    /\ kpc[k] = "lock"
    /\ InCgo = {}
    /\ TakeUnclaimed
    /\ takeBufs' = takeBufs \ UnclaimedIDs
    /\ kpc' = [kpc EXCEPT ![k] = "join"]
    /\ UNCHANGED <<cl, sem, semTickets, pending, chan, abandoned, flagVars, rd, job, rustPoison, known>>

(* gusset_handle_close returns, its join done or given up; then the reader is
   stopped. *)
\* Mutant: the reader is left to wait for the end of the pipe.
CloseHandleNoDeadline(k) ==
    /\ kpc[k] = "join"
    /\ takeBufs' = IF Running = {} THEN {} ELSE takeBufs
    /\ kpc' = [kpc EXCEPT ![k] = "await"]
    /\ UNCHANGED <<cl, callVars, flagVars, rd, job, rustPoison, known>>
CloseHandle(k) ==
    /\ kpc[k] = "join"
    /\ takeBufs' = IF Running = {} THEN {} ELSE takeBufs
    /\ stopped' = TRUE
    /\ kpc' = [kpc EXCEPT ![k] = "await"]
    /\ UNCHANGED <<cl, callVars, poisoned, closed, drainExited, closeDone, rd, job, rustPoison, known>>

CloseDrain(k) ==
    /\ kpc[k] = "await"
    /\ rd.pc = "done"
    /\ TakeUnclaimed
    /\ abandoned' = {}
    /\ sem' = sem - Cardinality(semTickets)
    /\ semTickets' = {}
    /\ closeDone' = TRUE
    /\ kpc' = [kpc EXCEPT ![k] = "done"]
    /\ UNCHANGED <<cl, pending, chan, poisoned, closed, drainExited, stopped, rd, rustVars, known>>

CloseSecond(k) ==
    /\ kpc[k] = "second"
    /\ closeDone
    /\ kpc' = [kpc EXCEPT ![k] = "done"]
    /\ UNCHANGED <<cl, callVars, flagVars, rd, rustVars, known>>

-----------------------------------------------------------------------------
(* What a caller inside a call does next, its context permitting. *)
ClientStep(c) ==
    \/ AcquirePermit(c) \/ Recheck(c) \/ Throttle(c) \/ TakeToken(c) \/ DrainDoneWakes(c)
    \/ Enter(c) \/ FfiSubmit(c) \/ Insert(c)
    \/ Receive(c) \/ CollectAnswer(c) \/ Detach(c) \/ DiscardClaim(c)
    \/ View(c) \/ Copied(c) \/ Free(c)

ClientCall(c) ==
    \/ SubmitStart(c)
    \/ \E t \in Tickets : Wait(c, t) \/ Discard(c, t)

ReaderStep ==
    \/ \E t \in Tickets : ReadInline(t) \/ ReadStored(t)
    \/ DeliverAbandoned \/ DeliverToWaiter \/ DeliverToStore \/ DiscardAbandoned
    \/ DrainExit \/ DrainFree

CloserStep(k) == CloseLock(k) \/ CloseHandle(k) \/ CloseDrain(k) \/ CloseSecond(k)

Next ==
    \/ \E c \in Clients : ClientStep(c) \/ ClientCall(c) \/ CtxEnds(c)
    \/ \E t \in Tickets : \E k \in Kinds[t] : Finish(t, k)
    \/ ReaderStep
    \/ \E k \in Closers : CloseBegin(k) \/ CloserStep(k)

Spec == Init /\ [][Next]_vars

\* The reader never chooses to fail: a failing pipe is not owed to anyone.
ReaderDue == ReaderStep /\ (stopped \/ Unread # {} \/ rd.pc # "next")

\* What the Go scheduler owes every goroutine, a job that never ends included.
FairSpec ==
    /\ Spec
    /\ \A c \in Clients : WF_vars(ClientStep(c))
    /\ WF_vars(ReaderDue)
    /\ \A k \in Closers : WF_vars(CloserStep(k))

\* Jobs end, and parked senders of a Go channel are served in order.
JobsEnd ==
    /\ \A t \in Tickets : WF_vars(\E k \in Kinds[t] : Finish(t, k))
    /\ \A c \in Clients : SF_vars(AcquirePermit(c))

-----------------------------------------------------------------------------
(* Properties. *)

Holding == {c \in Clients : cl[c].pc \in
              {"recheck", "throttle", "uncollected", "enter", "ffi", "insert"}}
InReader == IF rd.pc = "deliver" THEN {rd.t} ELSE {}
InFlight == Running \cup Unread \cup InReader
AnswerAt(c) == cl[c].pc \in {"view", "copy", "free"} \/ (At(c, "collect") /\ cl[c].ans # "stopped")

(* Permits are conserved (submit.go, tickets.go, deliver, close): `len(sem)` is
   the live tickets, the submitters that hold a permit and have no ticket yet,
   and the one the reader is about to give back.  No `<-s.sem` can block. *)
PermitsConserved ==
    sem = Cardinality(semTickets) + Cardinality(Holding)
          + (IF rd.pc = "discard" /\ rd.held THEN 1 ELSE 0)

(* I4: the jobs in Rust and their unread completions never outnumber the pool,
   whatever callers abandon, discard or close, and after the reader fails. *)
InFlightBounded == Cardinality(InFlight) <= Pool

(* deliver and collectLocked give back the permit of work that has stopped: a
   live ticket is in flight or its waiter is about to collect it, so
   fire-and-forget submissions never wedge the handle. *)
PermitsFollowWork ==
    ~drainExited => \A t \in semTickets : t \in InFlight \/ pending[t] = Collecting

(* A result moves: it is in Rust, in the reader's hand, in a channel, in
   `completed` or with one claimant, never in two of these. *)
OneHolder ==
    \A t \in Tickets :
        Cardinality({p \in {"rust", "reader", "store"} :
                        \/ p = "rust" /\ t \in Running \cup Unread
                        \/ p = "reader" /\ rd.pc \in {"deliver", "discard"} /\ rd.t = t
                        \/ p = "store" /\ t \in Completed})
        + Cardinality({ch \in Chans : chan[ch].t = t /\ chan[ch].ans # "stopped"})
        + Cardinality({c \in Clients : AnswerAt(c) /\ cl[c].t = t}) <= 1

(* A caller parked in waitInternal has its own ticket's answer in its channel,
   or its channel is empty and registered for a completion still to come; no
   other waiter shares it, and the reader's send cannot block on it. *)
WaiterWillHear ==
    \A c \in Clients : cl[c].pc \in {"parked", "detach"} =>
        /\ \A d \in Clients \ {c} : cl[d].ch # cl[c].ch
        /\ \/ chan[cl[c].ch].t = cl[c].t /\ pending[cl[c].t] = Collecting
           \/ /\ chan[cl[c].ch] = NoAnswer
              /\ pending[cl[c].t] = cl[c].ch
              /\ cl[c].t \in InFlight
              /\ ~drainExited

(* I1: Wait and WaitBuffer read a take buffer only while Rust still owns it,
   whatever Close is doing. *)
TakeViewLive == \A c \in Clients : At(c, "copy") => cl[c].t \in takeBufs

(* While the handle is open, every take buffer belongs to a delivered result,
   to the reader or to a claimant, and each of those still has its buffer: none
   is leaked and none is freed early. *)
TakeBuffersOwned ==
    ~closed => takeBufs = takeIDs \cup rd.free
                          \cup {t \in Tickets : rd.id /\ rd.t = t}
                          \cup {cl[c].t : c \in {d \in Clients : cl[d].id}}

(* When Close returns no ticket is live, no result is stored, every permit is
   back but those of submitters on their way out, and a joined pool holds no
   take buffer. *)
CloseLeavesNothing ==
    closeDone => /\ semTickets = {} /\ Completed = {} /\ abandoned = {}
                 /\ sem = Cardinality(Holding)
                 /\ Running = {} => takeBufs = {}

(* I2: a caller that can see a panic finds the handle already poisoned. *)
PanicLatched ==
    (\/ rd.ans = "panic"
     \/ \E t \in Tickets : completed[t] = "panic"
     \/ \E ch \in Chans : chan[ch].ans = "panic"
     \/ \E c \in Clients : cl[c].ans = "panic") => poisoned

(* What WithMaxUncollected achieves: submitters that passed the check together
   may overshoot the ceiling, by less than the pool. *)
UncollectedBound ==
    MaxUncollected > 0 => Cardinality(Completed) < MaxUncollected + Pool

(* handle.go: "maxUncollected bounds uncollected completed results". *)
UncollectedCeiling ==
    MaxUncollected > 0 => Cardinality(Completed) <= MaxUncollected

(* The ticket lifecycle the handle promises. *)
PhaseOf(t) ==
    CASE job[t] = "none" -> "new"
      [] t \in InFlight -> "flight"
      [] t \in Completed \/ (\E ch \in Chans : chan[ch].t = t /\ chan[ch].ans # "stopped") -> "landed"
      [] OTHER -> "spent"

Lifecycle == INSTANCE TicketLifecycle WITH phase <- [t \in Tickets |-> PhaseOf(t)]

(* Every step of the handle issues, lands, claims or drops a ticket the way
   TicketLifecycle allows, or changes none: no ticket is issued over the pool,
   and none comes back once spent. *)
ImplementsTickets == Lifecycle!PhaseSpec

(* Every Wait is answered once jobs end, the reader failing included. *)
WaiterReturns == JobsEnd => \A c \in Clients : At(c, "parked") ~> ~At(c, "parked")

(* Fire-and-forget never wedges Submit: with no ceiling on uncollected results
   a submitter parked on the semaphore leaves it. *)
SubmitterAdmitted == JobsEnd => \A c \in Clients : At(c, "sem") ~> ~At(c, "sem")

(* Close returns and releases every parked caller, even when a job never ends. *)
ReleasedByClose ==
    closed ~> (closeDone /\ \A c \in Clients : cl[c].pc \notin {"sem", "uncollected", "parked"})

(* CHANGELOG.md: Submit "waits on `uncollectedCh` until `Wait`, `WaitBuffer`, or
   `Discard` drains a slot": a submitter does not stay parked while there is
   room below the ceiling. *)
RoomWakesSubmitter ==
    JobsEnd => \A c \in Clients :
        (At(c, "uncollected") /\ Cardinality(Completed) < MaxUncollected)
            ~> (~At(c, "uncollected") \/ Cardinality(Completed) >= MaxUncollected)

(* What a permit stands for: permits are conserved and follow the work, and
   they bound what is in flight and what sits uncollected (submit.go, drain.go,
   tickets.go). *)
PermitsKept ==
    TypeOK /\ PermitsConserved /\ PermitsFollowWork /\ InFlightBounded /\ UncollectedBound

(* What a result is: in one place, its take buffer alive while it is read and
   freed once, and a panic never seen before the poison (wait.go, drain.go). *)
ResultsKept == OneHolder /\ TakeViewLive /\ TakeBuffersOwned /\ PanicLatched

(* Nobody is left parked in Submit or by Close (submit.go, handle.go close). *)
CallersReleased == SubmitterAdmitted /\ ReleasedByClose
=============================================================================
