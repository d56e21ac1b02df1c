--------------------------- MODULE CompletionRing ---------------------------
(***************************************************************************)
(* How a finished job's outcome reaches the Go reader: the shared-memory   *)
(* completion ring (crates/gusset/src/pool/ring.rs), the worker's side of  *)
(* it (pool/completion.rs, `complete`), and the reader goroutine           *)
(* (ticket_reader.go, `next` and `waitRing`).  The pipe beside the ring    *)
(* carries wake tokens for a parked reader, and whole records when the     *)
(* ring is full.                                                           *)
(*                                                                         *)
(* Every access to a shared atomic is a step of its own, so the model has  *)
(* the interleavings of the park handshake; the code's fences give them a  *)
(* single order, which the model takes for granted.  Positions are the     *)
(* code's u64 counters, far from wrapping.  A record's words are two: the  *)
(* ticket with its inline flag, and the payload, of which only identity    *)
(* matters (a payload is named after the ticket it belongs to).            *)
(***************************************************************************)
EXTENDS Integers, Sequences, FiniteSets

CONSTANTS Producers,  \* worker threads inside `complete`
          MaxTicket,  \* how many completions a behaviour may have
          Kinds,      \* a ticket's results: "small" may travel inline, "stored" may not
          Cap,        \* RingShared.capacity
          PoolSizes,  \* how many tickets may be in flight: cap(handleState.sem)
          InlinePools, \* Handle.inline_ok: pools the pipe was sized for records of
          PipeCap     \* records the pipe holds before a write would block

ASSUME RingAssumption ==
    /\ IsFiniteSet(Producers)
    /\ MaxTicket \in Nat
    /\ Kinds \in [1..MaxTicket -> SUBSET {"small", "stored"}]
    /\ Cap \in Nat \ {0, 1}
    /\ PoolSizes \subseteq Nat \ {0}
    /\ InlinePools \subseteq PoolSizes
    /\ PipeCap \in Nat \ {0}

\* Tickets are named in the order in which their completions begin; ticket 0
\* is never issued.
Tickets == 1..MaxTicket

NoTicket == 0

VARIABLES
    \* shared memory
    tail, slot, waiting, overflow,
    \* the Rust handle
    results, closed, fdOpen, poisoned,
    \* the producers: the locals of a running `complete`, the number of
    \* completions begun, and those among them with a small result
    prod, begun, small,
    \* the permits the Go side was opened with
    permits,
    \* the pipe
    pipe, rdOpen, deadline,
    \* the reader
    rpc, head, cur, buf, start, overflowSeen, tokensOwed, delivered

ringVars == <<tail, slot, waiting, overflow>>
rustVars == <<results, closed, fdOpen, poisoned>>
prodVars == <<prod, begun, small, permits>>
pipeVars == <<pipe, rdOpen, deadline>>
readVars == <<rpc, head, cur, buf, start, overflowSeen, tokensOwed, delivered>>

vars == <<ringVars, rustVars, prodVars, pipeVars, readVars>>

MaybeTicket == Tickets \cup {NoTicket}

Record == [t : MaybeTicket, inline : BOOLEAN, data : MaybeTicket]

Bare(t) == [t |-> t, inline |-> FALSE, data |-> NoTicket]

Inline(t) == [t |-> t, inline |-> TRUE, data |-> t]

\* The wake token: ticket 0, which the reader drops.
Token == Bare(NoTicket)

Slots == 0..(Cap - 1)

SlotAt(n) == slot[n % Cap]

\* A worker that is not inside `complete`.
Away == [pc |-> "idle", pos |-> 0, job |-> NoTicket]

ProducerPC == {"idle", "seq", "cas", "word", "data", "publish", "load", "swap",
               "token", "spill", "note"}

ReaderPC == {"ring", "pop", "data", "free", "hand", "parse", "pending", "wait",
             "announce", "recheckRing", "recheckOverflow", "park", "unannounce",
             "fail", "exited"}

TypeOK ==
    /\ tail \in Nat
    /\ slot \in [Slots -> [seq : Nat, t : MaybeTicket, inline : BOOLEAN, data : MaybeTicket]]
    /\ waiting \in {0, 1}
    /\ overflow \in Nat
    /\ results \subseteq Tickets
    /\ closed \in BOOLEAN /\ fdOpen \in BOOLEAN /\ poisoned \in BOOLEAN
    /\ prod \in [Producers -> [pc : ProducerPC, pos : Nat, job : MaybeTicket]]
    /\ begun \in 0..MaxTicket
    /\ small \subseteq Tickets
    /\ permits \in PoolSizes
    /\ pipe \in Seq(Record) /\ Len(pipe) <= PipeCap
    /\ rdOpen \in BOOLEAN /\ deadline \in BOOLEAN
    /\ rpc \in ReaderPC
    /\ head \in Nat
    /\ cur \in Record
    /\ buf \in Seq(Record)
    /\ start \in Nat
    /\ overflowSeen \in Nat
    /\ tokensOwed \in Nat
    /\ delivered \in [Tickets -> Nat]

Init ==
    /\ tail = 0
    /\ slot = [i \in Slots |-> [seq |-> i, t |-> NoTicket, inline |-> FALSE, data |-> NoTicket]]
    /\ waiting = 0
    /\ overflow = 0
    /\ results = {}
    /\ closed = FALSE /\ fdOpen = TRUE /\ poisoned = FALSE
    /\ prod = [p \in Producers |-> Away]
    /\ begun = 0
    /\ small = {}
    /\ permits \in PoolSizes
    /\ pipe = <<>> /\ rdOpen = TRUE /\ deadline = FALSE
    /\ rpc = "ring"
    /\ head = 0
    /\ cur = Token
    /\ buf = <<>>
    /\ start = 0
    /\ overflowSeen = 0
    /\ tokensOwed = 0
    /\ delivered = [t \in Tickets |-> 0]

-----------------------------------------------------------------------------
(* The worker's side: `complete`, `try_publish`, `take_waiter`.            *)

Started == 1..begun

InFlight == {t \in Started : delivered[t] = 0}

\* What `complete` publishes for its ticket.
Outcome(t) == IF t \in small THEN Inline(t) ELSE Bare(t)

GoTo(p, pc) == prod' = [prod EXCEPT ![p].pc = pc]

Return(p) == prod' = [prod EXCEPT ![p] = Away]

\* `complete` up to the first load of `tail`.  A result that cannot travel
\* inline is stored before its ticket is announced.
Complete(p, kind) ==
    LET t == begun + 1
    IN  /\ prod[p].pc = "idle"
        /\ fdOpen
        /\ begun < MaxTicket
        /\ kind \in Kinds[t]
        /\ Cardinality(InFlight) < permits
        /\ begun' = t
        /\ IF kind = "small"
             THEN small' = small \cup {t} /\ UNCHANGED results
             ELSE results' = results \cup {t} /\ UNCHANGED small
        /\ prod' = [prod EXCEPT ![p] = [pc |-> "seq", pos |-> tail, job |-> t]]
        /\ UNCHANGED <<ringVars, closed, fdOpen, poisoned, permits, pipeVars, readVars>>

\* The slot's sequence tells whether it is free, unread or already claimed.
LoadSeq(p) ==
    LET seq == SlotAt(prod[p].pos).seq
        n == prod[p].pos
    IN  /\ prod[p].pc = "seq"
        /\ \/ seq = n /\ GoTo(p, "cas")
           \/ seq < n /\ GoTo(p, "spill")
           \/ seq > n /\ prod' = [prod EXCEPT ![p].pos = tail]
        /\ UNCHANGED <<ringVars, rustVars, begun, small, permits, pipeVars, readVars>>

\* Mutant: the claim is a plain store, not a compare-exchange.
ClaimUnchecked(p) ==
    /\ prod[p].pc = "cas"
    /\ tail' = prod[p].pos + 1
    /\ GoTo(p, "word")
    /\ UNCHANGED <<slot, waiting, overflow, rustVars, begun, small, permits, pipeVars, readVars>>

\* compare_exchange_weak succeeds only on an unmoved tail, and may fail anyway.
Claim(p) ==
    /\ prod[p].pc = "cas"
    /\ tail = prod[p].pos
    /\ tail' = tail + 1
    /\ GoTo(p, "word")
    /\ UNCHANGED <<slot, waiting, overflow, rustVars, begun, small, permits, pipeVars, readVars>>

ClaimFails(p) ==
    /\ prod[p].pc = "cas"
    /\ prod' = [prod EXCEPT ![p].pos = tail, ![p].pc = "seq"]
    /\ UNCHANGED <<ringVars, rustVars, begun, small, permits, pipeVars, readVars>>

\* A step that writes the slot the producer has claimed.
WriteSlot(p, s, next) ==
    /\ slot' = [slot EXCEPT ![prod[p].pos % Cap] = s]
    /\ GoTo(p, next)
    /\ UNCHANGED <<tail, waiting, overflow, rustVars, begun, small, permits, pipeVars, readVars>>

\* Mutant: the slot is published with its first word.
WriteWordPublished(p) ==
    LET t == prod[p].job
    IN  /\ prod[p].pc = "word"
        /\ WriteSlot(p, [SlotAt(prod[p].pos) EXCEPT !.t = t, !.inline = Outcome(t).inline,
                                                    !.seq = prod[p].pos + 1],
                     IF t \in small THEN "data" ELSE "publish")

WriteWord(p) ==
    LET t == prod[p].job
    IN  /\ prod[p].pc = "word"
        /\ WriteSlot(p, [SlotAt(prod[p].pos) EXCEPT !.t = t, !.inline = Outcome(t).inline],
                     IF t \in small THEN "data" ELSE "publish")

WriteData(p) ==
    /\ prod[p].pc = "data"
    /\ WriteSlot(p, [SlotAt(prod[p].pos) EXCEPT !.data = prod[p].job], "publish")

Publish(p) ==
    /\ prod[p].pc = "publish"
    /\ WriteSlot(p, [SlotAt(prod[p].pos) EXCEPT !.seq = prod[p].pos + 1], "load")

\* `take_waiter`: a load, and a swap only if the load saw the flag.
LoadWaiting(p) ==
    /\ prod[p].pc = "load"
    /\ IF waiting # 0 THEN GoTo(p, "swap") ELSE Return(p)
    /\ UNCHANGED <<ringVars, rustVars, begun, small, permits, pipeVars, readVars>>

SwapWaiting(p) ==
    /\ prod[p].pc = "swap"
    /\ waiting' = 0
    /\ IF waiting # 0 THEN GoTo(p, "token") ELSE Return(p)
    /\ UNCHANGED <<tail, slot, overflow, rustVars, begun, small, permits, pipeVars, readVars>>

\* `write_completion`: the record lands when the pipe has room; a writer that
\* finds it full retries until the handle closes.
Lands == fdOpen /\ rdOpen /\ Len(pipe) < PipeCap

GivesUp == ~fdOpen \/ (rdOpen /\ Len(pipe) >= PipeCap /\ closed)

\* EPIPE: the reader is gone for good, and the handle is poisoned.
HardError == fdOpen /\ ~rdOpen

WriteLost == GivesUp \/ HardError

WriteToken(p) ==
    /\ prod[p].pc = "token"
    /\ \/ Lands /\ pipe' = Append(pipe, Token) /\ UNCHANGED poisoned
       \/ WriteLost /\ UNCHANGED pipe /\ poisoned' = (poisoned \/ HardError)
    /\ Return(p)
    /\ UNCHANGED <<ringVars, results, closed, fdOpen, begun, small, permits, rdOpen, deadline, readVars>>

\* The record that goes through the pipe when the ring was full: an inline
\* one only if the pipe was sized for it, else the result is stored first.
Spilled(t) == IF permits \in InlinePools THEN Outcome(t) ELSE Bare(t)

\* Mutant: the spill is counted whether or not it reached the pipe.
SpillCountedAnyway(p) ==
    LET t == prod[p].job
    IN  /\ prod[p].pc = "spill"
        /\ results' = IF Spilled(t).inline THEN results ELSE results \cup {t}
        /\ \/ Lands /\ pipe' = Append(pipe, Spilled(t)) /\ UNCHANGED poisoned
           \/ WriteLost /\ UNCHANGED pipe /\ poisoned' = (poisoned \/ HardError)
        /\ GoTo(p, "note")
        /\ UNCHANGED <<ringVars, closed, fdOpen, begun, small, permits, rdOpen, deadline, readVars>>

Spill(p) ==
    LET t == prod[p].job
    IN  /\ prod[p].pc = "spill"
        /\ results' = IF Spilled(t).inline THEN results ELSE results \cup {t}
        /\ \/ /\ Lands
              /\ pipe' = Append(pipe, Spilled(t))
              /\ GoTo(p, "note")
              /\ UNCHANGED poisoned
           \/ /\ WriteLost
              /\ poisoned' = (poisoned \/ HardError)
              /\ Return(p)
              /\ UNCHANGED pipe
        /\ UNCHANGED <<ringVars, closed, fdOpen, begun, small, permits, rdOpen, deadline, readVars>>

NoteOverflow(p) ==
    /\ prod[p].pc = "note"
    /\ overflow' = overflow + 1
    /\ Return(p)
    /\ UNCHANGED <<tail, slot, waiting, rustVars, begun, small, permits, pipeVars, readVars>>

-----------------------------------------------------------------------------
(* The reader's side: `next`, `popRing`, `waitRing`.                       *)

HeadReady == SlotAt(head).seq = head + 1

\* int64(ov - overflowSeen) > 0: a record read before its producer counted it
\* makes the difference negative, not pending.
OverflowPending == overflow > overflowSeen

\* A read finds bytes, or the end of the stream, or the deadline `close` set.
ReadFails == deadline \/ (pipe = <<>> /\ ~fdOpen)

\* The words of a record: a ticket, and for an inline one its length (the
\* payload is empty).
Words(r) == IF r.inline THEN 2 ELSE 1

\* `fillMode`: what has been parsed leaves the buffer, and a read moves the next
\* n records in; a buffer that fills up leaves the rest.
Fill(n) ==
    /\ buf' = buf \o SubSeq(pipe, 1, n)
    /\ pipe' = SubSeq(pipe, n + 1, Len(pipe))
    /\ start' = 0

CheckRing ==
    /\ rpc = "ring"
    /\ rpc' = IF HeadReady THEN "pop" ELSE "parse"
    /\ UNCHANGED <<ringVars, rustVars, prodVars, pipeVars,
                   head, cur, buf, start, overflowSeen, tokensOwed, delivered>>

\* `popRing`: the ticket word, the payload if it is flagged, then the slot's
\* sequence, which hands it back to the producers.
PopWord ==
    /\ rpc = "pop"
    /\ cur' = [t |-> SlotAt(head).t, inline |-> SlotAt(head).inline, data |-> NoTicket]
    /\ rpc' = IF SlotAt(head).inline THEN "data" ELSE "free"
    /\ UNCHANGED <<ringVars, rustVars, prodVars, pipeVars,
                   head, buf, start, overflowSeen, tokensOwed, delivered>>

PopData ==
    /\ rpc = "data"
    /\ cur' = [cur EXCEPT !.data = SlotAt(head).data]
    /\ rpc' = "free"
    /\ UNCHANGED <<ringVars, rustVars, prodVars, pipeVars,
                   head, buf, start, overflowSeen, tokensOwed, delivered>>

\* Mutant: the sequence handed back is one short of the next lap's position.
PopFreeShort ==
    /\ rpc = "free"
    /\ slot' = [slot EXCEPT ![head % Cap].seq = head + Cap - 1]
    /\ head' = head + 1
    /\ rpc' = "hand"
    /\ UNCHANGED <<tail, waiting, overflow, rustVars, prodVars, pipeVars,
                   cur, buf, start, overflowSeen, tokensOwed, delivered>>

PopFree ==
    /\ rpc = "free"
    /\ slot' = [slot EXCEPT ![head % Cap].seq = head + Cap]
    /\ head' = head + 1
    /\ rpc' = "hand"
    /\ UNCHANGED <<tail, waiting, overflow, rustVars, prodVars, pipeVars,
                   cur, buf, start, overflowSeen, tokensOwed, delivered>>

\* `drainPipe` takes the stored result of a bare ticket and delivers; from
\* here the ticket's permit can be used again.
Hand ==
    /\ rpc = "hand"
    /\ delivered' = [delivered EXCEPT ![cur.t] = @ + 1]
    /\ results' = IF cur.inline THEN results ELSE results \ {cur.t}
    /\ cur' = Token
    /\ rpc' = "ring"
    /\ UNCHANGED <<ringVars, closed, fdOpen, poisoned, prodVars, pipeVars,
                   head, buf, start, overflowSeen, tokensOwed>>

\* Whole records already read from the pipe: wake tokens, or overflow.
Parse ==
    /\ rpc = "parse"
    /\ \/ /\ buf = <<>>
          /\ rpc' = "pending"
          /\ UNCHANGED <<cur, buf, start, overflowSeen, tokensOwed>>
       \/ /\ buf # <<>>
          /\ buf' = Tail(buf)
          /\ start' = start + Words(Head(buf))
          /\ IF Head(buf) = Token
             THEN /\ tokensOwed' = IF tokensOwed > 0 THEN tokensOwed - 1 ELSE 0
                  /\ rpc' = "ring"
                  /\ UNCHANGED <<cur, overflowSeen>>
             ELSE /\ overflowSeen' = overflowSeen + 1
                  /\ cur' = Head(buf)
                  /\ rpc' = "hand"
                  /\ UNCHANGED tokensOwed
    /\ UNCHANGED <<ringVars, rustVars, prodVars, pipeVars, head, delivered>>

\* The words of the first n records of the pipe, at most PipeCap of them.
WordsRead(n) == n + Cardinality({i \in 1..n : pipe[i].inline})

\* Bytes are in the pipe, or about to be: take what is there, never block.  The
\* loop goes on when the end of the buffer has moved, which the bytes that left
\* its front move as well: a read of just as many looks like none.
ReadNow ==
    /\ rpc = "pending"
    /\ OverflowPending \/ tokensOwed > 0
    /\ \/ \E n \in 0..Len(pipe) :
            /\ ~ReadFails
            /\ n = 0 => pipe = <<>>
            /\ Fill(n)
            /\ rpc' = IF WordsRead(n) # start THEN "ring" ELSE "wait"
       \/ ReadFails /\ rpc' = "exited" /\ UNCHANGED <<buf, pipe, start>>
    /\ UNCHANGED <<ringVars, rustVars, prodVars, rdOpen, deadline,
                   head, cur, overflowSeen, tokensOwed, delivered>>

NothingDue ==
    /\ rpc = "pending"
    /\ ~OverflowPending /\ tokensOwed = 0
    /\ rpc' = "wait"
    /\ UNCHANGED <<ringVars, rustVars, prodVars, pipeVars,
                   head, cur, buf, start, overflowSeen, tokensOwed, delivered>>

\* The polling window of `waitRing`: it may end at any time.
Poll ==
    /\ rpc = "wait"
    /\ \/ (HeadReady \/ OverflowPending) /\ rpc' = "ring"
       \/ rpc' = "announce"
    /\ UNCHANGED <<ringVars, rustVars, prodVars, pipeVars,
                   head, cur, buf, start, overflowSeen, tokensOwed, delivered>>

Announce ==
    /\ rpc = "announce"
    /\ waiting' = 1
    /\ rpc' = "recheckRing"
    /\ UNCHANGED <<tail, slot, overflow, rustVars, prodVars, pipeVars,
                   head, cur, buf, start, overflowSeen, tokensOwed, delivered>>

\* Mutant: the reader parks without looking at the ring again.
RecheckRingSkipped ==
    /\ rpc = "recheckRing"
    /\ rpc' = "recheckOverflow"
    /\ UNCHANGED <<ringVars, rustVars, prodVars, pipeVars,
                   head, cur, buf, start, overflowSeen, tokensOwed, delivered>>

RecheckRing ==
    /\ rpc = "recheckRing"
    /\ rpc' = IF HeadReady THEN "unannounce" ELSE "recheckOverflow"
    /\ UNCHANGED <<ringVars, rustVars, prodVars, pipeVars,
                   head, cur, buf, start, overflowSeen, tokensOwed, delivered>>

RecheckOverflow ==
    /\ rpc = "recheckOverflow"
    /\ rpc' = IF OverflowPending THEN "unannounce" ELSE "park"
    /\ UNCHANGED <<ringVars, rustVars, prodVars, pipeVars,
                   head, cur, buf, start, overflowSeen, tokensOwed, delivered>>

\* Mutant: a parked read is not ended by the deadline.
ParkNoDeadline ==
    /\ rpc = "park"
    /\ \/ \E n \in 1..Len(pipe) : ~deadline /\ Fill(n) /\ rpc' = "unannounce"
       \/ pipe = <<>> /\ ~fdOpen /\ rpc' = "fail" /\ UNCHANGED <<buf, pipe, start>>
    /\ UNCHANGED <<ringVars, rustVars, prodVars, rdOpen, deadline,
                   head, cur, overflowSeen, tokensOwed, delivered>>

\* Parked in the netpoller until the pipe is readable or the read fails.
Park ==
    /\ rpc = "park"
    /\ \/ \E n \in 1..Len(pipe) : ~deadline /\ Fill(n) /\ rpc' = "unannounce"
       \/ ReadFails /\ rpc' = "fail" /\ UNCHANGED <<buf, pipe, start>>
    /\ UNCHANGED <<ringVars, rustVars, prodVars, rdOpen, deadline,
                   head, cur, overflowSeen, tokensOwed, delivered>>

\* Mutant: a flag some worker has taken is not remembered as a token owed.
UnannounceForgets ==
    /\ rpc \in {"unannounce", "fail"}
    /\ waiting' = 0
    /\ rpc' = IF rpc = "fail" THEN "exited" ELSE "ring"
    /\ UNCHANGED <<tail, slot, overflow, rustVars, prodVars, pipeVars,
                   head, cur, buf, start, overflowSeen, tokensOwed, delivered>>

\* A flag found down was taken by a worker, which owes a token for it.
Unannounce ==
    /\ rpc \in {"unannounce", "fail"}
    /\ waiting' = 0
    /\ tokensOwed' = IF waiting = 0 THEN tokensOwed + 1 ELSE tokensOwed
    /\ rpc' = IF rpc = "fail" THEN "exited" ELSE "ring"
    /\ UNCHANGED <<tail, slot, overflow, rustVars, prodVars, pipeVars,
                   head, cur, buf, start, overflowSeen, delivered>>

-----------------------------------------------------------------------------
(* Closing: `close_within` and `release_pipe` in Rust, the read deadline   *)
(* and the closing of the read end in Go.                                  *)

CloseHandle ==
    /\ ~closed
    /\ closed' = TRUE
    /\ UNCHANGED <<ringVars, results, fdOpen, poisoned, prodVars, pipeVars, readVars>>

\* Every worker has been joined.
ReleasePipe ==
    /\ closed /\ fdOpen
    /\ \A p \in Producers : prod[p].pc = "idle"
    /\ fdOpen' = FALSE
    /\ UNCHANGED <<ringVars, results, closed, poisoned, prodVars, pipeVars, readVars>>

\* gusset_handle_close has returned: with the workers joined, or because the
\* join budget ran out while one was still busy.
SetDeadline ==
    /\ closed /\ ~deadline
    /\ deadline' = TRUE
    /\ UNCHANGED <<ringVars, rustVars, prodVars, pipe, rdOpen, readVars>>

CloseReadEnd ==
    /\ rpc = "exited" /\ rdOpen
    /\ rdOpen' = FALSE
    /\ UNCHANGED <<ringVars, rustVars, prodVars, pipe, deadline, readVars>>

-----------------------------------------------------------------------------
ProducerStep(p) ==
    \/ LoadSeq(p) \/ Claim(p) \/ ClaimFails(p) \/ WriteWord(p) \/ WriteData(p) \/ Publish(p)
    \/ LoadWaiting(p) \/ SwapWaiting(p) \/ WriteToken(p) \/ Spill(p) \/ NoteOverflow(p)

ReaderStep ==
    \/ CheckRing \/ PopWord \/ PopData \/ PopFree \/ Hand \/ Parse \/ ReadNow \/ NothingDue
    \/ Poll \/ Announce \/ RecheckRing \/ RecheckOverflow \/ Park \/ Unannounce

Next ==
    \/ \E p \in Producers, k \in {"small", "stored"} : Complete(p, k)
    \/ \E p \in Producers : ProducerStep(p)
    \/ ReaderStep
    \/ CloseHandle \/ ReleasePipe \/ SetDeadline \/ CloseReadEnd

Spec == Init /\ [][Next]_vars

\* Threads inside `complete` and the reader goroutine run when they can; a
\* compare-exchange that could succeed again and again does not fail for ever;
\* a close that has begun sets the read deadline.  Nobody has to complete a
\* job, or to close.
FairSpec ==
    /\ Spec
    /\ \A p \in Producers : WF_vars(ProducerStep(p)) /\ SF_vars(Claim(p))
    /\ WF_vars(ReaderStep)
    /\ WF_vars(SetDeadline)

-----------------------------------------------------------------------------
(* Correctness.                                                            *)

Count(seq, r) == Len(SelectSeq(seq, LAMBDA x : x = r))

At(pc) == {p \in Producers : prod[p].pc = pc}

\* The park handshake: a reader parked on the pipe while the next slot is
\* published has a wake-up in the pipe or on its way, be it from a worker that
\* holds the flag or from one that has still to look at it (ring.rs,
\* `take_waiter`).
NoSleepingReader ==
    (rpc = "park" /\ HeadReady) =>
        \/ pipe # <<>>
        \/ At("token") # {}
        \/ waiting = 1 /\ (At("load") \cup At("swap")) # {}
        \/ closed

Announced == rpc \in {"recheckRing", "recheckOverflow", "park", "unannounce", "fail"}

\* Every token owed is somewhere, and nothing else is: the reader never polls
\* the pipe for a token nobody will write, and no token is left behind to fill
\* the pipe (ticket_reader.go, `tokensOwed`).
TokensAccounted ==
    ~closed =>
        Cardinality(At("token")) + Count(pipe, Token) + Count(buf, Token)
            = tokensOwed + (IF Announced /\ waiting = 0 THEN 1 ELSE 0)

Records(seq) == Len(seq) - Count(seq, Token)

\* The overflow counter never runs ahead of the records in the pipe, closing
\* or not: a reader that polls because it is behind the counter has a record
\* to find (completion.rs, the comment before `note_overflow`).  The pipe never
\* holds more than it can (TypeOK).
OverflowIsThere ==
    /\ TypeOK
    /\ overflow + Cardinality(At("note")) = overflowSeen + Records(pipe) + Records(buf)

\* What the reader hands on is whole: an inline payload is the ticket's own,
\* and a bare ticket's result is in the table when it is taken.
HandedIntact ==
    rpc = "hand" =>
        /\ cur.t \in Started
        /\ cur.inline => cur.data = cur.t
        /\ ~cur.inline => cur.t \in results

Copies(t) ==
    Cardinality({p \in Producers : prod[p].job = t /\ prod[p].pc \in
                    {"seq", "cas", "word", "data", "publish", "spill"}})
    + Cardinality({n \in head..(tail - 1) : SlotAt(n).seq = n + 1 /\ SlotAt(n).t = t})
    + Count(pipe, Spilled(t)) + Count(buf, Spilled(t))
    + (IF rpc = "hand" /\ cur.t = t THEN 1 ELSE 0)
    + delivered[t]

\* Until the handle closes, every completion is in exactly one place on its
\* way to the reader: none is lost to a lap of the ring, none read twice.
OneCopy == ~closed => \A t \in Started : Copies(t) = 1

\* With as many permits as slots, or fewer, the ring is never found full
\* (completion.rs: "Full, which the Go side's permits rule out").
PermitsFitRing == permits <= Cap => At("spill") = {}

\* Every completion begun has been handed on, or the reader has stopped.
CaughtUp ==
    \/ rpc = "exited"
    \/ ~closed /\ \A t \in Started : delivered[t] = 1

\* With permits that fit the ring, as the Go side grants them, the reader always
\* catches up with the completions begun, or the handle closes; and a closing
\* handle stops its reader, whatever the workers still do, which `close` waits
\* for (handle.go, step 3).
ReaderKeepsUp == permits <= Cap => []<>CaughtUp

\* What ring, pipe and doorbell hold is in order at every moment: tokens and
\* overflow records are accounted for, each completion is in one place and
\* whole, and permits that fit the ring never fill it (ring.rs, completion.rs,
\* ticket_reader.go).
RingIntact ==
    TokensAccounted /\ OverflowIsThere /\ HandedIntact /\ OneCopy /\ PermitsFitRing
=============================================================================
