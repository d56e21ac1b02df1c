--------------------------- MODULE CompletionPipe ----------------------------
(***************************************************************************)
(* The descriptor the completions go through: how Handle::open takes it    *)
(* (crates/gusset/src/pool/mod.rs open_classified, pool/completion.rs      *)
(* size_completion_pipe, pool/sys.rs check_pipe_write_end,                 *)
(* ensure_pipe_capacity, set_nonblocking_with), and how workers write      *)
(* whole records to it (write_completion, write_record_attempt) until the  *)
(* handle closes.                                                          *)
(*                                                                         *)
(* The kernel's pipe is external: it takes a write whole, in part or not   *)
(* at all.  A writer has one record at a time, and no other before it is   *)
(* read: its permit (I4).  The unit of size is a bare ticket.              *)
(***************************************************************************)
EXTENDS Integers, Sequences, FiniteSets

CONSTANTS Writers,      \* one for each permit: the pool size
          RecordMax,    \* INLINE_RECORD_MAX, in tickets
          BsdPipe,      \* what a pipe holds where it cannot be asked (16 KiB)
          PipeSizes,    \* what the caller's pipe may hold
          GrowLimits,   \* how far the kernel lets it grow
          NoWriter

ASSUME PipeAssumption == RecordMax \in Nat \ {0} /\ PipeSizes \subseteq Nat \ {0}

VARIABLES
    linux,       \* the pipe can be asked and grown
    darwin,      \* F_SETNOSIGPIPE
    given,       \* the descriptor is the write end of a pipe
    size, limit, \* what the pipe holds, and may
    nonblock,    \* O_NONBLOCK
    restored,    \* (ghost) no attempt to put the flags back failed
    opc,         \* where open is
    inline,      \* inline_ok
    fd,          \* pipe_write_fd is published
    closed,      \* the handle's flag
    reader,      \* the read end is open
    lock,        \* pipe_write_lock
    buffer,      \* unread units: [writer, at, of]
    wpc,         \* where a writer is
    rec,         \* its record: how many units of how many are still to be written
    torn         \* (ghost) a record was reported torn

openVars == <<linux, darwin, given, limit, opc, restored>>
pipeVars == <<openVars, size, nonblock, inline, fd, closed, reader, lock, buffer, wpc, rec, torn>>

NoRecord == [left |-> 0, of |-> 0]
PoolSize == Cardinality(Writers)

PipeInit ==
    /\ linux \in BOOLEAN /\ darwin \in BOOLEAN /\ ~(linux /\ darwin)
    /\ given \in BOOLEAN
    /\ size \in PipeSizes
    /\ limit \in IF linux THEN GrowLimits ELSE {0}
    /\ nonblock = FALSE /\ restored = TRUE
    /\ opc = "args"
    /\ inline = FALSE /\ fd = FALSE /\ closed = FALSE /\ reader = TRUE
    /\ lock = NoWriter
    /\ buffer = <<>>
    /\ wpc = [w \in Writers |-> "idle"]
    /\ rec = [w \in Writers |-> NoRecord]
    /\ torn = FALSE

-----------------------------------------------------------------------------
(* Handle::open, in the order it touches the descriptor.                   *)

handling == <<fd, closed, reader, lock, buffer, wpc, rec, torn>>

OpenGo(pc) ==
    /\ opc' = pc
    /\ UNCHANGED <<linux, darwin, given, limit, handling>>

\* A pool size or a descriptor that will not do: refused before anything changes.
CheckArgs ==
    /\ opc = "args"
    /\ \/ OpenGo("refused")
       \/ given /\ OpenGo("size")
    /\ UNCHANGED <<size, nonblock, restored, inline>>

\* ensure_pipe_capacity.
CanGrow(n) == ~linux \/ size >= n \/ limit >= n
Grown(n) == IF linux /\ size < n THEN n ELSE size

\* Mutant: a pipe that holds the tickets is taken to hold the records.
SizePipeForTickets ==
    /\ opc = "size"
    /\ IF CanGrow(PoolSize)
       THEN size' = Grown(PoolSize) /\ inline' = TRUE /\ OpenGo("spawn")
       ELSE UNCHANGED <<size, inline>> /\ OpenGo("refused")
    /\ UNCHANGED <<nonblock, restored>>

\* size_completion_pipe: records where they fit, else tickets, else refuse.
SizePipe ==
    /\ opc = "size"
    /\ IF ~linux
       THEN inline' = (PoolSize * RecordMax <= BsdPipe) /\ UNCHANGED size /\ OpenGo("spawn")
       ELSE IF CanGrow(PoolSize * RecordMax)
       THEN size' = Grown(PoolSize * RecordMax) /\ inline' = TRUE /\ OpenGo("spawn")
       ELSE IF CanGrow(PoolSize)
       THEN size' = Grown(PoolSize) /\ inline' = FALSE /\ OpenGo("spawn")
       ELSE UNCHANGED <<size, inline>> /\ OpenGo("refused")
    /\ UNCHANGED <<nonblock, restored>>

\* spawn_workers.
SpawnPool ==
    /\ opc = "spawn"
    /\ OpenGo("refused") \/ OpenGo("mode")
    /\ UNCHANGED <<size, nonblock, restored, inline>>

\* Mutant: F_SETNOSIGPIPE fails and the saved flags are not put back.
SetNonblockingKeeps ==
    /\ opc = "mode"
    /\ nonblock' = TRUE
    /\ OpenGo("publish") \/ (darwin /\ OpenGo("refused"))
    /\ UNCHANGED <<size, inline, restored>>

\* set_nonblocking_with: F_SETFL, then on Darwin F_SETNOSIGPIPE, whose failure
\* puts the flags back if F_SETFL lets it.
SetNonblocking ==
    /\ opc = "mode"
    /\ \/ nonblock' = TRUE /\ OpenGo("publish") /\ UNCHANGED restored
       \/ OpenGo("refused") /\ UNCHANGED <<nonblock, restored>>
       \/ darwin /\ nonblock' = TRUE /\ restored' = FALSE /\ OpenGo("refused")
    /\ UNCHANGED <<size, inline>>

Publish ==
    /\ opc = "publish"
    /\ opc' = "open"
    /\ fd' = TRUE
    /\ UNCHANGED <<linux, darwin, given, limit, restored, size, nonblock, inline,
                   closed, reader, lock, buffer, wpc, rec, torn>>

-----------------------------------------------------------------------------
(* Writing.                                                                *)

settled == <<openVars, size, nonblock, inline, reader>>

Room == size - Len(buffer)

\* A completion: an inline record if there may be one, or a bare ticket.
WriterDone(w, n) ==
    /\ opc = "open"
    /\ wpc[w] = "idle"
    /\ ~\E k \in DOMAIN buffer : buffer[k].writer = w
    /\ n \in {1, RecordMax} /\ (n = 1 \/ inline)
    /\ rec' = [rec EXCEPT ![w] = [left |-> n, of |-> n]]
    /\ wpc' = [wpc EXCEPT ![w] = "try"]
    /\ UNCHANGED <<settled, fd, closed, lock, buffer, torn>>

\* One attempt takes the lock and loads the descriptor.
Lock(w) ==
    /\ wpc[w] = "try" /\ lock = NoWriter
    /\ IF fd
       THEN lock' = w /\ wpc' = [wpc EXCEPT ![w] = "write"] /\ UNCHANGED rec
       ELSE wpc' = [wpc EXCEPT ![w] = "idle"] /\ rec' = [rec EXCEPT ![w] = NoRecord] /\ UNCHANGED lock
    /\ UNCHANGED <<settled, fd, closed, buffer, torn>>

\* The next n units of w's record.
Units(w, n) ==
    [k \in 1..n |-> [writer |-> w, at |-> rec[w].of - rec[w].left + k, of |-> rec[w].of]]

\* write(2) takes n of the units left: a record that is complete ends the
\* attempt, a short write goes on with the lock held.
WriteSome(w, n) ==
    /\ wpc[w] \in {"write", "short"} /\ reader
    /\ n \in 1..rec[w].left /\ n <= Room
    /\ buffer' = buffer \o Units(w, n)
    /\ rec' = [rec EXCEPT ![w].left = @ - n]
    /\ IF n = rec[w].left
       THEN wpc' = [wpc EXCEPT ![w] = "idle"] /\ lock' = NoWriter
       ELSE wpc' = [wpc EXCEPT ![w] = "short"] /\ UNCHANGED lock
    /\ UNCHANGED <<settled, fd, closed, torn>>

\* Mutant: the lock is let go of although part of the record is in the pipe.
WouldBlockAlways(w) ==
    /\ wpc[w] \in {"write", "short"} /\ reader /\ Room < rec[w].left
    /\ lock' = NoWriter
    /\ wpc' = [wpc EXCEPT ![w] = "full"]
    /\ UNCHANGED <<settled, fd, closed, buffer, rec, torn>>

\* EAGAIN with nothing written: WouldBlock, and the lock is let go of.
WouldBlock(w) ==
    /\ wpc[w] = "write" /\ reader /\ Room < rec[w].left
    /\ lock' = NoWriter
    /\ wpc' = [wpc EXCEPT ![w] = "full"]
    /\ UNCHANGED <<settled, fd, closed, buffer, rec, torn>>

\* The pipe stayed full after a short write (TORN_WRITE_DEADLINE).
Torn(w) ==
    /\ wpc[w] = "short" /\ reader /\ Room = 0
    /\ torn' = TRUE
    /\ lock' = NoWriter
    /\ rec' = [rec EXCEPT ![w] = NoRecord]
    /\ wpc' = [wpc EXCEPT ![w] = "idle"]
    /\ UNCHANGED <<settled, fd, closed, buffer>>

\* EPIPE: any other error ends the attempt and the completion with it.
WriteFails(w) ==
    /\ wpc[w] \in {"write", "short"} /\ ~reader
    /\ lock' = NoWriter
    /\ rec' = [rec EXCEPT ![w] = NoRecord]
    /\ wpc' = [wpc EXCEPT ![w] = "idle"]
    /\ UNCHANGED <<settled, fd, closed, buffer, torn>>

\* After a full pipe: give up on a closed handle, or sleep and try again.
Backoff(w) ==
    /\ wpc[w] = "full"
    /\ IF closed
       THEN wpc' = [wpc EXCEPT ![w] = "idle"] /\ rec' = [rec EXCEPT ![w] = NoRecord]
       ELSE wpc' = [wpc EXCEPT ![w] = "try"] /\ UNCHANGED rec
    /\ UNCHANGED <<settled, fd, closed, lock, buffer, torn>>

\* The reader takes some of what is there, a whole record at a time or not.
Read ==
    /\ buffer # <<>>
    /\ buffer' = Tail(buffer)
    /\ UNCHANGED <<settled, fd, closed, lock, wpc, rec, torn>>

ClosePipe ==
    /\ opc = "open" /\ ~closed
    /\ closed' = TRUE
    /\ UNCHANGED <<settled, fd, lock, buffer, wpc, rec, torn>>

\* A close whose join timed out: Go closes the read end under live workers.
CloseReader ==
    /\ closed /\ reader
    /\ reader' = FALSE
    /\ buffer' = <<>>
    /\ UNCHANGED <<openVars, size, nonblock, inline, fd, closed, lock, wpc, rec, torn>>

\* release_pipe, after the workers are joined.
ReleasePipe ==
    /\ closed /\ fd /\ lock = NoWriter
    /\ \A w \in Writers : wpc[w] = "idle"
    /\ fd' = FALSE
    /\ UNCHANGED <<settled, closed, lock, buffer, wpc, rec, torn>>

PipeNext ==
    \/ CheckArgs \/ SizePipe \/ SpawnPool \/ SetNonblocking \/ Publish
    \/ \E w \in Writers :
        \/ \E n \in 1..RecordMax : WriterDone(w, n) \/ WriteSome(w, n)
        \/ Lock(w) \/ WouldBlock(w) \/ Torn(w) \/ WriteFails(w) \/ Backoff(w)
    \/ Read \/ ClosePipe \/ CloseReader \/ ReleasePipe

-----------------------------------------------------------------------------
(* Properties.                                                             *)

\* A refused open leaves the descriptor the caller's, with the flags it had,
\* unless putting them back failed too, which the error then says.
RefusalUntouched == opc = "refused" => ~fd /\ (nonblock => ~restored)

\* Where the pipe could be sized, a pool within its permits never finds it full
\* (I4), whether its completions are records or tickets.
NeverFull == linux => \A w \in Writers : wpc[w] # "full"

\* Records do not interleave: until one is reported torn, a unit that is not
\* the last of its record is followed by the next of it.
Framing ==
    torn \/ \A k \in 1..(Len(buffer) - 1) :
        IF buffer[k].at = buffer[k].of THEN buffer[k + 1].at = 1
        ELSE buffer[k + 1].writer = buffer[k].writer /\ buffer[k + 1].at = buffer[k].at + 1

\* The pipe is given back or is kept as it was sized: the three above.
PipeKept == RefusalUntouched /\ NeverFull /\ Framing

=============================================================================
