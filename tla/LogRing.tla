------------------------------- MODULE LogRing -------------------------------
(***************************************************************************)
(* The bounded log ring (crates/gusset/src/ffi/mod.rs): log_event and      *)
(* gusset_drain_logs on several threads, the two mutexes LOG_BUFFER and    *)
(* LOG_OWNER, a panic hook that logs on the thread that already holds the  *)
(* ring, and the byte arithmetic of append_line, evict_cut and drain_cut.  *)
(*                                                                         *)
(* A byte is of four kinds, which is all the code tells apart: a newline,  *)
(* a one-byte character "a", the first byte "h" and the second "c" of a    *)
(* two-byte one.                                                           *)
(***************************************************************************)
EXTENDS Integers, Sequences, FiniteSetsExt

CONSTANTS LogThreads,
          Lines,        \* the lines that are logged
          DrainSizes,   \* the buffers gusset_drain_logs is given
          Capacity,     \* LOG_RING_CAPACITY
          MaxDropped,   \* bound on the count of dropped lines
          NoThread

ASSUME CapacityAssumption == Capacity \in Nat \ {0, 1} /\ 0 \notin DrainSizes

VARIABLES
    text,      \* LOG_BUFFER's bytes
    holder,    \* the thread that has LOG_BUFFER locked
    owner,     \* LOG_OWNER
    dropped,   \* LOG_DROPPED
    job,       \* a thread's call: [line, size], size 0 for log_event
    lpc,       \* where it is
    nested,    \* where a log_event re-entered on it is
    split      \* (ghost) a drain smaller than a character cut one in two

logVars == <<text, holder, owner, dropped, job, lpc, nested, split>>

LogInit ==
    /\ text = <<>>
    /\ holder = NoThread /\ owner = NoThread
    /\ dropped = 0
    /\ job = [t \in LogThreads |-> [line |-> <<>>, size |-> 0]]
    /\ lpc = [t \in LogThreads |-> "out"]
    /\ nested = [t \in LogThreads |-> "no"]
    /\ split = FALSE

-----------------------------------------------------------------------------
(* The arithmetic.  A cut is how many bytes go from the front.             *)

Drop(s, n) == SubSeq(s, n + 1, Len(s))

\* The longest prefix of s of at most n bytes that ends between characters.
Whole(s, n) == Max({0} \cup {k \in 1..n : k = Len(s) \/ s[k + 1] # "c"})

\* Mutant: the scan starts one byte late.
EvictCutLate(ring, needed) ==
    LET excess == Len(ring) + needed - Capacity
        ends == {k \in DOMAIN ring : k > excess /\ ring[k] = "n"}
    IN IF excess <= 0 THEN 0 ELSE IF ends = {} THEN Len(ring) ELSE Min(ends)

EvictCut(ring, needed) ==
    LET excess == Len(ring) + needed - Capacity
        ends == {k \in DOMAIN ring : k >= excess /\ ring[k] = "n"}
    IN IF excess <= 0 THEN 0 ELSE IF ends = {} THEN Len(ring) ELSE Min(ends)

AppendLine(ring, line) ==
    LET fits == IF Len(line) > Capacity - 1 THEN SubSeq(line, 1, Whole(line, Capacity - 1)) ELSE line
    IN Drop(ring, EvictCut(ring, Len(fits) + 1)) \o fits \o <<"n">>

DrainCut(ring, size) ==
    IF Len(ring) <= size THEN Len(ring)
    ELSE LET ends == {k \in 1..size : ring[k] = "n"}
             whole == Whole(ring, size)
         IN IF ends # {} THEN Max(ends) ELSE IF whole = 0 THEN size ELSE whole

\* "gusset: N log line(s) dropped while the ring was busy".
DropNote == <<"a">>

-----------------------------------------------------------------------------
(* The threads.                                                            *)

LogGo(t, pc) == lpc' = [lpc EXCEPT ![t] = pc]

\* log_event or gusset_drain_logs is called.
LogCall(t, line, size) ==
    /\ lpc[t] = "out"
    /\ job' = [job EXCEPT ![t] = [line |-> line, size |-> size]]
    /\ LogGo(t, "check")
    /\ UNCHANGED <<text, holder, owner, dropped, nested, split>>

\* lock_log_ring, called when the thread does not have the ring.
CheckOwner(t) ==
    /\ lpc[t] = "check"
    /\ owner # t
    /\ LogGo(t, "lock")
    /\ UNCHANGED <<text, holder, owner, dropped, job, nested, split>>

LockRing(t) ==
    /\ lpc[t] = "lock" /\ holder = NoThread
    /\ holder' = t
    /\ LogGo(t, "own")
    /\ UNCHANGED <<text, owner, dropped, job, nested, split>>

SetOwner(t) ==
    /\ lpc[t] = "own"
    /\ owner' = t
    /\ LogGo(t, "holds")
    /\ UNCHANGED <<text, holder, dropped, job, nested, split>>

\* The body of log_event: a note of what was dropped, then the line.
AppendLog(t) ==
    /\ lpc[t] = "holds" /\ nested[t] = "no" /\ job[t].size = 0
    /\ text' = AppendLine(IF dropped > 0 THEN AppendLine(text, DropNote) ELSE text, job[t].line)
    /\ dropped' = 0
    /\ split' = (split /\ text'[1] = "c")
    /\ LogGo(t, "drop")
    /\ UNCHANGED <<holder, owner, job, nested>>

\* The body of gusset_drain_logs.
DrainLog(t) ==
    /\ lpc[t] = "holds" /\ nested[t] = "no" /\ job[t].size > 0
    /\ text' = Drop(text, DrainCut(text, job[t].size))
    /\ split' = (text' # <<>> /\ text'[1] = "c")
    /\ LogGo(t, "drop")
    /\ UNCHANGED <<holder, owner, dropped, job, nested>>

\* Mutant: the ring is released before the owner is cleared.
DropGuardLate(t) ==
    /\ \/ lpc[t] = "drop" /\ holder' = NoThread /\ LogGo(t, "unlock") /\ UNCHANGED owner
       \/ lpc[t] = "unlock" /\ owner' = NoThread /\ LogGo(t, "out") /\ UNCHANGED holder
    /\ UNCHANGED <<text, dropped, job, nested, split>>

\* LogRingGuard::drop, then the mutex guard's.
DropGuard(t) ==
    /\ \/ lpc[t] = "drop" /\ owner' = NoThread /\ LogGo(t, "unlock") /\ UNCHANGED holder
       \/ lpc[t] = "unlock" /\ holder' = NoThread /\ LogGo(t, "out") /\ UNCHANGED owner
    /\ UNCHANGED <<text, dropped, job, nested, split>>

\* A panic while the thread has the ring: its hook calls log_event.
HookLogs(t) ==
    /\ lpc[t] = "holds" /\ nested[t] = "no" /\ dropped < MaxDropped
    /\ nested' = [nested EXCEPT ![t] = "check"]
    /\ UNCHANGED <<text, holder, owner, dropped, job, lpc, split>>

\* The re-entered call drops its line, or would wait for the ring.
NestedCheck(t) ==
    /\ nested[t] = "check"
    /\ IF owner = t
       THEN /\ dropped' = dropped + 1
            /\ nested' = [nested EXCEPT ![t] = "unwind"]
       ELSE nested' = [nested EXCEPT ![t] = "lock"] /\ UNCHANGED dropped
    /\ UNCHANGED <<text, holder, owner, job, lpc, split>>

\* The panic goes on: the guard is dropped, the line with it.
Unwind(t) ==
    /\ nested[t] = "unwind"
    /\ nested' = [nested EXCEPT ![t] = "no"]
    /\ LogGo(t, "drop")
    /\ UNCHANGED <<text, holder, owner, dropped, job, split>>

LogNext ==
    \E t \in LogThreads :
        \/ \E line \in Lines : LogCall(t, line, 0)
        \/ \E size \in DrainSizes : LogCall(t, <<>>, size)
        \/ CheckOwner(t) \/ LockRing(t) \/ SetOwner(t)
        \/ AppendLog(t) \/ DrainLog(t) \/ DropGuard(t)
        \/ HookLogs(t) \/ NestedCheck(t) \/ Unwind(t)

-----------------------------------------------------------------------------
(* Properties.                                                             *)

\* No thread waits for the ring it holds: LOG_OWNER names the holder for as long
\* as anything that can panic runs, whatever other threads take and release.
NoSelfWait ==
    \A t \in LogThreads : ~(holder = t /\ (lpc[t] = "lock" \/ nested[t] = "lock"))

\* The ring is whole lines within its capacity and starts between characters
\* unless a drain smaller than one split it.
TextWhole ==
    /\ Len(text) <= Capacity
    /\ text # <<>> => text[Len(text)] = "n" /\ (text[1] # "c" \/ split)

\* What the two cuts promise: the fewest whole lines that make room, or all; and
\* everything, or the most whole lines, or the most whole characters, but never
\* nothing of a ring that has something.
CutsExact ==
    text # <<>> =>
      LET ends == {0, Len(text)} \cup {k \in DOMAIN text : text[k] = "n"}
          chars == {k \in 0..Len(text) : k = Len(text) \/ text[k + 1] # "c"}
      IN /\ \A needed \in 1..Capacity :
              EvictCut(text, needed) = Min({k \in ends : Len(text) - k + needed <= Capacity})
         /\ \A room \in 1..Capacity :
              LET best(cuts) == Max({k \in cuts : k <= room})
              IN DrainCut(text, room) =
                   IF best(ends) > 0 THEN best(ends)
                   ELSE IF best({0} \cup chars) = 0 THEN room
                   ELSE best({0} \cup chars)

\* The log ring neither waits for itself nor tears or loses text: the three above.
LogSound == NoSelfWait /\ TextWhole /\ CutsExact

=============================================================================
