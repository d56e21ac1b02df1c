---------------------------- MODULE BoundedQueue ----------------------------
(***************************************************************************)
(* What the work queue promises its users (pool/queue.rs, the doc comments *)
(* of `push`, `pop` and `QueueSender`): a bounded first-in first-out queue *)
(* from which every accepted unit is handed out at most once, that refuses *)
(* everything after it is closed and is drained, never discarded, by close.*)
(* Neither the polling workers nor the sleeping ones appear here.          *)
(***************************************************************************)
EXTENDS Naturals, Sequences

CONSTANTS Units,   \* units of work, each offered to the queue at most once
          Cap      \* JobQueue.cap

VARIABLES queue,   \* accepted and not yet handed out, oldest first
          taken,   \* handed out to a worker
          shut     \* the sending side is gone

absVars == <<queue, taken, shut>>

InQueue(u) == \E i \in 1..Len(queue) : queue[i] = u

AbsInit == queue = <<>> /\ taken = {} /\ shut = FALSE

Put(u) ==
    /\ ~shut
    /\ Len(queue) < Cap
    /\ u \notin taken
    /\ ~InQueue(u)
    /\ queue' = Append(queue, u)
    /\ UNCHANGED <<taken, shut>>

Get ==
    /\ queue # <<>>
    /\ queue' = Tail(queue)
    /\ taken' = taken \cup {Head(queue)}
    /\ UNCHANGED shut

Shut ==
    /\ shut' = TRUE
    /\ UNCHANGED <<queue, taken>>

AbsNext == (\E u \in Units : Put(u)) \/ Get \/ Shut

AbsSpec == AbsInit /\ [][AbsNext]_absVars
=============================================================================
