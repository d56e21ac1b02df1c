\* Liveness beside the invariants: no symmetry.
SPECIFICATION QueueFairSpec
CONSTANTS
    Workers = {w1, w2, w3}
    Senders = {s1, s2}
    Units = {u1, u2, u3}
    Cap = 2
    NoUnit = NoUnit
INVARIANTS NoStrandedUnit CountersExact ExitOnlyDrained
PROPERTIES ImplementsBoundedQueue QueueServes
CHECK_DEADLOCK FALSE
