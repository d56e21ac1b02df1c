\* Liveness beside the invariants: no symmetry.
SPECIFICATION FairSpec
CONSTANTS
    Handles = {h1, h2}
    Submitters = {s1}
    MaxTicket = 2
    NoHandle = NoHandle
INVARIANTS FlagsAreUnits CancelReaches CleanDrain
PROPERTY DrainEnds
CHECK_DEADLOCK FALSE
