\* Two checks of one user: time for an entry to be cached, used, run out and
\* be replaced while the user comes and goes.  No symmetry: liveness.
CONSTANTS
    Users = {u1}
    Callers = {p1, p2}
    Free = Free
    PositiveTTL = 2
    NegativeTTL = 1
    MaxClock = 4
SPECIFICATION FairSpec
INVARIANTS TypeOK RevocationBounded DenialBounded
PROPERTY EveryCheckEnds
