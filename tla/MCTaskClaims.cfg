\* Two overlapping calls on one task, two owners, two keys: stale clock readings,
\* failed writes and fsyncs, and one restart or power loss.
CONSTANTS
    Tasks = {t1}
    Owners = {o1, o2}
    Keys = {k1, k2}
    Minutes = {1}
    Callers = {p1, p2}
    Free = Free
    MaxClock = 2
    MaxRecords = 3
    MaxCrashes = 1
SYMMETRY Symmetry
SPECIFICATION Spec
INVARIANTS TypeOK OneHolder LedgerReplays AckedIsDurable
PROPERTIES OnlyItsReleaseDrops ImplementsOwnership
