\* Liveness under the scheduler's and flock's fairness; no symmetry.
CONSTANTS
    Tasks = {t1}
    Owners = {o1}
    Keys = {k1}
    Minutes = {1}
    Callers = {p1, p2}
    Free = Free
    MaxClock = 1
    MaxRecords = 2
    MaxCrashes = 1
SPECIFICATION FairSpec
PROPERTY EveryCallEnds
