\* Two callers with their own keys and one failure, anywhere.
CONSTANTS
    Callers = {p1, p2}
    Branches = {b1}
    Keys = {k1, k2}
    MaxActs = 0
    MaxFailures = 1
SPECIFICATION FairSpec
PROPERTIES RetriesComplete
