\* Two overlapping calls on one branch, two keys, with maintainers and failures.
CONSTANTS
    Callers = {p1, p2}
    Branches = {b1}
    Keys = {k1, k2}
    MaxActs = 1
    MaxFailures = 1
SYMMETRY Symmetry
SPECIFICATION Spec
INVARIANTS TypeOK ToldWorkIsProposed ExpectedBaseHonoured
