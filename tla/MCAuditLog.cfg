\* Three overlapping appends, two mishaps.
CONSTANTS
    Writers = {w1, w2, w3}
    Free = Free
    MaxRecords = 4
    MaxMishaps = 2
SYMMETRY Symmetry
SPECIFICATION Spec
INVARIANTS TypeOK ToldIsDurable EachMishapSpoilsOne
\* The records are bounded.
CHECK_DEADLOCK FALSE
