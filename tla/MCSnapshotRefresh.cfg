\* Four commits of which two are kept, and a second refresh to exclude.
CONSTANTS
    Commits = {c1, c2, c3, c4}
    Refreshes = {r1, r2}
    Keep = 2
    NoCommit = NoCommit
SYMMETRY Symmetry
SPECIFICATION Spec
INVARIANTS TypeOK MountedIsWhole RetentionBounded
