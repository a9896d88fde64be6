\* One refresh after another; no symmetry is needed.
CONSTANTS
    Commits = {c1, c2, c3, c4}
    Refreshes = {r1}
    Keep = 2
    NoCommit = NoCommit
SPECIFICATION Spec
PROPERTY HealthyAreRetained
