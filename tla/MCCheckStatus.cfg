\* Two runs of two commits, or none, a page of two, and two events during the check.
CONSTANTS
    Contexts = {core, assets}
    Commits = {c1, c2}
    NoCommit = NoCommit
    Jobs = {"success", "startup_failure"}
    PageSize = 2
    MaxRuns = 2
    MaxEvents = 2
SYMMETRY Symmetry
SPECIFICATION Spec
INVARIANTS TypeOK MissingWasMissing NewestRunDecides SuccessIsEarned
\* The check ends with its answer.
CHECK_DEADLOCK FALSE
