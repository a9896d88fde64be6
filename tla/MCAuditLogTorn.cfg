\* One failed write and the append after it.
CONSTANTS
    Writers = {w1}
    Free = Free
    MaxRecords = 2
    MaxMishaps = 1
SPECIFICATION Spec
INVARIANTS ToldIsReadable
CHECK_DEADLOCK FALSE
