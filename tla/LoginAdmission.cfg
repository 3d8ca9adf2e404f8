\* Three requests for one account from one address, on two workers; a new
\* window may begin.
CONSTANTS
    Requests = {1, 2, 3}
    Workers = {w1, w2}
    Addrs = {a1}
    Users = {u1}
    None = none
    MaxCount = 2
    MaxWindow = 1
SPECIFICATION FairSpec
CONSTRAINT NumberedInOrder
INVARIANTS
    TypeOK
    RateRowCountsItsLogins
    RowLocksAloneNeverCycle
PROPERTIES
    AnsweredUnlessFrozen
CHECK_DEADLOCK FALSE
