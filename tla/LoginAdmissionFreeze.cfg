\* The deployed process: one worker, three logins from one address.
CONSTANTS
    Requests = {r1, r2, r3}
    Workers = {w1}
    Addrs = {a1}
    Users = {u1}
    None = none
    MaxCount = 2
    MaxWindow = 0
SPECIFICATION FairSpec
PROPERTIES
    GateFailsOpen
CHECK_DEADLOCK FALSE
