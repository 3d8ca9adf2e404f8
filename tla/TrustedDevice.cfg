\* One account, one new device at either of two addresses, two requests and
\* two calls at the gate at a time.
CONSTANTS
    Users = {u1}
    Prints = {p1}
    Addrs = {a1, a2}
    Reqs = {r1, r2}
    Calls = {c1, c2}
    None = none
    MaxCount = 1
SPECIFICATION Spec
SYMMETRY Symmetry
INVARIANTS
    ApprovalMintsOnce
    SessionsComeFromApprovals
    OneRequestPerDevice
PROPERTIES
    RefusedStaysRefused
    DemandWinsOutsideTheGate
