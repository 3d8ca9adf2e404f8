\* One manager beside the loop; two models at two paths, one promotion or
\* replacement, one inference.
CONSTANTS
    c1 = c1
    m1 = m1
    m2 = m2
    here = here
    there = there
    v1 = v1
    v2 = v2
    None = None
    Nothing = Nothing
    Hour = 2
    Day = 4
    Limit <- MCLimit
    Delay = 1
    MaxRows = 1
    Models = {m1, m2}
    PathOf <- MCPathOf
    VersionOf <- MCVersionOf
    Versions = {v1, v2}
    Shipped <- MCShipped
    Clients = {c1}
    Callers = {c1, loop}
    Loop = loop
    MaxSwaps = 1
    RequestIds = {r1}
    Outputs <- MCOutputs
    Now = 20
    Questions <- MCQuestions
    Reasons = {"timeout"}
    CoreTables <- MCCoreTables
    DetectionTables <- MCDetectionTables
SPECIFICATION Spec
INVARIANTS
    ServicesKeepTheWindow
    LogNamesOneModel
    ReportsAddUp
PROPERTIES
    EveryRequestIsAnswered
