\* One login, both its deliveries, two sweeps.
CONSTANTS
    Events = {e1}
    Sweeps = {k1, k2}
    None = none
SPECIFICATION FairSpec
INVARIANTS
    TypeOK
    OneAlertPerRiskyAttempt
    ActionsAreWarranted
    NoAttemptIsAbandoned
PROPERTIES
    RespondsAsPromised
    RedeliveryKeepsTheVerdict
    StoredIsSettled
CHECK_DEADLOCK FALSE
