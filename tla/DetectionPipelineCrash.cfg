\* One login and one sweep.
CONSTANTS
    Events = {e1}
    Sweeps = {k1}
    None = none
SPECIFICATION FairSpec
PROPERTIES
    CrashedAttemptIsRevisited
CHECK_DEADLOCK FALSE
