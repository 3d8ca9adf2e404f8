\* One login, scored by the gate, by its event and again after a failure,
\* while two processes activate policies and earlier logins arrive late.
CONSTANTS
    none = none
    None = none
    Hour = 60
    Login <- MCLogin
    GateTimes <- MCGateTimes
    Past <- MCPast
    Policies <- MCPolicies
    Content <- MCContent
    Workers = {w1, w2}
    Scores = {90}
SPECIFICATION Spec
SYMMETRY Symmetry
INVARIANTS
    FeaturesMeetTheContract
    GateAgreesWithEvent
    ErrorHasACause
PROPERTIES
    OnePolicyStaysActive
