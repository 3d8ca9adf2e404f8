\* One account, two challenges and one session that is not refreshed; logins
\* from an address and from an unknown peer run at the same time.
CONSTANTS
    Users = {u1}
    Sids = {s1}
    Txns = {t1, t2}
    Addrs = {a1}
    Unknown = unknown
    None = none
    MaxGen = 0
SPECIFICATION Spec
SYMMETRY Symmetry
INVARIANTS
    OutstandingChallengeIsDemanded
    SessionMatchesChallenge
PROPERTIES
    DemandWithdrawnByOtp
    PasswordAloneNeedsAFreeAccount
