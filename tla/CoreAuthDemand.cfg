\* One account, one session, one challenge.
CONSTANTS
    Users = {u1}
    Sids = {s1}
    Txns = {t1}
    Addrs = {a1}
    Unknown = unknown
    None = none
    MaxGen = 0
SPECIFICATION Spec
INVARIANTS
    NoSessionWithoutDemandedOtp
