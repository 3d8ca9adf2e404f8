\* Two accounts, two sessions, one of which is refreshed once, and one
\* challenge; one login at a time.
CONSTANTS
    Users = {u1, u2}
    Sids = {s1, s2}
    Txns = {t1}
    Addrs = {}
    Unknown = unknown
    None = none
    MaxGen = 1
SPECIFICATION Spec
SYMMETRY Symmetry
INVARIANTS
    TypeOK
    OneSessionPerChallenge
    PersistentMfaCoversSessions
    LockedAccountKeepsNoSession
PROPERTIES
    RevocationIsFinal
    KeepsAuthority
