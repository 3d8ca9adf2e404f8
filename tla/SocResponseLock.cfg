\* The same instance, with the question whether an ordinary account can be
\* locked while one administrator is active.
CONSTANTS
    Users = {u1, u2}
    Subject = u1
    Actions = {"LOCK_USER"}
    Slots = {s1}
    Analysts = {n1}
    Resolutions = {"true_attack", "false_positive"}
    EventTypes = {"note_added"}
    Jobs = {j1}
    None = none
SPECIFICATION Spec
INVARIANT OrdinaryAccountsCanBeLocked
