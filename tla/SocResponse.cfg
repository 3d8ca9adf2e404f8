\* Two accounts, one of them the alert's subject, one action, two requests
\* and two executions at a time.
CONSTANTS
    Users = {u1, u2}
    Subject = u1
    Actions = {"LOCK_USER"}
    Slots = {s1, s2}
    Analysts = {n1}
    Resolutions = {"true_attack", "false_positive"}
    EventTypes = {"note_added"}
    Jobs = {j1, j2}
    None = none
SPECIFICATION Spec
SYMMETRY Symmetry
INVARIANTS
    AppliedNoteIsAudited
    OncePerKey
    OneVerdict
PROPERTIES
    LastAdminIsGuarded
    AdminsComeFromAdmins
    ClosedStaysClosed
