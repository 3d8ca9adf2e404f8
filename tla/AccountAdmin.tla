---------------------------- MODULE AccountAdmin ----------------------------
(***************************************************************************)
(* Who may administer, and who is locked: the role and lock handlers of    *)
(* app/iam.py and the protective actions of app/internal_actions.py, over  *)
(* the users, user_roles and audit_logs of the core database.              *)
(*                                                                         *)
(* GRANULARITY.  None of these handlers awaits: in one process each is one *)
(* step.  What they check first (the caller's role, the count of           *)
(* administrators, the audit row of an idempotency key) they check without *)
(* a row lock, so two processes may interleave a check and a commit.  They *)
(* are two actions here; with one process the two happen together.         *)
(*                                                                         *)
(* ABSTRACTED.  SECURITY_ADMIN is the only role that decides anything      *)
(* here.  Sessions and the MFA flags are CoreAuth's: toggle_mfa, and the   *)
(* part of every handler that ends sessions, are left to it.  One account  *)
(* (Subject) is the target of one alert's actions, so an idempotency key   *)
(* "alert:<id>:<action>" is its action.                                    *)
(***************************************************************************)
EXTENDS Naturals, FiniteSets

CONSTANTS
    Users,
    Subject,    \* the account an alert is about
    Actions,    \* the protective actions asked for
    Slots,      \* bounds the actions that Core executes at one time
    None

VARIABLES
    admin,      \* the users with role SECURITY_ADMIN
    active,     \* the users whose status is "active"; the others are "locked"
    handling,   \* per target, the IAM handler between its checks and commit
    applying,   \* apply_action between its reads and its commit
    audited,    \* the actions with an audit row for their idempotency key
    execs,      \* HISTORY: executions of each action, up to 2
    overlapped  \* HISTORY: actions with two executions under way at once

vars == <<admin, active, handling, applying, audited, execs, overlapped>>

Kinds == {"lock", "unlock", "revoke", "assign"}
Handling == [kind : Kinds \cup {"none"},
             stale : BOOLEAN]   \* HISTORY: an active administrator went since
Application == [action : Actions \cup {None},
                seen : BOOLEAN]     \* was the subject active when read
NoHandling == [kind |-> "none", stale |-> FALSE]
NoApplication == [action |-> None, seen |-> FALSE]

TypeOK ==
    /\ admin \subseteq Users
    /\ active \subseteq Users
    /\ handling \in [Users -> Handling]
    /\ applying \in [Slots -> Application]
    /\ audited \subseteq Actions
    /\ execs \in [Actions -> 0..2]
    /\ overlapped \subseteq Actions

Init ==
    /\ admin \in (SUBSET Users) \ {{}}
    /\ active = Users
    /\ handling = [u \in Users |-> NoHandling]
    /\ applying = [s \in Slots |-> NoApplication]
    /\ audited = {}
    /\ execs = [a \in Actions |-> 0]
    /\ overlapped = {}

-----------------------------------------------------------------------------
ActiveAdmins == admin \cap active

(* require_roles("SECURITY_ADMIN"): some caller passes it.                 *)
SomeAdminActs == ActiveAdmins # {}

(* MUTANT: the count is compared with < 1.                                 *)
GuardPassesOffByOne(u) == u \notin active \/ Cardinality(ActiveAdmins) >= 1

(* _guard_last_active_admin.  lock_user passes role_id SECURITY_ADMIN for  *)
(* every target, whatever roles it has.                                    *)
GuardPasses(u) == u \notin active \/ Cardinality(ActiveAdmins) > 1

(* The conditions under which the handlers come to their commit.           *)
Checks(u, kind) ==
    /\ kind = "lock" => u \in active /\ GuardPasses(u)
    /\ kind = "revoke" => u \in admin /\ GuardPasses(u)
    /\ kind = "assign" => u \notin admin

(* The handlers whose checks u's removal has outdated.                     *)
Outdate(table, u) ==
    [v \in Users |-> IF u \in ActiveAdmins /\ table[v].kind # "none"
                     THEN [table[v] EXCEPT !.stale = TRUE] ELSE table[v]]

-----------------------------------------------------------------------------
(* MUTANTS.                                                                *)

(* The handlers without require_roles.                                     *)
BeginByAnyone(u, kind) ==
    /\ handling[u] = NoHandling
    /\ Checks(u, kind)
    /\ handling' = [handling EXCEPT ![u].kind = kind]
    /\ UNCHANGED <<admin, active, applying, audited, execs, overlapped>>

(* apply_action does not look for the key's audit row.                     *)
ApplyBeginUnread(s, a) ==
    /\ applying[s] = NoApplication
    /\ applying' = [applying EXCEPT ![s] = [action |-> a, seen |-> Subject \in active]]
    /\ overlapped' = overlapped \cup
         {b \in {a} : \E t \in Slots : applying[t].action = a}
    /\ UNCHANGED <<admin, active, handling, audited, execs>>

-----------------------------------------------------------------------------
(* lock_user, unlock_user, revoke_role and assign_role of SECURITY_ADMIN:  *)
(* the checks ...                                                          *)
Begin(u, kind) ==
    /\ SomeAdminActs
    /\ handling[u] = NoHandling
    /\ Checks(u, kind)
    /\ handling' = [handling EXCEPT ![u].kind = kind]
    /\ UNCHANGED <<admin, active, applying, audited, execs, overlapped>>

(* ... and the commits.                                                    *)
Remove(u) ==
    /\ handling[u].kind \in {"lock", "revoke"}
    /\ IF handling[u].kind = "lock"
       THEN active' = active \ {u} /\ UNCHANGED admin
       ELSE admin' = admin \ {u} /\ UNCHANGED active
    /\ handling' = Outdate([handling EXCEPT ![u] = NoHandling], u)
    /\ UNCHANGED <<applying, audited, execs, overlapped>>
Restore(u) ==
    /\ handling[u].kind \in {"unlock", "assign"}
    /\ IF handling[u].kind = "unlock"
       THEN active' = active \cup {u} /\ UNCHANGED admin
       ELSE admin' = admin \cup {u} /\ UNCHANGED active
    /\ handling' = [handling EXCEPT ![u] = NoHandling]
    /\ UNCHANGED <<applying, audited, execs, overlapped>>

(* apply_action: it looks for the key's audit row and finds none ...       *)
ApplyBegin(s, a) ==
    /\ applying[s] = NoApplication
    /\ a \notin audited
    /\ applying' = [applying EXCEPT ![s] = [action |-> a, seen |-> Subject \in active]]
    /\ overlapped' = overlapped \cup
         {b \in {a} : \E t \in Slots : applying[t].action = a}
    /\ UNCHANGED <<admin, active, handling, audited, execs>>

(* ... and executes.  LOCK_USER writes a status that it read as active; it *)
(* has no guard for the last administrator.                                *)
ApplyCommit(s) ==
    LET a == applying[s].action
        locks == a = "LOCK_USER" /\ applying[s].seen IN
    /\ a # None /\ execs[a] < 2                 \* bound of the history
    /\ applying' = [applying EXCEPT ![s] = NoApplication]
    /\ active' = IF locks THEN active \ {Subject} ELSE active
    /\ handling' = IF locks THEN Outdate(handling, Subject) ELSE handling
    /\ audited' = audited \cup {a}
    /\ execs' = [execs EXCEPT ![a] = @ + 1]
    /\ UNCHANGED <<admin, overlapped>>

(* ... or is rolled back, by an error or a crash.                          *)
ApplyAborts(s) ==
    /\ applying[s] # NoApplication
    /\ applying' = [applying EXCEPT ![s] = NoApplication]
    /\ UNCHANGED <<admin, active, handling, audited, execs, overlapped>>

IamStep ==
    \/ \E u \in Users, k \in Kinds : Begin(u, k)
    \/ \E u \in Users : Remove(u)
    \/ \E u \in Users : Restore(u)

-----------------------------------------------------------------------------
(* An idempotency key executes once, unless two deliveries of it have both *)
(* looked for its audit row before either wrote it.                        *)
OncePerKey == \A a \in Actions : execs[a] > 1 => a \in overlapped

(* An administrator can lock an ordinary account: what is refused is to    *)
(* lock the last active administrator.                                     *)
OrdinaryAccountsCanBeLocked ==
    \A u \in active \ admin : SomeAdminActs => Checks(u, "lock")

(* A handler whose checks an administrator's removal has overtaken ends.   *)
AnOvertakenHandlerEnds ==
    \E u \in Users : handling[u].stale /\ handling'[u] = NoHandling

(* A step by which the last active administrator is lost is a protective   *)
(* action or a removal whose check another removal has overtaken.          *)
GuardedStep ==
    ActiveAdmins # {} /\ ActiveAdmins' = {} =>
        execs' # execs \/ AnOvertakenHandlerEnds

(* Only an administrator makes or unlocks one: a step by which one is      *)
(* active again ends a handler that had begun before.                      *)
AuthorizedStep ==
    ActiveAdmins = {} /\ ActiveAdmins' # {} => AnOvertakenHandlerEnds

-----------------------------------------------------------------------------
(* What the proofs rest on.                                                *)

(* What a handler has checked still holds, unless an administrator has     *)
(* gone since: some administrator is active, and one beside the target of  *)
(* a removal.                                                              *)
ChecksAreCurrent ==
    \A u \in Users : handling[u].kind # "none" /\ ~handling[u].stale =>
        /\ ActiveAdmins # {}
        /\ handling[u].kind \in {"lock", "revoke"} /\ u \in ActiveAdmins =>
             \E v \in ActiveAdmins : v # u

(* Executions of one action that are under way together, or one that is    *)
(* under way when another has committed, are known to overlap.             *)
OverlapsAreKnown ==
    /\ \A a \in Actions : execs[a] > 0 => a \in audited
    /\ \A s, t \in Slots :
         s # t /\ applying[s].action = applying[t].action /\ applying[s].action # None
         => applying[s].action \in overlapped
    /\ \A s \in Slots :
         applying[s].action # None /\ execs[applying[s].action] > 0
         => applying[s].action \in overlapped
=============================================================================
