----------------------------- MODULE SocResponse -----------------------------
(***************************************************************************)
(* An analyst's protective action, end to end: SocAlerts asks, the call    *)
(* travels to Core (app/internal_client.py), AccountAdmin executes it or   *)
(* finds its idempotency key in the audit log, and SocAlerts writes what   *)
(* it was told on the timeline, while administrators change the account.   *)
(* The call may be lost, refused or time out at any point, with or without *)
(* Core having executed it, and the analyst may ask again.                 *)
(***************************************************************************)
EXTENDS Naturals, FiniteSets

CONSTANTS Users, Subject, Actions, Slots, Analysts, Resolutions, EventTypes,
          Jobs, None

ASSUME SubjectAssumption == Subject \in Users
ASSUME NoteAssumption == "note_added" \in EventTypes
ASSUME NoneAssumption == None \notin Actions \cup Analysts \cup Resolutions

VARIABLES admin, active, handling, applying, audited, execs, overlapped,
          alert, job, applied, notes

Core == INSTANCE AccountAdmin
Soc == INSTANCE SocAlerts

coreVars == <<admin, active, handling, applying, audited, execs, overlapped>>
socVars == <<alert, job, applied, notes>>
vars == <<coreVars, socVars>>

Init == Core!Init /\ Soc!Init

(* The call arrives: Core starts to execute it ...                         *)
CallArrives(j, s) ==
    /\ Core!ApplyBegin(s, job[j].action)
    /\ Soc!CallMoves(j, "asked", "executing")

(* ... or answers "already_applied" from the audit row.                    *)
CallIsKnown(j) ==
    /\ job[j].action \in audited
    /\ Soc!CallMoves(j, "asked", "answered")
    /\ UNCHANGED coreVars

(* Core commits, and its answer reaches the request that waits for it ...  *)
CallSucceeds(j, s) ==
    /\ applying[s].action = job[j].action
    /\ Core!ApplyCommit(s)
    /\ Soc!CallMoves(j, "executing", "answered")

(* ... or nobody; or Core fails, and the caller is told nothing.           *)
CallOutlivesItsCaller(s) ==
    /\ Core!ApplyCommit(s) \/ Core!ApplyAborts(s)
    /\ UNCHANGED socVars

Next ==
    \/ Core!IamStep /\ UNCHANGED socVars
    \/ Soc!LocalStep /\ UNCHANGED coreVars
    \/ \E j \in Jobs, s \in Slots : CallArrives(j, s)
    \/ \E j \in Jobs : CallIsKnown(j)
    \/ \E j \in Jobs, s \in Slots : CallSucceeds(j, s)
    \/ \E s \in Slots : CallOutlivesItsCaller(s)

Spec == Init /\ [][Next]_vars

-----------------------------------------------------------------------------
TypeOK == Core!TypeOK /\ Soc!TypeOK

(* What the timeline says was applied is in Core's audit log, however the  *)
(* calls, their retries and their timeouts interleave.                     *)
AppliedNoteIsAudited == applied \subseteq audited

(* An idempotency key executes once, unless two deliveries of it have both *)
(* looked for its audit row before either wrote it.                        *)
OncePerKey == Core!OncePerKey

(* The status of an alert and its resolution stay one verdict, whichever   *)
(* handlers overlap.                                                       *)
OneVerdict == Soc!OneVerdict

(* An administrator can lock an ordinary account: what _guard_last_active_ *)
(* admin refuses is to lock the last active administrator.                 *)
OrdinaryAccountsCanBeLocked == Core!OrdinaryAccountsCanBeLocked

(* The last active administrator is lost only to a protective action or to *)
(* a removal whose check of the count another removal has overtaken.       *)
LastAdminIsGuarded == [][Core!GuardedStep]_vars

(* Once no administrator is active none is again, whatever analysts ask,   *)
(* except by an IAM handler that an administrator had begun before.        *)
AdminsComeFromAdmins == [][Core!AuthorizedStep]_vars

(* A closed alert stays as it was closed, unless a handler that had read   *)
(* it before commits after.                                                *)
ClosedStaysClosed == [][Soc!ClosedStep]_vars

-----------------------------------------------------------------------------
(* What the proofs rest on: the inductive invariant.  A call is for an     *)
(* action, which is in the audit log once Core has answered.               *)
AnswersAreAudited ==
    \A j \in Jobs :
        /\ job[j].pc \in {"asked", "executing", "answered"} => job[j].action \in Actions
        /\ job[j].pc = "answered" => job[j].action \in audited

IndInv ==
    /\ TypeOK /\ AnswersAreAudited /\ AppliedNoteIsAudited
    /\ Core!ChecksAreCurrent /\ Core!OverlapsAreKnown /\ OncePerKey
    /\ Soc!ReadsAreCurrent /\ OneVerdict
=============================================================================
