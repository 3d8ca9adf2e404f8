------------------------------ MODULE SocAlerts ------------------------------
(***************************************************************************)
(* The workflow of one alert (app/alerts.py): analysts acknowledge,        *)
(* resolve and assign it, write on its timeline, and ask Core for a        *)
(* protective action.  SocResponse composes it with Core.                  *)
(*                                                                         *)
(* GRANULARITY.  Only the request for an action awaits (Core's answer).    *)
(* acknowledge and resolve read the alert's status without locking its     *)
(* row and write later: one step in one process, and two actions here, as  *)
(* two processes may interleave them.                                      *)
(*                                                                         *)
(* ABSTRACTED.  The timeline is what is known from it: the actions that it *)
(* says were applied, and the events that say nothing of the sort.         *)
(* Comments, notes, addresses, times and actors (the resolver too) are     *)
(* written and never read: they are left out.                              *)
(***************************************************************************)
EXTENDS Naturals

CONSTANTS
    Analysts,   \* active rows of soc_analysts
    Resolutions,
    EventTypes, \* event types of the timeline
    Jobs,       \* bounds the requests served at one time
    Actions,
    None

VARIABLES
    alert,      \* the row of alerts
    job,        \* requests under way
    applied,    \* actions the timeline says were applied
    notes       \* types of the events that claim nothing of Core: written by
                \* hand, or saying that an action was NOT enforced

vars == <<alert, job, applied, notes>>

Closed == {"resolved", "false_positive"}
Alert == [status : {"open", "acknowledged"} \cup Closed,
          resolution : Resolutions \cup {None},
          assignee : Analysts \cup {None}]
Job == [pc : {"idle", "acknowledge", "resolve", "asked", "executing", "answered"},
        action : Actions \cup {None},
        stale : BOOLEAN]        \* HISTORY: the status was written since
NoJob == [pc |-> "idle", action |-> None, stale |-> FALSE]

TypeOK ==
    /\ alert \in Alert
    /\ job \in [Jobs -> Job]
    /\ applied \subseteq Actions
    /\ notes \subseteq EventTypes

Init ==
    /\ alert = [status |-> "open", resolution |-> None, assignee |-> None]
    /\ job = [j \in Jobs |-> NoJob]
    /\ applied = {}
    /\ notes = {}

-----------------------------------------------------------------------------
Start(j, pc, a) ==
    /\ job[j] = NoJob
    /\ job' = [job EXCEPT ![j] = [pc |-> pc, action |-> a, stale |-> FALSE]]

(* j commits a status: what the others have read of it is outdated.        *)
CommitStatus(j) ==
    job' = [i \in Jobs |-> IF i = j THEN NoJob
                           ELSE IF job[i].pc \in {"acknowledge", "resolve"}
                           THEN [job[i] EXCEPT !.stale = TRUE]
                           ELSE job[i]]

(* MUTANT: every resolution is stored as "resolved".                       *)
StatusForAny(resolution) == "resolved"

StatusFor(resolution) ==
    IF resolution = "false_positive" THEN "false_positive" ELSE "resolved"

-----------------------------------------------------------------------------
(* MUTANTS.                                                                *)

(* acknowledge_alert without its status check.                             *)
AcknowledgeBeginAny(j) ==
    /\ Start(j, "acknowledge", None)
    /\ UNCHANGED <<alert, applied, notes>>

(* The outcome of the call is not looked at.                               *)
RecordAppliedAnyway(j) ==
    /\ job[j].pc \in {"asked", "executing", "answered"}
    /\ applied' = applied \cup {job[j].action}
    /\ job' = [job EXCEPT ![j] = NoJob]
    /\ UNCHANGED <<alert, notes>>

-----------------------------------------------------------------------------
(* acknowledge_alert: the check of an unlocked row, then the commit.       *)
AcknowledgeBegin(j) ==
    /\ alert.status = "open"
    /\ Start(j, "acknowledge", None)
    /\ UNCHANGED <<alert, applied, notes>>

AcknowledgeCommit(j) ==
    /\ job[j].pc = "acknowledge"
    /\ alert' = [alert EXCEPT !.status = "acknowledged"]
    /\ CommitStatus(j)
    /\ UNCHANGED <<applied, notes>>

(* resolve_alert, likewise.                                                *)
ResolveBegin(j) ==
    /\ alert.status \in {"open", "acknowledged"}
    /\ Start(j, "resolve", None)
    /\ UNCHANGED <<alert, applied, notes>>

ResolveCommit(j, resolution) ==
    /\ job[j].pc = "resolve"
    /\ alert' = [alert EXCEPT !.status = StatusFor(resolution),
                              !.resolution = resolution]
    /\ CommitStatus(j)
    /\ UNCHANGED <<applied, notes>>

(* assign_alert, to an active analyst, in any status.                      *)
Assign(analyst) ==
    /\ alert' = [alert EXCEPT !.assignee = analyst]
    /\ UNCHANGED <<job, applied, notes>>

(* add_timeline_event takes every type of the vocabulary and changes no    *)
(* alert: a hand-written "resolved" resolves nothing.                      *)
AddEvent(type) ==
    /\ notes' = notes \cup {type}
    /\ UNCHANGED <<alert, job, applied>>

(* request_security_action, up to its await ...                            *)
RequestAction(j, a) ==
    /\ Start(j, "asked", a)
    /\ UNCHANGED <<alert, applied, notes>>

(* ... and after it.  A timeout or an error is recorded as "NOT enforced", *)
(* although Core may still execute the action.                             *)
RecordApplied(j) ==
    /\ job[j].pc = "answered"
    /\ applied' = applied \cup {job[j].action}
    /\ job' = [job EXCEPT ![j] = NoJob]
    /\ UNCHANGED <<alert, notes>>
RecordRefused(j) ==
    /\ job[j].pc \in {"asked", "executing", "answered"}
    /\ notes' = notes \cup {"note_added"}
    /\ job' = [job EXCEPT ![j] = NoJob]
    /\ UNCHANGED <<alert, applied>>

(* How far the call has come, in Core.                                     *)
CallMoves(j, from, to) ==
    /\ job[j].pc = from
    /\ job' = [job EXCEPT ![j].pc = to]
    /\ UNCHANGED <<alert, applied, notes>>

LocalStep ==
    \/ \E j \in Jobs : AcknowledgeBegin(j) \/ AcknowledgeCommit(j) \/ ResolveBegin(j)
    \/ \E j \in Jobs, r \in Resolutions : ResolveCommit(j, r)
    \/ \E a \in Analysts : Assign(a)
    \/ \E t \in EventTypes : AddEvent(t)
    \/ \E j \in Jobs, a \in Actions : RequestAction(j, a)
    \/ \E j \in Jobs : RecordApplied(j) \/ RecordRefused(j)

-----------------------------------------------------------------------------
(* A closed alert stays as it was closed, unless a handler that had read   *)
(* it before commits after.                                                *)
ClosedStep ==
    alert.status \in Closed /\ alert'.status # alert.status =>
        \E j \in Jobs : job[j].stale /\ job'[j] = NoJob

(* The status of an alert and its resolution are one verdict: whichever    *)
(* handlers overlap, "false_positive" is never stored beside the           *)
(* resolution of another status, nor a closed alert without one.           *)
OneVerdict ==
    alert.status \in Closed =>
        /\ alert.resolution # None
        /\ alert.status = "false_positive" <=> alert.resolution = "false_positive"

-----------------------------------------------------------------------------
(* What the proofs rest on: a handler that has checked the status finds it *)
(* as it was, unless another one has committed since.                      *)
ReadsAreCurrent ==
    \A j \in Jobs :
        job[j].pc \in {"acknowledge", "resolve"} /\ ~job[j].stale =>
            alert.status \notin Closed
=============================================================================
