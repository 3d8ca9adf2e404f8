-------------------------- MODULE DetectionPipeline --------------------------
(***************************************************************************)
(* From a committed login to its enforcement: Core sends the login's event *)
(* to Detection (_send_login_event), Detection stores and scores it        *)
(* (receive_login_event, process_attempt), raises an alert and calls Core  *)
(* back (enforce_action_in_core, apply_action), and a sweep scores failed  *)
(* attempts again (rescore_failed_attempts).                               *)
(*                                                                         *)
(* An agent of Detection - the handler of one delivery, or a sweep - is a  *)
(* coroutine that runs without interruption between its awaits: the ML     *)
(* service and the call to Core.  The look-up and the insert of an event   *)
(* are two steps, because deliveries may reach different workers; sweeps   *)
(* and handlers are taken to commit a verdict in one.  Core is a service   *)
(* of its own: a call to it may be applied after its caller has given up.  *)
(*                                                                         *)
(* ABSTRACTED.  What the policy, the rules and the ML service lead to is   *)
(* any of the levels the code tells apart: "low" stands for medium too and *)
(* for no active policy.  A level stands for the action that RISK_ACTION_  *)
(* MAP gives it.  Core's audit log is the set of the keys it holds.        *)
(***************************************************************************)
EXTENDS Naturals

CONSTANTS
    Events,     \* bounds the logins
    Sweeps,     \* coroutines of rescore_failed_attempts; the code starts none
    None        \* no event

ASSUME NoneAssumption == None \notin Events

VARIABLES
    sender,     \* Core's coroutine that sends each event
    attempt,    \* login_attempts, by event_id
    alerts,     \* how many alerts each attempt has
    log,        \* detection_logs: the outcomes recorded for each key
    agent,      \* the coroutines of Detection
    stray,      \* calls to Core that nobody waits for any more
    audit,      \* Core's audit log: the idempotency keys it has applied
    executed,   \* HISTORY: how often Core executed each action
    verdicts,   \* HISTORY: the levels committed for each attempt
    orphans     \* HISTORY: the attempts whose first scoring was cut off by a
                \* crash, or by a database that failed while one failed

vars == <<sender, attempt, alerts, log, agent, stray, audit, executed,
          verdicts, orphans>>

Levels == {"low", "high", "critical"}
Alerting == {"high", "critical"}
Tries == 2                              \* deliveries _send_login_event tries
Handlers == Events \X (1..Tries)        \* the handler of each delivery
Agents == Handlers \cup Sweeps
Keys == Events \X Alerting              \* detection:<attempt>:<action>

ASSUME SweepsAssumption == Sweeps \cap Handlers = {}

AgentRecord ==
    [pc : {"idle", "received", "looked", "scoring", "enforcing", "done", "dead"},
     event : Events \cup {None}, level : Levels,
     applied : BOOLEAN,                 \* Core has applied the call in flight
     todo : SUBSET Events]              \* attempts a sweep has yet to score
SenderRecord ==
    [pc : {"none", "sending", "waiting", "delivered", "lost"}, try : 0..Tries]
AttemptRecord ==
    [status : {"none", "pending", "processed", "failed"}, level : Levels,
     known : BOOLEAN]
Idle == [pc |-> "idle", event |-> None, level |-> "low", applied |-> FALSE, todo |-> {}]

TypeOK ==
    /\ sender \in [Events -> SenderRecord]
    /\ attempt \in [Events -> AttemptRecord]
    /\ alerts \in [Events -> Nat]
    /\ log \in [Keys -> SUBSET {"enforced", "not_enforced"}]
    /\ agent \in [Agents -> AgentRecord]
    /\ stray \in SUBSET Keys
    /\ audit \in SUBSET Keys
    /\ executed \in [Keys -> Nat]
    /\ verdicts \in [Events -> SUBSET Levels]
    /\ orphans \in SUBSET Events

Init ==
    /\ sender = [e \in Events |-> [pc |-> "none", try |-> 0]]
    /\ attempt = [e \in Events |-> [status |-> "none", level |-> "low", known |-> FALSE]]
    /\ alerts = [e \in Events |-> 0]
    /\ log = [k \in Keys |-> {}]
    /\ agent = [a \in Agents |-> Idle]
    /\ stray = {} /\ audit = {}
    /\ executed = [k \in Keys |-> 0]
    /\ verdicts = [e \in Events |-> {}]
    /\ orphans = {}

-----------------------------------------------------------------------------
IsSweep(a) == a \in Sweeps
EventOf(a) == IF IsSweep(a) THEN agent[a].event ELSE a[1]
KeyOf(a) == <<EventOf(a), agent[a].level>>
Stored(e) == attempt[e].status # "none"
Goes(a, pc) == agent' = [agent EXCEPT ![a].pc = pc]

(* The agent has done with its event: a handler answers, a sweep turns to  *)
(* the next attempt it listed.                                             *)
Through(a) ==
    IF IsSweep(a) THEN [Idle EXCEPT !.todo = agent[a].todo]
                  ELSE [agent[a] EXCEPT !.pc = "done"]

(* MUTANT of Apply: apply_action without the idempotency key.              *)
ApplyAgain(k) ==
    /\ audit' = audit \cup {k}
    /\ executed' = [executed EXCEPT ![k] = @ + 1]

(* apply_action executes an action at most once per key.                   *)
Apply(k) ==
    /\ audit' = audit \cup {k}
    /\ executed' = IF k \in audit THEN executed ELSE [executed EXCEPT ![k] = @ + 1]

(* process_attempt after the ML service: assessment, alert unless the      *)
(* attempt has one, and verdict in one commit; then, for a known account,  *)
(* the call to Core.                                                       *)
Verdict(a, level, alertsThen) ==
    LET e == EventOf(a) IN
    /\ attempt' = [attempt EXCEPT ![e].status = "processed", ![e].level = level]
    /\ verdicts' = [verdicts EXCEPT ![e] = @ \cup {level}]
    /\ alerts' = [alerts EXCEPT ![e] = alertsThen]
    /\ agent' = [agent EXCEPT ![a] =
         IF level \in Alerting /\ attempt[e].known
         THEN [agent[a] EXCEPT !.pc = "enforcing", !.level = level, !.applied = FALSE]
         ELSE Through(a)]
    /\ UNCHANGED <<sender, log, stray, audit, executed, orphans>>

-----------------------------------------------------------------------------
(* MUTANTS.  Each is an action below with one plausible mistake in it; no  *)
(* behaviour of Spec uses them.                                            *)

(* No look for the alert that an earlier scoring raised.                   *)
ScoreWithNewAlert(a, level) ==
    /\ agent[a].pc = "scoring"
    /\ Verdict(a, level, IF level \in Alerting THEN alerts[EventOf(a)] + 1
                                               ELSE alerts[EventOf(a)])

(* The loser of the race for the event scores it like the winner.          *)
InsertOrScore(a, known) ==
    /\ agent[a].pc = "looked"
    /\ IF Stored(EventOf(a)) THEN UNCHANGED attempt
       ELSE attempt' = [attempt EXCEPT ![EventOf(a)].status = "pending",
                                       ![EventOf(a)].known = known]
    /\ Goes(a, "scoring")
    /\ UNCHANGED <<sender, alerts, log, stray, audit, executed, verdicts, orphans>>

(* The exception leaves the attempt as it is.                              *)
ScoreFailsUnmarked(a, marked) ==
    /\ agent[a].pc = "scoring"
    /\ agent' = [agent EXCEPT ![a] = Through(a)]
    /\ UNCHANGED <<sender, attempt, alerts, log, stray, audit, executed,
                   verdicts, orphans>>

(* A timeout is taken for success.                                         *)
CallFailsQuietly(a, late, recorded) ==
    /\ agent[a].pc = "enforcing"
    /\ stray' = IF late /\ ~agent[a].applied THEN stray \cup {KeyOf(a)} ELSE stray
    /\ log' = IF recorded THEN [log EXCEPT ![KeyOf(a)] = @ \cup {"enforced"}] ELSE log
    /\ agent' = [agent EXCEPT ![a] = Through(a)]
    /\ UNCHANGED <<sender, attempt, alerts, audit, executed, verdicts, orphans>>

(* One delivery too many.                                                  *)
GiveUpTooLate(e, rejected) ==
    /\ sender[e].pc = "waiting"
    /\ sender' = [sender EXCEPT ![e].pc =
         IF sender[e].try <= Tries /\ ~rejected THEN "sending" ELSE "lost"]
    /\ UNCHANGED <<attempt, alerts, log, agent, stray, audit, executed,
                   verdicts, orphans>>

(* Any response but a server error, or none at all, counts as delivered.   *)
AcceptedUnread(e) ==
    /\ sender[e].pc = "waiting"
    /\ sender' = [sender EXCEPT ![e].pc = "delivered"]
    /\ UNCHANGED <<attempt, alerts, log, agent, stray, audit, executed,
                   verdicts, orphans>>

-----------------------------------------------------------------------------
(* Core sends *)

(* A login, or its OTP, has committed.                                     *)
LoginCommits(e) ==
    /\ sender[e].pc = "none"
    /\ sender' = [sender EXCEPT ![e].pc = "sending"]
    /\ UNCHANGED <<attempt, alerts, log, agent, stray, audit, executed,
                   verdicts, orphans>>

(* One POST of the event, which may not get through.                       *)
Send(e, reached) ==
    LET n == sender[e].try + 1 IN
    /\ sender[e].pc = "sending"
    /\ sender' = [sender EXCEPT ![e] = [pc |-> "waiting", try |-> n]]
    /\ IF reached THEN Goes(<<e, n>>, "received") ELSE UNCHANGED agent
    /\ UNCHANGED <<attempt, alerts, log, stray, audit, executed, verdicts, orphans>>

Accepted(e) ==
    /\ sender[e].pc = "waiting"
    /\ agent[<<e, sender[e].try>>].pc = "done"
    /\ sender' = [sender EXCEPT ![e].pc = "delivered"]
    /\ UNCHANGED <<attempt, alerts, log, agent, stray, audit, executed,
                   verdicts, orphans>>

(* No answer in three seconds, none at all, or a server error: once more,  *)
(* then the event is lost.  A rejection (4xx) loses it at once.            *)
GiveUp(e, rejected) ==
    /\ sender[e].pc = "waiting"
    /\ rejected => agent[<<e, sender[e].try>>].pc = "idle"
    /\ sender' = [sender EXCEPT ![e].pc =
         IF sender[e].try < Tries /\ ~rejected THEN "sending" ELSE "lost"]
    /\ UNCHANGED <<attempt, alerts, log, agent, stray, audit, executed,
                   verdicts, orphans>>

(* Core dies: nothing remembers the events it had still to send.           *)
CoreCrash ==
    /\ \E e \in Events : sender[e].pc \in {"sending", "waiting"}
    /\ sender' = [e \in Events |->
         IF sender[e].pc \in {"sending", "waiting"}
         THEN [sender[e] EXCEPT !.pc = "lost"] ELSE sender[e]]
    /\ UNCHANGED <<attempt, alerts, log, agent, stray, audit, executed,
                   verdicts, orphans>>

-----------------------------------------------------------------------------
(* Detection receives and scores *)

LookUp(a) ==
    /\ agent[a].pc = "received"
    /\ Goes(a, IF Stored(EventOf(a)) THEN "done" ELSE "looked")
    /\ UNCHANGED <<sender, attempt, alerts, log, stray, audit, executed,
                   verdicts, orphans>>

(* The database fails before the event is stored: the handler answers 500. *)
ReceiveFails(a) ==
    /\ agent[a].pc \in {"received", "looked"}
    /\ Goes(a, "dead")
    /\ UNCHANGED <<sender, attempt, alerts, log, stray, audit, executed,
                   verdicts, orphans>>

(* The unique event_id decides which delivery stores and scores the event. *)
Insert(a, known) ==
    LET e == EventOf(a) IN
    /\ agent[a].pc = "looked"
    /\ IF Stored(e)
       THEN Goes(a, "done") /\ UNCHANGED attempt
       ELSE /\ Goes(a, "scoring")
            /\ attempt' = [attempt EXCEPT ![e].status = "pending", ![e].known = known]
    /\ UNCHANGED <<sender, alerts, log, stray, audit, executed, verdicts, orphans>>

Score(a, level) ==
    /\ agent[a].pc = "scoring"
    /\ Verdict(a, level, IF level \in Alerting THEN 1 ELSE alerts[EventOf(a)])

(* An exception: rolled back; a sweep skips the attempt, the handler marks *)
(* it - unless the database fails it there too, and it answers 500.        *)
ScoreFails(a, marked) ==
    LET e == EventOf(a) IN
    /\ agent[a].pc = "scoring"
    /\ IF IsSweep(a) \/ marked
       THEN /\ attempt' = IF IsSweep(a) THEN attempt
                         ELSE [attempt EXCEPT ![e].status = "failed"]
            /\ agent' = [agent EXCEPT ![a] = Through(a)]
            /\ UNCHANGED orphans
       ELSE /\ orphans' = orphans \cup {e}
            /\ Goes(a, "dead")
            /\ UNCHANGED attempt
    /\ UNCHANGED <<sender, alerts, log, stray, audit, executed, verdicts>>

(* Detection dies: the handlers and sweeps are gone, their calls may still *)
(* arrive.                                                                 *)
DetectionCrash ==
    LET gone == {a \in Agents : agent[a].pc \notin {"idle", "done", "dead"}} IN
    /\ gone # {}
    /\ agent' = [a \in Agents |->
         IF IsSweep(a) THEN Idle
         ELSE IF a \in gone THEN [agent[a] EXCEPT !.pc = "dead"] ELSE agent[a]]
    /\ orphans' = orphans \cup
         {EventOf(a) : a \in {b \in gone \cap Handlers : agent[b].pc = "scoring"}}
    /\ stray' = stray \cup
         {KeyOf(a) : a \in {b \in gone : agent[b].pc = "enforcing" /\ ~agent[b].applied}}
    /\ UNCHANGED <<sender, attempt, alerts, log, audit, executed, verdicts>>

-----------------------------------------------------------------------------
(* Core enforces *)

CoreApplies(a) ==
    /\ agent[a].pc = "enforcing" /\ ~agent[a].applied
    /\ Apply(KeyOf(a))
    /\ agent' = [agent EXCEPT ![a].applied = TRUE]
    /\ UNCHANGED <<sender, attempt, alerts, log, stray, verdicts, orphans>>

CoreAppliesLate(k) ==
    /\ k \in stray
    /\ Apply(k)
    /\ stray' = stray \ {k}
    /\ UNCHANGED <<sender, attempt, alerts, log, agent, verdicts, orphans>>

(* Core answered, "applied" or "already_applied" alike.                    *)
CallReturns(a, recorded) ==
    /\ agent[a].pc = "enforcing" /\ agent[a].applied
    /\ log' = IF recorded THEN [log EXCEPT ![KeyOf(a)] = @ \cup {"enforced"}] ELSE log
    /\ agent' = [agent EXCEPT ![a] = Through(a)]
    /\ UNCHANGED <<sender, attempt, alerts, stray, audit, executed, verdicts, orphans>>

(* Core is unreachable, rejects the action, or does not answer in three    *)
(* seconds - and may have applied it, or apply it late.                    *)
CallFails(a, late, recorded) ==
    /\ agent[a].pc = "enforcing"
    /\ stray' = IF late /\ ~agent[a].applied THEN stray \cup {KeyOf(a)} ELSE stray
    /\ log' = IF recorded THEN [log EXCEPT ![KeyOf(a)] = @ \cup {"not_enforced"}] ELSE log
    /\ agent' = [agent EXCEPT ![a] = Through(a)]
    /\ UNCHANGED <<sender, attempt, alerts, audit, executed, verdicts, orphans>>

-----------------------------------------------------------------------------
(* The sweep *)

SweepLists(k) ==
    LET failed == {e \in Events : attempt[e].status = "failed"} IN
    /\ agent[k].pc = "idle" /\ agent[k].todo = {} /\ failed # {}
    /\ agent' = [agent EXCEPT ![k].todo = failed]
    /\ UNCHANGED <<sender, attempt, alerts, log, stray, audit, executed,
                   verdicts, orphans>>

(* It does not look again whether the attempt is failed still.             *)
SweepTakes(k, e) ==
    /\ agent[k].pc = "idle" /\ e \in agent[k].todo
    /\ agent' = [agent EXCEPT ![k].pc = "scoring", ![k].event = e,
                              ![k].todo = @ \ {e}]
    /\ UNCHANGED <<sender, attempt, alerts, log, stray, audit, executed,
                   verdicts, orphans>>

-----------------------------------------------------------------------------
Scoring(a) ==
    \/ \E marked \in BOOLEAN : ScoreFails(a, marked)
    \/ \E level \in Levels : Score(a, level)
Enforcing(a) ==
    \/ \E recorded \in BOOLEAN : CallReturns(a, recorded)
    \/ \E late, recorded \in BOOLEAN : CallFails(a, late, recorded)
Receiving(a) ==
    LookUp(a) \/ ReceiveFails(a) \/ \E known \in BOOLEAN : Insert(a, known)
Sweeping(k) == SweepLists(k) \/ \E e \in Events : SweepTakes(k, e)

SenderStep(e) ==
    \/ \E reached \in BOOLEAN : Send(e, reached)
    \/ Accepted(e)
    \/ \E rejected \in BOOLEAN : GiveUp(e, rejected)
HandlerStep(a) == Receiving(a) \/ Scoring(a) \/ Enforcing(a)
SweepStep(k) == Sweeping(k) \/ Scoring(k) \/ Enforcing(k)

Next ==
    \/ \E e \in Events : LoginCommits(e) \/ SenderStep(e)
    \/ \E a \in Handlers : HandlerStep(a)
    \/ \E k \in Sweeps : SweepStep(k)
    \/ \E a \in Agents : CoreApplies(a)
    \/ \E k \in Keys : CoreAppliesLate(k)
    \/ CoreCrash \/ DetectionCrash

Spec == Init /\ [][Next]_vars

(* Every await of these coroutines has a timeout, so each one that runs    *)
(* goes on.  A sweep would be started again and again, as its docstring    *)
(* has it.  Nothing makes a service crash, or Core apply a call.           *)
FairSpec ==
    /\ Spec
    /\ \A e \in Events : WF_vars(SenderStep(e))
    /\ \A a \in Handlers : WF_vars(HandlerStep(a))
    /\ \A k \in Sweeps : WF_vars(SweepStep(k))

-----------------------------------------------------------------------------
(* PROPERTIES *)

(* An attempt has one alert, however often and by whomever it is scored,   *)
(* as soon as one committed verdict called for it, and none before: no     *)
(* crash or exception separates the verdict from its alert.                *)
OneAlertPerRiskyAttempt ==
    \A e \in Events :
        alerts[e] = IF verdicts[e] \cap Alerting = {} THEN 0 ELSE 1

(* Core acts on an account at most once for each action an attempt calls   *)
(* for - through redelivery, a sweep, a timeout answered late - and never  *)
(* for an attempt whose verdict and alert are not committed.               *)
ActionsAreWarranted ==
    \A k \in Keys :
        /\ executed[k] <= 1
        /\ executed[k] = 1 => k[2] \in verdicts[k[1]] /\ alerts[k[1]] = 1

(* What detection_logs records as enforced, Core has executed - not always *)
(* the other way round: "NOT enforced" may be a late answer.               *)
RecordedAsEnforcedIsDone ==
    \A k \in Keys : "enforced" \in log[k] => executed[k] >= 1

(* Core believes an event delivered only if Detection stored it, whichever *)
(* handler answered; and a stored attempt that is neither scored nor       *)
(* marked failed has a handler at work on it, or its scoring was cut off.  *)
NoAttemptIsAbandoned ==
    \A e \in Events :
        /\ sender[e].pc = "delivered" => Stored(e)
        /\ attempt[e].status = "pending" =>
             e \in orphans \/ \E a \in Handlers :
                 EventOf(a) = e /\ agent[a].pc = "scoring"

(* A second delivery of an event never scores it again: a verdict that is  *)
(* committed changes only under a sweep that has the attempt in hand.      *)
RedeliveryKeepsTheVerdict ==
    [][\A e \in Events :
          attempt[e].status = "processed" /\ attempt'[e] # attempt[e] =>
              \E k \in Sweeps : agent[k].event = e]_vars

(* All of it together, step by step: the pipeline keeps the promise of     *)
(* RiskResponse.  Who sent, scored, called and answered is not visible     *)
(* there, nor is what was recorded as not enforced.                        *)
Promised == INSTANCE RiskResponse WITH
    Attempts <- Events,
    fate <- [e \in Events |-> attempt[e].status],
    account <- [e \in Events |-> attempt[e].known],
    recorded <- {k \in Keys : "enforced" \in log[k]}
RespondsAsPromised == Promised!Spec

(* Every event that Detection stores is scored or marked failed, unless    *)
(* its scoring is cut off.                                                 *)
StoredIsSettled ==
    \A e \in Events :
        attempt[e].status = "pending" ~>
            attempt[e].status # "pending" \/ e \in orphans

(* rescore_failed_attempts "is the reconciliation pass that closes the     *)
(* gap": an attempt that a crash cut off is revisited.                     *)
CrashedAttemptIsRevisited ==
    \A e \in Events : e \in orphans ~> attempt[e].status # "pending"

-----------------------------------------------------------------------------
(* THE INVARIANT of DetectionPipelineProofs *)

(* A service acts once for each key it holds, for a verdict it committed   *)
(* and an account there is; a verdict is committed with the status.        *)
Warranted(k) == k[2] \in verdicts[k[1]] /\ attempt[k[1]].known
VerdictsAreProcessed ==
    \A e \in Events : attempt[e].status = "processed" <=> verdicts[e] # {}
AuditCounts ==
    /\ \A k \in Keys : executed[k] = IF k \in audit THEN 1 ELSE 0
    /\ \A k \in audit \cup stray : Warranted(k)
    /\ \A k \in Keys : "enforced" \in log[k] => k \in audit

(* The delivery that is next has reached no handler.                       *)
SenderTries ==
    /\ \A e \in Events :
          /\ sender[e].pc \in {"none", "sending"} => sender[e].try < Tries
          /\ sender[e].pc = "waiting" => sender[e].try >= 1
    /\ \A a \in Handlers : a[2] > sender[a[1]].try => agent[a].pc = "idle"

(* What an agent knows while it scores or waits for Core.                  *)
AgentsKnow ==
    \A a \in Agents :
        /\ agent[a].pc \in {"scoring", "enforcing"} => EventOf(a) \in Events
        /\ agent[a].pc = "enforcing" =>
              /\ KeyOf(a) \in Keys /\ Warranted(KeyOf(a))
              /\ agent[a].applied => KeyOf(a) \in audit

(* One handler scores an attempt, while it is pending; sweeps have only    *)
(* attempts that some handler has done with.                               *)
OneScorer ==
    /\ \A a \in Handlers :
          /\ agent[a].pc \in {"enforcing", "done"} => Stored(EventOf(a))
          /\ agent[a].pc = "scoring" =>
                /\ attempt[EventOf(a)].status = "pending"
                /\ \A b \in Handlers :
                      EventOf(b) = EventOf(a) /\ agent[b].pc = "scoring" => b = a
    /\ \A k \in Sweeps : \A e \in Events :
          e \in agent[k].todo \/ e = agent[k].event =>
              attempt[e].status \in {"failed", "processed"}

(* Together they are inductive.                                            *)
IndInv ==
    /\ TypeOK
    /\ OneAlertPerRiskyAttempt
    /\ VerdictsAreProcessed
    /\ AuditCounts
    /\ SenderTries
    /\ AgentsKnow
    /\ OneScorer
    /\ NoAttemptIsAbandoned
=============================================================================
