---------------------- MODULE DetectionPipelineProofs ----------------------
(***************************************************************************)
(* Proofs about DetectionPipeline for any number of logins and sweeps.     *)
(*                                                                         *)
(* IndInv is inductive.  There is a lemma for each conjunct of it, and in  *)
(* the lemma a step for each action that can disturb the conjunct; what    *)
(* the others leave unchanged settles the rest.                            *)
(***************************************************************************)
EXTENDS DetectionPipeline, TLAPS

-----------------------------------------------------------------------------
(* The agents *)

(* Handlers and sweeps are the agents, and no agent is both.               *)
LEMMA TheAgents ==
    /\ \A a \in Handlers : a \in Agents /\ a \notin Sweeps /\ a[1] \in Events
                           /\ a[2] \in 1..Tries /\ a = <<a[1], a[2]>>
    /\ \A k \in Sweeps : k \in Agents /\ k \notin Handlers
    /\ \A a \in Agents : a \in Handlers \/ a \in Sweeps
    /\ \A e \in Events, n \in 1..Tries : <<e, n>> \in Handlers
<1>1. \A a \in Handlers : a \notin Sweeps
  BY SweepsAssumption
<1> QED  BY <1>1 DEF Handlers, Agents

(* A handler serves its event, a sweep the one it has taken.               *)
LEMMA AgentFacts ==
    /\ \A a \in Handlers : a \in Agents /\ ~IsSweep(a) /\ EventOf(a) = a[1]
                           /\ a[1] \in Events
    /\ \A k \in Sweeps : k \in Agents /\ IsSweep(k) /\ EventOf(k) = agent[k].event
    /\ \A a \in Agents : a \in Handlers \/ a \in Sweeps
    /\ \A e \in Events, n \in 1..Tries : <<e, n>> \in Handlers
BY TheAgents DEF IsSweep, EventOf

(* What Through makes of an agent's record is one.                         *)
LEMMA ThroughTyped ==
    ASSUME TypeOK, NEW a \in Agents
    PROVE  /\ Through(a) \in AgentRecord
           /\ Through(a).pc \notin {"scoring", "enforcing"}
           /\ IsSweep(a) => Through(a) = [Idle EXCEPT !.todo = agent[a].todo]
           /\ ~IsSweep(a) => Through(a) = [agent[a] EXCEPT !.pc = "done"]
<1>1. agent[a] \in AgentRecord
  BY DEF TypeOK
<1>2. [agent[a] EXCEPT !.pc = "done"] \in AgentRecord
  BY <1>1 DEF AgentRecord
<1>3. [Idle EXCEPT !.todo = agent[a].todo] \in AgentRecord
  BY <1>1 DEF AgentRecord, Idle, Levels
<1>4. [agent[a] EXCEPT !.pc = "done"].pc = "done"
  BY <1>1 DEF AgentRecord
<1>5. [Idle EXCEPT !.todo = agent[a].todo].pc = "idle"
  BY DEF Idle
<1> QED  BY <1>2, <1>3, <1>4, <1>5 DEF Through

(* An agent that goes on to the next of its program points remains one.    *)
LEMMA AgentMoves ==
    ASSUME TypeOK, NEW a \in Agents,
           NEW pc \in {"received", "looked", "scoring", "done", "dead"}, Goes(a, pc)
    PROVE  agent' \in [Agents -> AgentRecord]
<1>1. agent[a] \in AgentRecord
  BY DEF TypeOK
<1>2. [agent[a] EXCEPT !.pc = pc] \in AgentRecord
  BY <1>1 DEF AgentRecord
<1> QED  BY <1>2 DEF TypeOK, Goes

(* The steps of the system, by the agent that takes them.                  *)
LEMMA StepKinds ==
    ASSUME [Next]_vars
    PROVE  \/ \E e \in Events :
                 \/ LoginCommits(e) \/ Accepted(e)
                 \/ \E yes \in BOOLEAN : Send(e, yes) \/ GiveUp(e, yes)
           \/ \E a \in Handlers :
                 \/ LookUp(a) \/ ReceiveFails(a)
                 \/ \E known \in BOOLEAN : Insert(a, known)
           \/ \E a \in Agents :
                 \/ \E level \in Levels : Score(a, level)
                 \/ \E marked \in BOOLEAN : ScoreFails(a, marked)
                 \/ \E late, recorded \in BOOLEAN :
                       CallReturns(a, recorded) \/ CallFails(a, late, recorded)
                 \/ CoreApplies(a)
           \/ \E k \in Sweeps :
                 \E e \in Events : SweepLists(k) \/ SweepTakes(k, e)
           \/ \E k \in Keys : CoreAppliesLate(k)
           \/ CoreCrash \/ DetectionCrash \/ UNCHANGED vars
<1>1. CASE \E e \in Events : LoginCommits(e) \/ SenderStep(e)
  BY <1>1 DEF SenderStep
<1>2. CASE \E a \in Handlers : HandlerStep(a)
  BY <1>2, AgentFacts DEF HandlerStep, Receiving, Scoring, Enforcing
<1>3. CASE \E k \in Sweeps : SweepStep(k)
  <2>1. PICK k \in Sweeps : SweepStep(k)
    BY <1>3
  <2>2. ASSUME SweepLists(k) PROVE \E e \in Events : SweepLists(k)
    BY <2>2 DEF SweepLists
  <2> QED  BY <2>1, <2>2, AgentFacts DEF SweepStep, Sweeping, Scoring, Enforcing
<1> QED  BY <1>1, <1>2, <1>3 DEF Next

-----------------------------------------------------------------------------
(* Type correctness *)

(* No step leaves a row, an agent or a count outside its range.            *)
LEMMA TypeStep ==
    IndInv /\ [Next]_vars => TypeOK'
<1> SUFFICES ASSUME IndInv, [Next]_vars PROVE TypeOK'
  OBVIOUS
<1> USE DEF IndInv
<1>1. ASSUME NEW e \in Events, LoginCommits(e) \/ Accepted(e)
      PROVE  TypeOK'
  <2>1. sender' \in [Events -> SenderRecord]
    BY <1>1 DEF TypeOK, LoginCommits, Accepted, SenderRecord
  <2> QED  BY <1>1, <2>1 DEF TypeOK, LoginCommits, Accepted
<1>2. ASSUME NEW e \in Events, NEW yes \in BOOLEAN, Send(e, yes)
      PROVE  TypeOK'
  <2>1. sender[e].try + 1 \in 1..Tries
    BY <1>2 DEF TypeOK, SenderTries, Send, Tries, SenderRecord
  <2>2. sender' \in [Events -> SenderRecord]
    BY <1>2, <2>1 DEF TypeOK, Send, SenderRecord
  <2>3. <<e, sender[e].try + 1>> \in Agents
    BY <2>1, AgentFacts
  <2>4. agent' \in [Agents -> AgentRecord]
    BY <1>2, <2>3, AgentMoves DEF TypeOK, Send, Goes
  <2> QED  BY <1>2, <2>2, <2>4 DEF TypeOK, Send
<1>3. ASSUME NEW e \in Events, NEW yes \in BOOLEAN, GiveUp(e, yes)
      PROVE  TypeOK'
  <2>1. sender' \in [Events -> SenderRecord]
    BY <1>3 DEF TypeOK, GiveUp, SenderRecord
  <2> QED  BY <1>3, <2>1 DEF TypeOK, GiveUp
<1>4. ASSUME NEW a \in Handlers, LookUp(a) \/ ReceiveFails(a)
      PROVE  TypeOK'
  <2>1. agent' \in [Agents -> AgentRecord]
    BY <1>4, AgentFacts, AgentMoves DEF LookUp, ReceiveFails
  <2> QED  BY <1>4, <2>1 DEF TypeOK, LookUp, ReceiveFails
<1>5. ASSUME NEW a \in Handlers, NEW known \in BOOLEAN, Insert(a, known)
      PROVE  TypeOK'
  <2>1. agent' \in [Agents -> AgentRecord]
    BY <1>5, AgentFacts, AgentMoves DEF Insert
  <2>2. attempt' \in [Events -> AttemptRecord]
    BY <1>5 DEF TypeOK, Insert, AttemptRecord
  <2> QED  BY <1>5, <2>1, <2>2 DEF TypeOK, Insert
<1>6. ASSUME NEW a \in Agents, NEW level \in Levels, Score(a, level)
      PROVE  TypeOK'
  <2>1. agent' \in [Agents -> AgentRecord]
    <3>1. [agent[a] EXCEPT !.pc = "enforcing", !.level = level, !.applied = FALSE]
            \in AgentRecord
      <4>1. agent[a] \in AgentRecord
        BY DEF TypeOK
      <4> QED  BY <4>1 DEF AgentRecord
    <3> QED  BY <1>6, <3>1, ThroughTyped DEF TypeOK, Score, Verdict
  <2>2. EventOf(a) \in Events
    BY <1>6 DEF Score, AgentsKnow
  <2>3. attempt' \in [Events -> AttemptRecord]
    BY <1>6 DEF TypeOK, Score, Verdict, AttemptRecord
  <2>4. verdicts' \in [Events -> SUBSET Levels] /\ alerts' \in [Events -> Nat]
    BY <1>6, <2>2 DEF TypeOK, Score, Verdict
  <2> QED  BY <1>6, <2>1, <2>3, <2>4 DEF TypeOK, Score, Verdict
<1>7. ASSUME NEW a \in Agents, NEW marked \in BOOLEAN, ScoreFails(a, marked)
      PROVE  TypeOK'
  <2>1. agent' \in [Agents -> AgentRecord]
    BY <1>7, ThroughTyped, AgentMoves DEF TypeOK, ScoreFails
  <2>2. EventOf(a) \in Events
    BY <1>7 DEF ScoreFails, AgentsKnow
  <2>3. attempt' \in [Events -> AttemptRecord]
    BY <1>7 DEF TypeOK, ScoreFails, AttemptRecord
  <2> QED  BY <1>7, <2>1, <2>2, <2>3 DEF TypeOK, ScoreFails
<1>8. ASSUME NEW a \in Agents, NEW late \in BOOLEAN, NEW recorded \in BOOLEAN,
             CallReturns(a, recorded) \/ CallFails(a, late, recorded)
      PROVE  TypeOK'
  <2>1. agent' \in [Agents -> AgentRecord]
    BY <1>8, ThroughTyped DEF TypeOK, CallReturns, CallFails
  <2>2. KeyOf(a) \in Keys
    BY <1>8 DEF CallReturns, CallFails, AgentsKnow
  <2> QED  BY <1>8, <2>1, <2>2 DEF TypeOK, CallReturns, CallFails
<1>9. ASSUME NEW a \in Agents, CoreApplies(a)
      PROVE  TypeOK'
  <2>1. agent' \in [Agents -> AgentRecord]
    <3>1. agent[a] \in AgentRecord
      BY DEF TypeOK
    <3>2. [agent[a] EXCEPT !.applied = TRUE] \in AgentRecord
      BY <3>1 DEF AgentRecord
    <3> QED  BY <1>9, <3>2 DEF TypeOK, CoreApplies
  <2>2. KeyOf(a) \in Keys
    BY <1>9 DEF CoreApplies, AgentsKnow
  <2> QED  BY <1>9, <2>1, <2>2 DEF TypeOK, CoreApplies, Apply
<1>10. ASSUME NEW k \in Keys, CoreAppliesLate(k)
       PROVE  TypeOK'
  BY <1>10 DEF TypeOK, CoreAppliesLate, Apply
<1>11. ASSUME NEW k \in Sweeps, NEW e \in Events, SweepLists(k) \/ SweepTakes(k, e)
       PROVE  TypeOK'
  <2>1. k \in Agents
    BY AgentFacts
  <2>2. agent' \in [Agents -> AgentRecord]
    <3>1. agent[k] \in AgentRecord
      BY <2>1 DEF TypeOK
    <3>2. [agent[k] EXCEPT !.todo = {f \in Events : attempt[f].status = "failed"}]
            \in AgentRecord
      BY <3>1 DEF AgentRecord
    <3>3. [agent[k] EXCEPT !.pc = "scoring", !.event = e, !.todo = @ \ {e}]
            \in AgentRecord
      BY <3>1 DEF AgentRecord
    <3> QED  BY <1>11, <2>1, <3>2, <3>3 DEF TypeOK, SweepLists, SweepTakes
  <2> QED  BY <1>11, <2>2 DEF TypeOK, SweepLists, SweepTakes
<1>12. CASE CoreCrash
  <2>1. \A e \in Events : [sender[e] EXCEPT !.pc = "lost"] \in SenderRecord
    BY DEF TypeOK, SenderRecord
  <2>2. sender' \in [Events -> SenderRecord]
    BY <1>12, <2>1 DEF TypeOK, CoreCrash
  <2> QED  BY <1>12, <2>2 DEF TypeOK, CoreCrash
<1>13. CASE DetectionCrash
  <2>1. Idle \in AgentRecord
    BY DEF Idle, AgentRecord, Levels
  <2>2. \A a \in Agents : [agent[a] EXCEPT !.pc = "dead"] \in AgentRecord
    BY DEF TypeOK, AgentRecord
  <2>3. agent' \in [Agents -> AgentRecord]
    BY <1>13, <2>1, <2>2 DEF TypeOK, DetectionCrash
  <2>4. orphans' \subseteq Events
    BY <1>13, AgentFacts DEF TypeOK, DetectionCrash
  <2>5. stray' \subseteq Keys
    BY <1>13 DEF TypeOK, DetectionCrash, AgentsKnow
  <2> QED  BY <1>13, <2>3, <2>4, <2>5 DEF TypeOK, DetectionCrash
<1>14. CASE UNCHANGED vars
  BY <1>14 DEF TypeOK, vars
<1> QED
  BY StepKinds, <1>1, <1>2, <1>3, <1>4, <1>5, <1>6, <1>7, <1>8, <1>9, <1>10,
     <1>11, <1>12, <1>13, <1>14

-----------------------------------------------------------------------------
(* Verdicts, alerts and calls to Core *)

(* What a step may do to an attempt: store it, mark it failed, judge it.   *)
Stores(e, known) ==
    /\ attempt[e].status = "none"
    /\ attempt' = [attempt EXCEPT ![e].status = "pending", ![e].known = known]
    /\ UNCHANGED <<alerts, verdicts, executed, log>>
Fails(e) ==
    /\ attempt[e].status = "pending"
    /\ attempt' = [attempt EXCEPT ![e].status = "failed"]
    /\ UNCHANGED <<alerts, verdicts, executed, log>>
Judges(e, level) ==
    /\ attempt[e].status # "none"
    /\ attempt' = [attempt EXCEPT ![e].status = "processed", ![e].level = level]
    /\ verdicts' = [verdicts EXCEPT ![e] = @ \cup {level}]
    /\ alerts' = [alerts EXCEPT ![e] = IF level \in Alerting THEN 1 ELSE alerts[e]]
    /\ UNCHANGED <<executed, log>>

(* Only the insert of receive_login_event, the handler's mark and a verdict*)
(* change an attempt, and only a verdict the alerts.                       *)
LEMMA AttemptMoves ==
    ASSUME IndInv, [Next]_vars
    PROVE  \/ UNCHANGED <<attempt, alerts, verdicts>>
           \/ \E e \in Events : \/ Fails(e)
                               \/ \E known \in BOOLEAN : Stores(e, known)
                               \/ \E level \in Levels : Judges(e, level)
<1>1. ASSUME NEW a \in Agents, NEW level \in Levels, Score(a, level)
      PROVE  EventOf(a) \in Events /\ Judges(EventOf(a), level)
  <2>1. EventOf(a) \in Events
    BY <1>1 DEF IndInv, AgentsKnow, Score
  <2>2. attempt[EventOf(a)].status # "none"
    <3>1. CASE a \in Handlers
      BY <1>1, <3>1 DEF IndInv, OneScorer, Score
    <3>2. CASE a \in Sweeps
      <4>1. attempt[EventOf(a)].status \in {"failed", "processed"}
        BY <2>1, <3>2, AgentFacts DEF IndInv, OneScorer
      <4> QED  BY <4>1
    <3> QED  BY <3>1, <3>2, AgentFacts
  <2> QED  BY <1>1, <2>1, <2>2 DEF Score, Verdict, Judges
<1>2. ASSUME NEW a \in Handlers, NEW known \in BOOLEAN, Insert(a, known)
      PROVE  \/ UNCHANGED <<attempt, alerts, verdicts>>
             \/ EventOf(a) \in Events /\ Stores(EventOf(a), known)
  BY <1>2, AgentFacts DEF Insert, Stored, Stores
<1>3. ASSUME NEW a \in Agents, NEW marked \in BOOLEAN, ScoreFails(a, marked)
      PROVE  \/ UNCHANGED <<attempt, alerts, verdicts>>
             \/ EventOf(a) \in Events /\ Fails(EventOf(a))
  <2>1. CASE UNCHANGED attempt
    BY <1>3, <2>1 DEF ScoreFails
  <2>2. CASE ~UNCHANGED attempt
    <3>1. ~IsSweep(a) /\ attempt' = [attempt EXCEPT ![EventOf(a)].status = "failed"]
      BY <1>3, <2>2 DEF ScoreFails
    <3>2. a \in Handlers /\ EventOf(a) \in Events
      BY <3>1, AgentFacts
    <3>3. attempt[EventOf(a)].status = "pending"
      BY <1>3, <3>2 DEF IndInv, OneScorer, ScoreFails
    <3> QED  BY <1>3, <3>1, <3>2, <3>3 DEF ScoreFails, Fails
  <2> QED  BY <2>1, <2>2
<1>4. ASSUME \/ \E e \in Events :
                  \/ LoginCommits(e) \/ Accepted(e)
                  \/ \E yes \in BOOLEAN : Send(e, yes) \/ GiveUp(e, yes)
             \/ \E a \in Handlers : LookUp(a) \/ ReceiveFails(a)
             \/ \E a \in Agents :
                  \/ \E late, recorded \in BOOLEAN :
                        CallReturns(a, recorded) \/ CallFails(a, late, recorded)
                  \/ CoreApplies(a)
             \/ \E k \in Sweeps :
                  \E e \in Events : SweepLists(k) \/ SweepTakes(k, e)
             \/ \E k \in Keys : CoreAppliesLate(k)
             \/ CoreCrash \/ DetectionCrash \/ UNCHANGED vars
      PROVE  UNCHANGED <<attempt, alerts, verdicts>>
  BY <1>4
     DEF LoginCommits, Accepted, Send, GiveUp, LookUp, ReceiveFails, CallReturns,
         CallFails, CoreApplies, SweepLists, SweepTakes, CoreAppliesLate,
         CoreCrash, DetectionCrash, vars
<1> QED  BY StepKinds, <1>1, <1>2, <1>3, <1>4

(* A verdict keeps its alert.                                              *)
LEMMA AlertStep ==
    IndInv /\ [Next]_vars => OneAlertPerRiskyAttempt'
<1> SUFFICES ASSUME IndInv, [Next]_vars PROVE OneAlertPerRiskyAttempt'
  OBVIOUS
<1>1. CASE UNCHANGED <<alerts, verdicts>>
  BY <1>1 DEF IndInv, OneAlertPerRiskyAttempt
<1>2. ASSUME NEW e \in Events, NEW level \in Levels, Judges(e, level)
      PROVE  OneAlertPerRiskyAttempt'
  BY <1>2 DEF Judges, IndInv, TypeOK, OneAlertPerRiskyAttempt
<1> QED  BY <1>1, <1>2, AttemptMoves DEF Stores, Fails

(* The status says whether there is a verdict.                             *)
LEMMA VerdictStep ==
    IndInv /\ [Next]_vars => VerdictsAreProcessed'
<1> SUFFICES ASSUME IndInv, [Next]_vars PROVE VerdictsAreProcessed'
  OBVIOUS
<1> USE DEF IndInv, TypeOK, AttemptRecord
<1>1. CASE UNCHANGED <<attempt, alerts, verdicts>>
  BY <1>1 DEF VerdictsAreProcessed
<1>2. ASSUME NEW e \in Events, \/ Fails(e)
                              \/ \E known \in BOOLEAN : Stores(e, known)
      PROVE  VerdictsAreProcessed'
  <2>1. /\ attempt[e].status # "processed" /\ attempt'[e].status # "processed"
        /\ \A d \in Events \ {e} : attempt'[d] = attempt[d]
        /\ UNCHANGED verdicts
    BY <1>2 DEF Fails, Stores
  <2> QED  BY <2>1 DEF VerdictsAreProcessed
<1>3. ASSUME NEW e \in Events, NEW level \in Levels, Judges(e, level)
      PROVE  VerdictsAreProcessed'
  BY <1>3 DEF VerdictsAreProcessed, Judges
<1> HIDE DEF IndInv, TypeOK
<1> QED  BY <1>1, <1>2, <1>3, AttemptMoves

(* The account of an attempt is settled before its first verdict.          *)
LEMMA WarrantsStay ==
    ASSUME IndInv, [Next]_vars, NEW k \in Keys, Warranted(k)
    PROVE  Warranted(k)'
<1> DEFINE e == k[1]
<1>1. e \in Events /\ k[2] \in verdicts[e] /\ attempt[e].known
  BY DEF Keys, Warranted
<1>2. attempt[e].status = "processed"
  BY <1>1 DEF IndInv, VerdictsAreProcessed
<1>3. ASSUME NEW d \in Events, \/ Fails(d)
                              \/ \E known \in BOOLEAN : Stores(d, known)
                              \/ \E level \in Levels : Judges(d, level)
      PROVE  attempt'[e].known /\ k[2] \in verdicts'[e]
  <2> USE DEF IndInv, TypeOK, AttemptRecord
  <2>1. CASE d # e
    BY <1>1, <1>3, <2>1 DEF Fails, Stores, Judges
  <2>2. CASE d = e
    <3>1. PICK level \in Levels : Judges(e, level)
      BY <1>2, <1>3, <2>2 DEF Fails, Stores
    <3> QED  BY <1>1, <3>1 DEF Judges
  <2> QED  BY <2>1, <2>2
<1> QED  BY <1>1, <1>3, AttemptMoves DEF Warranted

(* A verdict stays committed, and a key stays in the audit log.            *)
LEMMA NothingIsTakenBack ==
    ASSUME IndInv, [Next]_vars
    PROVE  /\ \A k \in Keys : Warranted(k) => Warranted(k)'
           /\ audit \subseteq audit'
           /\ orphans \subseteq orphans'
<1>1. \A k \in Keys : Warranted(k) => Warranted(k)'
  BY WarrantsStay
<1>2. audit \subseteq audit'
  BY StepKinds
     DEF LoginCommits, Accepted, Send, GiveUp, LookUp, ReceiveFails, Insert,
         Score, Verdict, ScoreFails, CallReturns, CallFails, CoreApplies, Apply,
         SweepLists, SweepTakes, CoreAppliesLate, CoreCrash, DetectionCrash, vars
<1>3. orphans \subseteq orphans'
  BY StepKinds
     DEF LoginCommits, Accepted, Send, GiveUp, LookUp, ReceiveFails, Insert,
         Score, Verdict, ScoreFails, CallReturns, CallFails, CoreApplies,
         SweepLists, SweepTakes, CoreAppliesLate, CoreCrash, DetectionCrash, vars
<1> QED  BY <1>1, <1>2, <1>3

(* apply_action acts once for the key of a committed verdict.              *)
LEMMA ApplyCounts ==
    ASSUME IndInv, NEW k \in Keys, Apply(k)
    PROVE  \A j \in Keys : executed'[j] = IF j \in audit' THEN 1 ELSE 0
BY DEF IndInv, TypeOK, AuditCounts, Apply

(* Each key in the audit log, or on its way, is of a committed verdict.    *)
LEMMA AuditStep ==
    IndInv /\ [Next]_vars => AuditCounts'
<1> SUFFICES ASSUME IndInv, [Next]_vars PROVE AuditCounts'
  OBVIOUS
<1> USE NothingIsTakenBack DEF IndInv
<1>1. \A k \in audit \cup stray : k \in Keys /\ Warranted(k)'
  BY DEF TypeOK, AuditCounts
<1>2. CASE UNCHANGED <<stray, audit, executed, log>>
  BY <1>1, <1>2 DEF AuditCounts
<1>3. ASSUME NEW a \in Agents, NEW late \in BOOLEAN, NEW recorded \in BOOLEAN,
             CallReturns(a, recorded) \/ CallFails(a, late, recorded)
      PROVE  AuditCounts'
  <2>1. PICK key \in Keys : key = KeyOf(a) /\ Warranted(key)'
    BY <1>3 DEF CallReturns, CallFails, AgentsKnow
  <2>2. \A k \in Keys : "enforced" \in log'[k] => k \in audit'
    BY <1>3, <2>1 DEF TypeOK, AuditCounts, AgentsKnow, CallReturns, CallFails
  <2>3. \A k \in audit' \cup stray' : Warranted(k)'
    BY <1>1, <1>3, <2>1 DEF CallReturns, CallFails
  <2>4. UNCHANGED <<audit, executed>>
    BY <1>3 DEF CallReturns, CallFails
  <2> QED  BY <2>2, <2>3, <2>4 DEF AuditCounts
<1>4. ASSUME NEW k \in Keys, Warranted(k)', Apply(k), stray' \subseteq stray,
             UNCHANGED log
      PROVE  AuditCounts'
  <2>1. \A j \in audit' \cup stray' : Warranted(j)'
    BY <1>1, <1>4 DEF Apply
  <2> QED  BY <1>4, <2>1, ApplyCounts DEF AuditCounts
<1>5. ASSUME NEW a \in Agents, CoreApplies(a)
      PROVE  AuditCounts'
  <2>1. PICK k \in Keys : k = KeyOf(a) /\ Warranted(k)'
    BY <1>5 DEF CoreApplies, AgentsKnow
  <2> QED  BY <1>4, <1>5, <2>1 DEF CoreApplies
<1>6. ASSUME NEW k \in Keys, CoreAppliesLate(k)
      PROVE  AuditCounts'
  BY <1>1, <1>4, <1>6 DEF CoreAppliesLate
<1>7. CASE DetectionCrash
  <2>1. \A k \in stray' : Warranted(k)'
    BY <1>1, <1>7 DEF DetectionCrash, AgentsKnow
  <2> QED  BY <1>1, <1>7, <2>1 DEF DetectionCrash, AuditCounts
<1> QED
  BY StepKinds, <1>2, <1>3, <1>5, <1>6, <1>7
     DEF LoginCommits, Accepted, Send, GiveUp, LookUp, ReceiveFails, Insert,
         Score, Verdict, ScoreFails, SweepLists, SweepTakes, CoreCrash, vars

-----------------------------------------------------------------------------
(* What the agents do *)

(* How an agent comes to score, to wait for Core, or to its answer.        *)
LEMMA AgentKinds ==
    ASSUME IndInv, [Next]_vars, NEW b \in Agents
    PROVE  \/ agent'[b] = agent[b]
           \/ agent'[b].pc \notin {"scoring", "enforcing"}
           \/ b \in Handlers /\ \E known \in BOOLEAN :
                 Insert(b, known) /\ ~Stored(EventOf(b))
           \/ \E level \in Levels : Score(b, level)
           \/ CoreApplies(b)
           \/ b \in Sweeps /\ \E e \in Events : SweepTakes(b, e)
<1> USE DEF IndInv, TypeOK
<1>1. ASSUME NEW a \in Handlers, LookUp(a) \/ ReceiveFails(a)
      PROVE  agent'[b] = agent[b] \/ agent'[b].pc \notin {"scoring", "enforcing"}
  BY <1>1 DEF LookUp, ReceiveFails, Goes, AgentRecord
<1>2. ASSUME NEW a \in Handlers, NEW known \in BOOLEAN, Insert(a, known)
      PROVE  \/ agent'[b] = agent[b]
             \/ agent'[b].pc \notin {"scoring", "enforcing"}
             \/ a = b /\ ~Stored(EventOf(b))
  BY <1>2 DEF Insert, Goes, AgentRecord
<1>3. ASSUME NEW a \in Agents, NEW marked \in BOOLEAN, ScoreFails(a, marked)
      PROVE  agent'[b] = agent[b] \/ agent'[b].pc \notin {"scoring", "enforcing"}
  BY <1>3, ThroughTyped DEF ScoreFails, Goes, AgentRecord
<1>4. ASSUME NEW a \in Agents, NEW late \in BOOLEAN, NEW recorded \in BOOLEAN,
             CallReturns(a, recorded) \/ CallFails(a, late, recorded)
      PROVE  agent'[b] = agent[b] \/ agent'[b].pc \notin {"scoring", "enforcing"}
  BY <1>4, ThroughTyped DEF CallReturns, CallFails
<1>5. ASSUME NEW e \in Events, NEW yes \in BOOLEAN, Send(e, yes)
      PROVE  agent'[b] = agent[b] \/ agent'[b].pc \notin {"scoring", "enforcing"}
  <2> DEFINE a == <<e, sender[e].try + 1>>
  <2>1. CASE Goes(a, "received")
    <3> HIDE DEF a
    <3> QED  BY <2>1 DEF Goes, AgentRecord
  <2>2. CASE UNCHANGED agent
    BY <2>2
  <2> QED  BY <1>5, <2>1, <2>2 DEF Send
<1>6. ASSUME NEW k \in Sweeps, SweepLists(k)
      PROVE  agent'[b] = agent[b] \/ agent'[b].pc \notin {"scoring", "enforcing"}
  BY <1>6 DEF SweepLists, AgentRecord
<1>7. CASE DetectionCrash
  BY <1>7 DEF DetectionCrash, Idle, AgentRecord
<1>8. ASSUME NEW a \in Agents, a # b,
             \/ CoreApplies(a)
             \/ \E level \in Levels : Score(a, level)
             \/ \E e \in Events : SweepTakes(a, e)
      PROVE  agent'[b] = agent[b]
  BY <1>8 DEF CoreApplies, Score, Verdict, SweepTakes
<1>9. ASSUME \/ \E e \in Events : \/ LoginCommits(e) \/ Accepted(e)
                                 \/ \E yes \in BOOLEAN : GiveUp(e, yes)
             \/ \E k \in Keys : CoreAppliesLate(k)
             \/ CoreCrash \/ UNCHANGED vars
      PROVE  agent'[b] = agent[b]
  BY <1>9 DEF LoginCommits, Accepted, GiveUp, CoreAppliesLate, CoreCrash, vars
<1> HIDE DEF IndInv, TypeOK
<1> QED
  BY StepKinds, <1>1, <1>2, <1>3, <1>4, <1>5, <1>6, <1>7, <1>8, <1>9, TheAgents

(* An agent knows its event and its key as long as it needs them.          *)
LEMMA AgentsStep ==
    IndInv /\ [Next]_vars => AgentsKnow'
<1> SUFFICES ASSUME IndInv, [Next]_vars, NEW b \in Agents
             PROVE  (/\ agent[b].pc \in {"scoring", "enforcing"} => EventOf(b) \in Events
                     /\ agent[b].pc = "enforcing" =>
                           /\ KeyOf(b) \in Keys /\ Warranted(KeyOf(b))
                           /\ agent[b].applied => KeyOf(b) \in audit)'
  BY DEF AgentsKnow
<1> USE NothingIsTakenBack DEF IndInv
<1>1. CASE agent'[b] = agent[b]
  <2>1. EventOf(b)' = EventOf(b) /\ KeyOf(b)' = KeyOf(b)
    BY <1>1 DEF EventOf, KeyOf, IsSweep
  <2>2. ASSUME agent[b].pc = "enforcing"
        PROVE  Warranted(KeyOf(b))'
    <3>1. PICK k \in Keys : k = KeyOf(b) /\ Warranted(k)'
      BY <2>2 DEF AgentsKnow
    <3> QED  BY <2>1, <3>1 DEF Warranted
  <2> QED  BY <1>1, <2>1, <2>2 DEF AgentsKnow
<1>2. CASE agent'[b].pc \notin {"scoring", "enforcing"}
  BY <1>2
<1>3. ASSUME b \in Handlers, NEW known \in BOOLEAN, Insert(b, known), ~Stored(EventOf(b))
      PROVE  agent'[b].pc = "scoring" /\ EventOf(b)' \in Events
  BY <1>3, TheAgents DEF TypeOK, Insert, Goes, AgentRecord, EventOf, IsSweep
<1>4. ASSUME NEW level \in Levels, Score(b, level)
      PROVE  (/\ agent[b].pc \in {"scoring", "enforcing"} => EventOf(b) \in Events
              /\ agent[b].pc = "enforcing" =>
                    /\ KeyOf(b) \in Keys /\ Warranted(KeyOf(b))
                    /\ agent[b].applied => KeyOf(b) \in audit)'
  <2>1. EventOf(b) \in Events /\ level \in verdicts'[EventOf(b)]
    BY <1>4 DEF TypeOK, AgentsKnow, Score, Verdict
  <2>2. CASE agent'[b].pc = "enforcing"
    <3>1. /\ level \in Alerting /\ agent'[b].level = level /\ ~agent'[b].applied
          /\ agent'[b].event = agent[b].event
      BY <1>4, <2>2, ThroughTyped DEF TypeOK, AgentRecord, Score, Verdict
    <3>2. EventOf(b)' = EventOf(b) /\ KeyOf(b)' = <<EventOf(b), level>>
      BY <3>1 DEF EventOf, KeyOf, IsSweep
    <3>3. attempt'[EventOf(b)].known
      <4>1. attempt[EventOf(b)].known
        BY <1>4, <2>2, ThroughTyped DEF Score, Verdict
      <4>2. attempt' = [attempt EXCEPT ![EventOf(b)].status = "processed",
                                       ![EventOf(b)].level = level]
        BY <1>4 DEF Score, Verdict
      <4> QED  BY <2>1, <4>1, <4>2 DEF TypeOK, AttemptRecord
    <3> QED  BY <2>1, <2>2, <3>1, <3>2, <3>3 DEF Keys, Warranted
  <2>3. CASE agent'[b].pc # "enforcing"
    <3>1. agent'[b].pc # "scoring"
      BY <1>4, <2>3, ThroughTyped DEF TypeOK, AgentRecord, Score, Verdict
    <3> QED  BY <2>3, <3>1
  <2> QED  BY <2>2, <2>3
<1>5. ASSUME CoreApplies(b)
      PROVE  (/\ EventOf(b) \in Events
              /\ KeyOf(b) \in Keys /\ Warranted(KeyOf(b)) /\ KeyOf(b) \in audit)'
  <2>1. EventOf(b)' = EventOf(b) /\ KeyOf(b)' = KeyOf(b)
    BY <1>5 DEF TypeOK, AgentRecord, CoreApplies, EventOf, KeyOf, IsSweep
  <2>2. PICK k \in Keys : k = KeyOf(b) /\ Warranted(k)' /\ k \in audit'
    BY <1>5 DEF AgentsKnow, CoreApplies, Apply
  <2>3. EventOf(b) \in Events
    BY <1>5 DEF AgentsKnow, CoreApplies
  <2> QED  BY <2>1, <2>2, <2>3 DEF Warranted
<1>6. ASSUME b \in Sweeps, NEW e \in Events, SweepTakes(b, e)
      PROVE  agent'[b].pc = "scoring" /\ EventOf(b)' \in Events
  BY <1>6 DEF TypeOK, SweepTakes, AgentRecord, EventOf, IsSweep
<1> QED  BY AgentKinds, <1>1, <1>2, <1>3, <1>4, <1>5, <1>6

-----------------------------------------------------------------------------
(* Deliveries *)

(* A handler that no delivery has reached waits for its own.               *)
LEMMA IdleHandlers ==
    ASSUME IndInv, [Next]_vars, NEW a \in Handlers, agent[a].pc = "idle"
    PROVE  \/ agent'[a] = agent[a]
           \/ Send(a[1], TRUE) /\ a[2] = sender[a[1]].try + 1
<1> USE TheAgents DEF IndInv, TypeOK
<1>1. ASSUME NEW e \in Events, NEW yes \in BOOLEAN, Send(e, yes), agent'[a] # agent[a]
      PROVE  a = <<e, sender[e].try + 1>> /\ yes
  <2> DEFINE b == <<e, sender[e].try + 1>>
  <2>1. ASSUME a # b \/ ~yes PROVE agent'[a] = agent[a]
    <3> HIDE DEF b
    <3>1. Goes(b, "received") \/ UNCHANGED agent
      BY <1>1 DEF Send, b
    <3>2. ~yes => UNCHANGED agent
      BY <1>1 DEF Send
    <3> QED  BY <2>1, <3>1, <3>2 DEF Goes
  <2> QED  BY <1>1, <2>1
<1>2. ASSUME NEW b \in Agents,
             \/ LookUp(b) \/ ReceiveFails(b) \/ CoreApplies(b)
             \/ \E known \in BOOLEAN : Insert(b, known)
             \/ \E level \in Levels : Score(b, level)
             \/ \E marked \in BOOLEAN : ScoreFails(b, marked)
             \/ \E late, recorded \in BOOLEAN :
                   CallReturns(b, recorded) \/ CallFails(b, late, recorded)
      PROVE  agent'[a] = agent[a]
  <2>1. agent[b].pc # "idle"
    BY <1>2 DEF LookUp, ReceiveFails, CoreApplies, Insert, Score, ScoreFails,
                CallReturns, CallFails
  <2>2. a # b
    BY <2>1
  <2> QED
    BY <1>2, <2>2 DEF LookUp, ReceiveFails, CoreApplies, Insert, Score, Verdict,
                      ScoreFails, CallReturns, CallFails, Goes
<1>3. ASSUME NEW k \in Sweeps, NEW e \in Events, SweepLists(k) \/ SweepTakes(k, e)
      PROVE  agent'[a] = agent[a]
  BY <1>3 DEF SweepLists, SweepTakes
<1>4. CASE DetectionCrash
  BY <1>4 DEF DetectionCrash, IsSweep
<1>5. ASSUME \/ \E e \in Events : \/ LoginCommits(e) \/ Accepted(e)
                                 \/ \E yes \in BOOLEAN : GiveUp(e, yes)
             \/ \E k \in Keys : CoreAppliesLate(k)
             \/ CoreCrash \/ UNCHANGED vars
      PROVE  agent'[a] = agent[a]
  BY <1>5 DEF LoginCommits, Accepted, GiveUp, CoreAppliesLate, CoreCrash, vars
<1> HIDE DEF IndInv, TypeOK
<1> QED
  <2>1. ASSUME NEW e \in Events, NEW yes \in BOOLEAN, Send(e, yes),
               agent'[a] # agent[a]
        PROVE  Send(a[1], TRUE) /\ a[2] = sender[a[1]].try + 1
    BY <1>1, <2>1
  <2> QED  BY StepKinds, <2>1, <1>2, <1>3, <1>4, <1>5

(* What Core's coroutine does with the delivery that it counts.            *)
LEMMA SenderKinds ==
    ASSUME IndInv, [Next]_vars, NEW e \in Events
    PROVE  \/ sender'[e] = sender[e]
           \/ /\ sender[e].pc = "sending"
              /\ sender'[e] = [pc |-> "waiting", try |-> sender[e].try + 1]
           \/ /\ sender'[e].try = sender[e].try
              /\ \/ sender'[e].pc = "lost"
                 \/ sender'[e].pc = "sending" /\ sender[e].try < Tries
                 \/ sender'[e].pc = "delivered" /\ Accepted(e)
<1> USE DEF IndInv, TypeOK, SenderRecord
<1>1. ASSUME NEW d \in Events, NEW yes \in BOOLEAN, Send(d, yes)
      PROVE  \/ sender'[e] = sender[e]
             \/ /\ sender[e].pc = "sending"
                /\ sender'[e] = [pc |-> "waiting", try |-> sender[e].try + 1]
  BY <1>1 DEF Send
<1>2. ASSUME NEW d \in Events, Accepted(d)
      PROVE  \/ sender'[e] = sender[e]
             \/ /\ sender'[e].try = sender[e].try
                /\ sender'[e].pc = "delivered" /\ Accepted(e)
  <2>1. CASE d = e
    <3>1. sender'[e].try = sender[e].try /\ sender'[e].pc = "delivered"
      BY <1>2, <2>1 DEF Accepted
    <3> QED  BY <1>2, <2>1, <3>1
  <2>2. CASE d # e
    BY <1>2, <2>2 DEF Accepted
  <2> QED  BY <2>1, <2>2
<1>3. ASSUME NEW d \in Events, NEW yes \in BOOLEAN, GiveUp(d, yes) \/ LoginCommits(d)
      PROVE  \/ sender'[e] = sender[e]
             \/ /\ sender'[e].try = sender[e].try
                /\ \/ sender'[e].pc = "lost"
                   \/ sender'[e].pc = "sending" /\ sender[e].try < Tries
  BY <1>3 DEF GiveUp, LoginCommits, SenderTries
<1>4. CASE CoreCrash
  BY <1>4 DEF CoreCrash
<1>5. ASSUME UNCHANGED sender
      PROVE  sender'[e] = sender[e]
  BY <1>5
<1> HIDE DEF IndInv, TypeOK
<1> QED
  BY StepKinds, <1>1, <1>2, <1>3, <1>4, <1>5
     DEF LookUp, ReceiveFails, Insert, Score, Verdict, ScoreFails, CallReturns,
         CallFails, CoreApplies, SweepLists, SweepTakes, CoreAppliesLate,
         DetectionCrash, vars

(* The count of the deliveries stays ahead of the handlers they reach.     *)
LEMMA SenderTriesStep ==
    IndInv /\ [Next]_vars => SenderTries'
<1> SUFFICES ASSUME IndInv, [Next]_vars PROVE SenderTries'
  OBVIOUS
<1>1. ASSUME NEW e \in Events
      PROVE  /\ sender'[e].pc \in {"none", "sending"} => sender'[e].try < Tries
             /\ sender'[e].pc = "waiting" => sender'[e].try >= 1
             /\ sender'[e].try >= sender[e].try
  <2>1. /\ sender[e].try \in 0..Tries
        /\ sender[e].pc \in {"none", "sending"} => sender[e].try < Tries
        /\ sender[e].pc = "waiting" => sender[e].try >= 1
    BY DEF IndInv, TypeOK, SenderRecord, SenderTries
  <2>2. CASE sender'[e] = sender[e]
    BY <2>1, <2>2 DEF Tries
  <2>3. CASE sender'[e] = [pc |-> "waiting", try |-> sender[e].try + 1]
    BY <2>1, <2>3 DEF Tries
  <2>4. CASE /\ sender'[e].try = sender[e].try
             /\ \/ sender'[e].pc = "lost"
                \/ sender'[e].pc = "sending" /\ sender[e].try < Tries
                \/ sender'[e].pc = "delivered" /\ Accepted(e)
    BY <2>1, <2>4 DEF Tries
  <2> QED  BY <2>2, <2>3, <2>4, SenderKinds
<1>2. ASSUME NEW a \in Handlers, a[2] > sender'[a[1]].try
      PROVE  agent'[a].pc = "idle"
  <2>1. /\ a[1] \in Events /\ a[2] \in Nat
        /\ sender[a[1]].try \in Nat /\ sender'[a[1]].try \in Nat
    <3>1. TypeOK /\ TypeOK'
      BY TypeStep DEF IndInv
    <3>2. a[1] \in Events /\ a[2] \in Nat
      BY TheAgents DEF Tries
    <3>3. sender[a[1]] \in SenderRecord /\ sender'[a[1]] \in SenderRecord
      BY <3>1, <3>2 DEF TypeOK
    <3> QED  BY <3>2, <3>3 DEF SenderRecord, Tries
  <2>2. a[2] > sender[a[1]].try
    BY <1>1, <1>2, <2>1
  <2>3. agent[a].pc = "idle"
    BY <2>2 DEF IndInv, SenderTries
  <2>4. ASSUME Send(a[1], TRUE), a[2] = sender[a[1]].try + 1
        PROVE  FALSE
    BY <1>2, <2>1, <2>4 DEF Send, IndInv, TypeOK
  <2> QED  BY <2>3, <2>4, IdleHandlers
<1> QED  BY <1>1, <1>2 DEF SenderTries

-----------------------------------------------------------------------------
(* Attempts *)

(* An attempt changes when a handler stores it, or when an agent has it in *)
(* hand and settles it.                                                    *)
LEMMA AttemptKinds ==
    ASSUME IndInv, [Next]_vars, NEW e \in Events
    PROVE  \/ attempt'[e] = attempt[e]
           \/ \E a \in Handlers :
                 /\ EventOf(a) = e /\ attempt[e].status = "none"
                 /\ attempt'[e].status = "pending" /\ agent'[a].pc = "scoring"
                 /\ \A b \in Agents \ {a} : agent'[b] = agent[b]
           \/ \E a \in Agents :
                 /\ EventOf(a) = e /\ agent[a].pc = "scoring"
                 /\ attempt'[e].status \in {"processed", "failed"}
                 /\ agent'[a].pc # "scoring"
                 /\ \A b \in Agents \ {a} : agent'[b] = agent[b]
<1> USE TheAgents DEF IndInv, TypeOK, AttemptRecord
<1>1. ASSUME NEW a \in Handlers, NEW known \in BOOLEAN, Insert(a, known),
             attempt'[e] # attempt[e]
      PROVE  /\ EventOf(a) = e /\ attempt[e].status = "none"
             /\ attempt'[e].status = "pending" /\ agent'[a].pc = "scoring"
             /\ \A b \in Agents \ {a} : agent'[b] = agent[b]
  <2>1. EventOf(a) = e /\ ~Stored(e) /\ Goes(a, "scoring")
    BY <1>1 DEF Insert
  <2>2. agent'[a].pc = "scoring" /\ \A b \in Agents \ {a} : agent'[b] = agent[b]
    BY <2>1 DEF Goes, AgentRecord
  <2>3. attempt'[e].status = "pending"
    BY <1>1, <2>1 DEF Insert
  <2> QED  BY <2>1, <2>2, <2>3 DEF Stored
<1>2. ASSUME NEW a \in Agents, NEW level \in Levels, Score(a, level),
             attempt'[e] # attempt[e]
      PROVE  /\ EventOf(a) = e /\ agent[a].pc = "scoring"
             /\ attempt'[e].status \in {"processed", "failed"}
             /\ agent'[a].pc # "scoring"
             /\ \A b \in Agents \ {a} : agent'[b] = agent[b]
  <2>1. EventOf(a) = e /\ attempt'[e].status = "processed"
    BY <1>2 DEF Score, Verdict
  <2>2. agent'[a].pc # "scoring"
    BY <1>2, ThroughTyped DEF Score, Verdict, AgentRecord
  <2> QED  BY <1>2, <2>1, <2>2 DEF Score, Verdict
<1>3. ASSUME NEW a \in Agents, NEW marked \in BOOLEAN, ScoreFails(a, marked),
             attempt'[e] # attempt[e]
      PROVE  /\ EventOf(a) = e /\ agent[a].pc = "scoring"
             /\ attempt'[e].status \in {"processed", "failed"}
             /\ agent'[a].pc # "scoring"
             /\ \A b \in Agents \ {a} : agent'[b] = agent[b]
  <2>1. /\ EventOf(a) = e /\ attempt'[e].status = "failed"
        /\ agent' = [agent EXCEPT ![a] = Through(a)]
    BY <1>3 DEF ScoreFails
  <2>2. agent'[a].pc # "scoring"
    BY <2>1, ThroughTyped
  <2> QED  BY <1>3, <2>1, <2>2 DEF ScoreFails
<1> HIDE DEF IndInv, TypeOK
<1> QED
  BY StepKinds, <1>1, <1>2, <1>3
     DEF LoginCommits, Accepted, Send, GiveUp, LookUp, ReceiveFails, CallReturns,
         CallFails, CoreApplies, SweepLists, SweepTakes, CoreAppliesLate,
         CoreCrash, DetectionCrash, vars

(* Whoever answers for an attempt, or calls Core for it, has it stored.    *)
LEMMA AnswerKinds ==
    ASSUME IndInv, [Next]_vars, NEW a \in Handlers,
           agent'[a].pc \in {"enforcing", "done"}
    PROVE  \/ agent'[a] = agent[a]
           \/ Stored(EventOf(a))
<1> USE TheAgents DEF IndInv, TypeOK
<1>1. ASSUME NEW b \in Handlers, \/ LookUp(b)
                                \/ \E known \in BOOLEAN : Insert(b, known)
      PROVE  agent'[a] = agent[a] \/ Stored(EventOf(a))
  BY <1>1 DEF LookUp, Insert, Goes, AgentRecord
<1>2. ASSUME NEW b \in Agents, agent[b].pc \in {"scoring", "enforcing"},
             \A c \in Agents \ {b} : agent'[c] = agent[c]
      PROVE  agent'[a] = agent[a] \/ Stored(EventOf(a))
  BY <1>2 DEF OneScorer, Stored
<1>3. ASSUME NEW b \in Agents,
             \/ CoreApplies(b)
             \/ \E level \in Levels : Score(b, level)
             \/ \E marked \in BOOLEAN : ScoreFails(b, marked)
             \/ \E late, recorded \in BOOLEAN :
                   CallReturns(b, recorded) \/ CallFails(b, late, recorded)
      PROVE  /\ agent[b].pc \in {"scoring", "enforcing"}
             /\ \A c \in Agents \ {b} : agent'[c] = agent[c]
  BY <1>3 DEF CoreApplies, Score, Verdict, ScoreFails, CallReturns, CallFails, Goes
<1>4. ASSUME NEW b \in Handlers, ReceiveFails(b)
      PROVE  agent'[a] = agent[a]
  BY <1>4 DEF ReceiveFails, Goes, AgentRecord
<1>5. ASSUME NEW k \in Sweeps, NEW e \in Events, SweepLists(k) \/ SweepTakes(k, e)
      PROVE  agent'[a] = agent[a]
  BY <1>5 DEF SweepLists, SweepTakes
<1>6. CASE DetectionCrash
  BY <1>6 DEF DetectionCrash, IsSweep, AgentRecord
<1>7. ASSUME NEW e \in Events, NEW yes \in BOOLEAN, Send(e, yes)
      PROVE  agent'[a] = agent[a]
  <2> DEFINE b == <<e, sender[e].try + 1>>
  <2>1. Goes(b, "received") \/ UNCHANGED agent
    BY <1>7 DEF Send
  <2> HIDE DEF b
  <2> QED  BY <2>1 DEF Goes, AgentRecord
<1>8. ASSUME \/ \E e \in Events : \/ LoginCommits(e) \/ Accepted(e)
                                 \/ \E yes \in BOOLEAN : GiveUp(e, yes)
             \/ \E k \in Keys : CoreAppliesLate(k)
             \/ CoreCrash \/ UNCHANGED vars
      PROVE  agent'[a] = agent[a]
  BY <1>8 DEF LoginCommits, Accepted, GiveUp, CoreAppliesLate, CoreCrash, vars
<1> HIDE DEF IndInv, TypeOK
<1> QED  BY StepKinds, <1>1, <1>2, <1>3, <1>4, <1>5, <1>6, <1>7, <1>8

(* A call to Core, once begun, is not scoring.                             *)
LEMMA NewCallsDoNotScore ==
    ASSUME IndInv, NEW a \in Handlers, agent'[a].pc = "scoring"
    PROVE  /\ \A level \in Levels : ~Score(a, level)
           /\ ~CoreApplies(a)
<1>1. ASSUME NEW level \in Levels, Score(a, level) PROVE FALSE
  BY <1>1, TheAgents, ThroughTyped DEF IndInv, TypeOK, AgentRecord, Score, Verdict
<1>2. ASSUME CoreApplies(a) PROVE FALSE
  BY <1>2, TheAgents DEF IndInv, TypeOK, AgentRecord, CoreApplies
<1> QED  BY <1>1, <1>2

(* A sweep has in hand what it had, or what it has just listed as failed.  *)
LEMMA SweepKinds ==
    ASSUME IndInv, [Next]_vars, NEW k \in Sweeps, NEW e \in Events,
           e \in agent'[k].todo \/ e = agent'[k].event
    PROVE  e \in agent[k].todo \/ e = agent[k].event \/ attempt[e].status = "failed"
<1> USE TheAgents, NoneAssumption DEF IndInv, TypeOK
<1>1. ASSUME NEW d \in Events, NEW yes \in BOOLEAN, Send(d, yes)
      PROVE  agent'[k] = agent[k]
  <2> DEFINE b == <<d, sender[d].try + 1>>
  <2>1. b \in Handlers
    <3>1. sender[d] \in SenderRecord /\ sender[d].try < Tries
      BY <1>1 DEF Send, SenderTries
    <3>2. sender[d].try + 1 \in 1..Tries
      BY <3>1 DEF SenderRecord, Tries
    <3> QED  BY <3>2
  <2>2. Goes(b, "received") \/ UNCHANGED agent
    BY <1>1 DEF Send
  <2> HIDE DEF b
  <2> QED  BY <2>1, <2>2 DEF Goes
<1>2. ASSUME NEW a \in Handlers, \/ LookUp(a) \/ ReceiveFails(a)
                                \/ \E known \in BOOLEAN : Insert(a, known)
      PROVE  agent'[k] = agent[k]
  BY <1>2 DEF LookUp, ReceiveFails, Insert, Goes
<1>3. ASSUME NEW a \in Agents,
             \/ CoreApplies(a)
             \/ \E level \in Levels : Score(a, level)
             \/ \E marked \in BOOLEAN : ScoreFails(a, marked)
             \/ \E late, recorded \in BOOLEAN :
                   CallReturns(a, recorded) \/ CallFails(a, late, recorded)
      PROVE  e \in agent[k].todo \/ e = agent[k].event
  <2>1. CASE a # k
    BY <1>3, <2>1 DEF CoreApplies, Score, Verdict, ScoreFails, CallReturns,
                      CallFails, Goes
  <2>2. CASE a = k
    <3>1. Through(k).todo = agent[k].todo /\ Through(k).event = None
      BY AgentFacts, ThroughTyped DEF Idle
    <3>2. CASE agent'[k] = Through(k)
      BY <3>1, <3>2
    <3>3. ASSUME CoreApplies(k)
          PROVE  agent'[k].todo = agent[k].todo /\ agent'[k].event = agent[k].event
      BY <3>3 DEF CoreApplies, AgentRecord
    <3>4. ASSUME NEW level \in Levels, Score(k, level)
          PROVE  \/ agent'[k] = Through(k)
                 \/ agent'[k].todo = agent[k].todo /\ agent'[k].event = agent[k].event
      BY <3>4 DEF Score, Verdict, AgentRecord
    <3>5. ASSUME NEW marked \in BOOLEAN, ScoreFails(k, marked)
          PROVE  agent'[k] = Through(k)
      BY <3>5, AgentFacts DEF ScoreFails
    <3>6. ASSUME NEW late \in BOOLEAN, NEW recorded \in BOOLEAN,
                 CallReturns(k, recorded) \/ CallFails(k, late, recorded)
          PROVE  agent'[k] = Through(k)
      BY <3>6 DEF CallReturns, CallFails
    <3> QED  BY <1>3, <2>2, <3>2, <3>3, <3>4, <3>5, <3>6
  <2> QED  BY <2>1, <2>2
<1>4. ASSUME NEW j \in Sweeps, NEW d \in Events, SweepLists(j) \/ SweepTakes(j, d)
      PROVE  e \in agent[k].todo \/ e = agent[k].event \/ attempt[e].status = "failed"
  BY <1>4 DEF SweepLists, SweepTakes, AgentRecord
<1>5. CASE DetectionCrash
  BY <1>5, AgentFacts DEF DetectionCrash, Idle
<1>6. ASSUME \/ \E d \in Events : \/ LoginCommits(d) \/ Accepted(d)
                                 \/ \E yes \in BOOLEAN : GiveUp(d, yes)
             \/ \E j \in Keys : CoreAppliesLate(j)
             \/ CoreCrash \/ UNCHANGED vars
      PROVE  agent'[k] = agent[k]
  BY <1>6 DEF LoginCommits, Accepted, GiveUp, CoreAppliesLate, CoreCrash, vars
<1> HIDE DEF IndInv, TypeOK
<1> QED  BY StepKinds, <1>1, <1>2, <1>3, <1>4, <1>5, <1>6

(* What is stored stays stored, and what is settled stays settled.         *)
LEMMA StatusOnlyGrows ==
    ASSUME IndInv, [Next]_vars, NEW e \in Events
    PROVE  /\ Stored(e) => Stored(e)'
           /\ attempt[e].status \in {"processed", "failed"} =>
                 attempt'[e].status \in {"processed", "failed"}
BY AttemptKinds DEF Stored

(* One handler at a time has a pending attempt in hand, a sweep none.      *)
LEMMA OneScorerStep ==
    IndInv /\ [Next]_vars => OneScorer'
<1> SUFFICES ASSUME IndInv, [Next]_vars PROVE OneScorer'
  OBVIOUS
<1>1. ASSUME NEW a \in Handlers PROVE EventOf(a)' = EventOf(a) /\ EventOf(a) \in Events
  BY TheAgents DEF EventOf, IsSweep
<1>2. ASSUME NEW a \in Handlers, agent'[a].pc \in {"enforcing", "done"}
      PROVE  Stored(EventOf(a))'
  <2>1. Stored(EventOf(a))
    BY <1>2, AnswerKinds DEF IndInv, OneScorer
  <2> QED  BY <1>1, <2>1, StatusOnlyGrows DEF Stored
<1>3. ASSUME NEW a \in Handlers, agent'[a].pc = "scoring"
      PROVE  /\ attempt'[EventOf(a)].status = "pending"
             /\ \A b \in Handlers :
                   EventOf(b) = EventOf(a) /\ agent'[b].pc = "scoring" => b = a
  <2> DEFINE e == EventOf(a)
  <2>0. e \in Events /\ TypeOK
    BY <1>1 DEF IndInv
  <2>1. \A b \in Handlers : agent'[b].pc = "scoring" =>
          \/ agent[b].pc = "scoring"
          \/ attempt[EventOf(b)].status = "none" /\ \E known \in BOOLEAN : Insert(b, known)
    BY AgentKinds, TheAgents, NewCallsDoNotScore DEF Stored
  <2>2. ASSUME NEW b \in Handlers, NEW c \in Handlers, agent[b].pc = "scoring",
               \E known \in BOOLEAN : Insert(c, known)
        PROVE  EventOf(b) = EventOf(c) => attempt[EventOf(c)].status # "none"
    BY <2>2 DEF IndInv, OneScorer
  <2>3. ASSUME NEW b \in Handlers, EventOf(b) = e, agent'[b].pc = "scoring"
        PROVE  b = a
    <3>1. ASSUME NEW known \in BOOLEAN, NEW other \in BOOLEAN,
                 Insert(a, known), Insert(b, other), agent'[a].pc = "scoring",
                 agent[b].pc # "scoring", agent'[b].pc = "scoring"
          PROVE  a = b
      BY <3>1, TheAgents DEF Insert, Goes, IndInv, TypeOK
    <3>2. CASE agent[a].pc = "scoring" /\ agent[b].pc = "scoring"
      BY <2>3, <3>2 DEF IndInv, OneScorer
    <3>3. CASE agent[a].pc # "scoring" /\ agent[b].pc # "scoring"
      BY <1>3, <2>1, <2>3, <3>1, <3>3
    <3>4. CASE agent[a].pc = "scoring" /\ agent[b].pc # "scoring"
      BY <2>1, <2>2, <2>3, <3>4
    <3>5. CASE agent[a].pc # "scoring" /\ agent[b].pc = "scoring"
      BY <1>3, <2>1, <2>2, <2>3, <3>5
    <3> QED  BY <3>2, <3>3, <3>4, <3>5
  <2>4. attempt'[e].status = "pending"
    <3>1. CASE agent[a].pc = "scoring"
      <4>1. attempt[e].status = "pending"
        BY <3>1 DEF IndInv, OneScorer
      <4>2. ASSUME NEW b \in Agents, EventOf(b) = e, agent[b].pc = "scoring",
                   agent'[b].pc # "scoring"
            PROVE  FALSE
        <5>1. CASE b \in Handlers
          BY <1>3, <3>1, <4>2, <5>1 DEF IndInv, OneScorer
        <5>2. CASE b \in Sweeps
          BY <2>0, <4>1, <4>2, <5>2, AgentFacts DEF IndInv, OneScorer
        <5> QED  BY <5>1, <5>2, TheAgents
      <4> QED  BY <2>0, <4>1, <4>2, AttemptKinds
    <3>2. CASE agent[a].pc # "scoring"
      <4>1. PICK known \in BOOLEAN : Insert(a, known) /\ ~Stored(e)
        BY <1>3, <2>1, <3>2 DEF Stored
      <4> QED  BY <2>0, <4>1 DEF Insert, TypeOK, AttemptRecord
    <3> QED  BY <3>1, <3>2
  <2> QED  BY <2>3, <2>4
<1>4. ASSUME NEW k \in Sweeps, NEW e \in Events,
             e \in agent'[k].todo \/ e = agent'[k].event
      PROVE  attempt'[e].status \in {"failed", "processed"}
  <2>1. attempt[e].status \in {"failed", "processed"}
    BY <1>4, SweepKinds DEF IndInv, OneScorer
  <2> QED  BY <2>1, StatusOnlyGrows
<1> QED  BY <1>1, <1>2, <1>3, <1>4 DEF OneScorer, Stored

-----------------------------------------------------------------------------
(* The invariant *)

(* A handler that stops scoring has settled its attempt, or is cut off.    *)
LEMMA ScoringHandlers ==
    ASSUME IndInv, [Next]_vars, NEW a \in Handlers, agent[a].pc = "scoring"
    PROVE  \/ agent'[a] = agent[a]
           \/ attempt'[EventOf(a)].status # "pending"
           \/ EventOf(a) \in orphans'
<1> USE TheAgents, AgentFacts DEF IndInv, TypeOK
<1>1. ASSUME NEW level \in Levels, Score(a, level)
      PROVE  attempt'[EventOf(a)].status # "pending"
  BY <1>1 DEF Score, Verdict, AttemptRecord
<1>2. ASSUME NEW marked \in BOOLEAN, ScoreFails(a, marked)
      PROVE  attempt'[EventOf(a)].status # "pending" \/ EventOf(a) \in orphans'
  BY <1>2 DEF ScoreFails, AttemptRecord
<1>3. ASSUME DetectionCrash PROVE EventOf(a) \in orphans'
  BY <1>3 DEF DetectionCrash
<1>4. ASSUME NEW e \in Events, NEW yes \in BOOLEAN, Send(e, yes)
      PROVE  agent'[a] = agent[a]
  <2> DEFINE b == <<e, sender[e].try + 1>>
  <2>1. sender[e] \in SenderRecord /\ sender[e].try < Tries
    BY <1>4 DEF Send, SenderTries
  <2>2. b \in Handlers /\ b[1] = e /\ b[2] = sender[e].try + 1
    <3>1. sender[e].try + 1 \in 1..Tries
      BY <2>1 DEF SenderRecord, Tries
    <3> QED  BY <3>1
  <2>3. b[2] > sender[b[1]].try
    <3>1. sender[e].try \in Nat /\ sender[e].try + 1 > sender[e].try
      BY <2>1 DEF SenderRecord, Tries
    <3> HIDE DEF b
    <3> QED  BY <2>2, <3>1
  <2>4. agent[b].pc = "idle"
    BY <2>2, <2>3 DEF SenderTries
  <2>5. Goes(b, "received") \/ UNCHANGED agent
    BY <1>4 DEF Send
  <2> HIDE DEF b
  <2> QED  BY <2>2, <2>4, <2>5 DEF Goes
<1>5. ASSUME NEW b \in Agents,
             \/ LookUp(b) \/ ReceiveFails(b) \/ CoreApplies(b)
             \/ \E known \in BOOLEAN : Insert(b, known)
             \/ \E late, recorded \in BOOLEAN :
                   CallReturns(b, recorded) \/ CallFails(b, late, recorded)
      PROVE  agent'[a] = agent[a]
  <2>1. agent[b].pc # "scoring"
    BY <1>5 DEF LookUp, ReceiveFails, CoreApplies, Insert, CallReturns, CallFails
  <2>2. a # b
    BY <2>1
  <2> QED
    BY <1>5, <2>2 DEF LookUp, ReceiveFails, CoreApplies, Insert, CallReturns,
                      CallFails, Goes
<1>6. ASSUME NEW b \in Agents, b # a,
             \/ \E level \in Levels : Score(b, level)
             \/ \E marked \in BOOLEAN : ScoreFails(b, marked)
      PROVE  agent'[a] = agent[a]
  BY <1>6 DEF Score, Verdict, ScoreFails, Goes
<1>7. ASSUME NEW k \in Sweeps, NEW e \in Events, SweepLists(k) \/ SweepTakes(k, e)
      PROVE  agent'[a] = agent[a]
  BY <1>7 DEF SweepLists, SweepTakes
<1>8. ASSUME \/ \E e \in Events : \/ LoginCommits(e) \/ Accepted(e)
                                 \/ \E yes \in BOOLEAN : GiveUp(e, yes)
             \/ \E k \in Keys : CoreAppliesLate(k)
             \/ CoreCrash \/ UNCHANGED vars
      PROVE  agent'[a] = agent[a]
  BY <1>8 DEF LoginCommits, Accepted, GiveUp, CoreAppliesLate, CoreCrash, vars
<1> HIDE DEF IndInv, TypeOK
<1> QED  BY StepKinds, <1>1, <1>2, <1>3, <1>4, <1>5, <1>6, <1>7, <1>8

(* No attempt falls between Core, its handlers and the orphans.            *)
LEMMA AbandonedStep ==
    IndInv /\ [Next]_vars => NoAttemptIsAbandoned'
<1> SUFFICES ASSUME IndInv, [Next]_vars, NEW e \in Events
             PROVE  /\ sender'[e].pc = "delivered" => Stored(e)'
                    /\ attempt'[e].status = "pending" =>
                          e \in orphans' \/ \E a \in Handlers :
                              EventOf(a)' = e /\ agent'[a].pc = "scoring"
  BY DEF NoAttemptIsAbandoned
<1>1. ASSUME sender'[e].pc = "delivered" PROVE Stored(e)'
  <2>1. CASE sender'[e] = sender[e]
    BY <1>1, <2>1, StatusOnlyGrows DEF IndInv, NoAttemptIsAbandoned
  <2>2. ASSUME Accepted(e) PROVE Stored(e)
    <3>1. sender[e] \in SenderRecord /\ sender[e].try >= 1
      BY <2>2 DEF IndInv, TypeOK, SenderTries, Accepted
    <3>2. sender[e].try \in 1..Tries
      BY <3>1 DEF SenderRecord, Tries
    <3>3. <<e, sender[e].try>> \in Handlers
      BY <3>2, TheAgents
    <3>4. EventOf(<<e, sender[e].try>>) = e
      BY <3>3, AgentFacts
    <3> QED  BY <2>2, <3>3, <3>4 DEF IndInv, OneScorer, Accepted
  <2>3. sender'[e] = sender[e] \/ Accepted(e)
    <3>1. sender'[e] # [pc |-> "waiting", try |-> sender[e].try + 1]
      BY <1>1
    <3>2. sender'[e].pc \notin {"lost", "sending"}
      BY <1>1
    <3> QED  BY <3>1, <3>2, SenderKinds
  <2>4. Stored(e) => Stored(e)'
    BY StatusOnlyGrows
  <2> QED  BY <2>1, <2>2, <2>3, <2>4
<1>2. ASSUME attempt'[e].status = "pending", e \notin orphans'
      PROVE  \E a \in Handlers : EventOf(a)' = e /\ agent'[a].pc = "scoring"
  <2>1. \A a \in Handlers : EventOf(a)' = EventOf(a)
    BY TheAgents DEF EventOf, IsSweep
  <2>2. CASE attempt'[e] = attempt[e]
    <3>1. PICK a \in Handlers : EventOf(a) = e /\ agent[a].pc = "scoring"
      BY <1>2, <2>2, NothingIsTakenBack DEF IndInv, NoAttemptIsAbandoned
    <3>2. agent'[a] = agent[a]
      BY <1>2, <3>1, ScoringHandlers
    <3> QED  BY <2>1, <3>1, <3>2
  <2>3. CASE attempt'[e] # attempt[e]
    BY <1>2, <2>1, <2>3, AttemptKinds
  <2> QED  BY <2>2, <2>3
<1> QED  BY <1>1, <1>2

(* The pipeline starts in the invariant, with nothing sent.                *)
LEMMA InitInv == Init => IndInv
<1> SUFFICES ASSUME Init PROVE IndInv
  OBVIOUS
<1>1. TypeOK
  BY DEF Init, TypeOK, SenderRecord, AttemptRecord, AgentRecord, Idle, Levels, Tries
<1>2. /\ OneAlertPerRiskyAttempt /\ VerdictsAreProcessed /\ AuditCounts
      /\ SenderTries /\ NoAttemptIsAbandoned
  BY TheAgents DEF Init, OneAlertPerRiskyAttempt, VerdictsAreProcessed, AuditCounts,
                   SenderTries, NoAttemptIsAbandoned, Idle, Tries
<1>3. AgentsKnow /\ OneScorer
  BY TheAgents, NoneAssumption DEF Init, AgentsKnow, OneScorer, Idle
<1> QED  BY <1>1, <1>2, <1>3 DEF IndInv

(* What receive_login_event, the sweep, Core's sender and apply_action     *)
(* know of each other holds whatever is sent twice, cut off or late.       *)
THEOREM Invariance == Spec => []IndInv
<1>1. IndInv /\ [Next]_vars => IndInv'
  BY TypeStep, AlertStep, VerdictStep, AuditStep, SenderTriesStep, AgentsStep, OneScorerStep,
     AbandonedStep DEF IndInv
<1> QED  BY <1>1, InitInv, PTL DEF Spec

(* The types of login_attempts, detection_logs and the audit log.          *)
THEOREM TypeCorrect == Spec => []TypeOK
<1>1. IndInv => TypeOK
  BY DEF IndInv
<1> QED  BY <1>1, Invariance, PTL

(* However often an attempt is scored, it gets one alert with its first    *)
(* risky verdict.                                                          *)
THEOREM AlertsAreSingle == Spec => []OneAlertPerRiskyAttempt
<1>1. IndInv => OneAlertPerRiskyAttempt
  BY DEF IndInv
<1> QED  BY <1>1, Invariance, PTL

(* The idempotency key makes Core act at most once, and only for a verdict *)
(* that is committed with its alert.                                       *)
THEOREM ActionsAreOnceAndWarranted == Spec => []ActionsAreWarranted
<1>1. IndInv => ActionsAreWarranted
  <2> SUFFICES ASSUME IndInv, NEW k \in Keys
               PROVE  /\ executed[k] <= 1
                      /\ executed[k] = 1 => k[2] \in verdicts[k[1]] /\ alerts[k[1]] = 1
    BY DEF ActionsAreWarranted
  <2>1. executed[k] = IF k \in audit THEN 1 ELSE 0
    BY DEF IndInv, AuditCounts
  <2>2. k[1] \in Events /\ k[2] \in Alerting
    BY DEF Keys
  <2>3. k \in audit => k[2] \in verdicts[k[1]]
    BY DEF IndInv, AuditCounts, Warranted
  <2> QED  BY <2>1, <2>2, <2>3 DEF IndInv, OneAlertPerRiskyAttempt
<1> QED  BY <1>1, Invariance, PTL

(* An enforcement that detection_logs records has taken place.             *)
THEOREM RecordsAreTrue == Spec => []RecordedAsEnforcedIsDone
<1>1. IndInv => RecordedAsEnforcedIsDone
  BY DEF IndInv, AuditCounts, RecordedAsEnforcedIsDone
<1> QED  BY <1>1, Invariance, PTL

(* What Core believes delivered is stored, and what is stored is in        *)
(* somebody's hands until it is settled or cut off.                        *)
THEOREM NothingIsAbandoned == Spec => []NoAttemptIsAbandoned
<1>1. IndInv => NoAttemptIsAbandoned
  BY DEF IndInv
<1> QED  BY <1>1, Invariance, PTL

(* Only a sweep that has the attempt in hand changes a committed verdict.  *)
THEOREM RedeliveryIsHarmless == Spec => RedeliveryKeepsTheVerdict
<1>1. ASSUME IndInv, [Next]_vars, NEW e \in Events,
             attempt[e].status = "processed", attempt'[e] # attempt[e]
      PROVE  \E k \in Sweeps : agent[k].event = e
  <2>1. PICK a \in Agents : EventOf(a) = e /\ agent[a].pc = "scoring"
    BY <1>1, AttemptKinds
  <2>2. a \notin Handlers
    BY <1>1, <2>1 DEF IndInv, OneScorer
  <2> QED  BY <2>1, <2>2, AgentFacts
<1>2. IndInv /\ [Next]_vars =>
        [\A e \in Events :
            attempt[e].status = "processed" /\ attempt'[e] # attempt[e] =>
                \E k \in Sweeps : agent[k].event = e]_vars
  BY <1>1
<1> QED  BY <1>2, Invariance, PTL DEF Spec, RedeliveryKeepsTheVerdict

-----------------------------------------------------------------------------
(* The promise of RiskResponse *)

(* The promise starts with nothing stored.                                 *)
LEMMA PromiseInit == Init => Promised!Init
<1> SUFFICES ASSUME Init PROVE Promised!Init
  OBVIOUS
<1>1. /\ [e \in Events |-> attempt[e].status] = [e \in Events |-> "none"]
      /\ [e \in Events |-> attempt[e].known] = [e \in Events |-> FALSE]
      /\ {k \in Keys : "enforced" \in log[k]} = {}
  BY DEF Init
<1> QED  BY <1>1 DEF Init, Promised!Init, Promised!Actions, Keys

(* What it sees of a step that stores, fails or judges an attempt.         *)
LEMMA AttemptsPromised ==
    ASSUME IndInv, NEW e \in Events
    PROVE  /\ Fails(e) => Promised!Fail(e)
           /\ \A known \in BOOLEAN : Stores(e, known) => Promised!Store(e, known)
           /\ \A level \in Levels : Judges(e, level) => Promised!Judge(e, level)
<1> DEFINE fate == [d \in Events |-> attempt[d].status]
           account == [d \in Events |-> attempt[d].known]
<1>1. attempt \in [Events -> AttemptRecord] /\ alerts \in [Events -> Nat]
  BY DEF IndInv, TypeOK
<1>2. UNCHANGED log => UNCHANGED {k \in Keys : "enforced" \in log[k]}
  OBVIOUS
<1>3. ASSUME Fails(e)
      PROVE  Promised!Fail(e)
  <2>1. fate' = [fate EXCEPT ![e] = "failed"] /\ account' = account
    BY <1>1, <1>3 DEF Fails, AttemptRecord
  <2>2. verdicts[e] = {}
    BY <1>3 DEF Fails, IndInv, VerdictsAreProcessed
  <2> QED  BY <1>2, <1>3, <2>1, <2>2 DEF Fails, Promised!Fail
<1>4. ASSUME NEW known \in BOOLEAN, Stores(e, known)
      PROVE  Promised!Store(e, known)
  <2>1. fate' = [fate EXCEPT ![e] = "pending"]
    BY <1>1, <1>4 DEF Stores, AttemptRecord
  <2>2. account' = [account EXCEPT ![e] = known]
    BY <1>1, <1>4 DEF Stores, AttemptRecord
  <2> QED  BY <1>2, <1>4, <2>1, <2>2 DEF Stores, Promised!Store
<1>5. ASSUME NEW level \in Levels, Judges(e, level)
      PROVE  Promised!Judge(e, level)
  <2>1. fate' = [fate EXCEPT ![e] = "processed"] /\ account' = account
    BY <1>1, <1>5 DEF Judges, AttemptRecord
  <2>2. alerts[e] \in {0, 1}
    BY DEF IndInv, OneAlertPerRiskyAttempt
  <2>3. alerts' = IF level \in Alerting /\ alerts[e] = 0
                  THEN [alerts EXCEPT ![e] = 1] ELSE alerts
    BY <1>1, <1>5, <2>2 DEF Judges
  <2> QED  BY <1>2, <1>5, <2>1, <2>3 DEF Judges, Promised!Judge
<1> QED  BY <1>3, <1>4, <1>5

(* Core's step is the execution of an action, or it has been executed.     *)
LEMMA ActionsPromised ==
    ASSUME IndInv, NEW k \in Keys, Warranted(k), Apply(k),
           UNCHANGED <<attempt, alerts, log, verdicts>>
    PROVE  \/ UNCHANGED Promised!vars
           \/ Promised!Execute(k[1], k[2])
<1>1. k = <<k[1], k[2]>> /\ k[1] \in Events /\ k[2] \in Alerting
  BY DEF Keys
<1>2. k[2] \in verdicts[k[1]] /\ attempt[k[1]].known
  BY DEF Warranted
<1>3. alerts[k[1]] = 1
  BY <1>1, <1>2 DEF IndInv, OneAlertPerRiskyAttempt
<1>4. CASE k \in audit
  BY <1>4 DEF Apply, Promised!vars
<1>5. CASE k \notin audit
  <2>1. executed[k] = 0 /\ executed' = [executed EXCEPT ![k] = 1]
    <3>1. executed \in [Keys -> Nat] /\ executed[k] = 0
      BY <1>5 DEF IndInv, TypeOK, AuditCounts
    <3>2. executed' = [executed EXCEPT ![k] = @ + 1]
      BY <1>5 DEF Apply
    <3> QED  BY <3>1, <3>2
  <2> QED  BY <1>1, <1>2, <1>3, <2>1 DEF Promised!Execute
<1> QED  BY <1>4, <1>5

(* The outcome of a call, and whether it is a success.                     *)
LEMMA RecordsPromised ==
    ASSUME IndInv, NEW k \in Keys, NEW outcome \in {"enforced", "not_enforced"},
           outcome = "enforced" => k \in audit,
           log' = [log EXCEPT ![k] = @ \cup {outcome}],
           UNCHANGED <<attempt, alerts, verdicts, executed>>
    PROVE  UNCHANGED Promised!vars \/ Promised!Record(k)
<1> DEFINE recorded == {j \in Keys : "enforced" \in log[j]}
<1>1. log \in [Keys -> SUBSET {"enforced", "not_enforced"}]
  BY DEF IndInv, TypeOK
<1>2. CASE outcome = "enforced"
  <2>1. recorded' = recorded \cup {k}
    BY <1>1, <1>2
  <2>2. executed[k] = 1
    BY <1>2 DEF IndInv, AuditCounts
  <2> QED  BY <2>1, <2>2 DEF Promised!Record
<1>3. CASE outcome = "not_enforced"
  <2>1. recorded' = recorded
    BY <1>1, <1>3
  <2> QED  BY <2>1 DEF Promised!vars
<1> QED  BY <1>2, <1>3

(* Each step of the pipeline is one step of the promise, or unseen.        *)
LEMMA StepPromised ==
    ASSUME IndInv, [Next]_vars
    PROVE  [Promised!Next]_(Promised!vars)
<1>1. ASSUME NEW e \in Events, \/ Fails(e)
                              \/ \E known \in BOOLEAN : Stores(e, known)
                              \/ \E level \in Levels : Judges(e, level)
      PROVE  Promised!Next
  BY <1>1, AttemptsPromised DEF Promised!Next
<1>2. ASSUME NEW k \in Keys, Warranted(k), Apply(k),
             UNCHANGED <<attempt, alerts, log, verdicts>>
      PROVE  Promised!Next \/ UNCHANGED Promised!vars
  <2>1. k[1] \in Events /\ k[2] \in Alerting
    BY DEF Keys
  <2> QED  BY <1>2, <2>1, ActionsPromised DEF Promised!Next
<1>3. ASSUME NEW a \in Agents, CoreApplies(a)
      PROVE  Promised!Next \/ UNCHANGED Promised!vars
  <2>1. KeyOf(a) \in Keys /\ Warranted(KeyOf(a))
    BY <1>3 DEF IndInv, AgentsKnow, CoreApplies
  <2> QED  BY <1>2, <1>3, <2>1 DEF CoreApplies
<1>4. ASSUME NEW k \in Keys, CoreAppliesLate(k)
      PROVE  Promised!Next \/ UNCHANGED Promised!vars
  BY <1>2, <1>4 DEF CoreAppliesLate, IndInv, AuditCounts
<1>5. ASSUME NEW a \in Agents, NEW late \in BOOLEAN, NEW recorded \in BOOLEAN,
             CallReturns(a, recorded) \/ CallFails(a, late, recorded)
      PROVE  Promised!Next \/ UNCHANGED Promised!vars
  <2>1. PICK k \in Keys : k = KeyOf(a) /\ (agent[a].applied => k \in audit)
    BY <1>5 DEF IndInv, AgentsKnow, CallReturns, CallFails
  <2>2. UNCHANGED <<attempt, alerts, verdicts, executed>>
    BY <1>5 DEF CallReturns, CallFails
  <2>3. CASE UNCHANGED log
    BY <2>2, <2>3 DEF Promised!vars
  <2>4. CASE ~UNCHANGED log
    <3>1. PICK outcome \in {"enforced", "not_enforced"} :
             /\ outcome = "enforced" => k \in audit
             /\ log' = [log EXCEPT ![k] = @ \cup {outcome}]
      BY <1>5, <2>1, <2>4 DEF CallReturns, CallFails
    <3>2. UNCHANGED Promised!vars \/ Promised!Record(k)
      BY <2>2, <3>1, RecordsPromised
    <3> QED  BY <3>2 DEF Promised!Next, Promised!Actions, Keys
  <2> QED  BY <2>3, <2>4
<1>6. ASSUME UNCHANGED <<attempt, alerts, log, verdicts, executed>>
      PROVE  UNCHANGED Promised!vars
  BY <1>6 DEF Promised!vars
<1>7. CASE UNCHANGED <<attempt, alerts, verdicts>>
  <2>1. CASE UNCHANGED <<log, executed>>
    BY <1>6, <1>7, <2>1
  <2>2. CASE ~UNCHANGED <<log, executed>>
    BY <1>3, <1>4, <1>5, <2>2, StepKinds
       DEF LoginCommits, Accepted, Send, GiveUp, LookUp, ReceiveFails, Insert,
           Score, Verdict, ScoreFails, SweepLists, SweepTakes, CoreCrash,
           DetectionCrash, vars
  <2> QED  BY <2>1, <2>2
<1> QED  BY <1>1, <1>7, AttemptMoves

(* However the event is delivered, scored, swept, cut off and answered,    *)
(* what Detection and Core do about a login is a behaviour of RiskResponse.*)
THEOREM PromiseKept == Spec => RespondsAsPromised
<1>1. IndInv /\ [Next]_vars => [Promised!Next]_(Promised!vars)
  BY StepPromised
<1> QED  BY <1>1, PromiseInit, Invariance, PTL
         DEF Spec, RespondsAsPromised, Promised!Spec

=============================================================================
