---------------------------- MODULE RiskResponse -----------------------------
(***************************************************************************)
(* What Detection and Core promise together about a risky login, without   *)
(* deliveries, handlers, sweeps, timeouts and crashes: DetectionPipeline   *)
(* shows that the code keeps it.                                           *)
(*                                                                         *)
(* An attempt is stored once, with or without an account.  It is judged,   *)
(* perhaps again later, and the first risky verdict raises its one alert.  *)
(* Core executes an action at most once, for an account there is, after a  *)
(* verdict that calls for it.  An action is recorded as enforced after it  *)
(* was executed.  Each step does one of these things to one attempt, and   *)
(* nothing is taken back.                                                  *)
(***************************************************************************)
EXTENDS Naturals

CONSTANTS
    Attempts,
    Levels,
    Alerting        \* the levels that raise an alert and ask for an action

VARIABLES
    fate,           \* of each attempt: "none", "pending", "failed", "processed"
    account,        \* whether its login had an account
    verdicts,       \* the levels it was judged to be
    alerts,         \* how many alerts it raised
    executed,       \* how often Core executed each action
    recorded        \* the actions recorded as enforced

vars == <<fate, account, verdicts, alerts, executed, recorded>>

Actions == Attempts \X Alerting

Init ==
    /\ fate = [e \in Attempts |-> "none"]
    /\ account = [e \in Attempts |-> FALSE]
    /\ verdicts = [e \in Attempts |-> {}]
    /\ alerts = [e \in Attempts |-> 0]
    /\ executed = [k \in Actions |-> 0]
    /\ recorded = {}

Store(e, known) ==
    /\ fate[e] = "none"
    /\ fate' = [fate EXCEPT ![e] = "pending"]
    /\ account' = [account EXCEPT ![e] = known]
    /\ UNCHANGED <<verdicts, alerts, executed, recorded>>

(* Its scoring fails before there is a verdict.                            *)
Fail(e) ==
    /\ fate[e] = "pending" /\ verdicts[e] = {}
    /\ fate' = [fate EXCEPT ![e] = "failed"]
    /\ UNCHANGED <<account, verdicts, alerts, executed, recorded>>

Judge(e, level) ==
    /\ fate[e] # "none"
    /\ fate' = [fate EXCEPT ![e] = "processed"]
    /\ verdicts' = [verdicts EXCEPT ![e] = @ \cup {level}]
    /\ alerts' = IF level \in Alerting /\ alerts[e] = 0
                 THEN [alerts EXCEPT ![e] = 1] ELSE alerts
    /\ UNCHANGED <<account, executed, recorded>>

Execute(e, level) ==
    /\ account[e] /\ level \in verdicts[e] /\ alerts[e] = 1
    /\ executed[<<e, level>>] = 0
    /\ executed' = [executed EXCEPT ![<<e, level>>] = 1]
    /\ UNCHANGED <<fate, account, verdicts, alerts, recorded>>

Record(k) ==
    /\ executed[k] = 1
    /\ recorded' = recorded \cup {k}
    /\ UNCHANGED <<fate, account, verdicts, alerts, executed>>

Next ==
    \/ \E e \in Attempts :
         \/ Fail(e)
         \/ \E known \in BOOLEAN : Store(e, known)
         \/ \E level \in Levels : Judge(e, level)
         \/ \E level \in Alerting : Execute(e, level)
    \/ \E k \in Actions : Record(k)

Spec == Init /\ [][Next]_vars
=============================================================================
