----------------------------- MODULE RiskScoring -----------------------------
(***************************************************************************)
(* How a login becomes a risk level (app/detection.py): the six features   *)
(* built from the user's stored history, the rules and the config of the   *)
(* active policy, the ML service's answer, and the thresholds.  A login is *)
(* scored up to three times: by the pre-token gate, which stores nothing,  *)
(* by the delivery of its event, and by a sweep when that failed.          *)
(*                                                                         *)
(* A scoring runs without interruption between its awaits, of which there  *)
(* is one, the ML service: policies are activated, other logins stored and *)
(* models replaced while it waits.  activate_policy does not await; as two *)
(* processes may serve it, it is two actions.                              *)
(*                                                                         *)
(* Core stamps a login twice: the event carries one time, and the gate is  *)
(* asked with another, a little earlier or later.                          *)
(*                                                                         *)
(* ABSTRACTED.  Scores, weights and thresholds are whole percents, and     *)
(* times whole ticks, Hour of which make an hour; floats' rounding is left *)
(* out.  A rule's value is a sequence of numbers, a boolean feature 0 or 1 *)
(* (as in Python).  What is done with a level (alerts, actions, retries)   *)
(* is DetectionPipeline's; which artifact the ML service scores with is    *)
(* MlService's.                                                            *)
(***************************************************************************)
EXTENDS Integers, Sequences, FiniteSetsExt

CONSTANTS
    Hour,           \* the ticks of the clock in an hour
    Login,          \* the login as its event has it: [at, outcome, ip, agent, print]
    GateTimes,      \* the times with which Core may ask the gate about it
    Past,           \* earlier logins of its user, stored at any time
    Policies,       \* the policies; Content[p] is [config, rules]
    Content,
    Workers,        \* bounds the concurrent activations
    Scores,         \* percents the estimator may give
    None

ASSUME LoginAssumption ==
    /\ Login.at \in Int /\ Login.print # None /\ GateTimes \subseteq Int
    /\ Hour \in Nat \ {0} /\ Scores \subseteq 0..100 /\ None \notin Policies
ASSUME PastAssumption == IsFiniteSet(Past) /\ \A h \in Past : h.at \in Int

VARIABLES
    active,         \* the policies with is_active
    activating,     \* per worker: the policy it has locked, and the others
    stored,         \* login_attempts
    scoring,        \* the gate's scoring of Login, and its event's
    inflight,       \* the requests that the ML service has yet to handle
    inference       \* the ML service's log: one row, at most, per request id

Requests == {"gate", "event"}           \* the gate makes an id of its own
vars == <<active, activating, stored, scoring, inflight, inference>>

Levels == {"low", "medium", "high", "critical"}
Answer == [status : {"success", "error", "unavailable"}, score : 0..100]
Silent(status) == [status |-> status, score |-> 0]
Scoring == [pc : {"none", "asking", "answered", "done", "failed"},
            policy : Policies \cup {None},
            at : GateTimes \cup {Login.at},
            seen : SUBSET (Past \cup {Login}),
            ml : Answer,
            level : Levels,
            again : BOOLEAN]    \* HISTORY: it was scored before, and failed
NotScored == [pc |-> "none", policy |-> None, at |-> Login.at, seen |-> {},
              level |-> "low", ml |-> Silent("unavailable"), again |-> FALSE]
Activation == [policy : Policies, others : SUBSET Policies]
NoActivation == [policy |-> None, others |-> {}]

TypeOK ==
    /\ active \subseteq Policies
    /\ activating \in [Workers -> Activation \cup {NoActivation}]
    /\ stored \subseteq Past \cup {Login}
    /\ scoring \in [Requests -> Scoring]
    /\ inflight \subseteq Requests
    /\ inference \in [Requests -> {"none", "ready", "error"}]

Init ==
    /\ \E p \in Policies : active \in {{}, {p}}
    /\ activating = [w \in Workers |-> NoActivation]
    /\ stored \in SUBSET Past
    /\ scoring = [r \in Requests |-> NotScored]
    /\ inflight = {}
    /\ inference = [r \in Requests |-> "none"]

-----------------------------------------------------------------------------
(* build_features, of a login that is stamped `at`.  The login itself is   *)
(* stored when its event is scored; its time keeps it out of its own       *)
(* history.                                                                *)
HistoryInclusive(seen, at, hours) ==     \* MUTANT: ... or does not
    {h \in seen : at - hours * Hour <= h.at /\ h.at <= at}

Before(seen, at) == {h \in seen : h.at < at}
History(seen, at, hours) == {h \in Before(seen, at) : at <= h.at + hours * Hour}
Count(S) == Cardinality(S)

FailCount(seen, at) == Count({h \in History(seen, at, 24) : h.outcome = "failure"})

IpChangeRate(seen, at) ==
    LET week == History(seen, at, 7 * 24) IN
    IF week = {} THEN 0
    ELSE (100 * Count({h \in week : h.ip # Login.ip})) \div Count(week)

(* _compute_new_device.  The gate is not sent the fingerprint.             *)
KnownPrint(seen, at, print) == \E h \in History(seen, at, 30 * 24) : h.print = print
KnownAgent(seen, at) ==
    \/ Login.agent = None
    \/ \E h \in History(seen, at, 30 * 24) : h.agent = Login.agent
NewDevice(seen, at, print) ==
    LET known == IF print # None THEN KnownPrint(seen, at, print) ELSE KnownAgent(seen, at)
    IN  IF known THEN 0 ELSE 1

(* The gaps between the last ten logins add up to their span.              *)
Recent(seen, at) ==
    LET prior == Before(seen, at) IN
    {h \in prior : Count({g \in prior : g.at > h.at}) < 10}
Last(recent) == Max({h.at : h \in recent})
Span(recent) == Last(recent) - Min({h.at : h \in recent})

Interval(recent) ==
    IF Count(recent) < 2 THEN 0
    ELSE (3600 * Span(recent)) \div (Hour * (Count(recent) - 1))

(* MUTANT: without min(1.0, ...).                                          *)
DeviationUnbounded(recent, at) ==
    IF Count(recent) < 2 THEN 0
    ELSE LET off == (at - Last(recent)) * (Count(recent) - 1) - Span(recent)
         IN  IF Span(recent) = 0 THEN 0
             ELSE (100 * Max({off, -off})) \div Span(recent)

Deviation(recent, at) ==
    IF Count(recent) < 2 THEN 0
    ELSE LET off == (at - Last(recent)) * (Count(recent) - 1) - Span(recent)
         IN  IF Span(recent) = 0 THEN 0
             ELSE Min({100, (100 * Max({off, -off})) \div Span(recent)})

Features(seen, at, print) ==
    [hour_of_day |-> (at \div Hour) % 24,
     fail_count_24h |-> FailCount(seen, at),
     ip_change_rate_7d |-> IpChangeRate(seen, at),
     new_device |-> NewDevice(seen, at, print),
     average_login_interval_seconds |-> Interval(Recent(seen, at)),
     deviation_score |-> Deviation(Recent(seen, at), at)]

PrintOf(r) == IF r = "event" THEN Login.print ELSE None

-----------------------------------------------------------------------------
(* validate_rule, compare and evaluate_rules.                              *)
Fields == {"hour_of_day", "fail_count_24h", "ip_change_rate_7d", "new_device",
           "average_login_interval_seconds", "deviation_score"}
Ranges == {"between", "not_between"}
Operators == Ranges \cup {"==", "!=", ">", ">=", "<", "<=", "in"}

ValidRule(rule) ==
    /\ rule.field \in Fields
    /\ rule.operator \in Operators
    /\ rule.operator \in Ranges => Len(rule.value) = 2
    /\ rule.operator = "in" => rule.value # <<>>
    /\ {rule.weight, rule.score} \subseteq 0..100

Compare(x, operator, v) ==
    CASE operator = "==" -> x = v[1]
      [] operator = "!=" -> x # v[1]
      [] operator = ">" -> x > v[1]
      [] operator = ">=" -> x >= v[1]
      [] operator = "<" -> x < v[1]
      [] operator = "<=" -> x <= v[1]
      [] operator = "in" -> \E i \in DOMAIN v : x = v[i]
      [] operator = "between" -> v[1] <= x /\ x <= v[2]
      [] operator = "not_between" -> ~(v[1] <= x /\ x <= v[2])

(* The score is a fraction: what triggered over what might have.           *)
RuleScore(rules, features) ==
    LET usable == {i \in DOMAIN rules : ValidRule(rules[i]) /\ rules[i].enabled}
        hits == {i \in usable : Compare(features[rules[i].field],
                                        rules[i].operator, rules[i].value)}
        weight == [i \in usable |-> rules[i].weight]
        contribution == [i \in usable |-> rules[i].score * weight[i]]
        denominator == MapThenSumSet(LAMBDA i : weight[i], usable)
    IN  IF denominator = 0 THEN [num |-> 0, den |-> 1]
        ELSE [num |-> MapThenSumSet(LAMBDA i : contribution[i], hits), den |-> denominator]

(* resolve_config: what is absent or invalid is replaced by the defaults.  *)
ValidWeights(w) == {w.rule, w.ml} \subseteq 1..100 /\ w.rule + w.ml = 100
ValidThresholds(t) ==
    /\ {t.low, t.medium, t.high} \subseteq 0..100
    /\ t.low <= t.medium /\ t.medium <= t.high

Weights(config) ==
    IF config.weights # None /\ ValidWeights(config.weights)
    THEN config.weights ELSE [rule |-> 40, ml |-> 60]
Thresholds(config) ==
    IF config.thresholds # None /\ ValidThresholds(config.thresholds)
    THEN config.thresholds ELSE [low |-> 25, medium |-> 50, high |-> 75]

(* What activate_policy refuses.                                           *)
HasProblems(p) ==
    \/ Content[p].config.weights # None /\ ~ValidWeights(Content[p].config.weights)
    \/ /\ Content[p].config.thresholds # None
       /\ ~ValidThresholds(Content[p].config.thresholds)
    \/ \E i \in DOMAIN Content[p].rules : ~ValidRule(Content[p].rules[i])

(* Step 3 of process_attempt, and map_score_to_risk_level.                 *)
Combined(weights, rules, ml) ==
    IF ml.status # "success" THEN rules
    ELSE [num |-> weights.rule * rules.num + weights.ml * ml.score * rules.den,
          den |-> 100 * rules.den]
LevelOf(score, t) ==
    LET Below(x) == score.num < x * score.den IN
    CASE Below(t.low) -> "low"
      [] ~Below(t.low) /\ Below(t.medium) -> "medium"
      [] ~Below(t.low) /\ ~Below(t.medium) /\ Below(t.high) -> "high"
      [] OTHER -> "critical"

Verdict(r) ==
    LET s == scoring[r]
        config == Content[s.policy].config
        rules == RuleScore(Content[s.policy].rules, Features(s.seen, s.at, PrintOf(r)))
    IN  LevelOf(Combined(Weights(config), rules, s.ml), Thresholds(config))

-----------------------------------------------------------------------------
(* MUTANTS.                                                                *)

(* The current policy is deactivated in a transaction of its own.          *)
ActivateBeginCommitted(w, p) ==
    /\ activating[w] = NoActivation
    /\ ~HasProblems(p)
    /\ activating' = [activating EXCEPT ![w] = [policy |-> p, others |-> active \ {p}]]
    /\ active' = active \cap {p}
    /\ UNCHANGED <<stored, scoring, inflight, inference>>

-----------------------------------------------------------------------------
(* process_attempt up to its await.  Without an active policy it ends at   *)
(* once, with level low.                                                   *)
Begin(r, at, again) ==
    /\ scoring' = [scoring EXCEPT ![r] =
         [NotScored EXCEPT !.pc = IF active = {} THEN "done" ELSE "asking",
                           !.policy = IF active = {} THEN None
                                      ELSE CHOOSE p \in active : TRUE,
                           !.at = at,
                           !.seen = stored',
                           !.again = again]]
    /\ inflight' = IF active = {} THEN inflight ELSE inflight \cup {r}
    /\ UNCHANGED <<active, activating, inference>>

(* pre_token_check, of which Core awaits the answer, for a while, before   *)
(* it sends the event (a request that is taken up later still is left      *)
(* out); receive_login_event, which stores the login; and                  *)
(* rescore_failed_attempts.                                                *)
Gate ==
    /\ scoring["gate"].pc = "none" /\ scoring["event"].pc = "none"
    /\ UNCHANGED stored
    /\ \E at \in GateTimes : Begin("gate", at, FALSE)
Deliver ==
    /\ scoring["event"].pc = "none"
    /\ stored' = stored \cup {Login}
    /\ Begin("event", Login.at, FALSE)
Rescore ==
    /\ scoring["event"].pc = "failed"
    /\ UNCHANGED stored
    /\ Begin("event", Login.at, TRUE)

(* Another login of the user is stored.                                    *)
Store(l) ==
    /\ stored' = stored \cup {l}
    /\ UNCHANGED <<active, activating, scoring, inflight, inference>>

(* call_ml_service: the ML service handles the request, and its answer     *)
(* reaches the scoring that waits for it.                                  *)
RequestIdShared(r) == "event"        \* MUTANT: one id for both
RequestId(r) == r
Answered(r, answer) ==
    /\ r \in inflight
    /\ inflight' = inflight \ {r}
    /\ scoring' = IF scoring[r].pc = "asking"
                  THEN [scoring EXCEPT ![r].pc = "answered", ![r].ml = answer]
                  ELSE scoring
    /\ UNCHANGED <<active, activating, stored>>
MlScores(r, score) ==
    /\ inference[RequestId(r)] = "none"
    /\ inference' = [inference EXCEPT ![RequestId(r)] = "ready"]
    /\ Answered(r, [status |-> "success", score |-> score])

(* It has nothing to load, or its artifact raises, and it logs that; or it *)
(* has a row of the request already, and cannot log another.               *)
MlRefuses(r) ==
    /\ inference' = [inference EXCEPT ![RequestId(r)] = IF @ = "none" THEN "error" ELSE @]
    /\ Answered(r, Silent("error"))

(* A timeout or a lost connection: the request may still be handled.       *)
MlTimesOut(r) ==
    /\ scoring[r].pc = "asking"
    /\ scoring' = [scoring EXCEPT ![r].pc = "answered", ![r].ml = Silent("unavailable")]
    /\ UNCHANGED <<active, activating, stored, inflight, inference>>
MlIsNotReached(r) ==
    /\ r \in inflight /\ scoring[r].pc # "asking"
    /\ inflight' = inflight \ {r}
    /\ UNCHANGED <<active, activating, stored, scoring, inference>>

(* process_attempt after its await, or an exception in it.                 *)
Finish(r) ==
    /\ scoring[r].pc = "answered"
    /\ scoring' = [scoring EXCEPT ![r].pc = "done", ![r].level = Verdict(r)]
    /\ UNCHANGED <<active, activating, stored, inflight, inference>>
Fail(r) ==
    /\ scoring[r].pc = "answered" /\ r \notin inflight
    /\ scoring' = [scoring EXCEPT ![r] = [NotScored EXCEPT !.pc = "failed"]]
    /\ UNCHANGED <<active, activating, stored, inflight, inference>>

(* activate_policy locks the row of its target and reads the others ...    *)
ActivateBegin(w, p) ==
    /\ activating[w] = NoActivation
    /\ \A v \in Workers : activating[v].policy # p
    /\ ~HasProblems(p)
    /\ activating' = [activating EXCEPT ![w] = [policy |-> p, others |-> active \ {p}]]
    /\ UNCHANGED <<active, stored, scoring, inflight, inference>>

(* ... and deactivates them and activates the target.  The unique index    *)
(* refuses it when a policy it has not read is active by now.              *)
ActivateCommit(w) ==
    LET a == activating[w] IN
    /\ a # NoActivation
    /\ \A v \in Workers \ {w} : activating[v].policy \notin a.others
    /\ activating' = [activating EXCEPT ![w] = NoActivation]
    /\ active' = IF active \subseteq a.others \cup {a.policy} THEN {a.policy} ELSE active
    /\ UNCHANGED <<stored, scoring, inflight, inference>>

Next ==
    \/ Gate \/ Deliver \/ Rescore
    \/ \E l \in Past : Store(l)
    \/ \E r \in Requests, score \in Scores : MlScores(r, score)
    \/ \E r \in Requests : MlRefuses(r) \/ MlTimesOut(r) \/ MlIsNotReached(r)
    \/ \E r \in Requests : Finish(r) \/ Fail(r)
    \/ \E w \in Workers, p \in Policies : ActivateBegin(w, p)
    \/ \E w \in Workers : ActivateCommit(w)

Spec == Init /\ [][Next]_vars

-----------------------------------------------------------------------------
(* Whatever the history, the features are what the ML service's strict     *)
(* model (LoginFeatures) takes: it refuses no scoring for its features.    *)
FeaturesMeetTheContract ==
    \A r \in inflight :
        LET f == Features(scoring[r].seen, scoring[r].at, PrintOf(r)) IN
        /\ f.hour_of_day \in 0..23
        /\ f.fail_count_24h >= 0 /\ f.average_login_interval_seconds >= 0
        /\ {f.ip_change_rate_7d, f.deviation_score} \subseteq 0..100

(* What the gate and the event can see differently, but for the policy and *)
(* the answer: g and e are their scorings.                                 *)
Earlier(g, e) == Min({g.at, e.at})
Later(g, e) == Max({g.at, e.at})
SameHistory(g, e) ==            \* no other login of that time came in between
    Before(g.seen, Later(g, e)) = Before(e.seen \ {Login}, Later(g, e))
NoEdgePassed(g, e) ==           \* none entered or left a window in between
    \A h \in g.seen, hours \in {0, 24, 7 * 24, 30 * 24} :
        ~(Earlier(g, e) <= h.at + hours * Hour /\ h.at + hours * Hour < Later(g, e))
SameHour(g, e) == g.at \div Hour = e.at \div Hour
SameDevice(g) ==                \* the agent says of the device what the print does
    KnownAgent(g.seen, g.at) <=> KnownPrint(g.seen, g.at, Login.print)
NoRhythm(recent) == Count(recent) < 2 \/ Span(recent) = 0
LongSince(recent, at) ==        \* twice the mean gap, or more
    (at - Last(recent)) * (Count(recent) - 1) >= 2 * Span(recent)
SameRhythm(g, e) ==
    LET recent == Recent(g.seen, g.at) IN
    \/ g.at = e.at
    \/ NoRhythm(recent)
    \/ LongSince(recent, Earlier(g, e))

(* The gate judges a login as its event will be judged, although the event *)
(* stores the login first and carries another time and a fingerprint:      *)
(* under one policy and one answer of the ML service, the levels differ    *)
(* for no cause but these.  Another login of the user was stored in        *)
(* between; an earlier one left a window, or the hour turned, between the  *)
(* two times; the user agent was known and the fingerprint not, or the     *)
(* other way around; or the user was expected about then, and each tick    *)
(* counts.                                                                 *)
GateAgreesWithEvent ==
    LET g == scoring["gate"]
        e == scoring["event"]
    IN  /\ g.pc = "done" /\ e.pc = "done"
        /\ g.policy = e.policy /\ g.ml = e.ml
        /\ SameHistory(g, e) /\ NoEdgePassed(g, e) /\ SameHour(g, e)
        /\ SameDevice(g) /\ SameRhythm(g, e)
        => g.level = e.level

(* The ML service, its database at hand and the secret right, answers a    *)
(* scoring with an error only when it has no artifact that scores, and a   *)
(* row says so, or when the login was scored before: then the row of the   *)
(* first scoring makes it refuse the second.                               *)
ErrorHasACause ==
    \A r \in Requests :
        scoring[r].pc \in {"answered", "done"} /\ scoring[r].ml.status = "error" =>
            inference[r] = "error" \/ scoring[r].again

(* Once a policy is active one always is, and never two, however           *)
(* activations overlap: no login goes unscored for want of a policy.       *)
OnePolicyStaysActive ==
    [][active # {} => \E p \in Policies : active' = {p}]_vars

(* What the scorings and the ML service know of each other: the event's *)
(* has the event's time; a scoring has a policy while it waits, ends with  *)
(* the verdict of what it began with, and finds no row of its id at the ML *)
(* service unless it was scored before.                                    *)
PolicyIsChosen ==
    \A r \in Requests :
        scoring[r].pc \in {"asking", "answered"} => scoring[r].policy \in Policies
LevelIsVerdict ==
    \A r \in Requests :
        scoring[r].pc = "done" =>
            scoring[r].level = IF scoring[r].policy = None THEN "low" ELSE Verdict(r)
FirstTimeUnlogged ==
    \A r \in Requests :
        /\ scoring[r].pc = "none" => r \notin inflight
        /\ \/ scoring[r].pc = "none"
           \/ scoring[r].pc = "asking" /\ ~scoring[r].again /\ r \in inflight
           => inference[r] = "none"
EventKeepsItsTime == scoring["event"].at = Login.at
IndInv == /\ TypeOK /\ EventKeepsItsTime /\ PolicyIsChosen /\ LevelIsVerdict
          /\ FirstTimeUnlogged /\ ErrorHasACause
=============================================================================
