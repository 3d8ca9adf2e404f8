------------------------------ MODULE Analytics ------------------------------
(***************************************************************************)
(* What the analytics of the Manager are computed from and how: the window *)
(* and its buckets (three copies in the code: app/manager.py,              *)
(* app/core_analytics.py, app/detection_analytics.py), the sections that   *)
(* Core and Detection count over their tables, and the blocks that the     *)
(* facade makes of them.  All of it is read-only: these are operators.     *)
(*                                                                         *)
(* ABSTRACTED.  An instant is a number of ticks.  A table is a set of      *)
(* records with an identifier.  A mean is <<sum, number>> and a rate       *)
(* <<numerator, denominator>>, unrounded; None is null.  Labels, texts and *)
(* the JSON that carries a payload are left out, and so are conversions    *)
(* between the two database dialects.                                      *)
(***************************************************************************)
EXTENDS Integers, FiniteSets, FiniteSetsExt

CONSTANTS
    Hour, Day,      \* in ticks
    Limit,          \* each copy's limits: [span, hourSpan, auto, buckets]
    MaxRows,        \* rows in a feed: 10 incidents, 10 audit rows
    None

Granularities == {"hour", "day"}

(* span: 366 days; hourSpan: 31 days, the longest window with hour buckets;*)
(* auto: 72 hours, the longest that gets hours unasked; buckets: 400 hours *)
(* or 366 days.  The code writes them three times.  What is proved needs   *)
(* no more than that no source is stricter than the facade.                *)
ASSUME LimitAssumption ==
    \A s \in {"core", "detection"} :
        /\ Limit["facade"].span <= Limit[s].span
        /\ Limit["facade"].hourSpan <= Limit[s].hourSpan
        /\ \A b \in Granularities : Limit["facade"].buckets[b] <= Limit[s].buckets[b]
ASSUME NumbersAssumption ==
    /\ Hour \in Nat \ {0} /\ Day \in Nat \ {0}
    /\ None \notin Int \cup Granularities
    /\ \A s \in {"facade", "core", "detection"} :
         /\ Limit[s].span \in Int /\ Limit[s].hourSpan \in Int
         /\ \A b \in Granularities : Limit[s].buckets[b] \in Int

-----------------------------------------------------------------------------
(* WINDOWS AND BUCKETS                                                     *)

Step(bucket) == IF bucket = "hour" THEN Hour ELSE Day
Floor(t, bucket) == t - (t % Step(bucket))

(* MUTANT: the grid begins at the window's first instant.                  *)
GridUnfloored(start, end, bucket) ==
    {b \in start..(end - 1) : (b - start) % Step(bucket) = 0}

(* bucket_starts: the first bucket may begin before the window.            *)
Grid(start, end, bucket) ==
    {b \in Floor(start, bucket)..(end - 1) : b % Step(bucket) = 0}

Refused == [from |-> 0, to |-> 0, bucket |-> "refused"]

(* bucket=auto, and an omitted bucket.                                     *)
ChosenBucket(span, bucket, auto) ==
    IF bucket \notin {None, "auto"} THEN bucket
    ELSE IF span > auto THEN "day" ELSE "hour"

Start(from, end, default) == IF from = None THEN end - default ELSE from
End(to, now) == IF to = None THEN now ELSE to

(* _bucket_count of the facade, which makes no list of them.               *)
BucketCountUnfloored(start, end, bucket) ==    \* MUTANT: start is not floored
    (end - start + Step(bucket) - 1) \div Step(bucket)
BucketCount(start, end, bucket) ==
    (end - Floor(start, bucket) + Step(bucket) - 1) \div Step(bucket)

(* resolve_window of the facade; every refusal is a 400.                   *)
FacadeWindow(from, to, bucket, default, now) ==
    LET end == End(to, now)
        start == Start(from, end, default)
        limit == Limit["facade"]
        chosen == ChosenBucket(end - start, bucket, limit.auto)
    IN IF /\ start < end /\ end - start <= limit.span /\ chosen \in Granularities
          /\ chosen = "hour" => end - start <= limit.hourSpan
          /\ BucketCount(start, end, chosen) <= limit.buckets[chosen]
       THEN [from |-> start, to |-> end, bucket |-> chosen] ELSE Refused

(* _resolve_window of Core and of Detection, whose default is a day: they  *)
(* resolve what they are sent, at a later time, and count a list.          *)
CoreWindow(sent, now) ==
    LET end == End(sent.to, now)
        start == Start(sent.from, end, Day)
        limit == Limit["core"]
        chosen == ChosenBucket(end - start, sent.bucket, limit.auto)
    IN IF /\ start < end /\ end - start <= limit.span /\ chosen \in Granularities
          /\ chosen = "hour" => end - start <= limit.hourSpan
          /\ Cardinality(Grid(start, end, chosen)) <= limit.buckets[chosen]
       THEN [from |-> start, to |-> end, bucket |-> chosen] ELSE Refused
DetectionWindow(sent, now) ==
    LET end == End(sent.to, now)
        start == Start(sent.from, end, Day)
        limit == Limit["detection"]
        chosen == ChosenBucket(end - start, sent.bucket, limit.auto)
    IN IF /\ start < end /\ end - start <= limit.span /\ chosen \in Granularities
          /\ chosen = "hour" => end - start <= limit.hourSpan
          /\ Cardinality(Grid(start, end, chosen)) <= limit.buckets[chosen]
       THEN [from |-> start, to |-> end, bucket |-> chosen] ELSE Refused

(* validate_filter: an alert's status and risk level, or neither.          *)
ValidFilter(f, statuses, levels) ==
    f.status \in statuses \cup {None} /\ f.level \in levels \cup {None}
FacadeStatuses == {"open", "acknowledged", "resolved", "false_positive"}
FacadeLevels == {"low", "medium", "high", "critical"}

-----------------------------------------------------------------------------
(* COUNTING                                                                *)

(* The rows of the half-open window.                                       *)
During(rows, field, w) ==
    {r \in rows : r[field] # None /\ w.from <= r[field] /\ r[field] < w.to}

(* _conditional_counts, _grouped_counts: zero-filled over a vocabulary.    *)
CountBy(rows, field, vocabulary) ==
    [v \in vocabulary |-> Cardinality({r \in rows : r[field] = v})]

(* The rows of each bucket of the window.                                  *)
Buckets(rows, field, w) ==
    [b \in Grid(w.from, w.to, w.bucket) |->
        {r \in During(rows, field, w) : Floor(r[field], w.bucket) = b}]

Total(counts) == MapThenSumSet(LAMBDA k : counts[k], DOMAIN counts)

(* A mean or a rate over nothing is null, never 0.                         *)
Mean(value) ==
    IF DOMAIN value = {} THEN None
    ELSE <<Total(value), Cardinality(DOMAIN value)>>

(* What the schema promises of a table that is reported: its rows have a   *)
(* time, and a column that a CHECK constrains is in its vocabulary.        *)
IsTable(rows) == IsFiniteSet(rows) /\ \A r \in rows : r.at \in Int
Within(rows, field, vocabulary) == \A r \in rows : r[field] \in vocabulary

(* _safe_ratio.                                                            *)
Ratio(n, d) == IF d = 0 THEN None ELSE <<n, d>>

(* ORDER BY key LIMIT MaxRows.  The database picks among the rows that tie *)
(* for the last place; here they are all in.                               *)
First(rows, before) ==
    {r \in rows : Cardinality({q \in rows : <<q, r>> \in before}) < MaxRows}

-----------------------------------------------------------------------------
(* CORE (app/core_analytics.py)                                            *)

UserStatuses == {"active", "suspended", "locked"}
MfaStatuses == {"pending", "completed", "expired", "failed"}
ActorTypes == {"user", "system"}

CoreRows(db) ==
    /\ IsTable(db.users) /\ IsTable(db.sessions) /\ IsTable(db.mfa) /\ IsTable(db.audit)
    /\ Within(db.users, "status", UserStatuses) /\ Within(db.mfa, "status", MfaStatuses)
    /\ Within(db.audit, "actor", ActorTypes)

(* Point-in-time, but for new_in_window.                                   *)
UsersSection(db, w) ==
    [total |-> Cardinality(db.users),
     by_status |-> CountBy(db.users, "status", UserStatuses),
     mfa_required |-> Cardinality({u \in db.users : u.mfa_required}),
     forced_mfa |-> Cardinality({u \in db.users : u.mfa_once}),
     with_failed_logins |-> Cardinality({u \in db.users : u.failed > 0}),
     new_in_window |-> Cardinality(During(db.users, "at", w))]

SessionsSection(db, w, now) ==
    [active |-> Cardinality({s \in db.sessions : s.revoked = None /\ s.expires > now}),
     created_in_window |-> Cardinality(During(db.sessions, "at", w)),
     revoked_in_window |-> Cardinality(During(db.sessions, "revoked", w))]

MfaSection(db, w) ==
    [challenges |-> Cardinality(During(db.mfa, "at", w)),
     by_status |-> CountBy(During(db.mfa, "at", w), "status", MfaStatuses)]

(* by_action is counted once and stands in both audit sections; the feed   *)
(* has the newest rows.                                                    *)
AuditSections(db, w) ==
    LET rows == During(db.audit, "at", w) IN
    [total |-> Cardinality(rows),
     by_action |-> CountBy(rows, "action", {r.action : r \in rows}),
     by_actor_type |-> CountBy(rows, "actor", ActorTypes),
     recent |-> First(rows, {p \in rows \X rows : p[1].at > p[2].at})]

ProtectiveSection(db, w) ==
    LET rows == {r \in During(db.audit, "at", w) : r.protective} IN
    [total |-> Cardinality(rows),
     by_action |-> CountBy(rows, "action", {r.action : r \in rows})]

CoreSeries(db, w) ==
    LET size(rows) == [b \in DOMAIN rows |-> Cardinality(rows[b])] IN
    [logins |-> size(Buckets(db.sessions, "at", w)),
     mfa_challenges |-> size(Buckets(db.mfa, "at", w)),
     audit_events |-> size(Buckets(db.audit, "at", w))]

(* core_analytics.                                                         *)
CorePayload(db, w, now) ==
    [users |-> UsersSection(db, w), sessions |-> SessionsSection(db, w, now),
     mfa |-> MfaSection(db, w), audit |-> AuditSections(db, w),
     protective_actions |-> ProtectiveSection(db, w), series |-> CoreSeries(db, w)]

-----------------------------------------------------------------------------
(* DETECTION (app/detection_analytics.py)                                  *)

AlertStatuses == {"open", "acknowledged", "resolved", "false_positive"}
RiskLevels == {"low", "medium", "high", "critical"}
Outcomes == {"success", "failure", "mfa_required", "mfa_success",
             "mfa_failed", "blocked", "locked", "rate_limited"}
Decisions == {"allow", "challenge", "block"}

DetectionRows(db) ==
    /\ IsTable(db.attempts) /\ IsTable(db.assessments) /\ IsTable(db.alerts)
    /\ IsTable(db.logs)
    /\ Within(db.attempts, "outcome", Outcomes)
    /\ Within(db.alerts, "status", AlertStatuses)

(* The assessments of the attempts: at most one each (outer join).         *)
Assessed(db, attempts) == {a \in db.assessments : a.id \in {x.id : x \in attempts}}
MeanScore(db, attempts) == Mean([a \in Assessed(db, attempts) |-> a.score])

AttemptsSection(db, w) ==
    LET rows == During(db.attempts, "at", w) IN
    [total |-> Cardinality(rows),
     by_outcome |-> CountBy(rows, "outcome", Outcomes),
     by_risk_level |-> CountBy(rows, "level", RiskLevels),
     by_decision |-> CountBy(rows, "decision", Decisions),
     avg_combined_score |-> MeanScore(db, rows)]

(* Whatever is not a success is a fallback, a null status too.             *)
AssessmentsSection(db, w) ==
    LET rows == During(db.assessments, "at", w)
        counts == CountBy(rows, "ml", {"success", "unavailable", "error"})
        total == Cardinality(rows)
    IN [total |-> total, ml_success |-> counts["success"],
        ml_unavailable |-> counts["unavailable"], ml_error |-> counts["error"],
        fallback_rate |-> Ratio(total - counts["success"], total)]

(* _alert_conditions: created in the window, and the two filters.          *)
Population(db, w, f) ==
    {a \in During(db.alerts, "at", w) :
        /\ f.status # None => a.status = f.status
        /\ f.level # None => a.level = f.level}

(* The alerts that have an event of that type before the window's end, and *)
(* when the first one was.                                                 *)
EventsOf(db, a, type, w) ==
    {e \in db.events : e.alert = a.id /\ e.type = type /\ e.at < w.to}
WithEvent(db, alerts, type, w) == {a \in alerts : EventsOf(db, a, type, w) # {}}
FirstEvent(db, a, type, w) == Min({e.at : e \in EventsOf(db, a, type, w)})

(* One row for each time that a name occurs in the structured scores.      *)
Breakdown(alerts, field) ==
    LET names == UNION {a[field] : a \in alerts} IN
    [n \in names |-> Cardinality({a \in alerts : n \in a[field]})]

(* critical_open is the backlog now: neither the window nor a filter.      *)
AlertsSection(db, w, f, now) ==
    LET rows == Population(db, w, f)
        acked == WithEvent(db, rows, "acknowledged", w)
        resolved == During({a \in rows : a.status = "resolved"}, "resolved", w)
        open == {a \in rows : a.status = "open"}
        by_status == CountBy(rows, "status", AlertStatuses)
    IN [created |-> Cardinality(rows), by_status |-> by_status,
        by_risk_level |-> CountBy(rows, "level", RiskLevels),
        by_rule |-> Breakdown(rows, "rules"),
        by_ml_reason |-> Breakdown(rows, "reasons"),
        acknowledged_count |-> Cardinality(acked),
        resolved_count |-> by_status["resolved"],
        false_positive_count |-> by_status["false_positive"],
        mttr_population |-> Cardinality(resolved),
        escalated_count |-> Cardinality(WithEvent(db, rows, "escalated", w)),
        unassigned_open |-> Cardinality({a \in open : a.analyst = None}),
        critical_open |-> Cardinality({a \in db.alerts : a.status = "open"
                                                         /\ a.level = "critical"}),
        mtta |-> Mean([a \in acked |-> FirstEvent(db, a, "acknowledged", w) - a.at]),
        mttr |-> Mean([a \in resolved |-> a.resolved - a.at]),
        oldest_open_age |-> IF open = {} THEN None ELSE now - Min({a.at : a \in open})]

(* Every attempt to enforce leaves a row, and so does a verdict that asks  *)
(* for nothing.                                                            *)
EnforcementSection(db, w) ==
    LET rows == During({l \in db.logs : l.stage = "action_sent"}, "at", w)
        done == {l \in rows : l.enforced}
    IN [attempted |-> Cardinality(rows), succeeded |-> Cardinality(done),
        success_rate |-> Ratio(Cardinality(done), Cardinality(rows))]

(* The backlog: the most severe first, then the oldest.                    *)
CriticalIncidents(db) ==
    LET rows == {a \in db.alerts : a.level \in {"high", "critical"}
                                   /\ a.status \in {"open", "acknowledged"}}
        Before(q, r) == \/ q.level = "critical" /\ r.level # "critical"
                        \/ q.level = r.level /\ q.at < r.at
    IN First(rows, {p \in rows \X rows : Before(p[1], p[2])})

ActivePolicies(db) == {p \in db.policies : p.active}

DetectionSeries(db, w, f) ==
    LET attempts == Buckets(db.attempts, "at", w)
        alerts == Buckets(Population(db, w, f), "at", w)
        row(b) == [login_attempts |-> Cardinality(attempts[b]),
                   by_outcome |-> CountBy(attempts[b], "outcome", Outcomes),
                   by_risk_level |-> CountBy(attempts[b], "level", RiskLevels),
                   avg_combined_score |-> MeanScore(db, attempts[b]),
                   alerts_created |-> Cardinality(alerts[b]),
                   alerts_by_status |-> CountBy(alerts[b], "status", AlertStatuses)]
    IN [b \in Grid(w.from, w.to, w.bucket) |-> row(b)]

(* detection_analytics.                                                    *)
DetectionPayload(db, w, f, now) ==
    [login_attempts |-> AttemptsSection(db, w),
     risk_assessments |-> AssessmentsSection(db, w),
     alerts |-> AlertsSection(db, w, f, now),
     analysts |-> [active |-> Cardinality({a \in db.analysts : a.active})],
     critical_incidents |-> CriticalIncidents(db),
     enforcement |-> EnforcementSection(db, w),
     series |-> DetectionSeries(db, w, f),
     policy |-> ActivePolicies(db)]

-----------------------------------------------------------------------------
(* THE FACADE'S BLOCKS (app/manager.py)                                    *)

DashboardCore(p) ==
    [total_users |-> p.users.total, users_by_status |-> p.users.by_status,
     users_with_mfa_required |-> p.users.mfa_required,
     users_under_forced_mfa |-> p.users.forced_mfa,
     users_with_failed_logins |-> p.users.with_failed_logins,
     new_users |-> p.users.new_in_window,
     active_sessions |-> p.sessions.active,
     sessions_created |-> p.sessions.created_in_window,
     sessions_revoked |-> p.sessions.revoked_in_window,
     mfa_challenges |-> p.mfa.challenges,
     mfa_completed |-> p.mfa.by_status["completed"],
     mfa_failed |-> p.mfa.by_status["failed"],
     audit_events |-> p.audit.total, audit_activity |-> p.audit]

MlFallback(p) ==
    [assessments |-> p.risk_assessments.total,
     fallback |-> Max({0, p.risk_assessments.total - p.risk_assessments.ml_success}),
     fallback_rate |-> p.risk_assessments.fallback_rate]

Enforcement(p) ==
    [attempted |-> p.enforcement.attempted, succeeded |-> p.enforcement.succeeded,
     success_rate |-> Ratio(p.enforcement.succeeded, p.enforcement.attempted)]

DashboardDetection(p) ==
    [login_attempts |-> p.login_attempts.total,
     by_outcome |-> p.login_attempts.by_outcome,
     by_risk_level |-> p.login_attempts.by_risk_level,
     by_decision |-> p.login_attempts.by_decision,
     avg_combined_score |-> p.login_attempts.avg_combined_score,
     alerts |-> [total |-> p.alerts.created, by_status |-> p.alerts.by_status,
                 critical_open |-> p.alerts.critical_open],
     critical_incidents |-> p.critical_incidents,
     enforcement |-> Enforcement(p), ml_fallback |-> MlFallback(p),
     policy |-> p.policy]

(* /manager/alerts.                                                        *)
AlertStatistics(p) ==
    LET a == p.alerts IN
    [created |-> a.created, by_status |-> a.by_status, by_risk_level |-> a.by_risk_level,
     by_rule |-> a.by_rule, by_ml_reason |-> a.by_ml_reason,
     backlog |-> [open_count |-> a.by_status["open"], oldest |-> a.oldest_open_age,
                  unassigned |-> a.unassigned_open, escalated |-> a.escalated_count],
     false_positive_rate |-> Ratio(a.false_positive_count,
                                   a.resolved_count + a.false_positive_count),
     mtta |-> a.mtta, mttr |-> a.mttr]

DetectionKpis(p) ==
    LET a == p.alerts
        closed == a.resolved_count + a.false_positive_count
    IN [mtta |-> a.mtta, mttr |-> a.mttr,
        acknowledgement_rate |-> Ratio(a.acknowledged_count, a.created),
        resolution_rate |-> Ratio(closed, a.created),
        false_positive_rate |-> Ratio(a.false_positive_count, closed),
        escalation_rate |-> Ratio(a.escalated_count, a.created),
        alerts_per_analyst |-> Ratio(a.created, p.analysts.active),
        enforcement |-> Enforcement(p), ml_fallback |-> MlFallback(p)]

CoreKpis(p) ==
    [mfa_enrollment_rate |-> Ratio(p.users.mfa_required, p.users.total),
     forced_mfa_users |-> p.users.forced_mfa, audit_events |-> p.audit.total]
=============================================================================
