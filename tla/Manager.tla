------------------------------- MODULE Manager -------------------------------
(***************************************************************************)
(* The Manager facade (app/manager.py, app/manager_client.py) over its     *)
(* three sources: Core and Detection, asked over HTTP with a three-second  *)
(* timeout, and the ML database, read in a worker thread.                  *)
(*                                                                         *)
(* GRANULARITY.  One process serves the facade and its sources on one      *)
(* event loop.  Core's and Detection's handlers do not await: each counts  *)
(* all of its sections in one step.  The thread's statements are steps     *)
(* between which the loop logs inferences (READ COMMITTED), and its last   *)
(* act is a call of get_ml_runtime.                                        *)
(*                                                                         *)
(* THE POOL.  Authorising a request takes a connection of Core's pool,     *)
(* which is held until the answer.  Core's analytics need another one; if  *)
(* the requests in progress hold all fifteen, the checkout waits inside    *)
(* the loop, which then runs nothing else until the pool's timeout (thirty *)
(* seconds).  Requests other than those of Clients hold any number.        *)
(*                                                                         *)
(* ABSTRACTED.  A manager is authorised: others are refused before the     *)
(* facade begins.  The tables of Core and Detection do not change during a *)
(* run: their handlers are atomic, so what matters is which rows there are.*)
(***************************************************************************)
EXTENDS Analytics, MlService, Sequences

CONSTANTS
    Clients,        \* managers, each with one request at a time
    Questions,      \* what each may ask: endpoint, from, to, bucket, filter
    Reasons,        \* how a fetch may fail by itself
    Delay,          \* the ticks, at most, until a source resolves its window
    CoreTables, DetectionTables     \* the contents of the two databases

ASSUME ClientsAssumption == Callers = Clients \cup {Loop} /\ Loop \notin Clients
ASSUME QuestionsAssumption ==
    /\ Now \in Int /\ Delay \in Nat
    /\ \A c \in Clients : \A q \in Questions[c] : {q.from, q.to} \subseteq Int \cup {None}
(* A 400 is the answer of a source that was reached.                       *)
ASSUME ReasonsAssumption == Reasons \cap {"ok", "pending", "http_400"} = {}
ASSUME TablesAssumption ==
    /\ \A db \in CoreTables : CoreRows(db)
    /\ \A db \in DetectionTables : DetectionRows(db)
(* model_versions.version is unique.                                       *)
ASSUME RegistryAssumption ==
    /\ IsFiniteSet(Models) /\ Nothing \notin Models
    /\ \A m, n \in Models : VersionOf[m] = VersionOf[n] => m = n

VARIABLES
    core, detection,
    req,            \* the request of each client
    stalled         \* the client whose Core fetch waits for the pool, or None

vars == <<mlVars, core, detection, req, stalled>>

Sources == {"core", "detection", "ml"}
Services == {"core", "detection"}       \* those that are asked over HTTP

(* What each endpoint consumes, and its default window.                    *)
Consumes(e) ==
    CASE e = "dashboard" -> Sources
      [] e = "trends" -> {"detection", "ml"}
      [] e = "alerts" -> {"detection"}
      [] e = "soc-kpi" -> {"core", "detection"}
      [] e = "ml-stats" -> {"ml"}
Default(e) ==
    CASE e = "dashboard" -> Day
      [] e = "trends" -> 14 * Day
      [] OTHER -> 30 * Day

NoFilter == [status |-> None, level |-> None]
FilterOf(q) == IF q.endpoint = "alerts" THEN q.filter ELSE NoFilter
BucketOf(q) == IF q.endpoint = "trends" THEN q.bucket ELSE None

(* What a service is sent: the window as the facade resolved it.           *)
SentAsAsked(q, w) ==                    \* MUTANT: the query as it was made
    [from |-> q.from, to |-> q.to, bucket |-> BucketOf(q), filter |-> FilterOf(q)]
Sent(q, w) == [from |-> w.from, to |-> w.to, bucket |-> w.bucket, filter |-> FilterOf(q)]

NoRequest == [pc |-> "idle", question |-> None, window |-> Refused,
              source |-> [s \in Sources |-> "unused"],
              served |-> [s \in Services |-> Refused], read |-> <<>>, torn |-> FALSE]

Init ==
    /\ MlInit
    /\ core \in CoreTables /\ detection \in DetectionTables
    /\ req = [c \in Clients |-> NoRequest]
    /\ stalled = None

Pending(c, s) == req[c].pc = "waiting" /\ req[c].source[s] = "pending"
Becomes(c, s, what) == req' = [req EXCEPT ![c].source[s] = what]
Elsewhere == UNCHANGED <<core, detection>>

-----------------------------------------------------------------------------
(* THE SOURCES                                                             *)

(* A request is authorised and its window resolved; it then fetches from   *)
(* every source it consumes at once (_gather_sources).                     *)
Ask(c, q) ==
    LET w == FacadeWindow(q.from, q.to, BucketOf(q), Default(q.endpoint), Now) IN
    /\ stalled = None /\ req[c].pc = "idle"
    /\ w # Refused                                         \* else a 400
    /\ ValidFilter(FilterOf(q), FacadeStatuses, FacadeLevels)     \* else a 400
    /\ req' = [req EXCEPT ![c] = [pc |-> "waiting", question |-> q, window |-> w,
         source |-> [s \in Sources |-> IF s \in Consumes(q.endpoint)
                                       THEN "pending" ELSE "unused"],
         served |-> [s \in Services |-> Refused], read |-> <<>>, torn |-> FALSE]]
    /\ UNCHANGED <<mlVars, stalled>> /\ Elsewhere

(* A service answers for the window that it resolved, or with a 400.       *)
Serves(c, s, w) ==
    IF w = Refused THEN Becomes(c, s, "http_400")
    ELSE req' = [req EXCEPT ![c].source[s] = "ok", ![c].served[s] = w]

(* Detection answers.                                                      *)
ServeDetection(c) ==
    LET sent == Sent(req[c].question, req[c].window) IN
    /\ stalled = None /\ Pending(c, "detection")
    /\ \E later \in Now..(Now + Delay) :
         Serves(c, "detection", IF ValidFilter(sent.filter, AlertStatuses, RiskLevels)
                                THEN DetectionWindow(sent, later) ELSE Refused)
    /\ UNCHANGED <<mlVars, stalled>> /\ Elsewhere

(* Core answers, if the pool has a connection left; if not, the loop stops.*)
ServeCore(c) ==
    /\ stalled = None /\ Pending(c, "core")
    /\ \/ /\ \E later \in Now..(Now + Delay) :
               Serves(c, "core", CoreWindow(Sent(req[c].question, req[c].window), later))
          /\ UNCHANGED stalled
       \/ stalled' = c /\ UNCHANGED req
    /\ UNCHANGED mlVars /\ Elsewhere

(* MUTANT: a checkout that gives up is tried again.                        *)
PoolTriesAgain ==
    /\ stalled # None
    /\ stalled' = None
    /\ UNCHANGED <<mlVars, req>> /\ Elsewhere

(* The checkout gives up: a 500 of Core, unless the fetch has timed out.   *)
PoolGivesUp ==
    /\ stalled # None
    /\ \E reason \in {"http_500", "timeout"} : Becomes(stalled, "core", reason)
    /\ stalled' = None
    /\ UNCHANGED mlVars /\ Elsewhere

(* fetch_internal_json and _validate_payload map every failure to a reason.*)
FetchFails(c, s) ==
    /\ stalled = None /\ s \in {"core", "detection"} /\ Pending(c, s)
    /\ \E reason \in Reasons : Becomes(c, s, reason)
    /\ UNCHANGED <<mlVars, stalled>> /\ Elsewhere

-----------------------------------------------------------------------------
(* THE ML READ, in the thread of its request                               *)

MlBucket(rows) ==
    [total |-> Cardinality(rows),
     anomalies |-> Cardinality({r \in rows : r.anomaly}),
     successful |-> Cardinality({r \in rows : r.status = "ready"}),
     errors |-> Cardinality({r \in rows : r.status = "error"}),
     degraded |-> Cardinality({r \in rows : r.status = "degraded"})]
MlSeries(w) == [b \in Grid(w.from, w.to, w.bucket) |->
                   MlBucket(Buckets(inference, "at", w)[b])]
MlDaily(w) == MlSeries([w EXCEPT !.bucket = "day"])
MlStats(w) == LET b == MlBucket(During(inference, "at", w)) IN
    [total |-> b.total, anomalies |-> b.anomalies, errors |-> b.errors,
     anomaly_rate |-> Ratio(b.anomalies, b.total)]
MlByStatus(w) ==
    CountBy(During(inference, "at", w), "status", {"ready", "degraded", "error"})
MlReasonCodes(w) == Breakdown(During(inference, "at", w), "reasons")

(* An inference counts for the registry row that it points to; one without *)
(* for the row of its version, if there is one.                            *)
MlVersions(w) ==
    LET rows == During(inference, "at", w) IN
    [m \in Models |-> Cardinality({r \in rows : r.model = m})
                      + Cardinality({r \in rows : r.model = Nothing /\ r.version = VersionOf[m]})]

(* The sections in the order of _read_ml_source; the two that read the     *)
(* registry, and the features, which no one relates, are one.              *)
Sections == <<"daily", "series", "stats", "by_status", "reason_codes", "registry">>
Section(name, w) ==
    CASE name = "daily" -> MlDaily(w)
      [] name = "series" -> MlSeries(w)
      [] name = "stats" -> MlStats(w)
      [] name = "by_status" -> MlByStatus(w)
      [] name = "reason_codes" -> MlReasonCodes(w)
      [] name = "registry" -> [versions |-> MlVersions(w), model |-> production]

ReadSection(c) ==
    LET k == Len(req[c].read) + 1 IN
    /\ Pending(c, "ml") /\ k <= Len(Sections)
    /\ req' = [req EXCEPT ![c].read = Append(@, Section(Sections[k], req[c].window))]
    /\ UNCHANGED <<mlVars, stalled>> /\ Elsewhere

(* _ml_runtime_status: the thread is a caller of get_ml_runtime.           *)
AskRuntime(c) ==
    /\ Pending(c, "ml") /\ Len(req[c].read) = Len(Sections)
    /\ Resolve(c) \/ GetRuntime(c)
    /\ UNCHANGED <<req, stalled>> /\ Elsewhere

(* Its outcome is the runtime's status: a failure is one, too.             *)
ReadRuntime(c) ==
    LET x == caller[c] IN
    /\ x.pc \in {"using", "failed"}
    /\ req' = [req EXCEPT ![c].source["ml"] = "ok",
                          ![c].read = Append(@, IF x.pc = "failed" THEN Nothing
                                                ELSE object[x.object].version)]
    /\ Done(c)
    /\ UNCHANGED <<production, bundle, object, runtime, loadedPath, inference,
                   swaps, replaced, raced, stalled>>
    /\ Elsewhere

(* The context cannot be resolved, or a statement fails.                   *)
MlFails(c) ==
    /\ Pending(c, "ml") /\ caller[c].pc = "idle"
    /\ Becomes(c, "ml", "database_error")
    /\ UNCHANGED <<mlVars, stalled>> /\ Elsewhere

-----------------------------------------------------------------------------
(* THE ANSWER                                                              *)

Settled(c) == req[c].pc = "waiting" /\ \A s \in Sources : ~Pending(c, s)

(* The answer, which is a 503 when nothing that was consumed is ok; the    *)
(* connection goes back to the pool.                                       *)
Answer(c) ==
    /\ stalled = None /\ Settled(c)
    /\ req' = [req EXCEPT ![c] = NoRequest]
    /\ UNCHANGED <<mlVars, stalled>> /\ Elsewhere

(* What the loop does for the ML service and an operator beside it; a row  *)
(* that is logged tears the reports whose thread has begun.                *)
MlMoves ==
    /\ stalled = None /\ MlNext
    /\ req' = [c \in Clients |-> [req[c] EXCEPT !.torn =
         @ \/ (inference' # inference /\ Pending(c, "ml") /\ req[c].read # <<>>)]]
    /\ UNCHANGED stalled /\ Elsewhere

Next ==
    \/ \E c \in Clients : \E q \in Questions[c] : Ask(c, q)
    \/ \E c \in Clients :
         \/ ServeDetection(c) \/ ServeCore(c)
         \/ FetchFails(c, "core") \/ FetchFails(c, "detection")
         \/ ReadSection(c) \/ AskRuntime(c) \/ ReadRuntime(c) \/ MlFails(c)
         \/ Answer(c)
    \/ PoolGivesUp
    \/ MlMoves

(* The loop's queue of ready tasks is FIFO, threads run, and the checkout  *)
(* gives up.                                                               *)
Fairness ==
    /\ WF_vars(PoolGivesUp)
    /\ \A c \in Clients :
         /\ SF_vars(ServeDetection(c) \/ ServeCore(c) \/ Answer(c))
         /\ WF_vars(ReadSection(c) \/ AskRuntime(c) \/ ReadRuntime(c))

Spec == Init /\ [][Next]_vars /\ Fairness

-----------------------------------------------------------------------------
(* PROPERTIES                                                              *)

Answered(c, s) == Settled(c) /\ req[c].source[s] = "ok"

(* A source resolves w to itself, whenever it does.                        *)
WindowIsAccepted(w) ==
    /\ w # Refused /\ w.from \in Int /\ w.to \in Int
    /\ \A later \in Now..(Now + Delay) :
         CoreWindow(w, later) = w /\ DetectionWindow(w, later) = w

(* Core and Detection answer for the very window that the facade resolved  *)
(* and reports: none refuses it, so no question makes a source look        *)
(* unavailable, and none moves it, although each resolves it again, later, *)
(* by rules of its own: with a clock, a default, limits and a count of the *)
(* buckets of its own.  So it is for the questions that are asked, and for *)
(* every window that the facade would accept.                              *)
Moments == (0..(Now + Day)) \cup {None}
AcceptedWindows ==
    {FacadeWindow(from, to, bucket, Day, Now) :
        from \in Moments, to \in Moments, bucket \in {None, "auto", "hour", "day"}}
    \ {Refused}
AnswersAreForItsWindow(c) ==
    \A s \in Services : req[c].source[s] = "ok" => req[c].served[s] = req[c].window
ServicesAcceptThem == \A w \in AcceptedWindows : WindowIsAccepted(w)

ServicesKeepTheWindow ==
    /\ ServicesAcceptThem
    /\ \A c \in Clients :
         /\ \A s \in Services : req[c].source[s] # "http_400"
         /\ AnswersAreForItsWindow(c)

(* A rate is a fraction of its population.                                 *)
Fraction(rate) == rate = None \/ (rate[2] > 0 /\ 0 <= rate[1] /\ rate[1] <= rate[2])

SeriesTotal(series, field) == Total([b \in DOMAIN series |-> series[b][field]])

CoreAddsUp(p) ==
    LET d == DashboardCore(p) IN
    /\ Total(d.users_by_status) = d.total_users
    /\ Total(p.series.logins) = d.sessions_created
    /\ Total(p.series.mfa_challenges) = d.mfa_challenges
    /\ Total(p.series.audit_events) = d.audit_events
    /\ Total(d.audit_activity.by_action) = d.audit_events
    /\ Total(d.audit_activity.by_actor_type) = d.audit_events
    /\ Total(p.protective_actions.by_action) = p.protective_actions.total
    /\ d.mfa_completed + d.mfa_failed <= d.mfa_challenges
    /\ Fraction(CoreKpis(p).mfa_enrollment_rate)

DetectionAddsUp(p) ==
    LET d == DashboardDetection(p)
        k == DetectionKpis(p)
        a == AlertStatistics(p)
    IN /\ Total(d.by_outcome) = d.login_attempts
       /\ Total(d.by_risk_level) <= d.login_attempts
       /\ SeriesTotal(p.series, "login_attempts") = d.login_attempts
       /\ SeriesTotal(p.series, "alerts_created") = a.created
       /\ Total(a.by_status) = a.created /\ a.created = d.alerts.total
       /\ a.backlog.unassigned <= a.backlog.open_count
       /\ p.alerts.mttr_population <= p.alerts.resolved_count
       /\ d.ml_fallback.fallback = d.ml_fallback.assessments - p.risk_assessments.ml_success
       /\ \A rate \in {k.acknowledgement_rate, k.resolution_rate, k.escalation_rate,
                       a.false_positive_rate, k.enforcement.success_rate,
                       k.ml_fallback.fallback_rate} : Fraction(rate)

MlAddsUp(read) ==
    /\ SeriesTotal(read[1], "total") = read[3].total
    /\ SeriesTotal(read[2], "total") = read[3].total
    /\ Total(read[4]) = read[3].total
    /\ Total(read[6].versions) <= read[3].total
    /\ Fraction(read[3].anomaly_rate)

PayloadsAddUp ==
    \A w \in AcceptedWindows :
        /\ \A t \in CoreTables : CoreAddsUp(CorePayload(t, w, Now))
        /\ \A t \in DetectionTables : DetectionAddsUp(DetectionPayload(t, w, NoFilter, Now))

(* Every report adds up: each breakdown and each series has exactly the    *)
(* rows of its section's total, whatever the window, and a rate is null or *)
(* a fraction of a population.  An ML report may be torn, but only by an   *)
(* inference that was logged while its thread was reading.                 *)
ReportsAddUp ==
    /\ PayloadsAddUp
    /\ \A c \in Clients :
        LET r == req[c] IN
        /\ Answered(c, "core") => CoreAddsUp(CorePayload(core, r.served["core"], Now))
        /\ Answered(c, "detection") =>
              DetectionAddsUp(DetectionPayload(detection, r.served["detection"],
                                               FilterOf(r.question), Now))
        /\ Answered(c, "ml") /\ ~r.torn => MlAddsUp(r.read)

(* Why it holds.  A request waits for a window and a filter that its       *)
(* sources accept, and those that have answered did so for that window.    *)
(* While its thread reads, every section it has read is what the log says  *)
(* now (the model in production may be another one), or the report is      *)
(* torn; once it has read them all, and asks for the runtime, they add up, *)
(* and nothing that is logged later can change that.                       *)
RequestTypeOK(c) ==
    /\ DOMAIN req[c] = {"pc", "question", "window", "source", "served", "read", "torn"}
    /\ Len(req[c].read) \in Nat
    /\ req[c].read = [k \in 1..Len(req[c].read) |-> req[c].read[k]]
    /\ req[c].source \in [Sources -> {"unused", "pending", "ok", "http_500", "timeout",
                                      "database_error"} \cup Reasons]
    /\ DOMAIN req[c].served = Services /\ req[c].torn \in BOOLEAN
LogTypeOK ==
    /\ IsFiniteSet(inference)
    /\ \A row \in inference : row.at \in Int /\ row.status \in {"ready", "degraded", "error"}
ReadsAreCurrent(read, w) ==
    LET Has(k) == Len(read) >= k IN
    /\ Len(read) <= Len(Sections)
    /\ Has(1) => read[1] = MlDaily(w)
    /\ Has(2) => read[2] = MlSeries(w)
    /\ Has(3) => read[3] = MlStats(w)
    /\ Has(4) => read[4] = MlByStatus(w)
    /\ Has(6) => read[6].versions = MlVersions(w)
RequestIsAccepted(c) ==
    req[c].pc = "waiting" =>
        /\ WindowIsAccepted(req[c].window)
        /\ ValidFilter(FilterOf(req[c].question), AlertStatuses, RiskLevels)
RequestIsTrue(c) ==
    /\ RequestTypeOK(c) /\ RequestIsAccepted(c) /\ AnswersAreForItsWindow(c)
    /\ Pending(c, "ml") /\ ~req[c].torn => ReadsAreCurrent(req[c].read, req[c].window)
    /\ caller[c].pc # "idle" => Pending(c, "ml") /\ Len(req[c].read) = Len(Sections)
    /\ req[c].source["ml"] = "ok" /\ ~req[c].torn => MlAddsUp(req[c].read)
ReqIndInv ==
    /\ core \in CoreTables /\ detection \in DetectionTables
    /\ req = [c \in Clients |-> req[c]]
    /\ LogTypeOK /\ \A c \in Clients : RequestIsTrue(c)

(* Every request of a manager is answered, although requests that hold the *)
(* whole pool between them may all wait for a connection of it.            *)
EveryRequestIsAnswered ==
    \A c \in Clients : req[c].pc = "waiting" ~> req[c].pc = "idle"
=============================================================================
