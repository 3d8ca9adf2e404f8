# Sentinel Auth: TLA+ specifications

Specifications of the Sentinel Auth services (`src/app`), the TLC runs that check
them on small instances, and TLAPS proofs for instances of any size. Line numbers
are those of the source tree this directory describes.

1. [The system](#1-the-system): parts, state, operations, interactions
2. [What is hard, and what must hold](#2-what-is-hard-and-what-must-hold)
3. [Modules](#3-modules): which models what, and how it corresponds to the code
4. [Runs](#4-runs): what each one checks and shows; bounds; fairness
5. [Where the code and its documents differ](#5-where-the-code-and-its-documents-differ)
6. [Proofs](#6-proofs)
7. [Not modelled](#7-not-modelled)
8. [Plan](#8-plan)

## 1. The system

Three bounded contexts, each with a database of its own (`app/db.py`), in one
FastAPI application (`app/main.py`). They call each other by HTTP only.

| part | source | state it keeps | operations | module |
|---|---|---|---|---|
| Core authentication | `auth.py` | `users`, `mfa_transactions`, `mfa_notifications` | `register`, `login`, `mfa_verify` | `CoreAuth` |
| Core sessions | `auth.py`, `authz.py` | `sessions` | `refresh_token`, `logout`, `logout_all`, `revoke_session` | `CoreAuth`, `SessionAuthority` |
| Login rate limit | `auth.py`, `db.py` | `rate_limits`, one row per address and action | the first statements of `login` | `LoginAdmission` |
| Protective actions | `internal_actions.py` | `users`, `sessions`, `audit_logs` (idempotency keys) | `apply_action` | `CoreAuth`, `AccountAdmin`, `DetectionPipeline` |
| IAM | `iam.py` | `users`, `user_roles` | `lock_user`, `unlock_user`, `toggle_mfa`, `assign_role`, `revoke_role` | `CoreAuth`, `AccountAdmin` |
| Trusted devices | `devices.py` | `user_trusted_devices`, `mfa_transactions` of type `trusted_device` | request, approve, complete, trust, untrust | `TrustedDevice` |
| Detection pipeline | `detection.py`, `internal_client.py` | `login_attempts`, `risk_assessments`, `alerts`, `detection_logs` | `receive_login_event`, `process_attempt`, `enforce_action_in_core`, `rescore_failed_attempts` | `DetectionPipeline` |
| Risk scoring, policies | `detection.py` | `policies`, one of them active | `pre_token_check`, features, rules, thresholds, `activate_policy` | `RiskScoring` |
| SOC alert workflow | `alerts.py` | `alerts`, `alert_timeline` | `acknowledge`, `resolve`, `assign`, `request_security_action`, notes | `SocAlerts`, `SocResponse` |
| ML service | `ml.py` | `inference_logs`, a cached runtime | `score`, `ml_health`, `get_ml_runtime` | `MlService` |
| Analytics | `core_analytics.py`, `detection_analytics.py` | none | windows, buckets, sections | `Analytics` |
| Manager facade | `manager.py`, `manager_client.py`, `db.py` | none; Core's connection pool | fan-out over three sources, a thread for ML | `Manager` |

How they interact:

    client ---- login -----> Core --- pre-token-check ---> Detection --- score ---> ML
                              |  <-- level, or nothing in 3 s ---+                  ^
                              |--- login-events (two deliveries) -> Detection ------+
                              |                                    attempt, verdict, alert
                              |  <----------- actions ------------ +  (idempotency key)
    administrator -- IAM ---> Core           SOC -- alerts ---> Detection -- actions --> Core
    manager --- dashboards, trends, KPIs ---> facade --+--> Core, Detection   (HTTP, 3 s)
                                                       +--> ML database, runtime (thread)

* Core asks Detection *before* it issues a token (`_pre_token_risk`) and fails
  open; the login waits for the answer in the middle of its transaction. So do
  the two device handlers, of which one holds a row lock meanwhile.
* Core tells Detection of a login *after* its commit (`_send_login_event`), at
  most twice, and remembers nothing of an event it gave up.
* Detection commits its verdict and alert, then asks Core to act on the account;
  the call may time out and be applied all the same. So may an analyst's.
* The ML service keeps its runtime in two module globals, which the event loop
  and the facade's worker threads both assign.

**Execution.** A service is a uvicorn process with one event loop; the Dockerfile
starts one worker. Handlers are coroutines and the database driver is synchronous:
between two `await`s a handler is never interrupted, and a statement that waits
in the database holds the whole loop. Interleavings therefore happen at awaits,
between processes, in threads and across crashes, and that is the granularity of
the modules. Where a handler checks without a lock and writes later, and
never awaits, it is cut in two only to admit a second process, which the code's
row locks and unique indexes are written for; each module says so.

## 2. What is hard, and what must hold

`PROJECT.json` lists the hazards, each at its line with the properties about it.
In short:

* **Values read before an await and used after it.** `login` reads the account,
  awaits the gate and the mail server for up to three seconds each (their default
  timeouts), and decides on what it read; completing a device request does the same. *Sessions
  on a locked or MFA-bound account passed an OTP, but for those the await lets
  through, and no others; Detection's demand for an OTP is neither lost nor
  withdrawn by anything but an OTP.*
* **One-time things.** *A challenge mints one session, for its own account and
  address, within three guesses; a device's approval is worth one session, for
  the account and the address that asked; a revoked session never comes back; an
  idempotency key executes once.*
* **Locks held across awaits.** The rate row is locked from the first statement
  of `login` to its commit. *The row counts exactly the logins of its window;
  row locks alone never deadlock; every request is answered unless a loop waits
  for a row whose owner needs a loop that waits.*
* **Checks without a lock.** *The last administrator is lost only to a removal
  whose count was overtaken or to a protective action; a closed alert keeps its
  verdict but for a handler that had read it before; one policy stays active.*
* **Exactly-once over an unreliable link.** Events are delivered twice, answers
  are late, services crash, a sweep scores again, an analyst asks again. *One
  alert per risky attempt; each action executed at most once and only for a
  committed verdict; nothing recorded as enforced, or noted as applied, that was
  not; no stored attempt left without a verdict.*
* **Judging one login several times.** The gate scores it before it is stored,
  its event after, with another stamp and a fingerprint that the gate is not sent.
  *Under one policy and answer they agree but for five named causes; features stay
  in the ML service's contract; its refusals have a cause.*
* **One rule in three places.** The facade resolves a window and its sources
  resolve what they are sent again, later, by copies of the rule. *They answer for
  exactly the facade's window, and refuse none.*
* **Threads beside the loop, and a pool at its limit.** *An inference is logged
  for the model that scored it; every report adds up, whatever the window; every
  request is answered.*

## 3. Modules

| module | models | composed by |
|---|---|---|
| `SessionAuthority` | abstract: sessions begin by spending a warrant once, and end for good | `CoreAuth` (`KeepsAuthority`) |
| `CoreAuth` | accounts, challenges, sessions, and the handlers of `auth.py`, `internal_actions.py` and `iam.py` that change them (those of `devices.py`, `complete_trusted_device_login` among them, are in `TrustedDevice`) | |
| `RiskResponse` | abstract: an attempt is judged, alerted on once, acted on once for an account, and recorded truly | `DetectionPipeline` (`RespondsAsPromised`) |
| `LoginAdmission` | requests, workers, event loops, the rate row, row locks | |
| `DetectionPipeline` | an event from Core to its verdict, alert and enforcement | |
| `TrustedDevice` | the device workflow against accounts and sessions | |
| `AccountAdmin` | administrators, locks, and Core's execution of protective actions | `SocResponse` |
| `SocAlerts` | one alert's workflow | `SocResponse` |
| `SocResponse` | an analyst's action from alert to audit log and back | |
| `RiskScoring` | features, rules, config, level; policy activation; the ML request | |
| `Analytics` | windows, buckets and sections, as operators | `Manager` |
| `MlService` | the registry, the artifacts, the cached runtime, the inference log | `Manager` |
| `Manager` | the facade over Core, Detection and the ML database | |
| `*Proofs` | theorems about the module they are named after | |
| `FiniteSums` | lemmas: extremes and sums of finite sets | `RiskScoringProofs`, `ManagerProofs` |

The `MC*` modules add permutations that TLC's runs declare as symmetry, and the
literal tables of two instances. Each specification also holds the *mutants* of
its definitions: the same with one plausible mistake. No behaviour uses them;
`PROJECT.json` pairs each with the property that fails when it takes the
definition's place.

Where two modules meet without composing, each is more general than the other
at the interface: `CoreAuth` lets every protective action happen at any time and
lets the gate answer anything; `TrustedDevice` lets an ordinary login open
sessions at any time; `DetectionPipeline` lets the level be any, and
`RiskScoring` says which one it is; `LoginAdmission` says when the steps of
`login` can run at all.

### CoreAuth and SessionAuthority

| variable | code |
|---|---|
| `status`, `adminMfa`, `mfaOnce` | `users.status`, `.admin_mfa_required`, `.detection_mfa_once` |
| `sess` | `sessions`: a row is *over* when `revoked_at` is set or `expires_at` has passed; `gen` counts refreshes; `txn` and `peer` say how it was obtained |
| `txn` | `mfa_transactions` of type `one_time` and `persistent` with their notification; *unsent* while the inserting transaction is open |
| `login` | the coroutine of `login` of each client address: what its ORM objects hold across its awaits |
| `overtaken` | history: the logins whose read of the account a lock or a new demand has made stale |
| `late`, `spared` | history: the sessions that such logins have minted since the account was last locked or its `toggle_mfa` called; and the challenges that could still be answered when it was last locked, or that such a login has issued since |

`login` is three steps, cut at its awaits: `LoginStart` (to the gate),
`LoginMint` or `LoginChallenge` (from the gate's answer to the commit, or to the
mail server), `LoginChallengeSent` (from there to the commit). Every other
handler is one step: `Register`, `VerifyRight`, `VerifyWrong`,
`ChallengeExpires`, `Refresh`, `Logout`, `LogoutAll`, `RevokeSession`, and of the
protective actions and IAM `RequireMfa`, `ForceLogout` (also REVOKE_SESSIONS,
which writes the same), `LockUser`, `IamLock`, `IamUnlock`, `IamToggleMfa`,
`IamRoleChange`. `Lapse` is a session's hour. `Crash` rolls open transactions
back. Refused requests have no action.

Two details of the code decide properties and are in the model as they are. The
ORM writes `detection_mfa_once` in a login's commit only if the login changed it
from the value it had read (`raise`): so a login that read *true* cannot
resurrect the flag an OTP has just cleared. And a login that waits for the mail
server has flushed its changed account row, so that other handlers that write the
row cannot proceed (`RowLocked`).

`SessionAuthority` knows accounts, sessions and *warrants*. A login at the gate
and a challenge that can still be answered carry a warrant each; minting a
session spends it, sending a challenge passes it on, a refusal, an expiry or a
crash withdraws it. It outlives a lock, because the code's does: what a lock
promises is that it ends every session there is.

### LoginAdmission

A request is on a worker and is in one of the places where `login` can be: at its
SELECT, suspended at the gate, flushing, suspended at the mail server. `running`
says whose coroutine has a worker's loop; a coroutine leaves it at an await or at
its end, and keeps it while a statement waits for a row (`Granted` is the guard
that it no longer does). A request with no address is any handler that updates
one account row and commits. An `INSERT` of a rate row waits for another
uncommitted insert of it and fails if that commits (`InsertFails`).
Login's in-memory increment is `Count`, its write is `Commit`, and
`counted` remembers whose commits belong to the current window.

### DetectionPipeline

`sender` is the loop of `_send_login_event`. A handler of Detection is named by
the event and the delivery it serves; a sweep is a coroutine of
`rescore_failed_attempts`, which nothing in the repository starts: the module
has it run whenever there are failed attempts, as its docstring intends. Agents
go from look-up to insert (two steps, so that both deliveries may be between
them), to scoring (an await at the ML service), to the call to Core. `stray`
holds the calls nobody waits for any more, which Core may still apply.
`executed`, `verdicts` and `orphans` are history. A risk level stands for the
action it maps to; which level the rules and the model lead to is any.

`RiskResponse` is what is left when deliveries, handlers, sweeps, timeouts and
crashes are taken away: an attempt is stored, judged or failed; Core executes an
action at most once, for an account and after a verdict that calls for it; what is
recorded as enforced was executed; and a step does one such thing to one attempt.

### TrustedDevice

`Ask`, `AskPasses`, `AskEnds` and `AskRejected` are
`request_trusted_device_login`; `Approve` (and `FindOverdue`) approve; `Complete`,
`CompletePasses` and `CompleteHeld` complete; `Trust` and `Untrust` manage the
list. `call` holds the two handlers that wait at the gate, with what they
read. Completing keeps its request row locked there; a second call for that
request blocks the loop (`Freeze`), and only `Restart` resolves it. `SignIn`,
`SignOut`, `Tighten` and `Relax` are what the rest of Core does to the account,
`RequestLapses`, `DeviceLapses` and `WindowEnds` what the clock does.

### AccountAdmin, SocAlerts and SocResponse

`AccountAdmin` has each IAM handler as `Begin` (its checks) and `Remove` or
`Restore` (its commit), and `apply_action` as `ApplyBegin` (the idempotency
look-up) and `ApplyCommit` or `ApplyAborts`. The last-administrator guard is as
the code has it: it looks at the target's status and at the count, and not at
the target's roles; LOCK_USER does not ask it. `stale` and `overlapped` are
history: whether another step overtook a check.

`SocAlerts` has `acknowledge` and `resolve` as a read and a commit each, the
handlers that do not check as one step, and `request_security_action` as a job
that waits for Core's answer and then writes what it was told. `SocResponse`
conjoins them: the call arrives, finds its key or executes, and its answer
reaches the job, or nobody.

### RiskScoring

`Features`, `Compare`, `ValidRule`, `RuleScore`, `Weights`, `Thresholds`,
`Combined` and `LevelOf` are the functions of `detection.py` with numbers in
whole percents and time in ticks (`Hour` of them; a minute each in the run). The
gate is sent its own clock (`GateTimes`), the event another stamp (`Login.at`), and
each counts its windows from what it has. A scoring is `Begin` (by `Gate`, `Deliver` or
`Rescore`, up to the await), an answer of the ML service (`MlScores`,
`MlRefuses`, `MlTimesOut`, and for a request whose caller has gone
`MlIsNotReached`), and `Finish` or `Fail`. Earlier logins may be stored, and
policies activated, in between. `activate_policy` is its locked read
(`ActivateBegin`) and its commit (`ActivateCommit`), where the partial unique
index decides between two processes.

### MlService, Analytics and Manager

`MlService` cuts `get_ml_runtime` at every read and write of its two globals,
since threads may run between them: `Resolve`, `Check`, `Load`, `StorePath`,
`Return`. Runtimes are objects in *places*, since the model id of one in use is
overwritten. `Promote` and `Replace` are an operator's.

`Analytics` is read-only: the facade's window rule and its two copies, half-open
buckets, and each section of the two payloads counted over any table of rows. The
copies share the steps of a calendar and nothing else: each has its own limits
(`Limit`), default and clock, and the facade counts the buckets of a window
(`BucketCount`) where Core and Detection list them (`Grid`).

`Manager` has a request fetch from its sources what the facade resolved (`Sent`);
a source resolves that at most `Delay` ticks later, and `served` holds the window
it answers for, or the answer is `http_400`: `ServeCore`, `ServeDetection`
and `FetchFails` for the HTTP ones, `ReadSection`, `AskRuntime` and
`ReadRuntime` for the thread. A thread's statements are separate steps, between
which the loop logs inferences. `ServeCore` may find the connection pool empty,
since every request in progress holds a connection: then the loop stops
(`stalled`) until `PoolGivesUp`.

## 4. Runs

| run | instance | asks |
|---|---|---|
| `core_sessions` | 2 accounts, 2 sessions, 1 challenge, 1 refresh, one login at a time | which sessions can exist on a locked or MFA-bound account; that a challenge mints once; that what is revoked stays revoked; that `CoreAuth` implements `SessionAuthority` |
| `core_challenges` | 1 account, 1 session, 2 challenges, no refresh, logins from an address and an unknown peer | that Detection's demand is not lost or wrongly withdrawn; that sessions match their challenges; that a password alone opens a session only where the account asks for no more |
| `core_demand_race` | 1 account, 1 session, 1 challenge | a documented promise that login's await breaks (section 5) |
| `admission` | 3 requests, 2 workers, 1 address, 1 account, limit 2, 2 windows | exact counting and acyclic row locks over crashes and insert races; under fairness, that every accepted request ends unless a loop is frozen |
| `admission_freeze` | 3 requests, 1 worker | whether the gate really fails open (section 5) |
| `detection` | 1 login, 2 deliveries, 2 sweeps | one alert, at most one execution of each action, nothing abandoned, everything settled; that `DetectionPipeline` implements `RiskResponse` |
| `detection_crash` | 1 login, 1 sweep | whether the sweep closes the gap a crash leaves (section 5) |
| `trusted_device` | 1 account, 1 new device, 2 addresses, 2 requests, 2 calls | what an approval is worth, and what a later demand is |
| `soc_response` | 2 accounts, 1 alert, LOCK_USER, 2 requests, 2 executions | truthful timeline, executions of a key, the last administrator, the alert's verdict |
| `soc_lock` | the same, one request | whether an ordinary account can be locked (section 5) |
| `risk_scoring` | 1 login, 2 earlier ones, the gate a minute before or after the event's stamp, 3 policies, 2 activating processes, score 90 | features in range, gate and event agreeing, causes of errors, one policy |
| `ml_manager` | 1 manager with 6 questions (each endpoint, and a filter that is refused), 2 models, 1 swap, 1 inference; a day of two hours of two ticks, sources a tick late | what the log says of models; that the sources answer for the facade's window and all reports add up; that every request is answered |

**Why the bounds are enough.** The properties of `CoreAuth` relate one session or
challenge to one account; two of each show any interference between a pair, and
two peers any pair of concurrent logins. `MaxGen` bounds the
refreshes, whose number decides nothing; one is enough to show that of a dead
session (`core_sessions`). In `LoginAdmission` three
requests fill a window of two, race for a first row and chain two waits; two
workers are what a wait across processes needs (`NumberedInOrder` keeps one
behaviour of those that differ by a renaming of requests and workers); `MaxWindow` 1 lets a window end
once while requests are in flight. In `DetectionPipeline` attempts share nothing
but the services that crash, so one event is checked; its two deliveries and two
sweeps are every pair of agents that can meet. `TrustedDevice` needs two requests
of one device for one to overtake the other, and two calls for a row to be held;
a second account would share only the rate rows, which two addresses show.
In `SocResponse` two accounts are an administrator and the alert's subject, or
two administrators who remove each other; two executions are what overlap takes,
and the history of a key stops at two. In `RiskScoring` a failure and a success, the same address, agent and fingerprint
and others occur alone and together; one earlier login is on the edge of a day's
window, and the hour turns between the two possible stamps of the gate, so that
each cause by which gate and event may differ occurs and is absent (two earlier
logins of one time, a zero span, are left to the theorem); three policies are a default one, one of its own and an
invalid one; two processes are what the unique index is for. In `Manager` the
scaled calendar keeps the order of the code's limits (72 hours < 31 days < 366
days and both bucket limits), and the windows checked are all those up to a day
past now. The proofs of section 6 have no such bounds, for the properties they
cover: those of `Manager` hold for any tables, questions, calendar and log.

**Fairness.** `LoginAdmission!FairSpec` makes the steps of each request weakly
fair: a loop runs each ready coroutine (asyncio's queue is first in, first out),
the gate's client and SMTP have timeouts, of three seconds by default, and a lock
that is freed is granted. A step that waits for a row or for a loop is not
enabled, so fairness does not help a frozen one. `DetectionPipeline!FairSpec`
makes the sender, each handler and each sweep weakly fair, because each of their
awaits has a timeout. `Manager!Fairness` makes a request's steps on the loop
strongly fair: the queue is first in, first out, and each pause of the loop is
cut off by the pool's timeout of thirty seconds, which is weakly fair (`PoolGivesUp`),
so what is ready when the loop runs is not overtaken for ever. Threads are weakly
fair. Clients, operators, crashes, the clock and Core's late application of a
call are never fair. The other modules are checked for safety only.

**Deadlock.** Every module is checked for it but two, which may really stop:
`LoginAdmission` when its requests are used up or every loop is frozen, which is
what its liveness properties are about, and `DetectionPipeline` when its one
event is settled.

## 5. Where the code and its documents differ

Four runs expect TLC to refute a promise; `PROJECT.json` quotes each.

* `core_demand_race`: a login that waits at the gate while an administrator turns
  persistent MFA on mints a session without an OTP. What does hold is
  `PersistentMfaCoversSessions`: no other session escapes.
* `admission_freeze`: on the one worker that is deployed, a second login from the
  same address waits for the rate row inside the event loop, which the first one
  needs to come back from the gate. The gate's timeout cannot fire. What does hold
  is `AnsweredUnlessFrozen`: there is no other way to wait for ever, and
  `RowLocksAloneNeverCycle`: the database never sees a deadlock.
* `detection_crash`: an attempt whose scoring a crash cut off stays `pending`: the
  sweep selects `failed`, and a redelivery is answered from the row. What does hold
  is `StoredIsSettled` for all the others.
* `soc_lock`: with one active administrator no account can be locked, because
  `lock_user` applies the last-administrator guard to every target
  (`iam.py:219`). What does hold is `LastAdminIsGuarded`.

Noticed while reading, and not the subject of a run of its own:

* A login that waits at the gate while LOCK_USER or an administrator locks the
  account, and `mfa_verify`, which does not look at the status (`auth.py:820`),
  mint a session on a locked account. It is refused while the lock lasts, and
  lives on after it. `LockedAccountKeepsNoSession` says which sessions these are:
  those of logins the lock overtook, and of challenges that were open when it
  came or that such a login issued after it. All others, by password or OTP, end
  with the lock.
* `complete_trusted_device_login` reads the MFA flags "at completion time" before
  its await at the gate: `DemandWinsOutsideTheGate` says what is left of "must win".
* The gate is not sent the device fingerprint, which every event carries
  (`auth.py:477`), and its stamp (`auth.py:424`) is not the event's (`auth.py:480`,
  `:691`), so that `new_device`, `hour_of_day` and every window may differ.
  `GateAgreesWithEvent` states what is left: the levels agree unless another login
  was stored in between (`SameHistory`), an earlier one left a window between the
  stamps (`NoEdgePassed`), the hour turned (`SameHour`), the agent says otherwise
  of the device than the fingerprint (`SameDevice`), or the user was expected about
  then, so that `deviation_score` changes with each tick (`SameRhythm`).
* Re-scoring sends a `request_id` again, which the ML service's unique key
  refuses: the second scoring runs without ML (`ErrorHasACause`). That property
  takes the ML service's database to be at hand and the shared secret to be right:
  without them it answers 500 (`ml.py:273`, `:290`) or 401 and leaves no row.
* A failed enforcement is recorded and never retried, although `detection.py:872`
  leaves it to a reconciliation job; a call that timed out is recorded as not
  enforced though Core may apply it; *critical* revokes the sessions but, unlike
  the comment at `detection.py:94` says, demands no fresh MFA; a persistent OTP
  leaves Detection's one-time demand standing; replaying a LOCK_USER key after an
  unlock reports `already_applied` and locks nobody.

## 6. Proofs

Each proof module extends its specification; TLAPS checks all of it. Its theorem
`Invariance` is `Spec => []IndInv`, proved from *initially*, *every step keeps it*
(one lemma per conjunct or per action), and temporal logic; the others follow.
The invariants were checked by TLC on the instances above before they were
proved.

| module | theorem | states |
|---|---|---|
| `CoreAuthProofs` | `TypeCorrect` | `TypeOK` |
| | `OtpConsumedOnce`, `OtpIsBound` | `OneSessionPerChallenge`, `SessionMatchesChallenge` |
| | `ClampdownHolds`, `LockHolds` | `PersistentMfaCoversSessions`, `LockedAccountKeepsNoSession` |
| | `DemandNotLost`, `WithdrawnOnlyByOtp` | `OutstandingChallengeIsDemanded`, `DemandWithdrawnByOtp` |
| | `RevokedForGood`, `PasswordAlone` | `RevocationIsFinal`, `PasswordAloneNeedsAFreeAccount` |
| | `Refinement` | `KeepsAuthority`: `CoreAuth` implements `SessionAuthority` |
| `LoginAdmissionProofs` | `TypeCorrect` | `TypeOK` |
| | `CountsAreExact`, `RowLocksAreAcyclic` | `RateRowCountsItsLogins`, `RowLocksAloneNeverCycle` |
| `DetectionPipelineProofs` | `TypeCorrect` | `TypeOK` |
| | `AlertsAreSingle`, `ActionsAreOnceAndWarranted` | `OneAlertPerRiskyAttempt`, `ActionsAreWarranted` |
| | `RecordsAreTrue`, `NothingIsAbandoned`, `RedeliveryIsHarmless` | `RecordedAsEnforcedIsDone`, `NoAttemptIsAbandoned`, `RedeliveryKeepsTheVerdict` |
| | `PromiseKept` | `RespondsAsPromised`: `DetectionPipeline` implements `RiskResponse` |
| `TrustedDeviceProofs` | `TypeCorrect` | `TypeOK` |
| | `ApprovalHolds`, `ApprovedSessions` | `ApprovalMintsOnce`, `SessionsComeFromApprovals` |
| | `OneRequest`, `RefusalIsFinal`, `DemandWins` | `OneRequestPerDevice`, `RefusedStaysRefused`, `DemandWinsOutsideTheGate` |
| `SocResponseProofs` | `TypeCorrect` | `TypeOK` |
| | `NotesAreTrue`, `KeysExecuteOnce`, `VerdictsAgree` | `AppliedNoteIsAudited`, `OncePerKey`, `OneVerdict` |
| | `LastAdminGuard`, `NoAdminFromNone`, `ClosedForGood` | `LastAdminIsGuarded`, `AdminsComeFromAdmins`, `ClosedStaysClosed` |
| `RiskScoringProofs` | `TypeCorrect` | `TypeOK` |
| | `GateAgrees`, `ErrorsAreExplained`, `OnePolicyStays` | `GateAgreesWithEvent`, `ErrorHasACause`, `OnePolicyStaysActive` |
| | `FeaturesAreTaken` | `FeaturesMeetTheContract` |
| | `ScoresAreFractions` | of the operators: every combined score is a fraction, so the clamp of `detection.py:712` never acts |
| | `MoreEvidenceIsNoMilder` | of the operators: scoring is monotone in the rules that trigger and the ML score |
| `ManagerProofs` | `LogsAreTrue`, `SourcesNeverRefuse` | `LogNamesOneModel`, `ServicesKeepTheWindow` |
| | `RequestsAreTrue`, `ReportsAreConsistent` | `ReqIndInv`, and from it `ReportsAddUp` |

**Assumptions** are those of the constants, named where they are declared, and
TLC evaluates each in a run: null values are no identifiers; bounds and limits are
numbers (the rate limit is at least one); addresses and accounts have different
rows; the loop is a caller and no manager; callers are finitely many; a score is a
percentage; the artifacts first shipped are versions; a user's history is finite
and its times are numbers; the tables the facade reports on are finite and obey the
CHECKs of their schema (`CoreRows`, `DetectionRows`); a question's ends and the
present are numbers, and so are the limits, of which no source's is below the
facade's; a failure's reason is none of the other statuses (a 400 is not among them
because it is the answer of a source, `Serves`); an event carries a fingerprint;
the models are finitely many, and no two have one version.

### The inductive invariants, and why they are needed

*CoreAuth.* `OutstandingChallengeIsDemanded` is about a challenge that is already
committed, but the demand for it was read before the gate: `OnceReadIsDemanded`
carries it from the login's read, through the mail server, to the commit. The two
properties of clampdowns need `InFlightReadIsCurrent`: a login at the gate that
nothing overtook still reads its account right, so the session it mints is
covered. For a lock there are the challenges as well: whichever is open while the
account is locked was open when it came, or is an overtaken login's
(`OpenChallengesAreSpared`), so the session it turns into is one of those that
`LockedAccountKeepsNoSession` names. `LoginRows`, `SessionRows` and `ChallengeRows` keep logins, sessions and
challenges apart. `StepKinds` sorts the steps into ten kinds, of which *quiet*
ones only end sessions and make an account stricter by overtaking its logins; one
lemma per conjunct treats the ten.

*The refinement* maps a login at the gate and an answerable challenge to a
warrant. Each step of `CoreAuth` is one abstract step or a stutter; the invariant
supplies what the mapping cannot see, such as that the account of a warrant is
registered.

*LoginAdmission.* A request locks its account last (`LocksAreOrdered`), so whoever
holds one waits for no row: a cycle would need somebody who does. A login holds its
rate row from the SELECT to the commit (`LocksAreExclusive`), so the count it read
is still the row's when it writes the next (`PendingRows`); a first login holds
nothing and inserts 1, or fails.

*DetectionPipeline.* That Core acts once is a fact about its audit log
(`AuditCounts`); that it acts only on committed verdicts must hold for the calls
nobody waits for any more, and for those in flight (`AgentsKnow`). `SenderTries`
says that the next delivery has no handler yet. `OneScorer` is what the unique
`event_id` achieves: one handler scores an attempt, while it is pending, and a
sweep has in hand only attempts that are settled. For the refinement a call must
also be for an account, which the insert settles once; that it is not settled
again once there is a verdict is `VerdictsAreProcessed`: a verdict and the status
are committed together. `AttemptMoves` sorts the steps into those that store,
fail, judge or leave an attempt, each of which is a step of `RiskResponse` or
unseen.

*TrustedDevice.* The row lock at the gate makes a completion the only one of an
approved, unused request (`GateIsExclusive`); `RequestRows` ties consumption to
minting; `ReadsAreCurrent` says of the calls at the gate what
`InFlightReadIsCurrent` says of logins.

*SocResponse.* A job whose call was answered has its action in the audit log
(`AnswersAreAudited`), whichever execution the answer came from. On Core's side,
what a handler checked still holds unless a removal has overtaken it
(`ChecksAreCurrent`), and two executions of one key know of each other
(`OverlapsAreKnown`); on Detection's, `ReadsAreCurrent` is the same for an alert's
status.

*RiskScoring.* The event keeps its stamp (`EventKeepsItsTime`). Where none of the
causes that `GateAgreesWithEvent` names is at work, both scorings count the same
logins as earlier ones, without the one being judged (`SamePast`), and have the
same ones in every window (`SameWindow`); the deviation is the same because there
is no rhythm to deviate from, or because twice the mean gap is as deviant as can be
(`LongGapIsDeviant`).
A finished scoring has the verdict of what it began with (`LevelIsVerdict`), and the ML
service has no row of a request it has yet to handle unless it is one that is
scored again (`FirstTimeUnlogged`). `FeaturesAreTaken` needs no invariant but the
types: times that lie between now and a window's start span no more than the
window (`PairExtremes`), and a count of distinct values is no more than one of rows.
`ScoresAreFractions` divides one sum by another that bounds it (`SumBounded`,
`SumOfSome`): a rule's contribution by its weight, a score by both weights.
`MoreEvidenceIsNoMilder` rests on the denominator's being that of all usable rules,
whichever trigger.

*Manager and MlService.* Until calls overlap a load (`raced`), a caller loads
alone (`LoadsAlone`), so the remembered path is that of the runtime's model
(`PathIsTheRuntimes`), and a model's id is only ever written over one of the same
path (`RuntimesAreTrue`). `AFreePlace` is a pigeonhole argument: there is always
room for one more runtime than there are callers. `ReqIndInv` adds the requests:
one that waits has a window its sources accept, and those that have answered did
so for it (`AnswersAreForItsWindow`). That the sources accept what the facade does
rests on two counts of one window's buckets: each bucket of the list is another
multiple of the step, so the list is no longer than the facade's quotient
(`GridIsCounted`). What its thread has read is a
report on the log as it is, or it is known to be torn (an inference logged while
the thread reads sees to that); and each section that is answered adds up.

*Sums.* What `MapThenSumSet` returns is defined by recursion, and induction has an
operator as parameter, which the provers cannot instantiate. `FiniteSums` takes
another way: of the finite sets with some property one has the fewest elements
(`LeastSubset`), so that a set for which a lemma fails would have a least
subset for which it fails. From this follow that the recursion has a value
(`FoldExists`, `SumPicks`) and the lemmas a report rests on: the sum over a set is that over
the parts of a partition (`SumOfParts`). A window's buckets are such a partition of
its rows, since each time is in the bucket it is floored to and in no other.

### Model-checked only

* Liveness: `AnsweredUnlessFrozen`, `StoredIsSettled`, `EveryRequestIsAnswered`
  (fairness and `ENABLED` are beyond the prover).
* The promises that section 5 refutes: their runs are the counterexamples.

Every other property of a run is stated by a theorem.

## 7. Not modelled

* Login history, session and profile lists, alert lists and evidence: reads of
  one snapshot. Of the facade, the p95, the feature statistics and conversions
  to JSON; of the ML service, `refresh_feature_statistics`, which no scoring reads.
* Parsing of headers (`client_ip.py`, `device_fingerprint.py`), the internal
  secret, password hashing, token and OTP generation, the isolation forest: pure
  functions whose results are left open.
* Several workers serving `CoreAuth`'s and `TrustedDevice`'s handlers: they run on
  one loop, as deployed.
* A verdict of `DetectionPipeline` is one step; two sweeps in different workers
  could each find no alert and raise one. A failed enforcement that nothing
  retries promises nothing that a property could state.
* Application assembly, connection URLs, schema creation, scripts, documents and
  the research notebook.

## 8. Plan

Done: the modules above, their proofs, the abstract authority and response and
their refinements, the compositions `SocResponse` (Core and Detection around an
analyst's action) and `Manager` (facade, ML service and its threads).

Left, in this order:

1. Verdicts of `DetectionPipeline` in two statements per worker, for two sweeps
   that each find no alert.
2. `CoreAuth` with several workers: `mfa_verify` and `refresh_token` statement by
   statement under their row locks.
3. `CoreDetection`: `CoreAuth`'s accounts with `DetectionPipeline`'s agents, for
   the event of an OTP login that is scored high and ends the session just earned.
4. Proofs: an abstract approval that `TrustedDevice` implements; the refinements
   again for the modules that 1 to 3 change.
