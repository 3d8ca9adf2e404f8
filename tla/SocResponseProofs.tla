-------------------------- MODULE SocResponseProofs --------------------------
(***************************************************************************)
(* Proofs about SocResponse, the composition of SocAlerts and              *)
(* AccountAdmin, for any number of accounts, actions, requests, executions *)
(* and analysts.                                                           *)
(*                                                                         *)
(* Each conjunct of IndInv is about one component or about the calls       *)
(* between them; a step of the other component leaves it alone.            *)
(***************************************************************************)
EXTENDS SocResponse, FiniteSetTheorems, TLAPS

-----------------------------------------------------------------------------
(* The kinds of step *)

(* Every step is one handler's, on one side, or one move of a call.        *)
LEMMA StepKinds ==
    ASSUME [Next]_vars
    PROVE  \/ Core!IamStep /\ UNCHANGED socVars
           \/ Soc!LocalStep /\ UNCHANGED coreVars
           \/ \E j \in Jobs, s \in Slots : CallArrives(j, s)
           \/ \E j \in Jobs : CallIsKnown(j)
           \/ \E j \in Jobs, s \in Slots : CallSucceeds(j, s)
           \/ \E s \in Slots : CallOutlivesItsCaller(s)
           \/ UNCHANGED <<coreVars, socVars>>
BY DEF Next, vars

(* What Core does is an IAM handler's, a part of apply_action's, or        *)
(* nothing.                                                                *)
LEMMA CoreKinds ==
    ASSUME [Next]_vars
    PROVE  \/ \E u \in Users, k \in Core!Kinds : Core!Begin(u, k)
           \/ \E u \in Users : Core!Remove(u)
           \/ \E u \in Users : Core!Restore(u)
           \/ \E s \in Slots, j \in Jobs :
                Core!ApplyBegin(s, job[j].action) /\ job[j].pc = "asked"
           \/ \E s \in Slots : Core!ApplyCommit(s)
           \/ \E s \in Slots : Core!ApplyAborts(s)
           \/ UNCHANGED coreVars
BY StepKinds, Zenon DEF Core!IamStep, CallArrives, CallIsKnown, CallSucceeds, CallOutlivesItsCaller,
              Soc!CallMoves

(* And what happens at the alert is an analyst's request, or a call that   *)
(* comes one step further, or nothing.                                     *)
LEMMA SocKinds ==
    ASSUME [Next]_vars
    PROVE  \/ Soc!LocalStep
           \/ \E j \in Jobs, from \in {"asked", "executing"},
                             to \in {"executing", "answered"} : Soc!CallMoves(j, from, to)
           \/ UNCHANGED socVars
BY StepKinds DEF CallArrives, CallIsKnown, CallSucceeds, CallOutlivesItsCaller

-----------------------------------------------------------------------------
(* Type correctness *)

(* The handlers of Core leave every column in its range.                   *)
LEMMA CoreTypeStep == IndInv /\ [Next]_vars => Core!TypeOK'
<1> SUFFICES ASSUME IndInv, [Next]_vars
             PROVE  Core!TypeOK'
  OBVIOUS
<1> USE DEF IndInv, TypeOK
<1>a. Core!NoHandling \in Core!Handling /\ Core!NoApplication \in Core!Application
  BY DEF Core!NoHandling, Core!NoApplication, Core!Handling, Core!Application, Core!Kinds
<1>b. ASSUME NEW table \in [Users -> Core!Handling], NEW u
      PROVE  Core!Outdate(table, u) \in [Users -> Core!Handling]
  BY <1>b DEF Core!Outdate, Core!Handling
<1>1. ASSUME NEW u \in Users, NEW k \in Core!Kinds, Core!Begin(u, k)
      PROVE  Core!TypeOK'
  <2>1. handling' \in [Users -> Core!Handling]
    BY <1>1 DEF Core!TypeOK, Core!Begin, Core!Handling
  <2> QED  BY <1>1, <2>1 DEF Core!TypeOK, Core!Begin
<1>2. ASSUME NEW u \in Users, Core!Remove(u)
      PROVE  Core!TypeOK'
  <2>1. [handling EXCEPT ![u] = Core!NoHandling] \in [Users -> Core!Handling]
    BY <1>a DEF Core!TypeOK
  <2>2. handling' \in [Users -> Core!Handling]
    BY <1>2, <1>b, <2>1 DEF Core!Remove
  <2> QED  BY <1>2, <2>2 DEF Core!TypeOK, Core!Remove
<1>3. ASSUME NEW u \in Users, Core!Restore(u)
      PROVE  Core!TypeOK'
  BY <1>3, <1>a DEF Core!TypeOK, Core!Restore
<1>4. ASSUME NEW s \in Slots, NEW a \in Actions, Core!ApplyBegin(s, a)
      PROVE  Core!TypeOK'
  <2>1. applying' \in [Slots -> Core!Application]
    BY <1>4 DEF Core!TypeOK, Core!ApplyBegin, Core!Application
  <2> QED  BY <1>4, <2>1 DEF Core!TypeOK, Core!ApplyBegin
<1>5. ASSUME NEW s \in Slots, Core!ApplyCommit(s)
      PROVE  Core!TypeOK'
  <2>1. applying[s].action \in Actions
    BY <1>5 DEF Core!TypeOK, Core!ApplyCommit, Core!Application
  <2>2. handling' \in [Users -> Core!Handling]
    BY <1>5, <1>b DEF Core!TypeOK, Core!ApplyCommit
  <2>3. execs' \in [Actions -> 0..2]
    BY <1>5, <2>1 DEF Core!TypeOK, Core!ApplyCommit
  <2> QED  BY <1>5, <1>a, <2>1, <2>2, <2>3 DEF Core!TypeOK, Core!ApplyCommit
<1>6. ASSUME NEW s \in Slots, Core!ApplyAborts(s)
      PROVE  Core!TypeOK'
  BY <1>6, <1>a DEF Core!TypeOK, Core!ApplyAborts
<1>7. CASE UNCHANGED coreVars
  BY <1>7 DEF coreVars, Core!TypeOK
<1>8. ASSUME NEW j \in Jobs, job[j].pc = "asked"
      PROVE  job[j].action \in Actions
  BY <1>8 DEF AnswersAreAudited
<1> QED
  BY <1>1, <1>2, <1>3, <1>4, <1>5, <1>6, <1>7, <1>8, CoreKinds, Zenon

(* So do the handlers of the alert.                                        *)
LEMMA SocTypeStep == IndInv /\ [Next]_vars => Soc!TypeOK'
<1> SUFFICES ASSUME IndInv, [Next]_vars
             PROVE  Soc!TypeOK'
  OBVIOUS
<1> USE DEF IndInv, TypeOK
<1>a. Soc!NoJob \in Soc!Job
  BY DEF Soc!NoJob, Soc!Job
<1>b. ASSUME NEW j \in Jobs, NEW pc \in {"acknowledge", "resolve", "asked"},
             NEW a \in Actions \cup {None}, Soc!Start(j, pc, a)
      PROVE  job' \in [Jobs -> Soc!Job]
  BY <1>b DEF Soc!TypeOK, Soc!Start, Soc!Job
<1>c. ASSUME NEW j \in Jobs, Soc!CommitStatus(j)
      PROVE  job' \in [Jobs -> Soc!Job]
  <2>1. \A i \in Jobs : [job[i] EXCEPT !.stale = TRUE] \in Soc!Job
    BY DEF Soc!TypeOK, Soc!Job
  <2> QED  BY <1>a, <1>c, <2>1 DEF Soc!TypeOK, Soc!CommitStatus
<1>1. ASSUME NEW j \in Jobs, Soc!AcknowledgeBegin(j) \/ Soc!ResolveBegin(j)
      PROVE  Soc!TypeOK'
  BY <1>1, <1>b DEF Soc!TypeOK, Soc!AcknowledgeBegin, Soc!ResolveBegin
<1>2. ASSUME NEW j \in Jobs, Soc!AcknowledgeCommit(j)
      PROVE  Soc!TypeOK'
  <2>1. alert' \in Soc!Alert
    BY <1>2 DEF Soc!TypeOK, Soc!AcknowledgeCommit, Soc!Alert
  <2> QED  BY <1>2, <1>c, <2>1 DEF Soc!TypeOK, Soc!AcknowledgeCommit
<1>3. ASSUME NEW j \in Jobs, NEW r \in Resolutions, Soc!ResolveCommit(j, r)
      PROVE  Soc!TypeOK'
  <2>1. alert' \in Soc!Alert
    BY <1>3 DEF Soc!TypeOK, Soc!ResolveCommit, Soc!Alert, Soc!StatusFor, Soc!Closed
  <2> QED  BY <1>3, <1>c, <2>1 DEF Soc!TypeOK, Soc!ResolveCommit
<1>4. ASSUME NEW n \in Analysts, Soc!Assign(n)
      PROVE  Soc!TypeOK'
  BY <1>4 DEF Soc!TypeOK, Soc!Assign, Soc!Alert
<1>5. ASSUME NEW t \in EventTypes, Soc!AddEvent(t)
      PROVE  Soc!TypeOK'
  BY <1>5 DEF Soc!TypeOK, Soc!AddEvent
<1>6. ASSUME NEW j \in Jobs, NEW a \in Actions, Soc!RequestAction(j, a)
      PROVE  Soc!TypeOK'
  BY <1>6, <1>b DEF Soc!TypeOK, Soc!RequestAction
<1>7. ASSUME NEW j \in Jobs, Soc!RecordApplied(j)
      PROVE  Soc!TypeOK'
  <2>1. job[j].action \in Actions
    BY <1>7 DEF Soc!RecordApplied, AnswersAreAudited
  <2> QED  BY <1>7, <1>a, <2>1 DEF Soc!TypeOK, Soc!RecordApplied
<1>8. ASSUME NEW j \in Jobs, Soc!RecordRefused(j)
      PROVE  Soc!TypeOK'
  BY <1>8, <1>a, NoteAssumption DEF Soc!TypeOK, Soc!RecordRefused
<1>9. ASSUME NEW j \in Jobs, NEW from, NEW to \in {"executing", "answered"},
             Soc!CallMoves(j, from, to)
      PROVE  Soc!TypeOK'
  <2>1. job' \in [Jobs -> Soc!Job]
    BY <1>9 DEF Soc!TypeOK, Soc!CallMoves, Soc!Job
  <2> QED  BY <1>9, <2>1 DEF Soc!TypeOK, Soc!CallMoves
<1>10. CASE UNCHANGED socVars
  BY <1>10 DEF socVars, Soc!TypeOK
<1>11. CASE Soc!LocalStep
  BY <1>11, <1>1, <1>2, <1>3, <1>4, <1>5, <1>6, <1>7, <1>8, Zenon DEF Soc!LocalStep
<1> QED  BY <1>9, <1>10, <1>11, SocKinds

-----------------------------------------------------------------------------
(* What Core keeps *)

(* With more than one active administrator there is one beside any.        *)
LEMMA AnotherAdmin ==
    ASSUME NEW u, Cardinality(Core!ActiveAdmins) > 1
    PROVE  \E v \in Core!ActiveAdmins : v # u
<1> SUFFICES ASSUME \A v \in Core!ActiveAdmins : v = u
             PROVE  FALSE
  OBVIOUS
<1>1. Core!ActiveAdmins = {} \/ Core!ActiveAdmins = {u}
  OBVIOUS
<1>2. Cardinality(Core!ActiveAdmins) \in {0, 1}
  BY <1>1, FS_EmptySet, FS_Singleton
<1> QED  BY <1>2

(* A check of Core's handlers stays right until an administrator goes, and *)
(* every step by which one goes outdates the handlers that had begun.      *)
LEMMA ChecksStep == IndInv /\ [Next]_vars => Core!ChecksAreCurrent'
<1> SUFFICES ASSUME IndInv, [Next]_vars
             PROVE  Core!ChecksAreCurrent'
  OBVIOUS
<1> USE DEF IndInv, TypeOK
<1>a. ASSUME NEW table \in [Users -> Core!Handling], NEW gone, gone \in Core!ActiveAdmins,
             handling' = Core!Outdate(table, gone)
      PROVE  Core!ChecksAreCurrent'
  <2>1. \A v \in Users : handling'[v].kind # "none" => handling'[v].stale
    BY <1>a DEF Core!Outdate, Core!Handling
  <2> QED  BY <2>1 DEF Core!ChecksAreCurrent
<1>b. Core!NoHandling \in Core!Handling
  BY DEF Core!NoHandling, Core!Handling
<1>c. ASSUME UNCHANGED handling, Core!ActiveAdmins' = Core!ActiveAdmins
      PROVE  Core!ChecksAreCurrent'
  BY <1>c DEF Core!ChecksAreCurrent
<1>1. ASSUME NEW u \in Users, NEW k \in Core!Kinds, Core!Begin(u, k)
      PROVE  Core!ChecksAreCurrent'
  <2>1. UNCHANGED <<admin, active>>
    BY <1>1 DEF Core!Begin
  <2>2. handling'[u].kind = k /\ \A v \in Users : v # u => handling'[v] = handling[v]
    BY <1>1 DEF Core!Begin, Core!TypeOK, Core!Handling
  <2>3. Core!ActiveAdmins # {}
    BY <1>1 DEF Core!Begin, Core!SomeAdminActs
  <2>4. k \in {"lock", "revoke"} /\ u \in Core!ActiveAdmins =>
          \E v \in Core!ActiveAdmins : v # u
    <3>1. u \in Core!ActiveAdmins => u \in active
      BY DEF Core!ActiveAdmins
    <3>2. k \in {"lock", "revoke"} => Core!GuardPasses(u)
      BY <1>1 DEF Core!Begin, Core!Checks
    <3>3. Core!GuardPasses(u) /\ u \in active => Cardinality(Core!ActiveAdmins) > 1
      BY Zenon DEF Core!GuardPasses, Core!Cardinality, Cardinality, Core!IsFiniteSet, IsFiniteSet
    <3>4. Cardinality(Core!ActiveAdmins) > 1 => \E v \in Core!ActiveAdmins : v # u
      BY AnotherAdmin
    <3> QED  BY <3>1, <3>2, <3>3, <3>4, Zenon
  <2> QED  BY <2>1, <2>2, <2>3, <2>4 DEF Core!ChecksAreCurrent, Core!ActiveAdmins
<1>2. ASSUME NEW u \in Users, Core!Remove(u)
      PROVE  Core!ChecksAreCurrent'
  <2> DEFINE table == [handling EXCEPT ![u] = Core!NoHandling]
  <2>1. table \in [Users -> Core!Handling] /\ handling' = Core!Outdate(table, u)
    BY <1>2, <1>b DEF Core!TypeOK, Core!Remove
  <2>2. CASE u \in Core!ActiveAdmins
    BY <1>a, <2>1, <2>2
  <2>3. CASE u \notin Core!ActiveAdmins
    <3>1. Core!ActiveAdmins' = Core!ActiveAdmins
      BY <1>2, <2>3 DEF Core!Remove, Core!ActiveAdmins
    <3>2. handling' = table
      BY <2>1, <2>3 DEF Core!Outdate
    <3>3. handling'[u].kind = "none" /\ \A v \in Users : v # u => handling'[v] = handling[v]
      BY <3>2 DEF Core!TypeOK, Core!NoHandling
    <3> QED  BY <3>1, <3>3 DEF Core!ChecksAreCurrent
  <2> QED  BY <2>2, <2>3
<1>3. ASSUME NEW u \in Users, Core!Restore(u)
      PROVE  Core!ChecksAreCurrent'
  <2>1. Core!ActiveAdmins \subseteq Core!ActiveAdmins'
        /\ \A v \in Core!ActiveAdmins' : v \in Core!ActiveAdmins \/ v = u
    BY <1>3 DEF Core!Restore, Core!ActiveAdmins
  <2>2. handling'[u].kind = "none" /\ \A v \in Users : v # u => handling'[v] = handling[v]
    BY <1>3 DEF Core!Restore, Core!TypeOK, Core!NoHandling
  <2> QED  BY <2>1, <2>2 DEF Core!ChecksAreCurrent
<1>4. ASSUME NEW s \in Slots, NEW a, Core!ApplyBegin(s, a) \/ Core!ApplyAborts(s)
      PROVE  Core!ChecksAreCurrent'
  BY <1>4, <1>c DEF Core!ApplyBegin, Core!ApplyAborts, Core!ActiveAdmins
<1>5. ASSUME NEW s \in Slots, Core!ApplyCommit(s)
      PROVE  Core!ChecksAreCurrent'
  <2> DEFINE locks == applying[s].action = "LOCK_USER" /\ applying[s].seen
  <2>1. CASE locks /\ Subject \in Core!ActiveAdmins
    <3>1. handling' = Core!Outdate(handling, Subject)
      BY <1>5, <2>1 DEF Core!ApplyCommit
    <3> QED  BY <1>a, <2>1, <3>1 DEF Core!TypeOK
  <2>2. CASE locks /\ Subject \notin Core!ActiveAdmins
    <3>1. Core!ActiveAdmins' = Core!ActiveAdmins
      BY <1>5, <2>2 DEF Core!ApplyCommit, Core!ActiveAdmins
    <3>2. handling' = handling
      BY <1>5, <2>2 DEF Core!ApplyCommit, Core!Outdate, Core!TypeOK
    <3> QED  BY <1>c, <3>1, <3>2
  <2>3. CASE ~locks
    BY <1>5, <1>c, <2>3 DEF Core!ApplyCommit, Core!ActiveAdmins
  <2> QED  BY <2>1, <2>2, <2>3
<1>6. CASE UNCHANGED coreVars
  BY <1>6, <1>c DEF coreVars, Core!ActiveAdmins
<1>7. ASSUME NEW s \in Slots, Core!ApplyAborts(s)
      PROVE  Core!ChecksAreCurrent'
  BY <1>4, <1>7
<1> QED
  BY <1>1, <1>2, <1>3, <1>4, <1>5, <1>6, <1>7, CoreKinds, Zenon

(* Two executions of one action both began before either had written its   *)
(* audit row: whichever began second did so while the first was under way. *)
LEMMA OverlapsStep == IndInv /\ [Next]_vars => (Core!OverlapsAreKnown /\ OncePerKey)'
<1> SUFFICES ASSUME IndInv, [Next]_vars
             PROVE  (Core!OverlapsAreKnown /\ OncePerKey)'
  OBVIOUS
<1> USE DEF IndInv, TypeOK, OncePerKey
<1>a. Core!NoApplication.action = None
  BY DEF Core!NoApplication
<1>1. ASSUME NEW s \in Slots, NEW a \in Actions, Core!ApplyBegin(s, a)
      PROVE  (Core!OverlapsAreKnown /\ OncePerKey)'
  <2>1. /\ UNCHANGED <<audited, execs>> /\ a \notin audited
        /\ overlapped \subseteq overlapped'
        /\ \A t \in Slots : applying[t].action = a => a \in overlapped'
    BY <1>1 DEF Core!ApplyBegin
  <2>2. applying'[s].action = a /\ \A t \in Slots : t # s => applying'[t] = applying[t]
    BY <1>1 DEF Core!ApplyBegin, Core!TypeOK
  <2>3. ~(execs[a] > 0)
    BY <2>1 DEF Core!OverlapsAreKnown
  <2> QED  BY <2>1, <2>2, <2>3 DEF Core!OverlapsAreKnown, Core!OncePerKey
<1>2. ASSUME NEW s \in Slots, Core!ApplyCommit(s)
      PROVE  (Core!OverlapsAreKnown /\ OncePerKey)'
  <2> DEFINE a == applying[s].action
  <2>1. a \in Actions
    BY <1>2 DEF Core!TypeOK, Core!ApplyCommit, Core!Application
  <2>2. /\ audited' = audited \cup {a} /\ UNCHANGED overlapped
        /\ execs'[a] = execs[a] + 1 /\ execs[a] \in 0..2
        /\ \A b \in Actions : b # a => execs'[b] = execs[b]
    BY <1>2, <2>1 DEF Core!ApplyCommit, Core!TypeOK
  <2>3. /\ applying'[s].action = None
        /\ \A t \in Slots : t # s => applying'[t] = applying[t]
    BY <1>2, <1>a DEF Core!ApplyCommit, Core!TypeOK
  <2>4. a # None
    BY <1>2 DEF Core!ApplyCommit
  <2>5. \A t \in Slots : applying[t].action \in Actions \cup {None}
    BY DEF Core!TypeOK, Core!Application
  <2> HIDE DEF a
  <2>6. execs'[a] > 1 => a \in overlapped'
    BY <2>2, <2>4 DEF Core!OverlapsAreKnown, a
  <2>7. OncePerKey'
    BY <2>2, <2>6 DEF Core!OncePerKey
  <2>8. \A b \in Actions : execs'[b] > 0 => b \in audited'
    BY <2>2 DEF Core!OverlapsAreKnown
  <2>9. \A t \in Slots : t # s /\ applying[t].action = a => a \in overlapped
    BY <2>4 DEF Core!OverlapsAreKnown, a
  <2>10. \A t \in Slots : applying'[t].action # None /\ execs'[applying'[t].action] > 0
                              => applying'[t].action \in overlapped'
    BY <2>2, <2>3, <2>5, <2>9 DEF Core!OverlapsAreKnown
  <2>11. \A t, v \in Slots :
           t # v /\ applying'[t].action = applying'[v].action /\ applying'[t].action # None
           => applying'[t].action \in overlapped'
    BY <2>2, <2>3 DEF Core!OverlapsAreKnown
  <2> QED  BY <2>7, <2>8, <2>10, <2>11 DEF Core!OverlapsAreKnown
<1>3. ASSUME NEW s \in Slots, Core!ApplyAborts(s)
      PROVE  (Core!OverlapsAreKnown /\ OncePerKey)'
  <2>1. UNCHANGED <<audited, execs, overlapped>>
    BY <1>3 DEF Core!ApplyAborts
  <2>2. /\ applying'[s].action = None
        /\ \A t \in Slots : t # s => applying'[t] = applying[t]
    BY <1>3, <1>a DEF Core!ApplyAborts, Core!TypeOK
  <2> QED  BY <2>1, <2>2 DEF Core!OverlapsAreKnown, Core!OncePerKey
<1>4. ASSUME UNCHANGED <<applying, audited, execs, overlapped>>
      PROVE  (Core!OverlapsAreKnown /\ OncePerKey)'
  BY <1>4 DEF Core!OverlapsAreKnown, Core!OncePerKey
<1>5. ASSUME NEW u, NEW k, Core!Begin(u, k) \/ Core!Remove(u) \/ Core!Restore(u)
      PROVE  UNCHANGED <<applying, audited, execs, overlapped>>
  BY <1>5, Zenon DEF Core!Begin, Core!Remove, Core!Restore
<1>6. UNCHANGED coreVars => UNCHANGED <<applying, audited, execs, overlapped>>
  BY DEF coreVars
<1>7. ASSUME NEW j \in Jobs, job[j].pc = "asked"
      PROVE  job[j].action \in Actions
  BY <1>7 DEF AnswersAreAudited
<1>8. ASSUME NEW u, Core!Remove(u) \/ Core!Restore(u)
      PROVE  UNCHANGED <<applying, audited, execs, overlapped>>
  BY <1>5, <1>8
<1> QED
  BY <1>1, <1>2, <1>3, <1>4, <1>5, <1>6, <1>7, <1>8, CoreKinds, Zenon

-----------------------------------------------------------------------------
(* What the alert keeps *)

(* A commit of a status outdates what every other handler has read.        *)
LEMMA ReadsStep == IndInv /\ [Next]_vars => Soc!ReadsAreCurrent'
<1> SUFFICES ASSUME IndInv, [Next]_vars
             PROVE  Soc!ReadsAreCurrent'
  OBVIOUS
<1> USE DEF IndInv, TypeOK
<1>1. ASSUME NEW j \in Jobs, NEW pc, NEW a, Soc!Start(j, pc, a), UNCHANGED alert,
             pc \in {"acknowledge", "resolve"} => alert.status \notin Soc!Closed
      PROVE  Soc!ReadsAreCurrent'
  BY <1>1 DEF Soc!Start, Soc!ReadsAreCurrent, Soc!TypeOK
<1>2. ASSUME NEW j \in Jobs, Soc!CommitStatus(j)
      PROVE  Soc!ReadsAreCurrent'
  <2>1. \A i \in Jobs : job'[i].pc \in {"acknowledge", "resolve"} => job'[i].stale
    BY <1>2 DEF Soc!CommitStatus, Soc!NoJob, Soc!TypeOK, Soc!Job
  <2> QED  BY <2>1 DEF Soc!ReadsAreCurrent
<1>3. ASSUME NEW j \in Jobs, Soc!RecordApplied(j) \/ Soc!RecordRefused(j)
      PROVE  Soc!ReadsAreCurrent'
  BY <1>3 DEF Soc!RecordApplied, Soc!RecordRefused, Soc!NoJob, Soc!ReadsAreCurrent, Soc!TypeOK
<1>4. ASSUME NEW j \in Jobs, NEW from \in {"asked", "executing"},
             NEW to \in {"executing", "answered"}, Soc!CallMoves(j, from, to)
      PROVE  Soc!ReadsAreCurrent'
  <2>1. UNCHANGED alert /\ \A i \in Jobs : i # j => job'[i] = job[i]
    BY <1>4 DEF Soc!CallMoves, Soc!TypeOK
  <2>2. job'[j].pc = to
    BY <1>4 DEF Soc!CallMoves, Soc!TypeOK, Soc!Job
  <2> QED  BY <2>1, <2>2 DEF Soc!ReadsAreCurrent
<1>5. ASSUME NEW n, Soc!Assign(n)
      PROVE  Soc!ReadsAreCurrent'
  <2>1. UNCHANGED job /\ alert'.status = alert.status
    BY <1>5 DEF Soc!Assign, Soc!TypeOK, Soc!Alert
  <2> QED  BY <2>1 DEF Soc!ReadsAreCurrent
<1>6. ASSUME UNCHANGED <<alert, job>>
      PROVE  Soc!ReadsAreCurrent'
  BY <1>6 DEF Soc!ReadsAreCurrent
<1>7. ASSUME NEW j \in Jobs, Soc!AcknowledgeBegin(j) \/ Soc!ResolveBegin(j)
      PROVE  Soc!ReadsAreCurrent'
  BY <1>7, <1>1 DEF Soc!AcknowledgeBegin, Soc!ResolveBegin, Soc!Closed
<1>8. ASSUME NEW j \in Jobs, NEW a, Soc!RequestAction(j, a)
      PROVE  Soc!ReadsAreCurrent'
  BY <1>8, <1>1 DEF Soc!RequestAction
<1>9. ASSUME NEW j \in Jobs, NEW r, Soc!AcknowledgeCommit(j) \/ Soc!ResolveCommit(j, r)
      PROVE  Soc!ReadsAreCurrent'
  BY <1>9, <1>2, Zenon DEF Soc!AcknowledgeCommit, Soc!ResolveCommit
<1>10. ASSUME NEW t, Soc!AddEvent(t)
       PROVE  Soc!ReadsAreCurrent'
  BY <1>10, <1>6 DEF Soc!AddEvent
<1>11. CASE UNCHANGED socVars
  BY <1>11, <1>6 DEF socVars
<1>12. CASE Soc!LocalStep
  BY <1>12, <1>3, <1>5, <1>7, <1>8, <1>9, <1>10, Zenon DEF Soc!LocalStep
<1> QED  BY <1>4, <1>11, <1>12, SocKinds

(* Only a resolution closes an alert, and it writes both columns.          *)
LEMMA VerdictStep == IndInv /\ [Next]_vars => OneVerdict'
<1> SUFFICES ASSUME IndInv, [Next]_vars
             PROVE  OneVerdict'
  OBVIOUS
<1> USE DEF IndInv, TypeOK, OneVerdict
<1>1. ASSUME NEW j \in Jobs, NEW r \in Resolutions, Soc!ResolveCommit(j, r)
      PROVE  OneVerdict'
  <2>1. alert'.status = Soc!StatusFor(r) /\ alert'.resolution = r
    BY <1>1 DEF Soc!ResolveCommit, Soc!TypeOK, Soc!Alert
  <2> QED  BY <2>1, NoneAssumption DEF Soc!OneVerdict, Soc!StatusFor, Soc!Closed
<1>2. ASSUME NEW j \in Jobs, Soc!AcknowledgeCommit(j)
      PROVE  OneVerdict'
  <2>1. alert'.status = "acknowledged"
    BY <1>2 DEF Soc!AcknowledgeCommit, Soc!TypeOK, Soc!Alert
  <2> QED  BY <2>1 DEF Soc!OneVerdict, Soc!Closed
<1>3. ASSUME NEW n \in Analysts, Soc!Assign(n)
      PROVE  OneVerdict'
  <2>1. alert'.status = alert.status /\ alert'.resolution = alert.resolution
    BY <1>3 DEF Soc!Assign, Soc!TypeOK, Soc!Alert
  <2> QED  BY <2>1 DEF Soc!OneVerdict
<1>4. ASSUME UNCHANGED alert
      PROVE  OneVerdict'
  BY <1>4 DEF Soc!OneVerdict
<1>5. ASSUME NEW j, NEW from, NEW to, Soc!CallMoves(j, from, to)
      PROVE  UNCHANGED alert
  BY <1>5 DEF Soc!CallMoves
<1>6. CASE Soc!LocalStep
  <2>1. ASSUME NEW j, NEW a, NEW t,
               \/ Soc!AcknowledgeBegin(j) \/ Soc!ResolveBegin(j) \/ Soc!AddEvent(t)
               \/ Soc!RequestAction(j, a) \/ Soc!RecordApplied(j) \/ Soc!RecordRefused(j)
        PROVE  UNCHANGED alert
    BY <2>1, Zenon DEF Soc!AcknowledgeBegin, Soc!ResolveBegin, Soc!AddEvent,
       Soc!RequestAction, Soc!RecordApplied, Soc!RecordRefused
  <2> QED  BY <1>6, <1>1, <1>2, <1>3, <1>4, <2>1, Zenon DEF Soc!LocalStep
<1>7. CASE UNCHANGED socVars
  BY <1>7, <1>4 DEF socVars
<1> QED  BY <1>4, <1>5, <1>6, <1>7, SocKinds, Zenon

-----------------------------------------------------------------------------
(* The calls between them *)

(* An answer reaches the request only with the audit row committed, and    *)
(* only an answered request claims its action on the timeline.             *)
LEMMA AnswersStep ==
    IndInv /\ [Next]_vars => (AnswersAreAudited /\ AppliedNoteIsAudited)'
<1> SUFFICES ASSUME IndInv, [Next]_vars
             PROVE  (AnswersAreAudited /\ AppliedNoteIsAudited)'
  OBVIOUS
<1> USE DEF IndInv, TypeOK
<1>a. audited \subseteq audited'
  <2>1. ASSUME NEW u, NEW k, NEW s, NEW a,
               \/ Core!Begin(u, k) \/ Core!Remove(u) \/ Core!Restore(u)
               \/ Core!ApplyBegin(s, a) \/ Core!ApplyAborts(s)
        PROVE  UNCHANGED audited
    BY <2>1, Zenon DEF Core!Begin, Core!Remove, Core!Restore, Core!ApplyBegin, Core!ApplyAborts
  <2>2. ASSUME NEW s, Core!ApplyCommit(s)
        PROVE  audited \subseteq audited'
    BY <2>2 DEF Core!ApplyCommit
  <2>3. UNCHANGED coreVars => UNCHANGED audited
    BY DEF coreVars
  <2>4. UNCHANGED audited \/ audited \subseteq audited'
    BY <2>1, <2>2, <2>3, CoreKinds, Zenon
  <2> QED  BY <2>4
<1>b. ASSUME UNCHANGED <<job, applied>>
      PROVE  (AnswersAreAudited /\ AppliedNoteIsAudited)'
  BY <1>a, <1>b DEF AnswersAreAudited, AppliedNoteIsAudited
<1>c. ASSUME NEW j \in Jobs, UNCHANGED applied,
             \A i \in Jobs : i # j => job'[i] = job[i],
             job'[j].pc \notin {"asked", "executing", "answered"}
      PROVE  (AnswersAreAudited /\ AppliedNoteIsAudited)'
  BY <1>a, <1>c DEF AnswersAreAudited, AppliedNoteIsAudited
<1>d. ASSUME NEW j \in Jobs, UNCHANGED applied,
             \A i \in Jobs : i # j => job'[i] = job[i],
             job'[j].action \in Actions,
             job'[j].pc = "answered" => job'[j].action \in audited'
      PROVE  (AnswersAreAudited /\ AppliedNoteIsAudited)'
  BY <1>a, <1>d DEF AnswersAreAudited, AppliedNoteIsAudited
<1>e. ASSUME NEW j \in Jobs, NEW from \in {"asked", "executing"}, NEW to,
             Soc!CallMoves(j, from, to)
      PROVE  /\ UNCHANGED applied /\ \A i \in Jobs : i # j => job'[i] = job[i]
             /\ job'[j].pc = to
             /\ job'[j].action = job[j].action /\ job[j].action \in Actions
  <2>1. job[j].action \in Actions
    BY <1>e DEF Soc!CallMoves, AnswersAreAudited
  <2>2. job'[j] = [job[j] EXCEPT !.pc = to]
    BY <1>e DEF Soc!CallMoves, Soc!TypeOK
  <2>3. job[j] \in Soc!Job
    BY DEF Soc!TypeOK
  <2>4. job'[j].pc = to /\ job'[j].action = job[j].action
    BY <2>2, <2>3 DEF Soc!Job
  <2>5. UNCHANGED applied /\ \A i \in Jobs : i # j => job'[i] = job[i]
    BY <1>e DEF Soc!CallMoves, Soc!TypeOK
  <2> QED  BY <2>1, <2>4, <2>5
<1>1. ASSUME NEW j \in Jobs, NEW s \in Slots, CallArrives(j, s)
      PROVE  (AnswersAreAudited /\ AppliedNoteIsAudited)'
  BY <1>1, <1>d, <1>e DEF CallArrives
<1>2. ASSUME NEW j \in Jobs, CallIsKnown(j)
      PROVE  (AnswersAreAudited /\ AppliedNoteIsAudited)'
  BY <1>2, <1>a, <1>d, <1>e DEF CallIsKnown
<1>3. ASSUME NEW j \in Jobs, NEW s \in Slots, CallSucceeds(j, s)
      PROVE  (AnswersAreAudited /\ AppliedNoteIsAudited)'
  <2>1. job[j].action \in audited'
    BY <1>3 DEF CallSucceeds, Core!ApplyCommit
  <2> QED  BY <1>3, <1>d, <1>e, <2>1 DEF CallSucceeds
<1>4. CASE UNCHANGED socVars
  BY <1>4, <1>b DEF socVars
<1>5. ASSUME NEW j \in Jobs, NEW pc, NEW a, Soc!Start(j, pc, a), UNCHANGED applied,
             pc \in {"acknowledge", "resolve"} \/ (pc = "asked" /\ a \in Actions)
      PROVE  (AnswersAreAudited /\ AppliedNoteIsAudited)'
  <2>1. job'[j] = [pc |-> pc, action |-> a, stale |-> FALSE]
        /\ \A i \in Jobs : i # j => job'[i] = job[i]
    BY <1>5 DEF Soc!Start, Soc!TypeOK
  <2> QED  BY <1>5, <1>c, <1>d, <2>1
<1>6. ASSUME NEW j \in Jobs, Soc!CommitStatus(j), UNCHANGED applied
      PROVE  (AnswersAreAudited /\ AppliedNoteIsAudited)'
  <2>1. \A i \in Jobs : job'[i].pc \in {"asked", "executing", "answered"} =>
                           job'[i] = job[i]
    BY <1>6 DEF Soc!CommitStatus, Soc!NoJob, Soc!TypeOK, Soc!Job
  <2> QED  BY <1>a, <1>6, <2>1 DEF AnswersAreAudited, AppliedNoteIsAudited
<1>7. ASSUME NEW j \in Jobs, Soc!RecordApplied(j)
      PROVE  (AnswersAreAudited /\ AppliedNoteIsAudited)'
  <2>1. applied' = applied \cup {job[j].action} /\ job[j].action \in audited
    BY <1>7 DEF Soc!RecordApplied, AnswersAreAudited
  <2>2. \A i \in Jobs : job'[i].pc # "idle" => job'[i] = job[i]
    BY <1>7 DEF Soc!RecordApplied, Soc!NoJob, Soc!TypeOK
  <2> QED  BY <1>a, <2>1, <2>2 DEF AnswersAreAudited, AppliedNoteIsAudited
<1>8. ASSUME NEW j \in Jobs, Soc!RecordRefused(j)
      PROVE  (AnswersAreAudited /\ AppliedNoteIsAudited)'
  BY <1>8, <1>c DEF Soc!RecordRefused, Soc!NoJob, Soc!TypeOK
<1>9. CASE Soc!LocalStep
  <2>1. ASSUME NEW n, Soc!Assign(n) \/ Soc!AddEvent(n)
        PROVE  UNCHANGED <<job, applied>>
    BY <2>1 DEF Soc!Assign, Soc!AddEvent
  <2>2. ASSUME NEW j \in Jobs, NEW a \in Actions, Soc!RequestAction(j, a)
        PROVE  (AnswersAreAudited /\ AppliedNoteIsAudited)'
    <3>1. Soc!Start(j, "asked", a) /\ UNCHANGED applied
      BY <2>2 DEF Soc!RequestAction
    <3> QED  BY <1>5, <3>1
  <2>3. ASSUME NEW j \in Jobs, Soc!AcknowledgeBegin(j) \/ Soc!ResolveBegin(j)
        PROVE  (AnswersAreAudited /\ AppliedNoteIsAudited)'
    <3>1. UNCHANGED applied
      BY <2>3 DEF Soc!AcknowledgeBegin, Soc!ResolveBegin
    <3>2. CASE Soc!Start(j, "acknowledge", None)
      BY <1>5, <3>1, <3>2
    <3>3. CASE Soc!Start(j, "resolve", None)
      BY <1>5, <3>1, <3>3
    <3> QED  BY <2>3, <3>2, <3>3 DEF Soc!AcknowledgeBegin, Soc!ResolveBegin
  <2>4. ASSUME NEW j \in Jobs, NEW r, Soc!AcknowledgeCommit(j) \/ Soc!ResolveCommit(j, r)
        PROVE  (AnswersAreAudited /\ AppliedNoteIsAudited)'
    BY <1>6, <2>4, Zenon DEF Soc!AcknowledgeCommit, Soc!ResolveCommit
  <2> QED
    BY <1>9, <1>b, <1>7, <1>8, <2>1, <2>2, <2>3, <2>4, Zenon DEF Soc!LocalStep
<1>10. CASE UNCHANGED <<coreVars, socVars>>
  BY <1>10, <1>4
<1>11. ASSUME NEW s \in Slots, CallOutlivesItsCaller(s)
       PROVE  UNCHANGED socVars
  BY <1>11 DEF CallOutlivesItsCaller
<1> QED
  BY <1>1, <1>2, <1>3, <1>4, <1>9, <1>10, <1>11, StepKinds, Zenon

-----------------------------------------------------------------------------
(* What every history satisfies *)

(* Some accounts administer, nothing has been asked for and the alert is   *)
(* open.                                                                   *)
LEMMA InitInv == Init => IndInv
<1> SUFFICES ASSUME Init
             PROVE  IndInv
  OBVIOUS
<1> USE DEF Init
<1>1. Core!TypeOK
  <2>1. Core!NoHandling \in Core!Handling /\ Core!NoApplication \in Core!Application
    BY DEF Core!NoHandling, Core!NoApplication, Core!Handling, Core!Application
  <2>2. execs \in [Actions -> 0..2]
    BY DEF Core!Init
  <2> QED  BY <2>1, <2>2 DEF Core!Init, Core!TypeOK
<1>2. Soc!TypeOK
  <2>1. Soc!NoJob \in Soc!Job
    BY DEF Soc!NoJob, Soc!Job
  <2> QED  BY <2>1 DEF Soc!Init, Soc!TypeOK, Soc!Alert
<1>3. AnswersAreAudited /\ AppliedNoteIsAudited
  BY DEF Soc!Init, Soc!NoJob, AnswersAreAudited, AppliedNoteIsAudited
<1>4. Core!ChecksAreCurrent
  BY DEF Core!Init, Core!NoHandling, Core!ChecksAreCurrent
<1>5. Core!OverlapsAreKnown /\ OncePerKey
  BY DEF Core!Init, Core!NoApplication, Core!OverlapsAreKnown, OncePerKey, Core!OncePerKey
<1>6. Soc!ReadsAreCurrent /\ OneVerdict
  BY DEF Soc!Init, Soc!NoJob, Soc!ReadsAreCurrent, OneVerdict, Soc!OneVerdict, Soc!Closed
<1> QED  BY <1>1, <1>2, <1>3, <1>4, <1>5, <1>6 DEF IndInv, TypeOK

(* The inductive invariant holds in every reachable state.                 *)
THEOREM Invariance == Spec => []IndInv
<1>1. IndInv /\ [Next]_vars => IndInv'
  BY CoreTypeStep, SocTypeStep, ChecksStep, OverlapsStep, ReadsStep, VerdictStep,
     AnswersStep DEF IndInv, TypeOK
<1> QED  BY InitInv, <1>1, PTL DEF Spec

(* Every column of both databases stays in its range.                      *)
THEOREM TypeCorrect == Spec => []TypeOK
<1>1. IndInv => TypeOK
  BY DEF IndInv
<1> QED  BY Invariance, <1>1, PTL

(* The timeline claims no action that Core's audit log does not have,      *)
(* however calls are lost, late or repeated.                               *)
THEOREM NotesAreTrue == Spec => []AppliedNoteIsAudited
<1>1. IndInv => AppliedNoteIsAudited
  BY DEF IndInv
<1> QED  BY Invariance, <1>1, PTL

(* apply_action executes a key once, but for executions that overlap.      *)
THEOREM KeysExecuteOnce == Spec => []OncePerKey
<1>1. IndInv => OncePerKey
  BY DEF IndInv
<1> QED  BY Invariance, <1>1, PTL

(* A closed alert has one verdict, whichever handlers overlap.             *)
THEOREM VerdictsAgree == Spec => []OneVerdict
<1>1. IndInv => OneVerdict
  BY DEF IndInv
<1> QED  BY Invariance, <1>1, PTL

(* The guard of the last administrator fails only where another removal    *)
(* overtakes it, or where a protective action does not ask it.             *)
THEOREM LastAdminGuard == Spec => LastAdminIsGuarded
<1>1. ASSUME IndInv, [Next]_vars, Core!ActiveAdmins # {}, Core!ActiveAdmins' = {},
             ~Core!AnOvertakenHandlerEnds
      PROVE  execs' # execs
  <2> USE DEF IndInv, TypeOK
  <2>1. ASSUME NEW u \in Users, Core!Remove(u)
        PROVE  FALSE
    <3>1. handling'[u] = Core!NoHandling
      BY <1>1, <2>1 DEF Core!Remove, Core!Outdate, Core!NoHandling, Core!TypeOK
    <3>2. ~handling[u].stale
      BY <1>1, <3>1 DEF Core!AnOvertakenHandlerEnds
    <3>3. u \in Core!ActiveAdmins => \E v \in Core!ActiveAdmins : v # u
      BY <1>1, <2>1, <3>2 DEF Core!Remove, Core!ChecksAreCurrent
    <3>4. \A v \in Core!ActiveAdmins : v # u => v \in Core!ActiveAdmins'
      BY <2>1 DEF Core!Remove, Core!ActiveAdmins
    <3> QED  BY <1>1, <3>3, <3>4
  <2>2. ASSUME NEW s \in Slots, Core!ApplyCommit(s)
        PROVE  execs' # execs
    <3>1. applying[s].action \in Actions
      BY <1>1, <2>2 DEF Core!TypeOK, Core!ApplyCommit, Core!Application
    <3>2. execs'[applying[s].action] = execs[applying[s].action] + 1
          /\ execs[applying[s].action] \in 0..2
      BY <1>1, <2>2, <3>1 DEF Core!ApplyCommit, Core!TypeOK
    <3> QED  BY <3>2
  <2>3. ASSUME NEW u, Core!Restore(u)
        PROVE  FALSE
    BY <1>1, <2>3 DEF Core!Restore, Core!ActiveAdmins
  <2>4. ASSUME NEW u, NEW k, NEW s, NEW a,
               Core!Begin(u, k) \/ Core!ApplyBegin(s, a) \/ Core!ApplyAborts(s)
        PROVE  FALSE
    BY <1>1, <2>4 DEF Core!Begin, Core!ApplyBegin, Core!ApplyAborts, Core!ActiveAdmins
  <2>5. CASE UNCHANGED coreVars
    BY <1>1, <2>5 DEF coreVars, Core!ActiveAdmins
  <2> QED  BY <1>1, <2>1, <2>2, <2>3, <2>4, <2>5, CoreKinds, Zenon
<1>2. IndInv /\ [Next]_vars => [Core!GuardedStep]_vars
  BY <1>1 DEF Core!GuardedStep
<1> QED  BY Invariance, <1>2, PTL DEF Spec, LastAdminIsGuarded

(* Administrators come from administrators: when none is active, only a    *)
(* handler that one had begun makes one.                                   *)
THEOREM NoAdminFromNone == Spec => AdminsComeFromAdmins
<1>1. ASSUME IndInv, [Next]_vars, Core!ActiveAdmins = {}, Core!ActiveAdmins' # {}
      PROVE  Core!AnOvertakenHandlerEnds
  <2> USE DEF IndInv, TypeOK
  <2>1. ASSUME NEW u \in Users, Core!Restore(u)
        PROVE  Core!AnOvertakenHandlerEnds
    <3>1. handling'[u] = Core!NoHandling /\ handling[u].kind # "none"
      BY <1>1, <2>1 DEF Core!Restore, Core!TypeOK
    <3>2. handling[u].stale
      BY <1>1, <3>1 DEF Core!ChecksAreCurrent
    <3> QED  BY <3>1, <3>2 DEF Core!AnOvertakenHandlerEnds
  <2>2. ASSUME NEW u, Core!Remove(u)
        PROVE  FALSE
    BY <1>1, <2>2 DEF Core!Remove, Core!ActiveAdmins
  <2>3. ASSUME NEW u, NEW k, NEW s, NEW a,
               Core!Begin(u, k) \/ Core!ApplyBegin(s, a) \/ Core!ApplyAborts(s)
        PROVE  FALSE
    BY <1>1, <2>3 DEF Core!Begin, Core!ApplyBegin, Core!ApplyAborts, Core!ActiveAdmins
  <2>4. ASSUME NEW s, Core!ApplyCommit(s)
        PROVE  FALSE
    BY <1>1, <2>4 DEF Core!ApplyCommit, Core!ActiveAdmins
  <2>5. CASE UNCHANGED coreVars
    BY <1>1, <2>5 DEF coreVars, Core!ActiveAdmins
  <2> QED  BY <1>1, <2>1, <2>2, <2>3, <2>4, <2>5, CoreKinds, Zenon
<1>2. IndInv /\ [Next]_vars => [Core!AuthorizedStep]_vars
  BY <1>1 DEF Core!AuthorizedStep
<1> QED  BY Invariance, <1>2, PTL DEF Spec, AdminsComeFromAdmins

(* An alert is closed for good, but for a handler that had read it open.   *)
THEOREM ClosedForGood == Spec => ClosedStaysClosed
<1>1. ASSUME IndInv, [Next]_vars, alert.status \in Soc!Closed, alert'.status # alert.status
      PROVE  \E j \in Jobs : job[j].stale /\ job'[j] = Soc!NoJob
  <2> USE DEF IndInv, TypeOK
  <2>1. ASSUME NEW j \in Jobs, NEW r, Soc!AcknowledgeCommit(j) \/ Soc!ResolveCommit(j, r)
        PROVE  \E i \in Jobs : job[i].stale /\ job'[i] = Soc!NoJob
    <3>1. job[j].pc \in {"acknowledge", "resolve"} /\ Soc!CommitStatus(j)
      BY <2>1 DEF Soc!AcknowledgeCommit, Soc!ResolveCommit
    <3>2. job[j].stale
      BY <1>1, <3>1 DEF Soc!ReadsAreCurrent
    <3>3. job'[j] = Soc!NoJob
      BY <3>1 DEF Soc!CommitStatus
    <3> QED  BY <3>2, <3>3
  <2>2. ASSUME NEW j, NEW a, NEW t, NEW from, NEW to,
               \/ Soc!AcknowledgeBegin(j) \/ Soc!ResolveBegin(j) \/ Soc!AddEvent(t)
               \/ Soc!RequestAction(j, a) \/ Soc!RecordApplied(j) \/ Soc!RecordRefused(j)
               \/ Soc!CallMoves(j, from, to)
        PROVE  UNCHANGED alert
    BY <2>2, Zenon DEF Soc!AcknowledgeBegin, Soc!ResolveBegin, Soc!AddEvent,
       Soc!RequestAction, Soc!RecordApplied, Soc!RecordRefused, Soc!CallMoves
  <2>3. ASSUME NEW n, Soc!Assign(n)
        PROVE  alert'.status = alert.status
    BY <2>3 DEF Soc!Assign, Soc!TypeOK, Soc!Alert
  <2>4. UNCHANGED socVars => UNCHANGED alert
    BY DEF socVars
  <2>5. UNCHANGED alert => alert'.status = alert.status
    OBVIOUS
  <2> QED
    BY <1>1, <2>1, <2>2, <2>3, <2>4, <2>5, SocKinds, Zenon DEF Soc!LocalStep
<1>2. IndInv /\ [Next]_vars => [Soc!ClosedStep]_vars
  BY <1>1 DEF Soc!ClosedStep
<1> QED  BY Invariance, <1>2, PTL DEF Spec, ClosedStaysClosed

=============================================================================
