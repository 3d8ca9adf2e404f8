---------------------------- MODULE ManagerProofs ----------------------------
(***************************************************************************)
(* Proofs about Manager, and the ML service that it shares threads with,   *)
(* for any number of managers, models, versions, inferences and swaps, any *)
(* tables and any window.                                                  *)
(*                                                                         *)
(* AN INFERENCE is logged with what the runtime's object says by then.     *)
(* While no two calls of get_ml_runtime overlap a load, the path that the  *)
(* process remembers is the one of the object's model (PathIsTheRuntimes): *)
(* so the id of a model is only ever written over one of the same path.    *)
(*                                                                         *)
(* A REPORT counts one set of rows several times.  Each breakdown and each *)
(* series splits that set into disjoint parts, and the sizes of disjoint   *)
(* parts add up (SumOfParts); a rate divides the size of a part by that of *)
(* the whole.  Core's and Detection's sections are of one moment.  The ML  *)
(* sections are not: until a row is logged they are what the log says now, *)
(* one by one (ReadsAreCurrent), and after it the report is torn.          *)
(***************************************************************************)
EXTENDS Manager, FiniteSums, SequenceTheorems

-----------------------------------------------------------------------------
(* Counting *)

(* Total is the sum of all the counts.                                     *)
LEMMA TotalIsSum ==
    ASSUME NEW counts
    PROVE  Total(counts) = SumOf(counts, DOMAIN counts)
BY DEF Total, SumOf

(* Counts by the value of a column add up to the rows, if each value is in *)
(* the vocabulary, and to no more if some are not.                         *)
LEMMA CountsAddUp ==
    ASSUME NEW rows, IsFiniteSet(rows), NEW field,
           NEW vocabulary, IsFiniteSet(vocabulary)
    PROVE  /\ Within(rows, field, vocabulary) =>
                Total(CountBy(rows, field, vocabulary)) = Cardinality(rows)
           /\ Total(CountBy(rows, field, vocabulary)) <= Cardinality(rows)
<1> DEFINE P == [v \in vocabulary |-> {r \in rows : r[field] = v}]
           counts == CountBy(rows, field, vocabulary)
           all == UNION {P[v] : v \in vocabulary}
<1>1. \A v \in vocabulary : IsFiniteSet(P[v]) /\ counts[v] = Cardinality(P[v])
  BY FS_Subset DEF CountBy
<1>2. \A u, v \in vocabulary : u # v => P[u] \cap P[v] = {}
  OBVIOUS
<1>3. DOMAIN counts = vocabulary
  BY DEF CountBy
<1>4. all \subseteq rows /\ (Within(rows, field, vocabulary) => all = rows)
  BY DEF Within
<1>5. SumOf(counts, vocabulary) = Cardinality(all)
  <2> HIDE DEF P, counts
  <2> QED  BY <1>1, <1>2, SumOfParts
<1>6. Cardinality(all) <= Cardinality(rows)
  BY <1>4, FS_Subset
<1>7. Total(counts) = Cardinality(all)
  BY <1>3, <1>5, TotalIsSum
<1> QED  BY <1>4, <1>6, <1>7

(* The vocabulary of what occurs.                                          *)
LEMMA CountsOfWhatOccurs ==
    ASSUME NEW rows, IsFiniteSet(rows), NEW field
    PROVE  Total(CountBy(rows, field, {r[field] : r \in rows})) = Cardinality(rows)
<1> DEFINE value == [r \in rows |-> r[field]]
<1>1. value \in Surjection(rows, {r[field] : r \in rows})
  BY DEF Surjection
<1>2. IsFiniteSet({r[field] : r \in rows})
  <2> HIDE DEF value
  <2> QED  BY <1>1, FS_Surjection
<1>3. Within(rows, field, {r[field] : r \in rows})
  BY DEF Within
<1> QED  BY <1>2, <1>3, CountsAddUp

(* Rounding down to a multiple: how far, and that it keeps the order.      *)
LEMMA Floors ==
    ASSUME NEW b \in Nat, b > 0, NEW x \in Int, NEW y \in Int
    PROVE  /\ x - (x % b) \in Int /\ x - (x % b) <= x /\ (x - (x % b)) % b = 0
           /\ x <= y => x - (x % b) <= y - (y % b)
<1>1. x - (x % b) \in Int /\ x - (x % b) <= x
  OBVIOUS
<1>2. (x - (x % b)) % b = 0
  OBVIOUS
<1>3. x <= y => x - (x % b) <= y - (y % b)
  OBVIOUS
<1> QED  BY <1>1, <1>2, <1>3

(* A window's buckets are finitely many, and each of its rows is in one.   *)
LEMMA FloorIsABucket ==
    ASSUME NEW w, w.from \in Int, w.to \in Int, NEW t \in Int
    PROVE  /\ Floor(t, w.bucket) \in Int
           /\ w.from <= t /\ t < w.to => Floor(t, w.bucket) \in Grid(w.from, w.to, w.bucket)
<1> DEFINE b == Step(w.bucket)
<1>1. b \in Nat \ {0}
  BY NumbersAssumption DEF Step
<1> HIDE DEF b
<1>2. /\ t - (t % b) \in Int /\ t - (t % b) <= t /\ (t - (t % b)) % b = 0
      /\ w.from - (w.from % b) \in Int
      /\ w.from <= t => w.from - (w.from % b) <= t - (t % b)
  <2>1. b \in Nat /\ b > 0
    BY <1>1
  <2>2. /\ t - (t % b) \in Int /\ t - (t % b) <= t /\ (t - (t % b)) % b = 0
    BY <2>1, Floors, Zenon
  <2>3. w.from - (w.from % b) \in Int /\ (w.from <= t => w.from - (w.from % b) <= t - (t % b))
    BY <2>1, Floors, Zenon
  <2> QED  BY <2>2, <2>3
<1> DEFINE f == t - (t % b)
           g == w.from - (w.from % b)
<1>3. f \in Int /\ g \in Int /\ f <= t /\ f % b = 0 /\ (w.from <= t => g <= f)
  BY <1>2
<1>4. Floor(t, w.bucket) = f /\ Floor(w.from, w.bucket) = g
  BY DEF Floor, b
<1>5. Grid(w.from, w.to, w.bucket) = {i \in g..(w.to - 1) : i % b = 0}
  BY <1>4 DEF Grid, b
<1> HIDE DEF f, g
<1> QED  BY <1>3, <1>4, <1>5

(* A window has finitely many buckets.                                     *)
LEMMA GridIsFinite ==
    ASSUME NEW w, w.from \in Int, w.to \in Int
    PROVE  IsFiniteSet(Grid(w.from, w.to, w.bucket))
<1>1. Floor(w.from, w.bucket) \in Int
  BY FloorIsABucket
<1>2. IsFiniteSet(Floor(w.from, w.bucket)..(w.to - 1))
  BY <1>1, FS_Interval
<1> QED  BY <1>2, FS_Subset DEF Grid

(* Division by a positive number, which rounds down.                       *)
LEMMA Division ==
    ASSUME NEW b \in Nat, b > 0, NEW x \in Int
    PROVE  /\ x \div b \in Int
           /\ b * (x \div b) <= x /\ x < b * (x \div b) + b
           /\ x % b = 0 => x = b * (x \div b)
OBVIOUS
LEMMA Cancel ==
    ASSUME NEW b \in Nat, b > 0, NEW p \in Int, NEW q \in Int, b * p < b * q + b
    PROVE  p <= q
OBVIOUS

(* The list of a window's buckets is no longer than the facade's count:    *)
(* the buckets have different multiples of the step, from the one of the   *)
(* window's start, rounded down, to the one before its end.                *)
LEMMA GridIsCounted ==
    ASSUME NEW start \in Int, NEW end \in Int, start < end, NEW bucket
    PROVE  Cardinality(Grid(start, end, bucket)) <= BucketCount(start, end, bucket)
<1> DEFINE b == Step(bucket)
           w == [from |-> start, to |-> end, bucket |-> bucket]
           grid == Grid(start, end, bucket)
           first == Floor(start, bucket)
           span == end - first + b - 1
<1>1. b \in Nat /\ b > 0
  BY NumbersAssumption DEF Step
<1>2. first \in Int /\ first <= start /\ first % b = 0
  <2>1. first = start - (start % b)
    BY DEF Floor
  <2> HIDE DEF b, first
  <2>2. start - (start % b) \in Int /\ start - (start % b) <= start /\ (start - (start % b)) % b = 0
    BY <1>1, Floors, Zenon
  <2> QED  BY <2>1, <2>2
<1>3. grid = {i \in first..(end - 1) : i % b = 0}
  BY DEF Grid
<1>4. BucketCount(start, end, bucket) = span \div b
  BY DEF BucketCount
<1>5. IsFiniteSet(grid)
  <2>1. IsFiniteSet(first..(end - 1))
    <3> HIDE DEF first
    <3> QED  BY <1>2, FS_Interval
  <2> HIDE DEF first, b, grid
  <2> QED  BY <1>3, <2>1, FS_Subset
<1> HIDE DEF b, first, grid
<1> DEFINE low == first \div b
           high == (end - 1) \div b
           index == [i \in grid |-> i \div b]
<1>6. /\ low \in Int /\ high \in Int /\ b * low = first
      /\ b * high <= end - 1 /\ end - 1 < b * high + b
  BY <1>1, <1>2, Division
<1>7. \A i \in grid : i \in Int /\ first <= i /\ i <= end - 1
                      /\ i \div b \in Int /\ i = b * (i \div b)
  BY <1>1, <1>2, <1>3, Division
<1> HIDE DEF low, high
<1>8. \A i \in grid : index[i] \in low..high
  <2> TAKE i \in grid
  <2> DEFINE k == i \div b
  <2>1. k \in Int /\ i = b * k /\ first <= i /\ i <= end - 1 /\ i \in Int
    BY <1>7
  <2> HIDE DEF k
  <2>2. b * low < b * k + b /\ b * k < b * high + b
    BY <1>1, <1>6, <2>1
  <2>3. low <= k /\ k <= high
    BY <1>1, <1>6, <2>1, <2>2, Cancel
  <2> QED  BY <1>6, <2>1, <2>3 DEF k
<1>9. index \in Injection(grid, low..high)
  <2>1. index \in [grid -> low..high]
    BY <1>8
  <2>2. \A i, j \in grid : index[i] = index[j] => i = j
    BY <1>7
  <2> HIDE DEF index
  <2> QED  BY <2>1, <2>2 DEF Injection, IsInjective
<1>10. low <= high
  <2>1. b * low < b * high + b
    BY <1>1, <1>2, <1>6
  <2> QED  BY <1>1, <1>6, <2>1, Cancel
<1>11. IsFiniteSet(low..high) /\ Cardinality(low..high) = high - low + 1
  BY <1>6, <1>10, FS_Interval
<1>12. Cardinality(grid) <= high - low + 1
  <2> HIDE DEF index
  <2> QED  BY <1>5, <1>9, <1>11, FS_Injection
<1>13. high - low + 1 <= span \div b
  <2>1. span \in Int
    BY <1>1, <1>2
  <2> HIDE DEF span
  <2>2. span \div b \in Int /\ span < b * (span \div b) + b
    BY <1>1, <2>1, Division
  <2> DEFINE q == span \div b
             p == high - low + 1
  <2>3. p \in Int /\ b * p = b * high - b * low + b
    BY <1>1, <1>6
  <2>4. b * p <= span
    <3> HIDE DEF p
    <3> QED  BY <1>1, <1>2, <1>6, <2>3 DEF span
  <2> HIDE DEF p, q
  <2>5. b * p < b * q + b
    <3> USE DEF q
    <3>1. b * p \in Int /\ b * (span \div b) \in Int
      BY <1>1, <2>2, <2>3
    <3> QED  BY <1>1, <2>1, <2>2, <2>4, <3>1
  <2>6. q \in Int
    BY <2>2 DEF q
  <2>7. p <= q
    BY <1>1, <2>3, <2>5, <2>6, Cancel
  <2> QED  BY <2>7 DEF p, q
<1>14. Cardinality(grid) \in Nat
  BY <1>5, FS_CardinalityType
<1>15. span \div b \in Int
  BY <1>1, <1>2, Division
<1> QED
  <2> DEFINE q == span \div b
  <2> HIDE DEF q
  <2>1. q \in Int /\ high - low + 1 <= q /\ BucketCount(start, end, bucket) = q
    BY <1>4, <1>13, <1>15 DEF q
  <2> QED  BY <1>6, <1>12, <1>14, <2>1 DEF grid

(* A series has the rows of its window, whatever the buckets.              *)
LEMMA SeriesAddsUp ==
    ASSUME NEW w, w.from \in Int, w.to \in Int, NEW rows, IsTable(rows), NEW series,
           DOMAIN series = Grid(w.from, w.to, w.bucket),
           \A b \in DOMAIN series : series[b] = Cardinality(Buckets(rows, "at", w)[b])
    PROVE  Total(series) = Cardinality(During(rows, "at", w))
<1> DEFINE K == Grid(w.from, w.to, w.bucket)
           P == Buckets(rows, "at", w)
           D == During(rows, "at", w)
<1>1. IsFiniteSet(K)
  BY GridIsFinite
<1>2. IsFiniteSet(D) /\ D \subseteq rows
  BY FS_Subset DEF IsTable, During
<1>3. \A b \in K : P[b] = {r \in D : Floor(r["at"], w.bucket) = b}
  BY DEF Buckets
<1>4. \A b \in K : IsFiniteSet(P[b]) /\ series[b] = Cardinality(P[b])
  BY <1>2, <1>3, FS_Subset
<1>5. \A a, b \in K : a # b => P[a] \cap P[b] = {}
  BY <1>3
<1>6. \A r \in D : Floor(r["at"], w.bucket) \in K
  <2> TAKE r \in D
  <2>1. r["at"] \in Int /\ w.from <= r["at"] /\ r["at"] < w.to
    BY <1>2 DEF IsTable, During
  <2> QED  BY <2>1, FloorIsABucket
<1>7. UNION {P[b] : b \in K} = D
  <2> HIDE DEF K, P, D
  <2> QED  BY <1>3, <1>6
<1>8. SumOf(series, K) = Cardinality(UNION {P[b] : b \in K})
  <2> HIDE DEF K, P, D
  <2> QED  BY <1>1, <1>4, <1>5, SumOfParts
<1> QED  BY <1>7, <1>8, TotalIsSum

(* Parts of a finite set.                                                  *)
LEMMA PartIsNoLarger ==
    ASSUME NEW rows, IsFiniteSet(rows), NEW part, part \subseteq rows
    PROVE  /\ IsFiniteSet(part) /\ Cardinality(part) \in Nat
           /\ Cardinality(rows) \in Nat /\ Cardinality(part) <= Cardinality(rows)
BY FS_Subset, FS_CardinalityType

(* Two disjoint parts are no larger than the whole.                        *)
LEMMA PartsAreNoLarger ==
    ASSUME NEW rows, IsFiniteSet(rows), NEW p, NEW q, p \subseteq rows, q \subseteq rows,
           p \cap q = {}
    PROVE  /\ Cardinality(p) \in Nat /\ Cardinality(q) \in Nat
           /\ Cardinality(p) + Cardinality(q) <= Cardinality(rows)
<1>1. IsFiniteSet(p) /\ IsFiniteSet(q) /\ Cardinality(p) \in Nat /\ Cardinality(q) \in Nat
  BY PartIsNoLarger
<1>2. Cardinality(p \cup q) = Cardinality(p) + Cardinality(q)
  BY <1>1, DisjointSize
<1>3. p \cup q \subseteq rows
  OBVIOUS
<1>4. Cardinality(p \cup q) <= Cardinality(rows)
  BY <1>3, PartIsNoLarger
<1> QED  BY <1>1, <1>2, <1>4

(* _safe_ratio of a part and its whole.                                    *)
LEMMA RatioIsAFraction ==
    ASSUME NEW n \in Nat, NEW d \in Nat, n <= d
    PROVE  Fraction(Ratio(n, d))
BY DEF Fraction, Ratio

-----------------------------------------------------------------------------
(* What a report says of its rows *)

(* A set that is written out is finite.                                    *)
LEMMA ExplicitSet ==
    /\ \A a, b, c : IsFiniteSet({a, b, c})
    /\ \A a, b, c, d : IsFiniteSet({a, b, c, d})
    /\ \A a, b, c, d, e, f, g, h : IsFiniteSet({a, b, c, d, e, f, g, h})
<1>1. ASSUME NEW a, NEW b, NEW c
      PROVE  IsFiniteSet({a, b, c})
  <2>1. {a, b, c} = {a, b} \cup {c}
    OBVIOUS
  <2>2. IsFiniteSet({a, b} \cup {c})
    BY ExplicitPair, FS_AddElement, Zenon
  <2> QED  BY <2>1, <2>2, Zenon
<1>2. ASSUME NEW a, NEW b, NEW c, NEW d
      PROVE  IsFiniteSet({a, b, c, d})
  <2>1. {a, b, c, d} = {a, b, c} \cup {d}
    OBVIOUS
  <2>2. IsFiniteSet({a, b, c} \cup {d})
    BY <1>1, FS_AddElement, Zenon
  <2> QED  BY <2>1, <2>2, Zenon
<1>3. ASSUME NEW a, NEW b, NEW c, NEW d, NEW e, NEW f, NEW g, NEW h
      PROVE  IsFiniteSet({a, b, c, d, e, f, g, h})
  <2>1. {a, b, c, d, e, f, g, h} = {a, b, c, d} \cup {e, f, g, h}
    OBVIOUS
  <2>2. IsFiniteSet({a, b, c, d} \cup {e, f, g, h})
    BY <1>2, FS_Union, Zenon
  <2> QED  BY <2>1, <2>2, Zenon
<1> QED  BY <1>1, <1>2, <1>3, Zenon

(* The vocabularies that counts are zero-filled over.                      *)
LEMMA VocabulariesAreFinite ==
    /\ IsFiniteSet(UserStatuses) /\ IsFiniteSet(ActorTypes) /\ IsFiniteSet(AlertStatuses)
    /\ IsFiniteSet(RiskLevels) /\ IsFiniteSet(Outcomes)
    /\ IsFiniteSet({"ready", "degraded", "error"})
BY ExplicitPair, ExplicitSet, Zenon
DEF UserStatuses, ActorTypes, AlertStatuses, RiskLevels, Outcomes

(* Core's sections add up.                                                 *)
LEMMA CoreReportAddsUp ==
    ASSUME NEW db, CoreRows(db), NEW w, w.from \in Int, w.to \in Int, NEW now
    PROVE  CoreAddsUp(CorePayload(db, w, now))
<1> DEFINE p == CorePayload(db, w, now)
           d == DashboardCore(p)
           mfa == During(db.mfa, "at", w)
           audit == During(db.audit, "at", w)
           protective == {r \in audit : r.protective}
<1>1. /\ IsTable(db.users) /\ IsTable(db.sessions) /\ IsTable(db.mfa) /\ IsTable(db.audit)
      /\ IsFiniteSet(db.users) /\ IsFiniteSet(mfa) /\ IsFiniteSet(audit)
      /\ IsFiniteSet(protective)
  BY FS_Subset DEF CoreRows, IsTable, During
<1>2. Total(d.users_by_status) = d.total_users
  <2>1. d.users_by_status = CountBy(db.users, "status", UserStatuses)
        /\ d.total_users = Cardinality(db.users)
    BY DEF DashboardCore, CorePayload, UsersSection
  <2>2. Within(db.users, "status", UserStatuses)
    BY DEF CoreRows
  <2> QED  BY <1>1, <2>1, <2>2, CountsAddUp, VocabulariesAreFinite
<1>3. Total(p.series.logins) = d.sessions_created
  <2>1. /\ d.sessions_created = Cardinality(During(db.sessions, "at", w))
        /\ p.series.logins = [b \in DOMAIN Buckets(db.sessions, "at", w) |->
                                Cardinality(Buckets(db.sessions, "at", w)[b])]
    BY DEF DashboardCore, CorePayload, SessionsSection, CoreSeries
  <2>2. DOMAIN Buckets(db.sessions, "at", w) = Grid(w.from, w.to, w.bucket)
    BY DEF Buckets
  <2> QED  BY <1>1, <2>1, <2>2, SeriesAddsUp
<1>4. Total(p.series.mfa_challenges) = d.mfa_challenges
  <2>1. /\ d.mfa_challenges = Cardinality(mfa)
        /\ p.series.mfa_challenges = [b \in DOMAIN Buckets(db.mfa, "at", w) |->
                                        Cardinality(Buckets(db.mfa, "at", w)[b])]
    BY DEF DashboardCore, CorePayload, MfaSection, CoreSeries
  <2>2. DOMAIN Buckets(db.mfa, "at", w) = Grid(w.from, w.to, w.bucket)
    BY DEF Buckets
  <2> QED  BY <1>1, <2>1, <2>2, SeriesAddsUp
<1>5. Total(p.series.audit_events) = d.audit_events
  <2>1. /\ d.audit_events = Cardinality(audit)
        /\ p.series.audit_events = [b \in DOMAIN Buckets(db.audit, "at", w) |->
                                      Cardinality(Buckets(db.audit, "at", w)[b])]
    BY DEF DashboardCore, CorePayload, AuditSections, CoreSeries
  <2>2. DOMAIN Buckets(db.audit, "at", w) = Grid(w.from, w.to, w.bucket)
    BY DEF Buckets
  <2> QED  BY <1>1, <2>1, <2>2, SeriesAddsUp
<1>6. /\ Total(d.audit_activity.by_action) = d.audit_events
      /\ Total(d.audit_activity.by_actor_type) = d.audit_events
  <2>1. /\ d.audit_events = Cardinality(audit)
        /\ d.audit_activity.by_action = CountBy(audit, "action", {r.action : r \in audit})
        /\ d.audit_activity.by_actor_type = CountBy(audit, "actor", ActorTypes)
    BY DEF DashboardCore, CorePayload, AuditSections
  <2>2. Within(audit, "actor", ActorTypes)
    BY DEF CoreRows, Within, During
  <2> HIDE DEF audit, d
  <2>3. Total(CountBy(audit, "action", {r["action"] : r \in audit})) = Cardinality(audit)
    BY <1>1, CountsOfWhatOccurs
  <2>4. Total(CountBy(audit, "actor", ActorTypes)) = Cardinality(audit)
    BY <1>1, <2>2, CountsAddUp, VocabulariesAreFinite
  <2> QED  BY <2>1, <2>3, <2>4
<1>7. Total(p.protective_actions.by_action) = p.protective_actions.total
  <2>1. /\ p.protective_actions.total = Cardinality(protective)
        /\ p.protective_actions.by_action =
              CountBy(protective, "action", {r.action : r \in protective})
    BY DEF CorePayload, ProtectiveSection
  <2> HIDE DEF p, protective
  <2>2. Total(CountBy(protective, "action", {r["action"] : r \in protective}))
          = Cardinality(protective)
    BY <1>1, CountsOfWhatOccurs
  <2> QED  BY <2>1, <2>2
<1>8. d.mfa_completed + d.mfa_failed <= d.mfa_challenges
  <2> DEFINE completed == {r \in mfa : r["status"] = "completed"}
             failed == {r \in mfa : r["status"] = "failed"}
  <2>1. /\ d.mfa_challenges = Cardinality(mfa) /\ d.mfa_completed = Cardinality(completed)
        /\ d.mfa_failed = Cardinality(failed)
    BY DEF DashboardCore, CorePayload, MfaSection, CountBy, MfaStatuses
  <2>2. completed \subseteq mfa /\ failed \subseteq mfa /\ completed \cap failed = {}
    OBVIOUS
  <2> HIDE DEF completed, failed, mfa, d
  <2>3. Cardinality(completed) + Cardinality(failed) <= Cardinality(mfa)
    BY <1>1, <2>2, PartsAreNoLarger
  <2> QED  BY <2>1, <2>3, Zenon
<1>9. Fraction(CoreKpis(p).mfa_enrollment_rate)
  <2> DEFINE required == {u \in db.users : u.mfa_required}
  <2>1. CoreKpis(p).mfa_enrollment_rate = Ratio(Cardinality(required), Cardinality(db.users))
    BY DEF CoreKpis, CorePayload, UsersSection
  <2>2. /\ Cardinality(required) \in Nat /\ Cardinality(db.users) \in Nat
        /\ Cardinality(required) <= Cardinality(db.users)
    BY <1>1, PartIsNoLarger
  <2> QED  BY <2>1, <2>2, RatioIsAFraction
<1>10. CoreAddsUp(p)
  <2> HIDE DEF p
  <2> QED  BY <1>2, <1>3, <1>4, <1>5, <1>6, <1>7, <1>8, <1>9, Zenon DEF CoreAddsUp
<1> QED  BY <1>10

(* Detection's sections add up.                                            *)
LEMMA DetectionReportAddsUp ==
    ASSUME NEW db, DetectionRows(db), NEW w, w.from \in Int, w.to \in Int,
           NEW filter, NEW now
    PROVE  DetectionAddsUp(DetectionPayload(db, w, filter, now))
<1> DEFINE p == DetectionPayload(db, w, filter, now)
           d == DashboardDetection(p)
           k == DetectionKpis(p)
           a == AlertStatistics(p)
           attempts == During(db.attempts, "at", w)
           alerts == Population(db, w, filter)
           assessments == During(db.assessments, "at", w)
           grid == Grid(w.from, w.to, w.bucket)
           Having(status) == {r \in alerts : r["status"] = status}
<1>1. /\ IsTable(db.attempts) /\ IsTable(db.alerts)
      /\ IsFiniteSet(attempts) /\ IsFiniteSet(assessments) /\ IsFiniteSet(alerts)
      /\ alerts \subseteq db.alerts
  BY FS_Subset DEF DetectionRows, IsTable, During, Population
<1>2. /\ Total(d.by_outcome) = d.login_attempts
      /\ Total(d.by_risk_level) <= d.login_attempts
  <2>1. /\ d.login_attempts = Cardinality(attempts)
        /\ d.by_outcome = CountBy(attempts, "outcome", Outcomes)
        /\ d.by_risk_level = CountBy(attempts, "level", RiskLevels)
    BY DEF DashboardDetection, DetectionPayload, AttemptsSection
  <2>2. Within(attempts, "outcome", Outcomes)
    BY DEF DetectionRows, Within, During
  <2> HIDE DEF attempts, d
  <2> QED  BY <1>1, <2>1, <2>2, CountsAddUp, VocabulariesAreFinite
<1>3. SeriesTotal(p.series, "login_attempts") = d.login_attempts
  <2>1. /\ DOMAIN p.series = grid /\ d.login_attempts = Cardinality(attempts)
        /\ \A b \in grid : p.series[b].login_attempts
                            = Cardinality(Buckets(db.attempts, "at", w)[b])
    BY DEF DashboardDetection, DetectionPayload, AttemptsSection, DetectionSeries
  <2> DEFINE series == [b \in DOMAIN p.series |-> p.series[b]["login_attempts"]]
  <2>2. DOMAIN series = grid /\ \A b \in DOMAIN series :
          series[b] = Cardinality(Buckets(db.attempts, "at", w)[b])
    BY <2>1
  <2>3. Total(series) = Cardinality(attempts)
    <3> HIDE DEF series
    <3> QED  BY <1>1, <2>2, SeriesAddsUp
  <2> QED  BY <2>1, <2>3 DEF SeriesTotal
<1>4. SeriesTotal(p.series, "alerts_created") = a.created
  <2>1. /\ DOMAIN p.series = grid /\ a.created = Cardinality(alerts)
        /\ \A b \in grid : p.series[b].alerts_created
                            = Cardinality(Buckets(alerts, "at", w)[b])
    BY DEF AlertStatistics, DetectionPayload, AlertsSection, DetectionSeries
  <2> DEFINE series == [b \in DOMAIN p.series |-> p.series[b]["alerts_created"]]
  <2>2. DOMAIN series = grid /\ \A b \in DOMAIN series :
          series[b] = Cardinality(Buckets(alerts, "at", w)[b])
    BY <2>1
  <2>3. IsTable(alerts)
    BY <1>1 DEF IsTable
  <2>4. During(alerts, "at", w) = alerts
    BY DEF Population, During
  <2>5. Total(series) = Cardinality(During(alerts, "at", w))
    <3> HIDE DEF series, alerts
    <3> QED  BY <2>2, <2>3, SeriesAddsUp
  <2> QED  BY <2>1, <2>4, <2>5 DEF SeriesTotal
<1>5. Total(a.by_status) = a.created /\ a.created = d.alerts.total
  <2>1. /\ a.created = Cardinality(alerts) /\ d.alerts.total = Cardinality(alerts)
        /\ a.by_status = CountBy(alerts, "status", AlertStatuses)
    BY DEF AlertStatistics, DashboardDetection, DetectionPayload, AlertsSection
  <2>2. Within(alerts, "status", AlertStatuses)
    BY <1>1 DEF DetectionRows, Within
  <2> HIDE DEF alerts, a, d
  <2> QED  BY <1>1, <2>1, <2>2, CountsAddUp, VocabulariesAreFinite
<1> DEFINE open == Cardinality(Having("open"))
           resolved == Cardinality(Having("resolved"))
           wrong == Cardinality(Having("false_positive"))
           all == Cardinality(alerts)
<1>6. /\ a.created = all /\ p.alerts.created = all
      /\ a.backlog.open_count = open /\ p.alerts.resolved_count = resolved
      /\ p.alerts.false_positive_count = wrong
  BY DEF AlertStatistics, DetectionPayload, AlertsSection, CountBy, AlertStatuses
<1>7. /\ open \in Nat /\ resolved \in Nat /\ wrong \in Nat /\ all \in Nat
      /\ resolved + wrong <= all
  <2>1. /\ Having("open") \subseteq alerts /\ Having("resolved") \subseteq alerts
        /\ Having("false_positive") \subseteq alerts
        /\ Having("resolved") \cap Having("false_positive") = {}
    OBVIOUS
  <2> HIDE DEF Having, alerts
  <2> QED  BY <1>1, <2>1, PartIsNoLarger, PartsAreNoLarger
<1>8. a.backlog.unassigned <= a.backlog.open_count
  <2> DEFINE mine == {r \in {x \in alerts : x.status = "open"} : r.analyst = None}
  <2>1. a.backlog.unassigned = Cardinality(mine)
    BY DEF AlertStatistics, DetectionPayload, AlertsSection
  <2>2. mine \subseteq Having("open") /\ IsFiniteSet(Having("open"))
    BY <1>1, FS_Subset
  <2>3. Cardinality(mine) <= open
    <3> HIDE DEF mine, Having
    <3> QED  BY <2>2, PartIsNoLarger
  <2> QED  BY <1>6, <2>1, <2>3
<1>9. p.alerts.mttr_population <= p.alerts.resolved_count
  <2> DEFINE timed == During({x \in alerts : x.status = "resolved"}, "resolved", w)
  <2>1. p.alerts.mttr_population = Cardinality(timed)
    BY DEF DetectionPayload, AlertsSection
  <2>2. timed \subseteq Having("resolved") /\ IsFiniteSet(Having("resolved"))
    BY <1>1, FS_Subset DEF During
  <2>3. Cardinality(timed) <= resolved
    <3> HIDE DEF timed, Having
    <3> QED  BY <2>2, PartIsNoLarger
  <2> QED  BY <1>6, <2>1, <2>3
<1> DEFINE scored == Cardinality(assessments)
           fine == Cardinality({r \in assessments : r["ml"] = "success"})
<1>10. /\ scored \in Nat /\ fine \in Nat /\ fine <= scored
  BY <1>1, PartIsNoLarger
<1>11. /\ d.ml_fallback.assessments = scored /\ p.risk_assessments.ml_success = fine
       /\ d.ml_fallback.fallback = Max({0, scored - fine})
       /\ k.ml_fallback.fallback_rate = Ratio(scored - fine, scored)
  BY DEF DashboardDetection, DetectionKpis, DetectionPayload, MlFallback, AssessmentsSection, CountBy
<1>12. /\ d.ml_fallback.fallback = d.ml_fallback.assessments - p.risk_assessments.ml_success
       /\ Fraction(k.ml_fallback.fallback_rate)
  <2> DEFINE n == scored - fine
  <2>1. n \in Nat /\ n <= scored
    BY <1>10
  <2>2. Max({0, n}) = n
    <3>1. 0 \in Int /\ n \in Int
      BY <2>1
    <3> HIDE DEF n
    <3>2. Max({0, n}) \in {0, n} /\ n <= Max({0, n})
      BY <3>1, PairExtremes, Zenon
    <3> QED  BY <2>1, <3>2
  <2>3. Fraction(Ratio(n, scored))
    BY <1>10, <2>1, RatioIsAFraction
  <2> QED  BY <1>11, <2>2, <2>3
<1>13. /\ Fraction(k.acknowledgement_rate) /\ Fraction(k.escalation_rate)
  <2>1. ASSUME NEW type
        PROVE  Fraction(Ratio(Cardinality(WithEvent(db, alerts, type, w)), all))
    <3>1. WithEvent(db, alerts, type, w) \subseteq alerts
      BY DEF WithEvent
    <3> HIDE DEF alerts
    <3> QED  BY <1>1, <3>1, PartIsNoLarger, RatioIsAFraction
  <2>2. /\ k.acknowledgement_rate
              = Ratio(Cardinality(WithEvent(db, alerts, "acknowledged", w)), all)
        /\ k.escalation_rate
              = Ratio(Cardinality(WithEvent(db, alerts, "escalated", w)), all)
    BY DEF DetectionKpis, DetectionPayload, AlertsSection
  <2> QED  BY <2>1, <2>2
<1>14. /\ Fraction(k.resolution_rate) /\ Fraction(a.false_positive_rate)
  <2>1. /\ k.resolution_rate = Ratio(resolved + wrong, all)
        /\ a.false_positive_rate = Ratio(wrong, resolved + wrong)
    BY <1>6 DEF DetectionKpis, AlertStatistics
  <2> HIDE DEF resolved, wrong, all
  <2> QED  BY <1>7, <2>1, RatioIsAFraction
<1>15. Fraction(k.enforcement.success_rate)
  <2> DEFINE sent == During({l \in db.logs : l.stage = "action_sent"}, "at", w)
             done == {l \in sent : l.enforced}
  <2>1. k.enforcement.success_rate = Ratio(Cardinality(done), Cardinality(sent))
    BY DEF DetectionKpis, Enforcement, DetectionPayload, EnforcementSection
  <2>2. IsFiniteSet(sent) /\ done \subseteq sent
    BY FS_Subset DEF DetectionRows, IsTable, During
  <2> HIDE DEF sent, done
  <2> QED  BY <2>1, <2>2, PartIsNoLarger, RatioIsAFraction
<1>16. DetectionAddsUp(p)
  <2> HIDE DEF p
  <2>1. \A rate \in {k.acknowledgement_rate, k.resolution_rate, k.escalation_rate,
                     a.false_positive_rate, k.enforcement.success_rate,
                     k.ml_fallback.fallback_rate} : Fraction(rate)
    BY <1>12, <1>13, <1>14, <1>15, Zenon
  <2> QED
    BY <1>2, <1>3, <1>4, <1>5, <1>8, <1>9, <1>12, <2>1, Zenon DEF DetectionAddsUp
<1> QED  BY <1>16

(* A whole and unbroken read of the log adds up.                           *)
LEMMA MlReportAddsUp ==
    ASSUME LogTypeOK, NEW w, WindowIsAccepted(w), NEW read,
           read[1] = MlDaily(w), read[2] = MlSeries(w), read[3] = MlStats(w),
           read[4] = MlByStatus(w), read[6].versions = MlVersions(w)
    PROVE  MlAddsUp(read)
<1> DEFINE rows == During(inference, "at", w)
           all == Cardinality(rows)
<1>1. IsTable(inference) /\ IsFiniteSet(rows) /\ rows \subseteq inference
  BY FS_Subset DEF LogTypeOK, IsTable, During
<1>2. read[3].total = all
  BY DEF MlStats, MlBucket
<1>3. ASSUME NEW v, v.from = w.from, v.to = w.to
      PROVE  SeriesTotal(MlSeries(v), "total") = all
  <2> DEFINE series == [b \in DOMAIN MlSeries(v) |-> MlSeries(v)[b]["total"]]
  <2>1. /\ DOMAIN series = Grid(v.from, v.to, v.bucket)
        /\ \A b \in DOMAIN series : series[b] = Cardinality(Buckets(inference, "at", v)[b])
    BY DEF MlSeries, MlBucket
  <2>2. v.from \in Int /\ v.to \in Int
    BY <1>3 DEF WindowIsAccepted
  <2>3. Total(series) = Cardinality(During(inference, "at", v))
    <3> HIDE DEF series
    <3> QED  BY <1>1, <2>1, <2>2, SeriesAddsUp
  <2>4. During(inference, "at", v) = rows
    BY <1>3 DEF During
  <2> QED  BY <2>3, <2>4 DEF SeriesTotal
<1>4. SeriesTotal(read[1], "total") = all /\ SeriesTotal(read[2], "total") = all
  <2> DEFINE v == [w EXCEPT !.bucket = "day"]
  <2>1. v.from = w.from /\ v.to = w.to
    BY DEF WindowIsAccepted
  <2>2. read[1] = MlSeries(v)
    BY DEF MlDaily
  <2> HIDE DEF v
  <2> QED  BY <1>3, <2>1, <2>2
<1>5. Total(read[4]) = all
  <2>1. Within(rows, "status", {"ready", "degraded", "error"})
    BY <1>1 DEF LogTypeOK, Within
  <2>2. read[4] = CountBy(rows, "status", {"ready", "degraded", "error"})
    BY DEF MlByStatus
  <2> HIDE DEF rows
  <2> QED  BY <1>1, <2>1, <2>2, CountsAddUp, VocabulariesAreFinite
<1>6. Total(read[6].versions) <= all
  <2> DEFINE own(m) == {r \in rows : r.model = m}
             named(m) == {r \in rows : r.model = Nothing /\ r.version = VersionOf[m]}
             P == [m \in Models |-> own(m) \cup named(m)]
             counts == MlVersions(w)
             some == UNION {P[m] : m \in Models}
  <2>1. \A m \in Models : own(m) \cap named(m) = {} /\ own(m) \subseteq rows /\ named(m) \subseteq rows
    BY RegistryAssumption
  <2>2. \A m \in Models : IsFiniteSet(own(m)) /\ IsFiniteSet(named(m))
    BY <1>1, <2>1, FS_Subset
  <2>3. \A m \in Models : counts[m] = Cardinality(own(m)) + Cardinality(named(m))
    BY DEF MlVersions
  <2>4. DOMAIN counts = Models
    BY DEF MlVersions
  <2>5. \A m \in Models : IsFiniteSet(P[m]) /\ counts[m] = Cardinality(P[m])
    <3> TAKE m \in Models
    <3>1. P[m] = own(m) \cup named(m)
      OBVIOUS
    <3> HIDE DEF P, own, named, counts
    <3>2. /\ IsFiniteSet(own(m) \cup named(m))
          /\ Cardinality(own(m) \cup named(m)) = Cardinality(own(m)) + Cardinality(named(m))
      BY <2>1, <2>2, DisjointSize
    <3> QED  BY <2>3, <3>1, <3>2
  <2>6. \A m, n \in Models : m # n => P[m] \cap P[n] = {}
    BY RegistryAssumption
  <2>7. some \subseteq rows
    OBVIOUS
  <2>8. SumOf(counts, Models) = Cardinality(some)
    <3> HIDE DEF P, counts
    <3> QED  BY <2>5, <2>6, RegistryAssumption, SumOfParts
  <2>9. Cardinality(some) <= all
    <3> HIDE DEF some, rows
    <3> QED  BY <1>1, <2>7, PartIsNoLarger
  <2> QED  BY <2>4, <2>8, <2>9, TotalIsSum
<1>7. Fraction(read[3].anomaly_rate)
  <2> DEFINE odd == {r \in rows : r.anomaly}
  <2>1. read[3].anomaly_rate = Ratio(Cardinality(odd), all)
    BY DEF MlStats, MlBucket
  <2>2. odd \subseteq rows
    OBVIOUS
  <2> HIDE DEF odd, rows
  <2> QED  BY <1>1, <2>1, <2>2, PartIsNoLarger, RatioIsAFraction
<1> QED  BY <1>2, <1>4, <1>5, <1>6, <1>7 DEF MlAddsUp

(* The facade answers with a window of numbers within its limits.          *)
LEMMA FacadeWindowIsWithin ==
    ASSUME NEW from \in Int \cup {None}, NEW to \in Int \cup {None}, NEW bucket,
           NEW default \in Int, NEW w, w = FacadeWindow(from, to, bucket, default, Now),
           w # Refused
    PROVE  /\ w = [from |-> w.from, to |-> w.to, bucket |-> w.bucket]
           /\ w.from \in Int /\ w.to \in Int /\ w.bucket \in Granularities /\ w.from < w.to
           /\ w.to - w.from <= Limit["facade"].span
           /\ w.bucket = "hour" => w.to - w.from <= Limit["facade"].hourSpan
           /\ BucketCount(w.from, w.to, w.bucket) <= Limit["facade"].buckets[w.bucket]
<1> DEFINE end == End(to, Now)
           start == Start(from, end, default)
           limit == Limit["facade"]
           chosen == ChosenBucket(end - start, bucket, limit.auto)
<1>1. end \in Int
  BY QuestionsAssumption DEF End
<1>2. start \in Int
  <2> HIDE DEF end
  <2> QED  BY <1>1 DEF Start
<1>3. /\ w = [from |-> start, to |-> end, bucket |-> chosen]
      /\ start < end /\ end - start <= limit.span /\ chosen \in Granularities
      /\ chosen = "hour" => end - start <= limit.hourSpan
      /\ BucketCount(start, end, chosen) <= limit.buckets[chosen]
  BY DEF FacadeWindow
<1> HIDE DEF end, start, chosen
<1> QED  BY <1>1, <1>2, <1>3

(* Neither source is stricter: each takes the instants and the bucket that *)
(* it is sent, whatever its clock says, and its limits are no smaller.     *)
LEMMA FacadeWindowIsAccepted ==
    ASSUME NEW from \in Int \cup {None}, NEW to \in Int \cup {None}, NEW bucket,
           NEW default \in Int, FacadeWindow(from, to, bucket, default, Now) # Refused
    PROVE  WindowIsAccepted(FacadeWindow(from, to, bucket, default, Now))
<1> DEFINE w == FacadeWindow(from, to, bucket, default, Now)
<1>1. w = w /\ w # Refused
  OBVIOUS
<1> HIDE DEF w
<1>2. /\ w = [from |-> w.from, to |-> w.to, bucket |-> w.bucket]
      /\ w.from \in Int /\ w.to \in Int /\ w.bucket \in Granularities /\ w.from < w.to
      /\ w.to - w.from <= Limit["facade"].span
      /\ w.bucket = "hour" => w.to - w.from <= Limit["facade"].hourSpan
      /\ BucketCount(w.from, w.to, w.bucket) <= Limit["facade"].buckets[w.bucket]
  BY <1>1, FacadeWindowIsWithin DEF w
<1>3. w.from # None /\ w.to # None /\ w.bucket \notin {None, "auto"}
  BY <1>2, NumbersAssumption DEF Granularities
<1> DEFINE size == Cardinality(Grid(w.from, w.to, w.bucket))
           count == BucketCount(w.from, w.to, w.bucket)
<1>4. size <= count
  BY <1>2, GridIsCounted
<1>5. size \in Int
  <2>1. IsFiniteSet(Grid(w.from, w.to, w.bucket))
    BY <1>2, GridIsFinite
  <2> QED  BY <2>1, FS_CardinalityType
<1>6. count \in Int
  <2>1. Step(w.bucket) \in Nat /\ Step(w.bucket) > 0
    BY NumbersAssumption DEF Step
  <2>2. Floor(w.from, w.bucket) \in Int
    BY <1>2, FloorIsABucket
  <2>3. w.to - Floor(w.from, w.bucket) + Step(w.bucket) - 1 \in Int
    BY <1>2, <2>1, <2>2
  <2> QED  BY <2>1, <2>3, Division DEF BucketCount
<1> HIDE DEF size, count
<1>7. ASSUME NEW s \in {"core", "detection"}
      PROVE  /\ w.to - w.from <= Limit[s].span
             /\ w.bucket = "hour" => w.to - w.from <= Limit[s].hourSpan
             /\ size <= Limit[s].buckets[w.bucket]
  <2>1. /\ Limit["facade"].span \in Int /\ Limit["facade"].hourSpan \in Int
        /\ Limit["facade"].buckets[w.bucket] \in Int
        /\ Limit[s].span \in Int /\ Limit[s].hourSpan \in Int
        /\ Limit[s].buckets[w.bucket] \in Int
    BY <1>2, NumbersAssumption
  <2>2. /\ Limit["facade"].span <= Limit[s].span
        /\ Limit["facade"].hourSpan <= Limit[s].hourSpan
        /\ Limit["facade"].buckets[w.bucket] <= Limit[s].buckets[w.bucket]
    BY <1>2, LimitAssumption
  <2>3. count <= Limit["facade"].buckets[w.bucket]
    BY <1>2 DEF count
  <2> QED  BY <1>2, <1>4, <1>5, <1>6, <2>1, <2>2, <2>3
<1>8. ASSUME NEW later
      PROVE  CoreWindow(w, later) = w /\ DetectionWindow(w, later) = w
  <2>1. End(w.to, later) = w.to /\ Start(w.from, w.to, Day) = w.from
    BY <1>3 DEF End, Start
  <2>2. \A span, auto : ChosenBucket(span, w.bucket, auto) = w.bucket
    BY <1>3 DEF ChosenBucket
  <2>3. CoreWindow(w, later) = w
    BY <1>2, <1>7, <2>1, <2>2 DEF CoreWindow, size
  <2>4. DetectionWindow(w, later) = w
    BY <1>2, <1>7, <2>1, <2>2 DEF DetectionWindow, size
  <2> QED  BY <2>3, <2>4
<1> QED  BY <1>1, <1>2, <1>8 DEF WindowIsAccepted, w

(* The windows that the runs enumerate are such windows.                   *)
LEMMA AcceptedWindowsAreAccepted == \A w \in AcceptedWindows : WindowIsAccepted(w)
<1> TAKE w \in AcceptedWindows
<1>1. PICK from \in Moments, to \in Moments, bucket \in {None, "auto", "hour", "day"} :
        w = FacadeWindow(from, to, bucket, Day, Now) /\ w # Refused
  BY DEF AcceptedWindows
<1>2. Moments \subseteq Int \cup {None} /\ Day \in Int
  BY QuestionsAssumption, NumbersAssumption DEF Moments
<1> QED  BY <1>1, <1>2, FacadeWindowIsAccepted

(* A source that is sent an accepted window answers for it.                *)
LEMMA SourcesAgree ==
    ASSUME NEW w, WindowIsAccepted(w), NEW q, NEW later \in Now..(Now + Delay)
    PROVE  CoreWindow(Sent(q, w), later) = w /\ DetectionWindow(Sent(q, w), later) = w
BY DEF WindowIsAccepted, CoreWindow, DetectionWindow, Sent

(* Every payload adds up, whoever asks for it.                             *)
LEMMA TablesAddUp == PayloadsAddUp
<1>1. \A w \in AcceptedWindows : w.from \in Int /\ w.to \in Int
  BY AcceptedWindowsAreAccepted DEF WindowIsAccepted
<1> QED
  BY <1>1, TablesAssumption, CoreReportAddsUp, DetectionReportAddsUp DEF PayloadsAddUp

-----------------------------------------------------------------------------
(* The places of runtimes *)

(* There is always a place for one more runtime: every other caller keeps  *)
(* one at most, and the process one.                                       *)
LEMMA AFreePlace ==
    ASSUME MlTypeOK, NEW x \in Callers, caller[x].object = 0
    PROVE  FreePlace \in Places /\ FreePlace # runtime /\ ~InUse(FreePlace)
<1>1. Cardinality(Callers) \in Nat
  BY LoopAssumption, FS_CardinalityType
<1>2. IsFiniteSet(Places) /\ Cardinality(Places) = Cardinality(Callers) + 1
  BY <1>1, FS_Interval DEF Places
<1>3. 0 \notin Places
  BY <1>1 DEF Places
<1>4. SUFFICES ASSUME \A i \in Places : i = runtime \/ InUse(i)
               PROVE  FALSE
  BY Zenon DEF FreePlace
<1> DEFINE keeper == [i \in Places |-> IF i = runtime THEN x
                       ELSE CHOOSE y \in Callers : caller[y].object = i]
<1>5. \A i \in Places : i # runtime =>
        keeper[i] \in Callers /\ caller[keeper[i]].object = i
  BY <1>4, Zenon DEF InUse
<1>6. keeper \in [Places -> Callers] /\ keeper = keeper
  <2>1. \A i \in Places : keeper[i] \in Callers
    BY <1>5
  <2> QED  BY <2>1
<1>7. \A i \in Places : i = runtime => keeper[i] = x
  OBVIOUS
<1> HIDE DEF keeper
<1>8. Cardinality(Callers) < Cardinality(Places)
  BY <1>1, <1>2
<1>9. PICK i, j \in Places : i # j /\ keeper[i] = keeper[j]
  BY <1>2, <1>6, <1>8, LoopAssumption, FS_PigeonHole, Zenon
<1> QED  BY <1>3, <1>5, <1>7, <1>9

-----------------------------------------------------------------------------
(* The ML service's invariant *)

CallerRecord == [pc : {"idle", "resolved", "loading", "stored",
                       "returning", "using", "failed"},
                 path : Paths \cup {Nothing},
                 model : Models \cup {Nothing},
                 object : Places \cup {0}]

LEMMA MlInitially == MlInit => MlIndInv
<1> SUFFICES ASSUME MlInit
             PROVE  MlIndInv
  OBVIOUS
<1>1. NotCalling \in CallerRecord
  BY DEF NotCalling, CallerRecord
<1>2. /\ \A x \in Callers : caller[x] = NotCalling
      /\ caller \in [Callers -> CallerRecord]
  BY <1>1 DEF MlInit
<1>3. MlTypeOK
  BY <1>2, ShippedAssumption DEF MlInit, MlTypeOK, NoRuntime, CallerRecord
<1>4. \A x \in Callers : caller[x].pc = "idle" /\ caller[x].object = 0
  BY <1>2 DEF NotCalling
<1>5. CallsAreCoherent /\ LoadsAlone
  BY <1>4 DEF CallsAreCoherent, LoadsAlone, Calling
<1>6. PathIsTheRuntimes /\ RuntimesAreTrue /\ LogNamesOneModel
  BY <1>4 DEF MlInit, PathIsTheRuntimes, RuntimesAreTrue, Live, InUse, LogNamesOneModel
<1> QED  BY <1>3, <1>5, <1>6 DEF MlIndInv

(* A step of one caller, seen by the others.                               *)
LEMMA CallerSteps ==
    ASSUME MlTypeOK, NEW x \in Callers, NEW c \in CallerRecord,
           caller' = [caller EXCEPT ![x] = c]
    PROVE  /\ caller' \in [Callers -> CallerRecord]
           /\ caller'[x] = c
           /\ \A y \in Callers \ {x} : caller'[y] = caller[y]
BY DEF MlTypeOK, CallerRecord

LEMMA PcSteps ==
    ASSUME MlTypeOK, NEW x \in Callers, NEW pc, Goes(x, pc),
           pc \in {"resolved", "loading", "stored", "returning", "using", "failed"}
    PROVE  /\ caller' \in [Callers -> CallerRecord]
           /\ caller'[x].pc = pc
           /\ caller'[x].path = caller[x].path
           /\ caller'[x].model = caller[x].model
           /\ caller'[x].object = caller[x].object
           /\ \A y \in Callers \ {x} : caller'[y] = caller[y]
<1> DEFINE c == [caller[x] EXCEPT !.pc = pc]
<1>1. caller[x] \in CallerRecord
  BY DEF MlTypeOK, CallerRecord
<1>2. /\ c \in CallerRecord /\ c.pc = pc /\ c.path = caller[x].path
      /\ c.model = caller[x].model /\ c.object = caller[x].object
  BY <1>1 DEF CallerRecord
<1>3. caller' = [caller EXCEPT ![x] = c]
  BY DEF Goes, MlTypeOK
<1> HIDE DEF c
<1> QED  BY <1>2, <1>3, CallerSteps

LEMMA DoneSteps ==
    ASSUME MlTypeOK, NEW x \in Callers, Done(x)
    PROVE  /\ caller' \in [Callers -> CallerRecord]
           /\ caller'[x].pc = "idle" /\ caller'[x].object = 0
           /\ \A y \in Callers \ {x} : caller'[y] = caller[y]
<1>1. NotCalling \in CallerRecord /\ NotCalling.pc = "idle" /\ NotCalling.object = 0
  BY DEF NotCalling, CallerRecord
<1> QED  BY <1>1, CallerSteps DEF Done

(* resolve_model_source begins a call; if another one loads, calls overlap.*)
LEMMA ResolveKeeps ==
    ASSUME MlIndInv, NEW x \in Callers, Resolve(x)
    PROVE  MlIndInv'
<1> DEFINE c == [pc |-> "resolved", path |-> PathOf[production],
                 model |-> production, object |-> 0]
<1>0. MlTypeOK /\ CallsAreCoherent /\ LogNamesOneModel
  BY DEF MlIndInv
<1>1. c \in CallerRecord /\ c.pc = "resolved" /\ c.path = PathOf[c.model] /\ c.object = 0
  BY <1>0 DEF MlTypeOK, CallerRecord, Paths
<1>2. caller' = [caller EXCEPT ![x] = c]
  BY DEF Resolve
<1> HIDE DEF c
<1>3. /\ caller' \in [Callers -> CallerRecord] /\ caller'[x] = c
      /\ \A y \in Callers \ {x} : caller'[y] = caller[y]
  BY <1>0, <1>1, <1>2, CallerSteps
<1>4. /\ UNCHANGED <<production, bundle, object, runtime, loadedPath, inference, replaced>>
      /\ caller[x].pc = "idle"
      /\ ~raced' => /\ ~raced
                    /\ \A y \in Callers \ {x} : caller[y].pc \notin {"loading", "stored"}
  BY DEF Resolve, OthersAt
<1>5. caller[x].object = 0
  BY <1>0, <1>4 DEF CallsAreCoherent
<1>6. MlTypeOK'
  BY <1>0, <1>3, <1>4 DEF MlTypeOK, CallerRecord
<1>7. CallsAreCoherent'
  BY <1>0, <1>1, <1>3, <1>4 DEF CallsAreCoherent, Calling
<1>8. LogNamesOneModel'
  BY <1>0, <1>4 DEF LogNamesOneModel
<1>9. ~raced' => LoadsAlone'
  BY <1>1, <1>3, <1>4 DEF LoadsAlone
<1>10. ~raced' => PathIsTheRuntimes'
  BY <1>1, <1>3, <1>4 DEF MlIndInv, PathIsTheRuntimes
<1>11. ~raced' => RuntimesAreTrue'
  BY <1>1, <1>3, <1>4, <1>5 DEF MlIndInv, RuntimesAreTrue, Live, InUse
<1> QED  BY <1>6, <1>7, <1>8, <1>9, <1>10, <1>11 DEF MlIndInv

(* A runtime whose path is the production model's takes that model's id:   *)
(* the path is its own, so it stays true.                                  *)
LEMMA CheckKeeps ==
    ASSUME MlIndInv, NEW x \in Callers, Check(x)
    PROVE  MlIndInv'
<1>0. /\ MlTypeOK /\ CallsAreCoherent /\ LogNamesOneModel
      /\ caller[x].pc = "resolved" /\ caller[x] \in CallerRecord
  BY DEF MlIndInv, Check, MlTypeOK, CallerRecord
<1>1. UNCHANGED <<production, bundle, runtime, loadedPath, inference, replaced>>
  BY DEF Check
<1>2. CASE Stale(x)
  <2>1. /\ Goes(x, "loading") /\ object' = object
        /\ ~raced' => /\ ~raced
                      /\ \A y \in Callers \ {x} : caller[y].pc \notin Calling
    BY <1>2 DEF Check, OthersAt, Calling
  <2>2. /\ caller' \in [Callers -> CallerRecord]
        /\ caller'[x].pc = "loading"
        /\ caller'[x].path = caller[x].path
        /\ caller'[x].model = caller[x].model
        /\ caller'[x].object = caller[x].object
        /\ \A y \in Callers \ {x} : caller'[y] = caller[y]
    BY <1>0, <2>1, PcSteps
  <2>3. MlTypeOK'
    BY <1>0, <1>1, <2>1, <2>2 DEF MlTypeOK, CallerRecord
  <2>4. CallsAreCoherent'
    BY <1>0, <1>1, <2>2 DEF CallsAreCoherent, Calling
  <2>5. LogNamesOneModel'
    BY <1>0, <1>1, <2>1 DEF LogNamesOneModel
  <2>6. ~raced' => LoadsAlone'
    BY <2>1, <2>2 DEF LoadsAlone, Calling
  <2>7. ~raced' => PathIsTheRuntimes'
    BY <1>0, <1>1, <2>1, <2>2 DEF MlIndInv, PathIsTheRuntimes, Calling
  <2>8. ~raced' => RuntimesAreTrue'
    BY <1>1, <2>1, <2>2 DEF MlIndInv, RuntimesAreTrue, Live, InUse
  <2> QED  BY <2>3, <2>4, <2>5, <2>6, <2>7, <2>8 DEF MlIndInv
<1>3. CASE ~Stale(x)
  <2>1. /\ Goes(x, "returning") /\ raced' = raced
        /\ object' = [object EXCEPT ![runtime].model = caller[x].model]
        /\ runtime # 0 /\ loadedPath = caller[x].path
    BY <1>3 DEF Check, Stale
  <2>2. /\ caller' \in [Callers -> CallerRecord]
        /\ caller'[x].pc = "returning"
        /\ caller'[x].path = caller[x].path
        /\ caller'[x].model = caller[x].model
        /\ caller'[x].object = caller[x].object
        /\ \A y \in Callers \ {x} : caller'[y] = caller[y]
    BY <1>0, <2>1, PcSteps
  <2>3. runtime \in Places /\ caller[x].model \in Models \cup {Nothing}
    BY <1>0, <2>1 DEF MlTypeOK, CallerRecord
  <2>4. /\ object' \in [Places -> [version : Versions \cup {Nothing},
                                   model : Models \cup {Nothing}]]
        /\ object'[runtime].model = caller[x].model
        /\ object'[runtime].version = object[runtime].version
        /\ \A i \in Places \ {runtime} : object'[i] = object[i]
    <3> DEFINE o == [object[runtime] EXCEPT !.model = caller[x].model]
    <3>1. /\ o \in [version : Versions \cup {Nothing}, model : Models \cup {Nothing}]
          /\ o.model = caller[x].model /\ o.version = object[runtime].version
      BY <1>0, <2>3 DEF MlTypeOK
    <3>2. object' = [object EXCEPT ![runtime] = o]
      BY <2>1, <1>0, <2>3 DEF MlTypeOK
    <3> HIDE DEF o
    <3> QED  BY <1>0, <2>3, <3>1, <3>2 DEF MlTypeOK
  <2>5. MlTypeOK'
    BY <1>0, <1>1, <2>2, <2>4 DEF MlTypeOK, CallerRecord
  <2>6. CallsAreCoherent'
    BY <1>0, <1>1, <2>1, <2>2 DEF CallsAreCoherent, Calling
  <2>7. LogNamesOneModel'
    BY <1>0, <1>1, <2>1 DEF LogNamesOneModel
  <2>8. ~raced => LoadsAlone'
    BY <1>0, <2>2 DEF MlIndInv, LoadsAlone, Calling
  <2>9. caller[x].path = PathOf[caller[x].model]
    BY <1>0 DEF CallsAreCoherent, Calling
  <2>10. ~raced => /\ \A y \in Callers : caller[y].pc # "stored"
                   /\ PathOf[object[runtime].model] = PathOf[caller[x].model]
    <3>1. ~raced => \A y \in Callers : caller[y].pc # "stored"
      BY <1>0 DEF MlIndInv, LoadsAlone, Calling
    <3> QED  BY <2>1, <2>9, <3>1 DEF MlIndInv, PathIsTheRuntimes
  <2>11. ~raced => PathIsTheRuntimes'
    BY <1>1, <2>1, <2>2, <2>4, <2>9, <2>10 DEF PathIsTheRuntimes
  <2>12. \A i \in Places : Live(i)' <=> Live(i)
    BY <1>1, <2>2 DEF Live, InUse
  <2>13. ~raced => RuntimesAreTrue'
    BY <1>1, <2>4, <2>10, <2>12 DEF MlIndInv, RuntimesAreTrue
  <2> QED  BY <2>1, <2>5, <2>6, <2>7, <2>8, <2>11, <2>13 DEF MlIndInv
<1> QED  BY <1>2, <1>3

(* A runtime is loaded in a place of its own, and is the artifact of the   *)
(* model that was resolved.                                                *)
LEMMA LoadKeeps ==
    ASSUME MlIndInv, NEW x \in Callers, Load(x)
    PROVE  MlIndInv'
<1>0. /\ MlTypeOK /\ CallsAreCoherent /\ LogNamesOneModel
      /\ caller[x].pc = "loading" /\ caller[x] \in CallerRecord
  BY DEF MlIndInv, Load, MlTypeOK, CallerRecord
<1>1. UNCHANGED <<production, bundle, loadedPath, inference, replaced, raced>>
  BY DEF Load
<1>2. caller[x].object = 0 /\ caller[x].path = PathOf[caller[x].model]
  BY <1>0 DEF CallsAreCoherent, Calling
<1>3. LogNamesOneModel'
  BY <1>0, <1>1 DEF LogNamesOneModel
<1>4. CASE bundle[caller[x].path] = Nothing
  <2> DEFINE c == [NotCalling EXCEPT !.pc = "failed"]
  <2>1. c \in CallerRecord /\ c.pc = "failed" /\ c.object = 0
    BY DEF NotCalling, CallerRecord
  <2>2. caller' = [caller EXCEPT ![x] = c] /\ object' = object /\ runtime' = runtime
    BY <1>4 DEF Load
  <2> HIDE DEF c
  <2>3. /\ caller' \in [Callers -> CallerRecord] /\ caller'[x] = c
        /\ \A y \in Callers \ {x} : caller'[y] = caller[y]
    BY <1>0, <2>1, <2>2, CallerSteps
  <2>4. MlTypeOK'
    BY <1>0, <1>1, <2>2, <2>3 DEF MlTypeOK, CallerRecord
  <2>5. CallsAreCoherent'
    BY <1>0, <2>1, <2>2, <2>3 DEF CallsAreCoherent, Calling
  <2>6. ~raced => LoadsAlone'
    BY <2>1, <2>3 DEF MlIndInv, LoadsAlone, Calling
  <2>7. ~raced => PathIsTheRuntimes'
    BY <1>0, <1>1, <2>1, <2>2, <2>3 DEF MlIndInv, PathIsTheRuntimes
  <2>8. ~raced => RuntimesAreTrue'
    BY <1>1, <1>2, <2>1, <2>2, <2>3 DEF MlIndInv, RuntimesAreTrue, Live, InUse
  <2> QED  BY <1>1, <1>3, <2>4, <2>5, <2>6, <2>7, <2>8 DEF MlIndInv
<1>5. CASE bundle[caller[x].path] # Nothing
  <2> DEFINE f == FreePlace
             new == [version |-> bundle[caller[x].path], model |-> caller[x].model]
  <2>1. f \in Places /\ f # runtime /\ ~InUse(f)
    BY <1>0, <1>2, AFreePlace
  <2>2. /\ runtime' = f /\ Goes(x, "stored")
        /\ object' = [i \in Places |-> IF i = f THEN new
                                       ELSE IF InUse(i) THEN object[i] ELSE NoRuntime]
    BY <1>5 DEF Load
  <2>3. new \in [version : Versions \cup {Nothing}, model : Models \cup {Nothing}]
    <3>1. caller[x].path \in Paths /\ caller[x].model \in Models \cup {Nothing}
      BY <1>0, <1>2 DEF Paths, CallerRecord
    <3> QED  BY <1>0, <3>1 DEF MlTypeOK
  <2>4. NoRuntime \in [version : Versions \cup {Nothing}, model : Models \cup {Nothing}]
    BY DEF NoRuntime
  <2>5. new.version = bundle[PathOf[new.model]] /\ PathOf[new.model] = caller[x].path
    BY <1>2
  <2> HIDE DEF f, new
  <2>6. /\ object' \in [Places -> [version : Versions \cup {Nothing},
                                   model : Models \cup {Nothing}]]
        /\ object'[f] = new
        /\ \A i \in Places \ {f} : InUse(i) => object'[i] = object[i]
    BY <1>0, <2>1, <2>2, <2>3, <2>4 DEF MlTypeOK
  <2>7. /\ caller' \in [Callers -> CallerRecord]
        /\ caller'[x].pc = "stored"
        /\ caller'[x].path = caller[x].path
        /\ caller'[x].model = caller[x].model
        /\ caller'[x].object = caller[x].object
        /\ \A y \in Callers \ {x} : caller'[y] = caller[y]
    BY <1>0, <2>2, PcSteps
  <2>8. 0 \notin Places
    BY DEF Places
  <2>9. MlTypeOK'
    BY <1>0, <1>1, <2>1, <2>2, <2>6, <2>7 DEF MlTypeOK, CallerRecord
  <2>10. CallsAreCoherent'
    BY <1>0, <2>1, <2>2, <2>7, <2>8 DEF CallsAreCoherent, Calling
  <2>11. ~raced => LoadsAlone'
    BY <1>0, <2>7 DEF MlIndInv, LoadsAlone, Calling
  <2>12. ~raced => \A y \in Callers \ {x} : caller[y].pc # "stored"
    BY <1>0 DEF MlIndInv, LoadsAlone, Calling
  <2>13. ~raced => PathIsTheRuntimes'
    BY <2>2, <2>5, <2>6, <2>7, <2>12 DEF PathIsTheRuntimes
  <2>14. \A i \in Places : Live(i)' => i = f \/ (InUse(i) /\ Live(i) /\ i # f)
    BY <1>2, <2>1, <2>2, <2>7, <2>8 DEF Live, InUse
  <2>15. ~raced => RuntimesAreTrue'
    BY <1>1, <2>5, <2>6, <2>14 DEF MlIndInv, RuntimesAreTrue
  <2> QED  BY <1>1, <1>3, <2>9, <2>10, <2>11, <2>13, <2>15 DEF MlIndInv
<1> QED  BY <1>4, <1>5

(* The second assignment makes the path the runtime's again.               *)
LEMMA StorePathKeeps ==
    ASSUME MlIndInv, NEW x \in Callers, StorePath(x)
    PROVE  MlIndInv'
<1>0. /\ MlTypeOK /\ CallsAreCoherent /\ LogNamesOneModel
      /\ caller[x].pc = "stored" /\ caller[x] \in CallerRecord
  BY DEF MlIndInv, StorePath, MlTypeOK, CallerRecord
<1>1. /\ UNCHANGED <<production, bundle, object, runtime, inference, replaced, raced>>
      /\ loadedPath' = caller[x].path /\ Goes(x, "returning")
  BY DEF StorePath
<1>2. /\ caller' \in [Callers -> CallerRecord]
      /\ caller'[x].pc = "returning"
      /\ caller'[x].path = caller[x].path
      /\ caller'[x].model = caller[x].model
      /\ caller'[x].object = caller[x].object
      /\ \A y \in Callers \ {x} : caller'[y] = caller[y]
  BY <1>0, <1>1, PcSteps
<1>3. MlTypeOK'
  BY <1>0, <1>1, <1>2 DEF MlTypeOK, CallerRecord
<1>4. CallsAreCoherent'
  BY <1>0, <1>1, <1>2 DEF CallsAreCoherent, Calling
<1>5. LogNamesOneModel'
  BY <1>0, <1>1 DEF LogNamesOneModel
<1>6. ~raced => LoadsAlone'
  BY <1>0, <1>2 DEF MlIndInv, LoadsAlone, Calling
<1>7. ~raced => \A y \in Callers : caller'[y].pc # "stored"
  BY <1>0, <1>2 DEF MlIndInv, LoadsAlone, Calling
<1>8. ~raced => PathIsTheRuntimes'
  BY <1>0, <1>1, <1>7 DEF MlIndInv, PathIsTheRuntimes
<1>9. ~raced => RuntimesAreTrue'
  BY <1>1, <1>2 DEF MlIndInv, RuntimesAreTrue, Live, InUse
<1> QED  BY <1>1, <1>3, <1>4, <1>5, <1>6, <1>8, <1>9 DEF MlIndInv

(* What a call returns is the runtime of the process.                      *)
LEMMA ReturnKeeps ==
    ASSUME MlIndInv, NEW x \in Callers, Return(x)
    PROVE  MlIndInv'
<1> DEFINE c == [NotCalling EXCEPT !.pc = "using", !.object = runtime]
<1>0. /\ MlTypeOK /\ CallsAreCoherent /\ LogNamesOneModel
      /\ caller[x].pc = "returning"
  BY DEF MlIndInv, Return
<1>1. c \in CallerRecord /\ c.pc = "using" /\ c.object = runtime
  BY <1>0 DEF NotCalling, CallerRecord, MlTypeOK
<1>2. /\ caller' = [caller EXCEPT ![x] = c]
      /\ UNCHANGED <<production, bundle, object, runtime, loadedPath, inference,
                     replaced, raced>>
  BY DEF Return
<1> HIDE DEF c
<1>3. /\ caller' \in [Callers -> CallerRecord] /\ caller'[x] = c
      /\ \A y \in Callers \ {x} : caller'[y] = caller[y]
  BY <1>0, <1>1, <1>2, CallerSteps
<1>4. runtime # 0
  BY <1>0 DEF CallsAreCoherent
<1>5. MlTypeOK'
  BY <1>0, <1>2, <1>3 DEF MlTypeOK, CallerRecord
<1>6. CallsAreCoherent'
  BY <1>0, <1>1, <1>2, <1>3, <1>4 DEF CallsAreCoherent, Calling
<1>7. LogNamesOneModel'
  BY <1>0, <1>2 DEF LogNamesOneModel
<1>8. ~raced => LoadsAlone'
  BY <1>1, <1>3 DEF MlIndInv, LoadsAlone, Calling
<1>9. ~raced => PathIsTheRuntimes'
  BY <1>0, <1>1, <1>2, <1>3 DEF MlIndInv, PathIsTheRuntimes
<1>10. \A i \in Places : Live(i)' => Live(i)
  BY <1>1, <1>2, <1>3 DEF Live, InUse
<1>11. ~raced => RuntimesAreTrue'
  BY <1>2, <1>10 DEF MlIndInv, RuntimesAreTrue
<1> QED  BY <1>2, <1>5, <1>6, <1>7, <1>8, <1>9, <1>11 DEF MlIndInv

(* A caller lets its runtime go, with whatever it logs of it.              *)
LEMMA DoneKeeps ==
    ASSUME MlIndInv, NEW x \in Callers, caller[x].pc \in {"using", "failed"}, Done(x),
           UNCHANGED <<production, bundle, object, runtime, loadedPath, replaced, raced>>,
           \A row \in inference' :
             \/ row \in inference
             \/ row.model \in Models \cup {Nothing} /\ row.status # "ready"
             \/ /\ caller[x].pc = "using"
                /\ row.model = object[caller[x].object].model
                /\ row.version = object[caller[x].object].version
    PROVE  MlIndInv'
<1>0. MlTypeOK /\ CallsAreCoherent /\ LogNamesOneModel
  BY DEF MlIndInv
<1>1. /\ caller' \in [Callers -> CallerRecord]
      /\ caller'[x].pc = "idle" /\ caller'[x].object = 0
      /\ \A y \in Callers \ {x} : caller'[y] = caller[y]
  BY <1>0, DoneSteps
<1>2. 0 \notin Places
  BY DEF Places
<1>3. caller[x].pc = "using" => caller[x].object \in Places /\ Live(caller[x].object)
  BY <1>0 DEF MlTypeOK, CallsAreCoherent, Live, InUse
<1>4. MlTypeOK'
  <2>1. \A row \in inference' : row.model \in Models \cup {Nothing}
    BY <1>0, <1>3 DEF MlTypeOK
  <2> QED  BY <1>0, <1>1, <2>1 DEF MlTypeOK, CallerRecord
<1>5. CallsAreCoherent'
  BY <1>0, <1>1 DEF CallsAreCoherent, Calling
<1>6. LogNamesOneModel'
  <2> SUFFICES ASSUME NEW row \in inference', row.status = "ready",
                      PathOf[row.model] \notin replaced, ~raced
               PROVE  row.version = bundle[PathOf[row.model]]
    BY DEF LogNamesOneModel
  <2>1. CASE row \in inference
    BY <1>0, <2>1 DEF LogNamesOneModel
  <2>2. CASE row \notin inference
    BY <1>3, <2>2 DEF MlIndInv, RuntimesAreTrue
  <2> QED  BY <2>1, <2>2
<1>7. ~raced => LoadsAlone'
  BY <1>1 DEF MlIndInv, LoadsAlone, Calling
<1>8. ~raced => PathIsTheRuntimes'
  BY <1>1 DEF MlIndInv, PathIsTheRuntimes
<1>9. \A i \in Places : Live(i)' => Live(i)
  BY <1>1 DEF Live, InUse
<1>10. ~raced => RuntimesAreTrue'
  BY <1>9 DEF MlIndInv, RuntimesAreTrue
<1> QED  BY <1>4, <1>5, <1>6, <1>7, <1>8, <1>10 DEF MlIndInv

(* An operator may promote a model or replace an artifact at any time.     *)
LEMMA OperatorKeeps ==
    ASSUME MlIndInv,
           \/ \E m \in Models \cup {Nothing} : Promote(m)
           \/ \E p \in Paths, v \in Versions \cup {Nothing} : Replace(p, v)
    PROVE  MlIndInv'
<1>0. MlTypeOK /\ CallsAreCoherent /\ LogNamesOneModel
  BY DEF MlIndInv
<1>1. UNCHANGED <<object, runtime, loadedPath, caller, inference, raced>>
  BY DEF Promote, Replace
<1>2. /\ bundle' \in [Paths -> Versions \cup {Nothing}]
      /\ production' \in Models \cup {Nothing}
      /\ \A q \in Paths : q \notin replaced' => q \notin replaced /\ bundle'[q] = bundle[q]
  <2>1. ASSUME NEW m \in Models \cup {Nothing}, Promote(m)
        PROVE  <1>2!1 /\ <1>2!2 /\ <1>2!3
    BY <1>0, <2>1 DEF Promote, MlTypeOK
  <2>2. ASSUME NEW p \in Paths, NEW v \in Versions \cup {Nothing}, Replace(p, v)
        PROVE  <1>2!1 /\ <1>2!2 /\ <1>2!3
    BY <1>0, <2>2 DEF Replace, MlTypeOK
  <2> QED  BY <2>1, <2>2
<1>3. \A m \in Models \cup {Nothing} : PathOf[m] \in Paths
  BY DEF Paths
<1>4. MlTypeOK'
  BY <1>0, <1>1, <1>2 DEF MlTypeOK
<1>5. CallsAreCoherent' /\ (~raced => LoadsAlone' /\ PathIsTheRuntimes')
  BY <1>0, <1>1 DEF MlIndInv, CallsAreCoherent, LoadsAlone, PathIsTheRuntimes
<1>6. LogNamesOneModel'
  BY <1>0, <1>1, <1>2, <1>3 DEF LogNamesOneModel, MlTypeOK
<1>7. ~raced => RuntimesAreTrue'
  <2>1. \A i \in Places : Live(i)' <=> Live(i)
    BY <1>1 DEF Live, InUse
  <2>2. \A i \in Places : PathOf[object[i].model] \in Paths
    BY <1>0, <1>3 DEF MlTypeOK
  <2> QED  BY <1>1, <1>2, <2>1, <2>2 DEF MlIndInv, RuntimesAreTrue
<1> QED  BY <1>1, <1>4, <1>5, <1>6, <1>7 DEF MlIndInv

-----------------------------------------------------------------------------
(* The facade and the service together *)

LEMMA GetRuntimeKeeps ==
    ASSUME MlIndInv, NEW x \in Callers, Resolve(x) \/ GetRuntime(x)
    PROVE  MlIndInv'
BY ResolveKeeps, CheckKeeps, LoadKeeps, StorePathKeeps, ReturnKeeps, Zenon DEF GetRuntime

LEMMA MlUnchanged == MlIndInv /\ UNCHANGED mlVars => MlIndInv'
BY DEF mlVars, MlIndInv, MlTypeOK, CallsAreCoherent, LogNamesOneModel, LoadsAlone,
       PathIsTheRuntimes, RuntimesAreTrue, Live, InUse

(* What the loop and the operator do to the service.                       *)
LEMMA MlNextKeeps ==
    ASSUME MlIndInv, MlNext
    PROVE  MlIndInv'
<1>a. Loop \in Callers
  BY LoopAssumption
<1>1. CASE Resolve(Loop) \/ GetRuntime(Loop)
  BY <1>a, <1>1, GetRuntimeKeeps
<1>2. CASE UsesRuntimeOnly
  BY <1>a, <1>2, DoneKeeps DEF UsesRuntimeOnly
<1>3. ASSUME NEW r \in RequestIds, NEW out \in Outputs, Score(r, out)
      PROVE  MlIndInv'
  <2> DEFINE o == object[caller[Loop].object]
             new == [id |-> r, at |-> Now, status |-> "ready", model |-> o.model,
                     version |-> o.version, anomaly |-> out.anomaly,
                     reasons |-> out.reasons]
  <2>1. /\ caller[Loop].pc = "using" /\ inference' = inference \cup {new} /\ Done(Loop)
        /\ UNCHANGED <<production, bundle, object, runtime, loadedPath, replaced, raced>>
    BY <1>3 DEF Score
  <2>2. new.model = o.model /\ new.version = o.version
    OBVIOUS
  <2> HIDE DEF new
  <2> QED  BY <1>a, <2>1, <2>2, DoneKeeps
<1>4. ASSUME NEW r \in RequestIds, ScoreUnavailable(r)
      PROVE  MlIndInv'
  <2> DEFINE new == [id |-> r, at |-> Now, status |-> "error", model |-> Nothing,
                     version |-> Nothing, anomaly |-> FALSE, reasons |-> {}]
  <2>1. /\ caller[Loop].pc \in {"using", "failed"} /\ inference' = inference \cup {new} /\ Done(Loop)
        /\ UNCHANGED <<production, bundle, object, runtime, loadedPath, replaced, raced>>
    BY <1>4 DEF ScoreUnavailable
  <2>2. new.model = Nothing /\ new.status # "ready"
    OBVIOUS
  <2> HIDE DEF new
  <2> QED  BY <1>a, <2>1, <2>2, DoneKeeps
<1>5. CASE \/ \E m \in Models \cup {Nothing} : Promote(m)
           \/ \E p \in Paths, v \in Versions \cup {Nothing} : Replace(p, v)
  BY <1>5, OperatorKeeps
<1> QED  BY <1>1, <1>2, <1>3, <1>4, <1>5 DEF MlNext

LEMMA ManagerKeeps == MlIndInv /\ [Next]_vars => MlIndInv'
<1> SUFFICES ASSUME MlIndInv, [Next]_vars
             PROVE  MlIndInv'
  OBVIOUS
<1>1. ASSUME NEW c \in Clients, AskRuntime(c)
      PROVE  MlIndInv'
  BY <1>1, ClientsAssumption, GetRuntimeKeeps DEF AskRuntime
<1>2. ASSUME NEW c \in Clients, ReadRuntime(c)
      PROVE  MlIndInv'
  <2>1. /\ caller[c].pc \in {"using", "failed"} /\ Done(c) /\ inference' = inference
        /\ UNCHANGED <<production, bundle, object, runtime, loadedPath, replaced, raced>>
    BY <1>2 DEF ReadRuntime
  <2> QED  BY <2>1, ClientsAssumption, DoneKeeps
<1>3. CASE MlMoves
  BY <1>3, MlNextKeeps DEF MlMoves
<1>4. CASE UNCHANGED mlVars
  BY <1>4, MlUnchanged
<1> QED
  BY <1>1, <1>2, <1>3, <1>4
  DEF Next, vars, Ask, ServeDetection, ServeCore, FetchFails, ReadSection, MlFails,
      Answer, PoolGivesUp

-----------------------------------------------------------------------------
(* Requests, and the sections that their threads read *)

(* A request that a step leaves alone, and whose log does not change.      *)
LEMMA RequestUndisturbed ==
    ASSUME NEW c \in Clients, RequestIsTrue(c), req'[c] = req[c], inference' = inference,
           caller'[c] = caller[c]
    PROVE  RequestIsTrue(c)'
BY DEF RequestIsTrue, RequestTypeOK, RequestIsAccepted, WindowIsAccepted, ValidFilter,
       FilterOf, AnswersAreForItsWindow, Pending, ReadsAreCurrent, MlDaily, MlSeries,
       MlStats, MlByStatus, MlVersions, MlAddsUp

(* A step that leaves a request's question and its answers as they are.    *)
LEMMA SameQuestion ==
    ASSUME NEW c \in Clients, RequestIsTrue(c), NEW r, req'[c] = r,
           r.pc = req[c].pc, r.question = req[c].question, r.window = req[c].window,
           r.served = req[c].served, \A s \in Services : r.source[s] = req[c].source[s]
    PROVE  RequestIsAccepted(c)' /\ AnswersAreForItsWindow(c)'
<1>1. RequestIsAccepted(c) /\ AnswersAreForItsWindow(c)
  BY DEF RequestIsTrue
<1>2. RequestIsAccepted(c)'
  BY <1>1 DEF RequestIsAccepted
<1>3. AnswersAreForItsWindow(c)'
  BY <1>1 DEF AnswersAreForItsWindow
<1> QED  BY <1>2, <1>3

(* The log's rows stay what they are.                                      *)
LEMMA LogUnchanged == LogTypeOK /\ inference' = inference => LogTypeOK'
BY DEF LogTypeOK

(* One request's step, while the others wait.                              *)
LEMMA OnlyOne ==
    ASSUME ReqIndInv, NEW c \in Clients, NEW r, req' = [req EXCEPT ![c] = r],
           RequestIsTrue(c)', inference' = inference, Elsewhere,
           \A x \in Clients : x # c => caller'[x] = caller[x]
    PROVE  ReqIndInv'
<1>1. \A x \in Clients : x # c => req'[x] = req[x]
  BY DEF ReqIndInv
<1>2. \A x \in Clients : RequestIsTrue(x)'
  BY <1>1, RequestUndisturbed DEF ReqIndInv
<1>3. req' = [x \in Clients |-> req'[x]]
  BY DEF ReqIndInv
<1> QED  BY <1>2, <1>3, LogUnchanged DEF ReqIndInv, Elsewhere

(* The request r of c, once s has answered, for its window, or failed.     *)
Settles(c, s, what, r) ==
    /\ DOMAIN r = {"pc", "question", "window", "source", "served", "read", "torn"}
    /\ r.pc = req[c].pc /\ r.question = req[c].question /\ r.window = req[c].window
    /\ r.read = req[c].read /\ r.torn = req[c].torn
    /\ r.source = [req[c].source EXCEPT ![s] = what] /\ DOMAIN r.served = Services
    /\ \A x \in Services : r.source[x] = "ok" => r.served[x] = r.window

LEMMA SourceSettles ==
    ASSUME ReqIndInv, NEW c \in Clients, NEW s \in Sources,
           NEW what \in {"ok", "http_500", "timeout", "database_error"} \cup Reasons,
           what = "ok" => s # "ml",
           s = "ml" => caller[c].pc = "idle",
           NEW r, req' = [req EXCEPT ![c] = r], Settles(c, s, what, r),
           UNCHANGED mlVars, Elsewhere
    PROVE  ReqIndInv'
<1>1. req'[c] = r
  BY DEF ReqIndInv
<1>2. RequestIsTrue(c)
  BY DEF ReqIndInv
<1>3. /\ r.source \in [Sources -> {"unused", "pending", "ok", "http_500", "timeout",
                                   "database_error"} \cup Reasons]
      /\ r.source["ml"] \in {"ok", "pending"} => r.source["ml"] = req[c].source["ml"]
  BY <1>2, ReasonsAssumption DEF Settles, RequestIsTrue, RequestTypeOK, Sources
<1>4. RequestIsTrue(c)'
  <2>1. RequestTypeOK(c)'
    BY <1>1, <1>2, <1>3 DEF Settles, RequestIsTrue, RequestTypeOK
  <2>2. inference' = inference /\ caller' = caller
    BY DEF mlVars
  <2>3. RequestIsAccepted(c)' /\ AnswersAreForItsWindow(c)'
    <3>1. RequestIsAccepted(c)
      BY <1>2 DEF RequestIsTrue
    <3>2. RequestIsAccepted(c)'
      BY <1>1, <3>1 DEF Settles, RequestIsAccepted
    <3>3. AnswersAreForItsWindow(c)'
      BY <1>1 DEF Settles, AnswersAreForItsWindow
    <3> QED  BY <3>2, <3>3
  <2>4. (Pending(c, "ml") /\ ~req[c].torn => ReadsAreCurrent(req[c].read, req[c].window))'
    <3> SUFFICES ASSUME Pending(c, "ml")', ~req'[c].torn
                 PROVE  ReadsAreCurrent(req[c].read, req[c].window)'
      OBVIOUS
    <3>1. ReadsAreCurrent(req[c].read, req[c].window)
      BY <1>1, <1>2, <1>3 DEF Settles, RequestIsTrue, Pending
    <3>2. req'[c].read = req[c].read /\ req'[c].window = req[c].window
      BY <1>1 DEF Settles
    <3> QED  BY <2>2, <3>1, <3>2
      DEF ReadsAreCurrent, MlDaily, MlSeries, MlStats, MlByStatus, MlVersions
  <2>5. (req[c].source["ml"] = "ok" /\ ~req[c].torn => MlAddsUp(req[c].read))'
    BY <1>1, <1>2, <1>3 DEF Settles, RequestIsTrue, MlAddsUp
  <2>6. (caller[c].pc # "idle" => Pending(c, "ml") /\ Len(req[c].read) = Len(Sections))'
    <3> SUFFICES ASSUME caller[c].pc # "idle"
                 PROVE  (Pending(c, "ml") /\ Len(req[c].read) = Len(Sections))'
      BY <2>2
    <3>1. Pending(c, "ml") /\ Len(req[c].read) = Len(Sections) /\ s # "ml"
      BY <1>2 DEF RequestIsTrue
    <3>2. r.source["ml"] = "pending"
      BY <1>2, <3>1 DEF Settles, RequestIsTrue, RequestTypeOK, Pending, Sources
    <3> QED  BY <1>1, <3>1, <3>2 DEF Settles, Pending, Sections
  <2> QED  BY <2>1, <2>3, <2>4, <2>5, <2>6 DEF RequestIsTrue
<1> QED  BY <1>1, <1>4, OnlyOne DEF mlVars

(* A source fails.                                                         *)
LEMMA SourceFails ==
    ASSUME ReqIndInv, NEW c \in Clients, NEW s \in Sources,
           NEW what \in {"http_500", "timeout", "database_error"} \cup Reasons,
           s = "ml" => caller[c].pc = "idle",
           Becomes(c, s, what), UNCHANGED mlVars, Elsewhere
    PROVE  ReqIndInv'
<1> DEFINE r == [req[c] EXCEPT !.source[s] = what]
<1>1. req' = [req EXCEPT ![c] = r]
  BY DEF Becomes, ReqIndInv
<1>2. RequestIsTrue(c) /\ what # "ok"
  BY ReasonsAssumption DEF ReqIndInv
<1>3. /\ DOMAIN r = {"pc", "question", "window", "source", "served", "read", "torn"}
      /\ r.pc = req[c].pc /\ r.question = req[c].question /\ r.window = req[c].window
      /\ r.read = req[c].read /\ r.torn = req[c].torn /\ r.served = req[c].served
      /\ r.source = [req[c].source EXCEPT ![s] = what]
  BY <1>2 DEF RequestIsTrue, RequestTypeOK
<1> HIDE DEF r
<1>4. \A x \in Services : r.source[x] = "ok" => r.served[x] = r.window
  <2>1. AnswersAreForItsWindow(c) /\ DOMAIN req[c].source = Sources
    BY <1>2 DEF RequestIsTrue, RequestTypeOK
  <2> QED  BY <1>2, <1>3, <2>1 DEF AnswersAreForItsWindow, Services, Sources
<1>5. DOMAIN r.served = Services
  BY <1>2, <1>3 DEF RequestIsTrue, RequestTypeOK
<1>6. /\ Settles(c, s, what, r)
      /\ what \in {"ok", "http_500", "timeout", "database_error"} \cup Reasons
  BY <1>3, <1>4, <1>5 DEF Settles
<1> QED  BY <1>1, <1>2, <1>6, SourceSettles

(* A service answers for the request's window.                             *)
LEMMA ServiceAnswers ==
    ASSUME ReqIndInv, NEW c \in Clients, NEW s \in Services, req[c].window # Refused,
           Serves(c, s, req[c].window), UNCHANGED mlVars, Elsewhere
    PROVE  ReqIndInv'
<1> DEFINE w == req[c].window
           r == [req[c] EXCEPT !.source[s] = "ok", !.served[s] = w]
<1>1. RequestIsTrue(c) /\ s \in Sources /\ s # "ml"
  BY DEF ReqIndInv, Services, Sources
<1>2. req' = [req EXCEPT ![c] = r]
  BY <1>1 DEF Serves, ReqIndInv, RequestIsTrue, RequestTypeOK
<1>3. /\ DOMAIN r = {"pc", "question", "window", "source", "served", "read", "torn"}
      /\ r.pc = req[c].pc /\ r.question = req[c].question /\ r.window = req[c].window
      /\ r.read = req[c].read /\ r.torn = req[c].torn
      /\ r.source = [req[c].source EXCEPT ![s] = "ok"]
      /\ r.served = [req[c].served EXCEPT ![s] = w]
  BY <1>1 DEF RequestIsTrue, RequestTypeOK
<1> HIDE DEF r
<1>4. DOMAIN r.served = Services
  BY <1>1, <1>3 DEF RequestIsTrue, RequestTypeOK
<1>5. \A x \in Services : r.source[x] = "ok" => r.served[x] = r.window
  <2>1. /\ AnswersAreForItsWindow(c) /\ DOMAIN req[c].source = Sources
        /\ DOMAIN req[c].served = Services
    BY <1>1 DEF RequestIsTrue, RequestTypeOK
  <2> QED  BY <1>3, <2>1 DEF AnswersAreForItsWindow, Services, Sources
<1> DEFINE what == "ok"
<1>6. /\ what \in {"ok", "http_500", "timeout", "database_error"} \cup Reasons
      /\ Settles(c, s, what, r)
  BY <1>3, <1>4, <1>5 DEF Settles
<1> HIDE DEF what, w
<1> QED  BY <1>1, <1>2, <1>6, SourceSettles

(* A thread that has not begun has read an empty sequence.                 *)
LEMMA EmptyRead == Len(<<>>) = 0 /\ <<>> = [k \in 1..Len(<<>>) |-> (<<>>)[k]]
<1>1. Len(<<>>) = 0
  OBVIOUS
<1>2. <<>> \in Seq({})
  OBVIOUS
<1>3. <<>> = [k \in 1..Len(<<>>) |-> (<<>>)[k]]
  BY <1>2
<1> QED  BY <1>1, <1>3

(* A sequence, as the invariant writes it.                                 *)
LEMMA IsSequence ==
    ASSUME NEW T, NEW s \in Seq(T)
    PROVE  s = [k \in 1..Len(s) |-> s[k]] /\ Len(s) \in Nat
OBVIOUS

(* What appending a section does to what has been read.                    *)
LEMMA ReadGrows ==
    ASSUME NEW read, Len(read) \in Nat, read = [k \in 1..Len(read) |-> read[k]], NEW what,
           NEW longer, longer = Append(read, what)
    PROVE  /\ Len(longer) = Len(read) + 1
           /\ longer = [k \in 1..Len(longer) |-> longer[k]]
           /\ \A k \in 1..Len(read) : longer[k] = read[k]
           /\ longer[Len(read) + 1] = what
<1> DEFINE T == {read[k] : k \in 1..Len(read)} \cup {what}
<1>1. read \in Seq(T)
  OBVIOUS
<1>2. what \in T
  OBVIOUS
<1> HIDE DEF T
<1>3. /\ longer \in Seq(T) /\ Len(longer) = Len(read) + 1
      /\ \A k \in 1..Len(read) : longer[k] = read[k]
      /\ longer[Len(read) + 1] = what
  BY <1>1, <1>2, AppendProperties
<1>4. longer = [k \in 1..Len(longer) |-> longer[k]]
  BY <1>3, IsSequence
<1> QED  BY <1>3, <1>4

(* The thread reads a section.                                             *)
LEMMA SectionKeeps ==
    ASSUME ReqIndInv, NEW c \in Clients, ReadSection(c)
    PROVE  ReqIndInv'
<1> DEFINE read == req[c].read
           w == req[c].window
           longer == Append(read, Section(Sections[Len(read) + 1], w))
           r == [req[c] EXCEPT !.read = longer]
<1>1. RequestIsTrue(c)
  BY DEF ReqIndInv
<1>2. /\ Pending(c, "ml") /\ Len(read) + 1 <= 6 /\ UNCHANGED mlVars /\ Elsewhere
      /\ req' = [req EXCEPT ![c] = r] /\ req'[c] = r
  BY DEF ReadSection, ReqIndInv, Sections
<1>3. Len(read) \in Nat /\ read = [k \in 1..Len(read) |-> read[k]]
  BY <1>1 DEF RequestIsTrue, RequestTypeOK
<1>4. /\ Len(longer) = Len(read) + 1
      /\ longer = [k \in 1..Len(longer) |-> longer[k]]
      /\ \A k \in 1..Len(read) : longer[k] = read[k]
      /\ longer[Len(read) + 1] = Section(Sections[Len(read) + 1], w)
  <2> DEFINE what == Section(Sections[Len(read) + 1], w)
  <2> HIDE DEF read, what
  <2> QED  BY <1>3, ReadGrows
<1>5. /\ DOMAIN r = {"pc", "question", "window", "source", "served", "read", "torn"}
      /\ r.pc = req[c].pc /\ r.question = req[c].question /\ r.window = w /\ r.read = longer
      /\ r.served = req[c].served /\ r.torn = req[c].torn /\ r.source = req[c].source
  BY <1>1 DEF RequestIsTrue, RequestTypeOK
<1>6. ASSUME ReadsAreCurrent(read, w)
      PROVE  ReadsAreCurrent(longer, w)
  <2> DEFINE n == Len(read)
  <2>1. n \in 0..5
    <3> HIDE DEF read
    <3> QED  BY <1>2, <1>3
  <2>2. /\ n = 0 => longer[1] = MlDaily(w)
        /\ n = 1 => longer[2] = MlSeries(w)
        /\ n = 2 => longer[3] = MlStats(w)
        /\ n = 3 => longer[4] = MlByStatus(w)
        /\ n = 5 => longer[6].versions = MlVersions(w)
    <3> HIDE DEF longer, read, w
    <3>1. ASSUME NEW k \in 0..5, n = k
          PROVE  longer[k + 1] = Section(Sections[k + 1], w)
      BY <1>4, <3>1
    <3>2. /\ Section(Sections[1], w) = MlDaily(w) /\ Section(Sections[2], w) = MlSeries(w)
          /\ Section(Sections[3], w) = MlStats(w) /\ Section(Sections[4], w) = MlByStatus(w)
          /\ Section(Sections[6], w).versions = MlVersions(w)
      BY DEF Section, Sections
    <3> QED  BY <3>1, <3>2
  <2>3. /\ Len(longer) = n + 1 /\ Len(Sections) = 6
        /\ \A k \in 1..n : longer[k] = read[k]
    BY <1>4 DEF Sections
  <2>4. /\ n >= 1 => read[1] = MlDaily(w)
        /\ n >= 2 => read[2] = MlSeries(w)
        /\ n >= 3 => read[3] = MlStats(w)
        /\ n >= 4 => read[4] = MlByStatus(w)
    BY <1>6 DEF ReadsAreCurrent
  <2> HIDE DEF longer, n, read, w
  <2>5. /\ n + 1 >= 1 => longer[1] = MlDaily(w)
        /\ n + 1 >= 2 => longer[2] = MlSeries(w)
        /\ n + 1 >= 3 => longer[3] = MlStats(w)
        /\ n + 1 >= 4 => longer[4] = MlByStatus(w)
        /\ n + 1 >= 6 => longer[6].versions = MlVersions(w)
    BY <2>1, <2>2, <2>3, <2>4
  <2> QED  BY <2>1, <2>3, <2>5 DEF ReadsAreCurrent
<1>7. RequestIsTrue(c)'
  <2> HIDE DEF r, longer
  <2>1. RequestTypeOK(c)'
    <3>1. Len(longer) \in Nat /\ longer = [k \in 1..Len(longer) |-> longer[k]]
      <4> HIDE DEF read
      <4> QED  BY <1>3, <1>4
    <3> QED  BY <1>1, <1>2, <1>5, <3>1 DEF RequestIsTrue, RequestTypeOK
  <2>2. RequestIsAccepted(c)' /\ AnswersAreForItsWindow(c)'
    BY <1>1, <1>2, <1>5, SameQuestion
  <2>3. (Pending(c, "ml") /\ ~req[c].torn => ReadsAreCurrent(req[c].read, req[c].window))'
    <3> SUFFICES ASSUME Pending(c, "ml")', ~req'[c].torn
                 PROVE  ReadsAreCurrent(req[c].read, req[c].window)'
      OBVIOUS
    <3>1. ReadsAreCurrent(longer, w)
      BY <1>1, <1>2, <1>5, <1>6 DEF RequestIsTrue
    <3>2. req'[c].read = longer /\ req'[c].window = w /\ inference' = inference
      BY <1>2, <1>5 DEF mlVars
    <3> QED  BY <3>1, <3>2
      DEF ReadsAreCurrent, MlDaily, MlSeries, MlStats, MlByStatus, MlVersions
  <2>4. req'[c].source["ml"] = "pending"
    BY <1>2, <1>5 DEF Pending
  <2>5. caller'[c].pc = "idle"
    <3>1. Len(req[c].read) # Len(Sections)
      <4>1. Len(Sections) = 6
        BY DEF Sections
      <4>2. Len(read) \in 0..5
        <5> HIDE DEF read
        <5> QED  BY <1>2, <1>3
      <4>3. Len(read) # 6
        <5> DEFINE n == Len(read)
        <5>1. n \in 0..5
          BY <4>2
        <5> HIDE DEF n
        <5>2. n # 6
          BY <5>1
        <5> QED  BY <5>2 DEF n
      <4> QED  BY <4>1, <4>3
    <3> QED  BY <1>1, <1>2, <3>1 DEF RequestIsTrue, mlVars
  <2> QED  BY <2>1, <2>2, <2>3, <2>4, <2>5 DEF RequestIsTrue
<1> HIDE DEF r
<1> QED  BY <1>2, <1>7, OnlyOne DEF mlVars

(* A question is asked.                                                    *)
LEMMA AskKeeps ==
    ASSUME ReqIndInv, NEW c \in Clients, NEW q \in Questions[c], Ask(c, q)
    PROVE  ReqIndInv'
<1> DEFINE w == FacadeWindow(q.from, q.to, BucketOf(q), Default(q.endpoint), Now)
           r == [pc |-> "waiting", question |-> q, window |-> w,
                 source |-> [s \in Sources |-> IF s \in Consumes(q.endpoint)
                                               THEN "pending" ELSE "unused"],
                 served |-> [s \in Services |-> Refused], read |-> <<>>, torn |-> FALSE]
<1>0. ValidFilter(FilterOf(q), AlertStatuses, RiskLevels)
  BY DEF Ask, FacadeStatuses, FacadeLevels, AlertStatuses, RiskLevels
<1>1. WindowIsAccepted(w)
  <2>1. Default(q.endpoint) \in Int
    BY NumbersAssumption DEF Default
  <2>2. q.from \in Int \cup {None} /\ q.to \in Int \cup {None} /\ w # Refused
    BY QuestionsAssumption DEF Ask
  <2> QED  BY <2>1, <2>2, FacadeWindowIsAccepted
<1>2. /\ req' = [req EXCEPT ![c] = r] /\ req'[c] = r /\ inference' = inference /\ Elsewhere
      /\ caller' = caller
  BY DEF Ask, ReqIndInv, mlVars
<1>3. caller[c].pc = "idle"
  BY DEF ReqIndInv, RequestIsTrue, Pending, Ask
<1> HIDE DEF w
<1>4. /\ r.pc = "waiting" /\ r.question = q /\ r.window = w /\ r.read = <<>> /\ r.torn = FALSE
      /\ DOMAIN r.served = Services
      /\ DOMAIN r = {"pc", "question", "window", "source", "served", "read", "torn"}
      /\ r.source \in [Sources -> {"unused", "pending"}]
  OBVIOUS
<1> HIDE DEF r
<1>5. RequestTypeOK(c)'
  <2>1. Len(r.read) \in Nat /\ r.read = [k \in 1..Len(r.read) |-> r.read[k]]
    BY <1>4, EmptyRead
  <2>2. /\ r.source \in [Sources -> {"unused", "pending", "ok", "http_500", "timeout",
                                     "database_error"} \cup Reasons]
        /\ r.torn \in BOOLEAN
    BY <1>4
  <2> QED  BY <1>2, <1>4, <2>1, <2>2 DEF RequestTypeOK
<1>6. RequestIsAccepted(c)' /\ AnswersAreForItsWindow(c)'
  <2>1. RequestIsAccepted(c)'
    BY <1>0, <1>1, <1>2, <1>4 DEF RequestIsAccepted
  <2>2. AnswersAreForItsWindow(c)'
    BY <1>2, <1>4 DEF AnswersAreForItsWindow, Services, Sources
  <2> QED  BY <2>1, <2>2
<1>7. (Pending(c, "ml") /\ ~req[c].torn => ReadsAreCurrent(req[c].read, req[c].window))'
  BY <1>2, <1>4 DEF ReadsAreCurrent, Sections
<1>8. req'[c].source["ml"] # "ok"
  BY <1>2, <1>4 DEF Sources
<1>9. RequestIsTrue(c)'
  BY <1>2, <1>5, <1>6, <1>7, <1>8, <1>3 DEF RequestIsTrue
<1> QED  BY <1>2, <1>9, OnlyOne

(* A client without a request.                                             *)
LEMMA NoRequestIsTrue ==
    /\ NoRequest.pc = "idle" /\ NoRequest.read = <<>> /\ NoRequest.torn = FALSE
    /\ DOMAIN NoRequest = {"pc", "question", "window", "source", "served", "read", "torn"}
    /\ NoRequest.source \in [Sources -> {"unused", "pending", "ok", "http_500", "timeout",
                                         "database_error"} \cup Reasons]
    /\ \A s \in Sources : NoRequest.source[s] = "unused"
    /\ DOMAIN NoRequest.served = Services
    /\ Len(NoRequest.read) \in Nat
    /\ NoRequest.read = [k \in 1..Len(NoRequest.read) |-> NoRequest.read[k]]
<1>1. NoRequest.read = <<>>
  BY DEF NoRequest
<1>2. /\ NoRequest.pc = "idle" /\ NoRequest.torn = FALSE
      /\ NoRequest.source = [s \in Sources |-> "unused"]
      /\ DOMAIN NoRequest.served = Services
      /\ DOMAIN NoRequest = {"pc", "question", "window", "source", "served", "read", "torn"}
  BY DEF NoRequest
<1> QED  BY <1>1, <1>2, EmptyRead DEF Sources

(* An answer frees the client.                                             *)
LEMMA AnswerKeeps ==
    ASSUME ReqIndInv, NEW c \in Clients, Answer(c)
    PROVE  ReqIndInv'
<1>1. /\ req' = [req EXCEPT ![c] = NoRequest] /\ req'[c] = NoRequest
      /\ inference' = inference /\ Elsewhere /\ caller' = caller
  BY DEF Answer, ReqIndInv, mlVars
<1>2. caller[c].pc = "idle"
  BY DEF ReqIndInv, RequestIsTrue, Answer, Settled, Sources
<1>3. RequestTypeOK(c)'
  BY <1>1, NoRequestIsTrue DEF RequestTypeOK
<1>4. req'[c].pc = "idle" /\ \A s \in Sources : req'[c].source[s] = "unused"
  BY <1>1, NoRequestIsTrue
<1>5. RequestIsTrue(c)'
  <2>1. RequestIsAccepted(c)'
    BY <1>4 DEF RequestIsAccepted
  <2>2. AnswersAreForItsWindow(c)'
    BY <1>4 DEF AnswersAreForItsWindow, Services, Sources
  <2> QED  BY <1>1, <1>3, <1>4, <1>2, <2>1, <2>2 DEF RequestIsTrue, Pending, Sources
<1> QED  BY <1>1, <1>5, OnlyOne

(* The thread is done: what it has read adds up, and stays what it is.     *)
LEMMA RuntimeReadKeeps ==
    ASSUME ReqIndInv, MlTypeOK, NEW c \in Clients, ReadRuntime(c)
    PROVE  ReqIndInv'
<1> DEFINE read == req[c].read
           w == req[c].window
           what == IF caller[c].pc = "failed" THEN Nothing ELSE object[caller[c].object].version
           longer == Append(read, what)
           r == [req[c] EXCEPT !.source["ml"] = "ok", !.read = longer]
<1>1. RequestIsTrue(c)
  BY DEF ReqIndInv
<1>2. Pending(c, "ml") /\ Len(read) = Len(Sections)
  BY <1>1 DEF RequestIsTrue, ReadRuntime
<1>3. caller'[c].pc = "idle" /\ \A x \in Clients : x # c => caller'[x] = caller[x]
  BY ClientsAssumption DEF ReadRuntime, Done, NotCalling, MlTypeOK
<1>4. /\ DOMAIN r = {"pc", "question", "window", "source", "served", "read", "torn"}
      /\ r.pc = req[c].pc /\ r.question = req[c].question /\ r.window = w /\ r.read = longer
      /\ r.served = req[c].served /\ r.torn = req[c].torn
      /\ r.source = [req[c].source EXCEPT !["ml"] = "ok"]
  BY <1>1 DEF RequestIsTrue, RequestTypeOK
<1>5. /\ req' = [req EXCEPT ![c] = r] /\ req'[c] = r
      /\ inference' = inference /\ Elsewhere
  BY <1>1 DEF ReadRuntime, ReqIndInv, RequestIsTrue, RequestTypeOK
<1>6. Len(read) \in Nat /\ read = [k \in 1..Len(read) |-> read[k]]
  BY <1>1 DEF RequestIsTrue, RequestTypeOK
<1>7. /\ Len(longer) = Len(read) + 1
      /\ longer = [k \in 1..Len(longer) |-> longer[k]]
      /\ \A k \in 1..Len(read) : longer[k] = read[k]
      /\ longer[Len(read) + 1] = what
  <2> HIDE DEF read, what
  <2> QED  BY <1>6, ReadGrows
<1>8. ~req[c].torn => MlAddsUp(longer)
  <2> SUFFICES ASSUME ~req[c].torn
               PROVE  MlAddsUp(longer)
    OBVIOUS
  <2>1. ReadsAreCurrent(read, w) /\ WindowIsAccepted(w)
    BY <1>1, <1>2 DEF RequestIsTrue, RequestIsAccepted, Pending
  <2>2. Len(read) = 6
    BY <1>2 DEF Sections
  <2>3. /\ read[1] = MlDaily(w) /\ read[2] = MlSeries(w) /\ read[3] = MlStats(w)
        /\ read[4] = MlByStatus(w) /\ read[6].versions = MlVersions(w)
    <3> HIDE DEF read, w
    <3> QED  BY <2>1, <2>2 DEF ReadsAreCurrent
  <2>4. \A k \in 1..6 : longer[k] = read[k]
    BY <1>7, <2>2
  <2> HIDE DEF longer, read, w
  <2> QED  BY <2>1, <2>3, <2>4, MlReportAddsUp DEF ReqIndInv
<1>9. RequestIsTrue(c)'
  <2> HIDE DEF r, longer
  <2>1. RequestTypeOK(c)'
    <3>1. Len(longer) \in Nat /\ longer = [k \in 1..Len(longer) |-> longer[k]]
      <4> HIDE DEF read
      <4> QED  BY <1>6, <1>7
    <3>2. /\ r.source \in [Sources -> {"unused", "pending", "ok", "http_500", "timeout",
                                       "database_error"} \cup Reasons]
          /\ r.torn \in BOOLEAN /\ DOMAIN r.served = Services
      BY <1>1, <1>4 DEF RequestIsTrue, RequestTypeOK
    <3> QED  BY <1>4, <1>5, <3>1, <3>2 DEF RequestTypeOK
  <2>2. RequestIsAccepted(c)' /\ AnswersAreForItsWindow(c)'
    <3>1. \A s \in Services : r.source[s] = req[c].source[s]
      BY <1>4 DEF Services
    <3> QED  BY <1>1, <1>4, <1>5, <3>1, SameQuestion
  <2>3. req'[c].source["ml"] = "ok"
    BY <1>1, <1>4, <1>5 DEF RequestIsTrue, RequestTypeOK, Sources
  <2>4. (req[c].source["ml"] = "ok" /\ ~req[c].torn => MlAddsUp(req[c].read))'
    BY <1>4, <1>5, <1>8 DEF MlAddsUp
  <2> QED  BY <1>3, <2>1, <2>2, <2>3, <2>4 DEF RequestIsTrue, Pending
<1> HIDE DEF r
<1> QED  BY <1>5, <1>9, <1>3, OnlyOne

(* What the loop does for the service is no client's call, and what it     *)
(* logs is of now.                                                         *)
LEMMA LoopsCalls ==
    ASSUME MlTypeOK, LogTypeOK, MlNext
    PROVE  /\ \A c \in Clients : caller'[c] = caller[c]
           /\ LogTypeOK'
<1> DEFINE Log == IsFiniteSet(inference') /\ \A row \in inference' :
                     row.at \in Int /\ row.status \in {"ready", "degraded", "error"}
           Spared == \A c \in Clients : caller'[c] = caller[c]
<1>1. /\ \A c \in Clients : c \in Callers /\ c # Loop
      /\ DOMAIN caller = Callers
  BY ClientsAssumption DEF MlTypeOK
<1>2. ASSUME NEW v, caller' = [caller EXCEPT ![Loop] = v]
      PROVE  Spared
  BY <1>1, <1>2
<1>3. ASSUME inference' = inference
      PROVE  Log
  BY <1>3 DEF LogTypeOK
<1>4. ASSUME NEW row, inference' = inference \cup {row}, row.at = Now,
             row.status \in {"ready", "error"}
      PROVE  Log
  BY <1>4, FS_AddElement, QuestionsAssumption DEF LogTypeOK
<1>5. caller' = caller => Spared
  OBVIOUS
<1> SUFFICES Spared /\ Log
  BY DEF LogTypeOK
<1> HIDE DEF Log, Spared
<1>6. CASE Resolve(Loop)
  <2>1. \E v : caller' = [caller EXCEPT ![Loop] = v]
    BY <1>6 DEF Resolve
  <2> QED  BY <1>2, <1>3, <1>6, <2>1 DEF Resolve
<1>7. CASE GetRuntime(Loop)
  <2>1. inference' = inference
    BY <1>7 DEF GetRuntime, Check, Load, StorePath, Return
  <2>2. \E v : caller' = [caller EXCEPT ![Loop] = v]
    BY <1>7 DEF GetRuntime, Check, Load, StorePath, Return, Goes
  <2> QED  BY <1>2, <1>3, <2>1, <2>2
<1>8. CASE UsesRuntimeOnly
  <2>1. \E v : caller' = [caller EXCEPT ![Loop] = v]
    BY <1>8 DEF UsesRuntimeOnly, Done
  <2> QED  BY <1>2, <1>3, <1>8, <2>1 DEF UsesRuntimeOnly
<1>9. ASSUME NEW r \in RequestIds, NEW out \in Outputs, Score(r, out)
      PROVE  Spared /\ Log
  <2> DEFINE o == object[caller[Loop].object]
             new == [id |-> r, at |-> Now, status |-> "ready", model |-> o.model,
                     version |-> o.version, anomaly |-> out.anomaly,
                     reasons |-> out.reasons]
  <2>1. Done(Loop) /\ inference' = inference \cup {new}
    BY <1>9 DEF Score
  <2>2. new.at = Now /\ new.status = "ready"
    OBVIOUS
  <2> HIDE DEF new
  <2> QED  BY <1>2, <1>4, <2>1, <2>2 DEF Done
<1>10. ASSUME NEW r \in RequestIds, ScoreUnavailable(r)
      PROVE  Spared /\ Log
  <2> DEFINE new == [id |-> r, at |-> Now, status |-> "error", model |-> Nothing,
                     version |-> Nothing, anomaly |-> FALSE, reasons |-> {}]
  <2>1. Done(Loop) /\ inference' = inference \cup {new}
    BY <1>10 DEF ScoreUnavailable
  <2>2. new.at = Now /\ new.status = "error"
    OBVIOUS
  <2> HIDE DEF new
  <2> QED  BY <1>2, <1>4, <2>1, <2>2 DEF Done
<1>11. CASE \/ \E m \in Models \cup {Nothing} : Promote(m)
            \/ \E p \in Paths, v \in Versions \cup {Nothing} : Replace(p, v)
  BY <1>5, <1>3, <1>11 DEF Promote, Replace
<1> QED  BY <1>6, <1>7, <1>8, <1>9, <1>10, <1>11 DEF MlNext

(* A report that the log moves away from is torn.                          *)
LEMMA MlMovesKeeps ==
    ASSUME ReqIndInv, MlTypeOK, MlMoves
    PROVE  ReqIndInv'
<1>1. LogTypeOK' /\ Elsewhere /\ \A c \in Clients : caller'[c] = caller[c]
  BY LoopsCalls DEF MlMoves, ReqIndInv
<1>2. ASSUME NEW c \in Clients
      PROVE  RequestIsTrue(c)'
  <2> DEFINE tears == inference' # inference /\ Pending(c, "ml") /\ req[c].read # <<>>
             r == [req[c] EXCEPT !.torn = @ \/ tears]
  <2>1. req'[c] = r
    BY DEF MlMoves
  <2>2. RequestIsTrue(c)
    BY DEF ReqIndInv
  <2>3. /\ DOMAIN r = {"pc", "question", "window", "source", "served", "read", "torn"}
        /\ r.pc = req[c].pc /\ r.question = req[c].question /\ r.window = req[c].window
        /\ r.read = req[c].read /\ r.served = req[c].served
        /\ r.source = req[c].source /\ r.torn = (req[c].torn \/ tears)
    BY <2>2 DEF RequestIsTrue, RequestTypeOK
  <2>4. r.torn \in BOOLEAN
    <3>1. (req[c].torn \/ tears) \in BOOLEAN
      OBVIOUS
    <3> HIDE DEF r, tears
    <3> QED  BY <2>3, <3>1
  <2> HIDE DEF r
  <2>5. RequestTypeOK(c)'
    BY <2>1, <2>2, <2>3, <2>4 DEF RequestIsTrue, RequestTypeOK
  <2>6. RequestIsAccepted(c)' /\ AnswersAreForItsWindow(c)'
    BY <2>1, <2>2, <2>3, SameQuestion
  <2>7. (Pending(c, "ml") /\ ~req[c].torn => ReadsAreCurrent(req[c].read, req[c].window))'
    <3> SUFFICES ASSUME Pending(c, "ml")', ~req'[c].torn
                 PROVE  ReadsAreCurrent(req[c].read, req[c].window)'
      OBVIOUS
    <3>1. Pending(c, "ml") /\ ~req[c].torn /\ ~tears
      BY <2>1, <2>3 DEF Pending
    <3>2. req'[c].read = req[c].read /\ req'[c].window = req[c].window
      BY <2>1, <2>3
    <3>3. CASE inference' = inference
      <4>1. ReadsAreCurrent(req[c].read, req[c].window)
        BY <2>2, <3>1 DEF RequestIsTrue
      <4> QED  BY <3>2, <3>3, <4>1
        DEF ReadsAreCurrent, MlDaily, MlSeries, MlStats, MlByStatus, MlVersions
    <3>4. CASE req[c].read = <<>>
      BY <3>2, <3>4, EmptyRead DEF ReadsAreCurrent, Sections
    <3> QED  BY <3>1, <3>3, <3>4
  <2>8. (req[c].source["ml"] = "ok" /\ ~req[c].torn => MlAddsUp(req[c].read))'
    BY <2>1, <2>2, <2>3 DEF RequestIsTrue, MlAddsUp
  <2>9. (caller[c].pc # "idle" => Pending(c, "ml") /\ Len(req[c].read) = Len(Sections))'
    BY <1>1, <2>1, <2>2, <2>3 DEF RequestIsTrue, Pending, Sections
  <2> QED  BY <2>5, <2>6, <2>7, <2>8, <2>9 DEF RequestIsTrue
<1>3. req' = [c \in Clients |-> req'[c]]
  BY DEF MlMoves
<1> QED  BY <1>1, <1>2, <1>3 DEF ReqIndInv, Elsewhere

(* The thread's call of get_ml_runtime reads and writes no request.        *)
LEMMA AskRuntimeKeeps ==
    ASSUME ReqIndInv, MlTypeOK, NEW c \in Clients, AskRuntime(c)
    PROVE  ReqIndInv'
<1>1. /\ req' = req /\ inference' = inference /\ Elsewhere
      /\ Pending(c, "ml") /\ Len(req[c].read) = Len(Sections)
  BY DEF AskRuntime, Resolve, GetRuntime, Check, Load, StorePath, Return
<1>2. \E v : caller' = [caller EXCEPT ![c] = v]
  BY DEF AskRuntime, Resolve, GetRuntime, Check, Load, StorePath, Return, Goes
<1>3. \A x \in Clients : x # c => caller'[x] = caller[x]
  BY <1>2, ClientsAssumption DEF MlTypeOK
<1>4. \A x \in Clients : x # c => RequestIsTrue(x)'
  BY <1>1, <1>3, RequestUndisturbed DEF ReqIndInv
<1>5. RequestIsTrue(c)'
  <2>1. RequestIsTrue(c)
    BY DEF ReqIndInv
  <2>2. Pending(c, "ml")' /\ (Len(req[c].read) = Len(Sections))'
    BY <1>1 DEF Pending, Sections
  <2>3. RequestTypeOK(c)'
    BY <1>1, <2>1 DEF RequestIsTrue, RequestTypeOK
  <2>4. (Pending(c, "ml") /\ ~req[c].torn => ReadsAreCurrent(req[c].read, req[c].window))'
    BY <1>1, <2>1 DEF RequestIsTrue, Pending, ReadsAreCurrent, MlDaily, MlSeries, MlStats,
                      MlByStatus, MlVersions
  <2>5. RequestIsAccepted(c)' /\ AnswersAreForItsWindow(c)'
    <3>1. req'[c] = req[c]
      BY <1>1
    <3> QED  BY <2>1, <3>1, SameQuestion
  <2>6. (req[c].source["ml"] = "ok" /\ ~req[c].torn => MlAddsUp(req[c].read))'
    BY <1>1, <2>1 DEF RequestIsTrue, MlAddsUp
  <2> QED  BY <2>2, <2>3, <2>4, <2>5, <2>6 DEF RequestIsTrue
<1> QED  BY <1>1, <1>4, <1>5, LogUnchanged DEF ReqIndInv, Elsewhere

(* The sources answer or fail; an accepted window is not refused.          *)
LEMMA SourcesKeep ==
    ASSUME ReqIndInv, NEW c \in Clients,
           \/ ServeDetection(c) \/ ServeCore(c)
           \/ FetchFails(c, "core") \/ FetchFails(c, "detection") \/ MlFails(c)
    PROVE  ReqIndInv'
<1>1. RequestIsTrue(c)
  BY DEF ReqIndInv
<1> DEFINE w == req[c].window
<1>2. ASSUME req[c].pc = "waiting", NEW later \in Now..(Now + Delay)
      PROVE  /\ CoreWindow(Sent(req[c].question, w), later) = w
             /\ DetectionWindow(Sent(req[c].question, w), later) = w
             /\ w # Refused
  <2>1. WindowIsAccepted(w)
    BY <1>1, <1>2 DEF RequestIsTrue, RequestIsAccepted
  <2>2. w # Refused
    BY <2>1 DEF WindowIsAccepted
  <2> HIDE DEF w
  <2> QED  BY <2>1, <2>2, SourcesAgree
<1>3. CASE ServeDetection(c)
  <2> DEFINE sent == Sent(req[c].question, w)
  <2>1. req[c].pc = "waiting" /\ UNCHANGED mlVars /\ Elsewhere
    BY <1>3 DEF ServeDetection, Pending
  <2>2. ValidFilter(sent.filter, AlertStatuses, RiskLevels)
    BY <1>1, <2>1 DEF RequestIsTrue, RequestIsAccepted, Sent
  <2>3. PICK later \in Now..(Now + Delay) :
          Serves(c, "detection", IF ValidFilter(sent.filter, AlertStatuses, RiskLevels)
                                 THEN DetectionWindow(sent, later) ELSE Refused)
    BY <1>3 DEF ServeDetection
  <2>4. Serves(c, "detection", w) /\ w # Refused
    BY <1>2, <2>1, <2>2, <2>3
  <2> QED  BY <2>1, <2>4, ServiceAnswers DEF Services
<1>4. CASE ServeCore(c)
  <2> DEFINE sent == Sent(req[c].question, w)
  <2>1. req[c].pc = "waiting" /\ UNCHANGED mlVars /\ Elsewhere
    BY <1>4 DEF ServeCore, Pending
  <2>2. ASSUME NEW later \in Now..(Now + Delay), Serves(c, "core", CoreWindow(sent, later))
        PROVE  ReqIndInv'
    <3>1. Serves(c, "core", w) /\ w # Refused
      BY <1>2, <2>1, <2>2
    <3> QED  BY <2>1, <3>1, ServiceAnswers DEF Services
  <2>3. CASE UNCHANGED req
    <3>1. req' = req /\ inference' = inference /\ caller' = caller
      BY <2>1, <2>3 DEF mlVars
    <3>2. \A x \in Clients : RequestIsTrue(x)'
      BY <3>1, RequestUndisturbed DEF ReqIndInv
    <3> QED  BY <2>1, <3>1, <3>2, LogUnchanged DEF ReqIndInv, Elsewhere
  <2> QED  BY <1>4, <2>2, <2>3 DEF ServeCore
<1>5. ASSUME NEW s \in {"core", "detection"}, FetchFails(c, s)
      PROVE  ReqIndInv'
  <2>1. PICK reason \in Reasons : Becomes(c, s, reason)
    BY <1>5 DEF FetchFails
  <2>2. UNCHANGED mlVars /\ Elsewhere /\ s \in Sources /\ s # "ml"
    BY <1>5 DEF FetchFails, Sources
  <2> QED  BY <2>1, <2>2, SourceFails
<1>6. CASE MlFails(c)
  <2>1. /\ Becomes(c, "ml", "database_error") /\ UNCHANGED mlVars /\ Elsewhere
        /\ caller[c].pc = "idle"
    BY <1>6 DEF MlFails
  <2> QED  BY <2>1, SourceFails DEF Sources
<1> QED  BY <1>3, <1>4, <1>5, <1>6

(* The checkout that gives up fails one fetch, of a client or of no one.   *)
LEMMA PoolGivesUpKeeps ==
    ASSUME ReqIndInv, PoolGivesUp
    PROVE  ReqIndInv'
<1>1. UNCHANGED mlVars /\ Elsewhere
  BY DEF PoolGivesUp
<1>2. PICK reason \in {"http_500", "timeout"} : Becomes(stalled, "core", reason)
  BY DEF PoolGivesUp
<1>3. CASE stalled \in Clients
  <2> DEFINE c == stalled
  <2>1. c \in Clients /\ Becomes(c, "core", reason)
    BY <1>2, <1>3
  <2> HIDE DEF c
  <2> QED  BY <1>1, <2>1, SourceFails DEF Sources
<1>4. CASE stalled \notin Clients
  <2>1. req' = req
    <3>1. req' = [req EXCEPT ![stalled].source["core"] = reason]
      BY <1>2 DEF Becomes
    <3>2. DOMAIN req = Clients /\ req = [x \in Clients |-> req[x]]
      BY DEF ReqIndInv
    <3> QED  BY <1>4, <3>1, <3>2
  <2>2. inference' = inference /\ caller' = caller
    BY <1>1 DEF mlVars
  <2>3. \A x \in Clients : RequestIsTrue(x)'
    BY <2>1, <2>2, RequestUndisturbed DEF ReqIndInv
  <2> QED  BY <1>1, <2>1, <2>2, <2>3, LogUnchanged DEF ReqIndInv, Elsewhere
<1> QED  BY <1>3, <1>4

(* At first no one asks and nothing is logged.                             *)
LEMMA RequestsInitially == Init => ReqIndInv
<1> SUFFICES ASSUME Init
             PROVE  ReqIndInv
  OBVIOUS
<1>1. LogTypeOK
  BY FS_EmptySet DEF Init, MlInit, LogTypeOK
<1>2. ASSUME NEW c \in Clients
      PROVE  RequestIsTrue(c)
  <2>1. req[c] = NoRequest
    BY DEF Init
  <2>2. caller[c].pc = "idle"
    BY ClientsAssumption DEF Init, MlInit, NotCalling
  <2>3. RequestTypeOK(c)
    BY <2>1, NoRequestIsTrue DEF RequestTypeOK
  <2>4. req[c].pc = "idle" /\ \A s \in Sources : req[c].source[s] = "unused"
    BY <2>1, NoRequestIsTrue
  <2> QED  BY <2>2, <2>3, <2>4
    DEF RequestIsTrue, Pending, RequestIsAccepted, AnswersAreForItsWindow, Services, Sources
<1> QED  BY <1>1, <1>2 DEF Init, ReqIndInv

(* Every step of the facade keeps the requests true.                       *)
LEMMA RequestsKeep == ReqIndInv /\ MlTypeOK /\ [Next]_vars => ReqIndInv'
<1> SUFFICES ASSUME ReqIndInv, MlTypeOK, [Next]_vars
             PROVE  ReqIndInv'
  OBVIOUS
<1>1. CASE \E c \in Clients : \E q \in Questions[c] : Ask(c, q)
  BY <1>1, AskKeeps
<1>2. ASSUME NEW c \in Clients,
             \/ ServeDetection(c) \/ ServeCore(c)
             \/ FetchFails(c, "core") \/ FetchFails(c, "detection") \/ MlFails(c)
      PROVE  ReqIndInv'
  BY <1>2, SourcesKeep
<1>3. ASSUME NEW c \in Clients,
             ReadSection(c) \/ AskRuntime(c) \/ ReadRuntime(c) \/ Answer(c)
      PROVE  ReqIndInv'
  BY <1>3, SectionKeeps, AskRuntimeKeeps, RuntimeReadKeeps, AnswerKeeps
<1>4. CASE PoolGivesUp
  BY <1>4, PoolGivesUpKeeps
<1>5. CASE MlMoves
  BY <1>5, MlMovesKeeps
<1>6. CASE UNCHANGED vars
  <2>1. req' = req /\ inference' = inference /\ caller' = caller /\ Elsewhere
    BY <1>6 DEF vars, mlVars, Elsewhere
  <2>2. \A x \in Clients : RequestIsTrue(x)'
    BY <2>1, RequestUndisturbed DEF ReqIndInv
  <2> QED  BY <2>1, <2>2, LogUnchanged DEF ReqIndInv, Elsewhere
<1> QED  BY <1>1, <1>2, <1>3, <1>4, <1>5, <1>6 DEF Next

(* Requests that are what they say show reports that add up.               *)
LEMMA TrueRequestsAddUp == ReqIndInv => ServicesKeepTheWindow /\ ReportsAddUp
<1> SUFFICES ASSUME ReqIndInv
             PROVE  ServicesKeepTheWindow /\ ReportsAddUp
  OBVIOUS
<1>1. ServicesAcceptThem
  BY AcceptedWindowsAreAccepted DEF ServicesAcceptThem
<1>2. ASSUME NEW c \in Clients
      PROVE  AnswersAreForItsWindow(c) /\ \A s \in Services : req[c].source[s] # "http_400"
  <2> DEFINE statuses == {"unused", "pending", "ok", "http_500", "timeout",
                          "database_error"} \cup Reasons
  <2>1. req[c].source \in [Sources -> statuses] /\ AnswersAreForItsWindow(c)
    BY DEF ReqIndInv, RequestIsTrue, RequestTypeOK
  <2>2. "http_400" \notin statuses
    BY ReasonsAssumption
  <2> HIDE DEF statuses
  <2> QED  BY <2>1, <2>2 DEF Services, Sources
<1>3. ASSUME NEW c \in Clients
      PROVE  LET r == req[c] IN
             /\ Answered(c, "core") => CoreAddsUp(CorePayload(core, r.served["core"], Now))
             /\ Answered(c, "detection") =>
                  DetectionAddsUp(DetectionPayload(detection, r.served["detection"],
                                                   FilterOf(r.question), Now))
             /\ Answered(c, "ml") /\ ~r.torn => MlAddsUp(r.read)
  <2>1. RequestIsTrue(c) /\ CoreRows(core) /\ DetectionRows(detection)
    BY TablesAssumption DEF ReqIndInv
  <2>2. ASSUME Settled(c)
        PROVE  req[c].window.from \in Int /\ req[c].window.to \in Int
    BY <2>1, <2>2 DEF RequestIsTrue, RequestIsAccepted, WindowIsAccepted, Settled
  <2>3. Answered(c, "core") => CoreAddsUp(CorePayload(core, req[c].served["core"], Now))
    <3>1. Answered(c, "core") => req[c].served["core"] = req[c].window
      BY <1>2 DEF Answered, AnswersAreForItsWindow, Services
    <3> QED  BY <2>1, <2>2, <3>1, CoreReportAddsUp DEF Answered
  <2>4. Answered(c, "detection") =>
          DetectionAddsUp(DetectionPayload(detection, req[c].served["detection"],
                                           FilterOf(req[c].question), Now))
    <3>1. Answered(c, "detection") => req[c].served["detection"] = req[c].window
      BY <1>2 DEF Answered, AnswersAreForItsWindow, Services
    <3> QED  BY <2>1, <2>2, <3>1, DetectionReportAddsUp DEF Answered
  <2>5. Answered(c, "ml") /\ ~req[c].torn => MlAddsUp(req[c].read)
    BY <2>1 DEF RequestIsTrue, Answered
  <2> QED  BY <2>3, <2>4, <2>5
<1> QED  BY <1>1, <1>2, <1>3, TablesAddUp DEF ServicesKeepTheWindow, ReportsAddUp

-----------------------------------------------------------------------------
(* The theorems *)

(* What get_ml_runtime's callers know of the runtime, the path and each    *)
(* other holds in every reachable state.                                   *)
THEOREM Invariance == Spec => []MlIndInv
<1>1. Init => MlIndInv
  BY MlInitially DEF Init
<1> QED  BY <1>1, ManagerKeeps, PTL DEF Spec

(* An inference is logged for the model that scored it, unless an artifact *)
(* was replaced in place or a call overlapped a load.                      *)
THEOREM LogsAreTrue == Spec => []LogNamesOneModel
<1>1. MlIndInv => LogNamesOneModel
  BY DEF MlIndInv
<1> QED  BY <1>1, Invariance, PTL

(* Every request is what it says: it waits for a window that its sources   *)
(* accept; the sections that its thread has read are those of one state of *)
(* the log, or the report is known to be torn; and the sections that are   *)
(* answered add up.  The runtime's state is needed for the thread's last   *)
(* act, which is a call of get_ml_runtime.                                 *)
THEOREM RequestsAreTrue == Spec => [](MlIndInv /\ ReqIndInv)
<1>1. Init => MlIndInv /\ ReqIndInv
  BY MlInitially, RequestsInitially DEF Init
<1>2. MlIndInv /\ ReqIndInv /\ [Next]_vars => (MlIndInv /\ ReqIndInv)'
  BY ManagerKeeps, RequestsKeep DEF MlIndInv
<1> QED  BY <1>1, <1>2, PTL DEF Spec

(* Whatever is asked and whenever a source takes it up, Core and Detection *)
(* answer for the window that the facade resolved, and with no 400: it is  *)
(* enough that no limit of theirs is below the facade's, for the list that *)
(* they count is no longer than what the facade counts.                    *)
THEOREM SourcesNeverRefuse == Spec => []ServicesKeepTheWindow
BY RequestsAreTrue, TrueRequestsAddUp, PTL

(* Every report adds up: each breakdown and each series to its section's   *)
(* total, and each rate is null or a fraction, unless an inference that    *)
(* was logged while the thread was reading tore the ML report.             *)
THEOREM ReportsAreConsistent == Spec => []ReportsAddUp
BY RequestsAreTrue, TrueRequestsAddUp, PTL

=============================================================================
