------------------------- MODULE RiskScoringProofs -------------------------
(***************************************************************************)
(* Proofs about RiskScoring for any login, history, policies, number of    *)
(* workers and answers of the ML service.                                  *)
(*                                                                         *)
(* The gate judges a login that is not stored yet, at another time than    *)
(* its event's.  When no login was stored in between and none passed the   *)
(* edge of a window, both have the same history (SameWindow: its own time  *)
(* keeps the stored login out of it), hence the same features but for the  *)
(* hour, the device and the rhythm.  The rest is that a scoring ends with  *)
(* the verdict of what it began with, and that the ML service cannot have  *)
(* a row of a scoring that it has yet to handle.                           *)
(***************************************************************************)
EXTENDS RiskScoring, FiniteSums

-----------------------------------------------------------------------------
(* The operators *)

(* The earlier and the later of two times.                                 *)
LEMMA EarlierAndLater ==
    ASSUME NEW g, NEW e, g.at \in Int, e.at \in Int
    PROVE  /\ Earlier(g, e) \in {g.at, e.at} /\ Later(g, e) \in {g.at, e.at}
           /\ Earlier(g, e) <= g.at /\ Earlier(g, e) <= e.at
           /\ g.at <= Later(g, e) /\ e.at <= Later(g, e)
<1> DEFINE a == g.at
           b == e.at
<1>1. a \in Int /\ b \in Int
  OBVIOUS
<1> HIDE DEF a, b
<1>2. /\ Min({a, b}) \in {a, b} /\ Min({a, b}) <= a /\ Min({a, b}) <= b
      /\ Max({a, b}) \in {a, b} /\ a <= Max({a, b}) /\ b <= Max({a, b})
  BY <1>1, PairExtremes
<1> QED  BY <1>2 DEF a, b, Earlier, Later

(* The gate and the event count the same logins as earlier ones ...        *)
LEMMA SamePast ==
    ASSUME NEW g, NEW e, g.at \in Int, e.at = Login.at, Hour \in Nat,
           \A h \in g.seen : h.at \in Int,
           \A h \in e.seen : h.at \in Int,
           SameHistory(g, e), NoEdgePassed(g, e)
    PROVE  Before(g.seen, g.at) = Before(e.seen, e.at)
<1> DEFINE first == Earlier(g, e)
           last == Later(g, e)
<1>1. e.at \in Int
  BY LoginAssumption
<1>2. /\ first \in {g.at, e.at} /\ last \in {g.at, e.at}
      /\ first <= g.at /\ first <= e.at /\ g.at <= last /\ e.at <= last
  BY <1>1, EarlierAndLater
<1>3. \A h : h \in g.seen /\ h.at < last <=> h \in e.seen /\ h # Login /\ h.at < last
  BY DEF SameHistory, Before
<1>4. \A h \in g.seen : ~(first <= h.at /\ h.at < last)
  <2> TAKE h \in g.seen
  <2>1. ~(first <= h.at + 0 * Hour /\ h.at + 0 * Hour < last)
    BY DEF NoEdgePassed
  <2> QED  BY <2>1
<1> HIDE DEF first, last
<1>5. ASSUME NEW h, h \in g.seen, h.at < g.at
      PROVE  h \in e.seen /\ h.at < e.at
  <2>1. h.at \in Int /\ h.at < last
    BY <1>1, <1>2, <1>5
  <2> QED  BY <1>1, <1>2, <1>3, <1>4, <1>5, <2>1
<1>6. ASSUME NEW h, h \in e.seen, h.at < e.at
      PROVE  h \in g.seen /\ h.at < g.at
  <2>1. h.at \in Int /\ h.at < last
    BY <1>1, <1>2, <1>6
  <2>2. h # Login
    BY <1>1, <1>6
  <2>3. h \in g.seen
    BY <1>3, <1>6, <2>1, <2>2
  <2> QED  BY <1>1, <1>2, <1>4, <1>6, <2>1, <2>3
<1> QED  BY <1>5, <1>6 DEF Before

(* ... and none of them has left a window that it was in.                  *)
LEMMA SameWindow ==
    ASSUME NEW g, NEW e, g.at \in Int, e.at = Login.at, Hour \in Nat,
           \A h \in g.seen : h.at \in Int,
           \A h \in e.seen : h.at \in Int,
           SameHistory(g, e), NoEdgePassed(g, e),
           NEW hours \in {24, 7 * 24, 30 * 24}
    PROVE  History(g.seen, g.at, hours) = History(e.seen, e.at, hours)
<1> DEFINE prior == Before(g.seen, g.at)
           edge == hours * Hour
<1>1. prior = Before(e.seen, e.at)
  BY SamePast
<1>2. edge \in Int
  <2>1. hours \in Nat
    OBVIOUS
  <2> QED  BY <2>1
<1>3. e.at \in Int
  BY LoginAssumption
<1>4. /\ Earlier(g, e) \in {g.at, e.at} /\ Later(g, e) \in {g.at, e.at}
      /\ Earlier(g, e) <= g.at /\ Earlier(g, e) <= e.at
      /\ g.at <= Later(g, e) /\ e.at <= Later(g, e)
  BY <1>3, EarlierAndLater
<1>5. \A h \in prior : /\ h.at \in Int
                       /\ ~(Earlier(g, e) <= h.at + edge /\ h.at + edge < Later(g, e))
  BY DEF NoEdgePassed, Before
<1> HIDE DEF edge
<1>6. \A h \in prior : g.at <= h.at + edge <=> e.at <= h.at + edge
  <2> TAKE h \in prior
  <2> DEFINE left == h.at + edge
  <2>1. left \in Int /\ ~(Earlier(g, e) <= left /\ left < Later(g, e))
    BY <1>2, <1>5
  <2> HIDE DEF left
  <2>2. g.at <= left <=> e.at <= left
    BY <1>3, <1>4, <2>1
  <2> QED  BY <2>2 DEF left
<1>7. /\ History(g.seen, g.at, hours) = {h \in prior : g.at <= h.at + edge}
      /\ History(e.seen, e.at, hours) = {h \in prior : e.at <= h.at + edge}
  BY <1>1, Zenon DEF History, edge
<1> HIDE DEF prior
<1> QED  BY <1>6, <1>7

(* Whatever the score and the thresholds, a level is one of the four.      *)
LEMMA LevelTyped ==
    ASSUME NEW score, NEW t
    PROVE  LevelOf(score, t) \in Levels
BY DEF LevelOf, Levels

(* A verdict depends on nothing but what its scoring began with and the ML *)
(* service's answer.                                                       *)
LEMMA VerdictIsOfItsScoring ==
    ASSUME NEW r \in Requests,
           scoring'[r].policy = scoring[r].policy,
           scoring'[r].at = scoring[r].at,
           scoring'[r].seen = scoring[r].seen,
           scoring'[r].ml = scoring[r].ml
    PROVE  Verdict(r)' = Verdict(r)
BY Zenon DEF Verdict

-----------------------------------------------------------------------------
(* The features and the score are in their ranges *)

(* The history that a scoring has seen is finite, and of numbers.          *)
LEMMA SeenIsFinite ==
    ASSUME NEW seen, seen \subseteq Past \cup {Login}
    PROVE  IsFiniteSet(seen) /\ \A h \in seen : h.at \in Int
<1>1. IsFiniteSet(Past \cup {Login})
  BY PastAssumption, FS_AddElement
<1> QED  BY <1>1, FS_Subset, LoginAssumption, PastAssumption

(* A part of a set, in whole percents.                                     *)
LEMMA Percent ==
    ASSUME NEW a \in Nat, NEW b \in Nat, b > 0
    PROVE  /\ (100 * a) \div b \in Nat
           /\ a <= b => (100 * a) \div b <= 100
<1>1. (100 * a) \div b \in Nat
  OBVIOUS
<1>2. a <= b => (100 * a) \div b <= 100
  OBVIOUS
<1> QED  BY <1>1, <1>2

(* The times of some logins have a first and a last.                       *)
LEMMA SpanIsCounted ==
    ASSUME NEW recent, IsFiniteSet(recent), \A h \in recent : h.at \in Int, recent # {}
    PROVE  Span(recent) \in Nat /\ Last(recent) \in Int
<1> DEFINE times == {h.at : h \in recent}
           time == [h \in recent |-> h.at]
<1>1. time \in Surjection(recent, times)
  BY DEF Surjection
<1>2. IsFiniteSet(times)
  <2> HIDE DEF time, times
  <2> QED  BY <1>1, FS_Surjection
<1>3. times # {} /\ times \subseteq Int
  OBVIOUS
<1> HIDE DEF times
<1>4. /\ Max(times) \in times /\ Min(times) \in times
      /\ \A x \in times : x <= Max(times)
  BY <1>2, <1>3, ExtremesExist
<1>5. Max(times) \in Int /\ Min(times) \in Int /\ Min(times) <= Max(times)
  BY <1>3, <1>4
<1>6. Max(times) - Min(times) \in Nat
  BY <1>5
<1> QED  BY <1>5, <1>6 DEF Span, Last, times

(* However few logins there are, and however irregular, the two features   *)
(* of the user's habits are numbers, and the deviation a percentage.       *)
LEMMA HabitsAreBounded ==
    ASSUME NEW recent, IsFiniteSet(recent), \A h \in recent : h.at \in Int,
           NEW at \in Int
    PROVE  Interval(recent) \in Nat /\ Deviation(recent, at) \in 0..100
<1> DEFINE n == Count(recent)
<1>1. n \in Nat
  BY FS_CardinalityType DEF Count
<1>2. CASE n < 2
  BY <1>2 DEF Interval, Deviation
<1>3. CASE ~(n < 2)
  <2>1. recent # {}
    BY <1>3, FS_EmptySet DEF Count
  <2> DEFINE s == Span(recent)
             last == Last(recent)
             gap == at - last
             off == gap * (n - 1) - s
             far == Max({off, -off})
             d == (100 * far) \div s
  <2>2. s \in Nat /\ last \in Int
    BY <2>1, SpanIsCounted
  <2>3. Interval(recent) = (3600 * s) \div (Hour * (n - 1))
    BY <1>3 DEF Interval
  <2>4. Deviation(recent, at) = IF s = 0 THEN 0 ELSE Min({100, d})
    BY <1>3 DEF Deviation
  <2> HIDE DEF n, s, last
  <2>5. (3600 * s) \div (Hour * (n - 1)) \in Nat
    <3> DEFINE gaps == n - 1
               divisor == Hour * gaps
    <3>1. gaps \in Nat /\ gaps > 0
      BY <1>1, <1>3
    <3> HIDE DEF gaps
    <3>2. divisor \in Nat /\ divisor > 0
      BY <3>1, LoginAssumption
    <3> HIDE DEF divisor
    <3>3. (3600 * s) \div divisor \in Nat
      BY <2>2, <3>2
    <3> QED  BY <3>3 DEF divisor, gaps
  <2>6. off \in Int /\ -off \in Int
    <3>1. gap \in Int
      BY <2>2
    <3>2. gap * (n - 1) \in Int
      <4> HIDE DEF gap
      <4> QED  BY <1>1, <3>1
    <3> HIDE DEF gap
    <3> QED  BY <2>2, <3>2
  <2> HIDE DEF off
  <2>7. far \in Nat
    <3>1. far \in {off, -off} /\ off <= far /\ -off <= far
      BY <2>6, PairExtremes
    <3> HIDE DEF far
    <3> QED  BY <2>6, <3>1
  <2> HIDE DEF far
  <2>8. ASSUME s # 0
        PROVE  Min({100, d}) \in 0..100
    <3>1. d \in Nat
      BY <2>2, <2>7, <2>8, Percent
    <3> HIDE DEF d
    <3>2. Min({100, d}) \in {100, d} /\ Min({100, d}) <= 100
      <4>1. 100 \in Int /\ d \in Int
        BY <3>1
      <4> QED  BY <4>1, PairExtremes, Zenon
    <3> QED  BY <3>1, <3>2
  <2> QED  BY <2>3, <2>4, <2>5, <2>8
<1> QED  BY <1>2, <1>3

(* Twice the mean gap is as deviant as can be, and longer is no more so.   *)
LEMMA LongGapIsDeviant ==
    ASSUME NEW recent, IsFiniteSet(recent), \A h \in recent : h.at \in Int,
           NEW early \in Int, NEW x \in Int, NEW y \in Int, early <= x, early <= y,
           ~NoRhythm(recent), LongSince(recent, early)
    PROVE  Deviation(recent, x) = Deviation(recent, y)
<1> DEFINE n == Count(recent)
           s == Span(recent)
           last == Last(recent)
<1>1. n \in Nat
  BY FS_CardinalityType DEF Count
<1>2. n >= 2 /\ s # 0
  BY <1>1 DEF NoRhythm
<1>3. s \in Nat /\ last \in Int
  <2>1. recent # {}
    BY <1>2, FS_EmptySet DEF Count
  <2> QED  BY <2>1, SpanIsCounted
<1>4. (early - last) * (n - 1) >= 2 * s
  BY DEF LongSince
<1>5. ASSUME NEW at \in Int, early <= at
      PROVE  Deviation(recent, at) = 100
  <2> DEFINE off == (at - last) * (n - 1) - s
             far == Max({off, -off})
             d == (100 * far) \div s
  <2>1. Deviation(recent, at) = Min({100, d})
    BY <1>1, <1>2 DEF Deviation
  <2> HIDE DEF n, s, last
  <2>2. off \in Int /\ off >= s
    <3> DEFINE a == early - last
               b == at - last
               k == n - 1
    <3>1. a \in Int /\ b \in Int /\ k \in Nat /\ a <= b
      BY <1>1, <1>2, <1>3, <1>5
    <3>2. a * k >= 2 * s
      BY <1>4
    <3> HIDE DEF a, b, k
    <3>3. a * k \in Int /\ b * k \in Int /\ a * k <= b * k
      BY <3>1
    <3>4. b * k - s \in Int /\ b * k - s >= s
      BY <1>3, <3>2, <3>3
    <3> QED  BY <3>4 DEF b, k
  <2> HIDE DEF off
  <2>3. far \in Int /\ off <= far
    <3>1. -off \in Int
      BY <2>2
    <3>2. far \in {off, -off} /\ off <= far
      BY <2>2, <3>1, PairExtremes
    <3> QED  BY <2>2, <3>1, <3>2
  <2> HIDE DEF far
  <2>4. d \in Int /\ d >= 100
    <3>1. s \in Nat /\ s > 0 /\ far >= s
      BY <1>2, <1>3, <2>2, <2>3
    <3>2. 100 * far >= 100 * s /\ 100 * far \in Nat
      BY <2>3, <3>1
    <3> QED  BY <2>3, <3>1, <3>2
  <2> HIDE DEF d
  <2>5. Min({100, d}) \in {100, d} /\ Min({100, d}) <= 100 /\ Min({100, d}) <= d
    <3>1. 100 \in Int /\ d \in Int
      BY <2>4
    <3> QED  BY <3>1, PairExtremes, Zenon
  <2>6. Min({100, d}) = 100
    BY <2>4, <2>5
  <2> QED  BY <2>1, <2>6
<1> QED  BY <1>5

(* Every feature of any history is in the range that the contract gives.  *)
LEMMA FeaturesAreBounded ==
    ASSUME NEW seen, seen \subseteq Past \cup {Login}, NEW at \in Int, NEW print
    PROVE  LET f == Features(seen, at, print) IN
           /\ f.hour_of_day \in 0..23
           /\ f.fail_count_24h >= 0 /\ f.average_login_interval_seconds >= 0
           /\ {f.ip_change_rate_7d, f.deviation_score} \subseteq 0..100
<1>1. /\ IsFiniteSet(seen) /\ \A h \in seen : h.at \in Int
  BY SeenIsFinite
<1>2. \A hours : History(seen, at, hours) \subseteq seen /\ IsFiniteSet(History(seen, at, hours))
  BY <1>1, FS_Subset DEF History, Before
<1>3. (at \div Hour) % 24 \in 0..23
  <2>1. at \div Hour \in Int
    BY LoginAssumption
  <2> QED  BY <2>1
<1>4. FailCount(seen, at) >= 0
  <2> DEFINE failed == {h \in History(seen, at, 24) : h.outcome = "failure"}
  <2>1. IsFiniteSet(failed)
    BY <1>2, FS_Subset
  <2> HIDE DEF failed
  <2>2. Cardinality(failed) \in Nat
    BY <2>1, FS_CardinalityType
  <2> QED  BY <2>2 DEF FailCount, Count, failed
<1>5. IpChangeRate(seen, at) \in 0..100
  <2> DEFINE week == History(seen, at, 7 * 24)
             changed == {h \in week : h.ip # Login.ip}
             a == Cardinality(changed)
             b == Cardinality(week)
  <2>1. IpChangeRate(seen, at) = IF week = {} THEN 0 ELSE (100 * a) \div b
    BY DEF IpChangeRate, Count
  <2>2. IsFiniteSet(week) /\ changed \subseteq week
    BY <1>2
  <2> HIDE DEF week, changed
  <2>3. a \in Nat /\ b \in Nat /\ a <= b /\ (week # {} => b # 0)
    BY <2>2, FS_Subset, FS_CardinalityType, FS_EmptySet
  <2> HIDE DEF a, b
  <2>4. week # {} => (100 * a) \div b \in 0..100
    <3> SUFFICES ASSUME week # {}
                 PROVE  (100 * a) \div b \in 0..100
      OBVIOUS
    <3>1. b > 0
      BY <2>3
    <3>2. (100 * a) \div b \in Nat /\ (100 * a) \div b <= 100
      BY <2>3, <3>1, Percent
    <3> QED  BY <3>2
  <2> QED  BY <2>1, <2>4
<1>6. Interval(Recent(seen, at)) \in Nat /\ Deviation(Recent(seen, at), at) \in 0..100
  <2>1. Recent(seen, at) \subseteq seen
    BY DEF Recent, Before
  <2>2. IsFiniteSet(Recent(seen, at)) /\ \A h \in Recent(seen, at) : h.at \in Int
    BY <1>1, <2>1, FS_Subset
  <2> QED  BY <2>2, HabitsAreBounded
<1> QED  BY <1>3, <1>4, <1>5, <1>6 DEF Features

(* So whatever a scoring has seen, its features are taken.                *)
LEMMA ContractIsMet == TypeOK => FeaturesMeetTheContract
<1> SUFFICES ASSUME TypeOK, NEW r \in inflight
             PROVE  LET f == Features(scoring[r].seen, scoring[r].at, PrintOf(r)) IN
                    /\ f.hour_of_day \in 0..23
                    /\ f.fail_count_24h >= 0 /\ f.average_login_interval_seconds >= 0
                    /\ {f.ip_change_rate_7d, f.deviation_score} \subseteq 0..100
  BY DEF FeaturesMeetTheContract
<1>1. scoring[r].seen \subseteq Past \cup {Login} /\ scoring[r].at \in Int
  BY LoginAssumption DEF TypeOK, Scoring
<1> QED  BY <1>1, FeaturesAreBounded

(* The score of the rules: what triggered is a part of what might have,    *)
(* and no rule gives more than its weight.                                 *)
LEMMA RuleScoreIsAFraction ==
    ASSUME NEW rules, IsFiniteSet(DOMAIN rules), NEW features
    PROVE  LET score == RuleScore(rules, features) IN
           /\ score = [num |-> score.num, den |-> score.den]
           /\ score.num \in Nat /\ score.den \in Nat \ {0}
           /\ score.num <= 100 * score.den
<1> DEFINE usable == {i \in DOMAIN rules : ValidRule(rules[i]) /\ rules[i].enabled}
           hits == {i \in usable : Compare(features[rules[i].field],
                                           rules[i].operator, rules[i].value)}
           weight == [i \in usable |-> rules[i].weight]
           contribution == [i \in usable |-> rules[i].score * weight[i]]
           den == SumOf(weight, usable)
           num == SumOf(contribution, hits)
<1>1. /\ hits \subseteq usable /\ IsFiniteSet(usable) /\ IsFiniteSet(hits)
  BY FS_Subset
<1>2. RuleScore(rules, features) = IF den = 0 THEN [num |-> 0, den |-> 1]
                                   ELSE [num |-> num, den |-> den]
  BY Zenon DEF RuleScore, SumOf
<1>3. \A i \in usable : weight[i] \in Nat /\ contribution[i] \in Nat
                        /\ contribution[i] <= 100 * weight[i]
  <2> TAKE i \in usable
  <2>1. rules[i].weight \in 0..100 /\ rules[i].score \in 0..100
    BY DEF ValidRule
  <2>2. weight[i] = rules[i].weight /\ contribution[i] = rules[i].score * rules[i].weight
    OBVIOUS
  <2> DEFINE a == rules[i].weight
             b == rules[i].score
  <2>3. b * a \in Nat /\ b * a <= 100 * a /\ a \in Nat
    <3>1. a \in 0..100 /\ b \in 0..100
      BY <2>1
    <3> HIDE DEF a, b
    <3> QED  BY <3>1
  <2>4. weight[i] = a /\ contribution[i] = b * a
    BY <2>2
  <2> HIDE DEF weight, contribution, a, b
  <2> QED  BY <2>3, <2>4
<1> HIDE DEF hits, usable, weight, contribution
<1>4. den \in Nat /\ SumOf(weight, hits) \in Nat /\ SumOf(weight, hits) <= den
  BY <1>1, <1>3, SumOfSome
<1>5. num \in Nat
  BY <1>1, <1>3, SumOfSome
<1>6. num <= 100 * SumOf(weight, hits)
  <2>1. \A i \in hits : /\ contribution[i] \in Int /\ weight[i] \in Int
                        /\ contribution[i] <= 100 * weight[i]
    BY <1>1, <1>3
  <2> QED  BY <1>1, <2>1, SumBounded
<1>7. num <= 100 * den
  <2> DEFINE some == SumOf(weight, hits)
  <2>1. some \in Nat /\ some <= den /\ num <= 100 * some
    BY <1>4, <1>6
  <2> HIDE DEF some, num, den
  <2> QED  BY <1>4, <1>5, <2>1
<1> HIDE DEF num, den
<1> QED  BY <1>2, <1>4, <1>5, <1>7

(* The weights of a config, or the defaults, are a partition of the whole. *)
LEMMA WeightsAddUp ==
    ASSUME NEW config
    PROVE  /\ Weights(config).rule \in 1..100 /\ Weights(config).ml \in 1..100
           /\ Weights(config).rule + Weights(config).ml = 100
BY DEF Weights, ValidWeights

-----------------------------------------------------------------------------
(* Type correctness *)

LEMMA NotScoredTyped == NotScored \in Scoring
BY DEF NotScored, Scoring, Silent, Answer, Levels

LEMMA BeginTyped ==
    ASSUME TypeOK, NEW r \in Requests, NEW at \in GateTimes \cup {Login.at},
           NEW again \in BOOLEAN, Begin(r, at, again),
           stored' \subseteq Past \cup {Login}
    PROVE  /\ TypeOK'
           /\ scoring'[r].at = at /\ scoring'[r].again = again
           /\ scoring'[r].pc = IF active = {} THEN "done" ELSE "asking"
           /\ scoring'[r].level = "low" /\ scoring'[r].ml.status = "unavailable"
           /\ active = {} => scoring'[r].policy = None
           /\ active # {} => scoring'[r].policy \in Policies
           /\ \A q \in Requests \ {r} : scoring'[q] = scoring[q]
<1> DEFINE pc == IF active = {} THEN "done" ELSE "asking"
           policy == IF active = {} THEN None ELSE CHOOSE p \in active : TRUE
           new == [NotScored EXCEPT !.pc = pc, !.policy = policy, !.at = at,
                                    !.seen = stored', !.again = again]
<1>1. scoring' = [scoring EXCEPT ![r] = new]
  BY Zenon DEF Begin
<1>2. policy \in Policies \cup {None} /\ (active # {} => policy \in Policies)
  BY DEF TypeOK
<1>3. pc \in {"none", "asking", "answered", "done", "failed"}
  OBVIOUS
<1> HIDE DEF pc, policy
<1>4. /\ new.pc = pc /\ new.policy = policy /\ new.at = at
      /\ new.again = again /\ new.level = "low" /\ new.ml.status = "unavailable"
  BY DEF NotScored, Silent
<1>5. pc \in {"none", "asking", "answered", "done", "failed"}
      /\ policy \in Policies \cup {None}
      /\ stored' \in SUBSET (Past \cup {Login})
  BY <1>2, <1>3
<1>6. new \in Scoring
  BY <1>5, NotScoredTyped DEF Scoring
<1>7. /\ scoring'[r] = new
      /\ \A q \in Requests \ {r} : scoring'[q] = scoring[q]
      /\ scoring' \in [Requests -> Scoring]
  BY <1>1, <1>6 DEF TypeOK
<1>8. TypeOK'
  BY <1>7 DEF Begin, TypeOK
<1>9. /\ scoring'[r].at = at /\ scoring'[r].again = again /\ scoring'[r].pc = pc
      /\ scoring'[r].level = "low" /\ scoring'[r].policy = policy
      /\ scoring'[r].ml.status = "unavailable"
  BY <1>4, <1>7
<1> QED  BY <1>2, <1>7, <1>8, <1>9 DEF pc, policy

(* What an answer leaves of a scoring.                                     *)
LEMMA AnsweredTyped ==
    ASSUME TypeOK, NEW r \in Requests, NEW answer \in Answer, Answered(r, answer)
    PROVE  /\ scoring' \in [Requests -> Scoring]
           /\ \A q \in Requests \ {r} : scoring'[q] = scoring[q]
           /\ scoring[r].pc # "asking" => scoring'[r] = scoring[r]
           /\ scoring[r].pc = "asking" =>
                /\ scoring'[r].pc = "answered" /\ scoring'[r].ml = answer
                /\ scoring'[r].policy = scoring[r].policy
                /\ scoring'[r].again = scoring[r].again
           /\ scoring'[r].at = scoring[r].at
<1>1. scoring[r] \in Scoring
  BY DEF TypeOK
<1>2. CASE scoring[r].pc = "asking"
  <2>1. scoring' = [scoring EXCEPT ![r].pc = "answered", ![r].ml = answer]
    BY <1>2, Zenon DEF Answered
  <2> DEFINE new == [scoring[r] EXCEPT !.pc = "answered", !.ml = answer]
  <2>2. scoring' = [scoring EXCEPT ![r] = new]
    BY <2>1 DEF TypeOK
  <2>3. /\ new \in Scoring /\ new.pc = "answered" /\ new.ml = answer
        /\ new.policy = scoring[r].policy /\ new.again = scoring[r].again
        /\ new.at = scoring[r].at
    BY <1>1 DEF Scoring
  <2> HIDE DEF new
  <2> QED  BY <1>2, <2>2, <2>3 DEF TypeOK
<1>3. CASE scoring[r].pc # "asking"
  BY <1>3 DEF Answered, TypeOK
<1> QED  BY <1>2, <1>3

-----------------------------------------------------------------------------
(* The inductive invariant *)

LEMMA InvInit == Init => IndInv
<1> SUFFICES ASSUME Init
             PROVE  IndInv
  OBVIOUS
<1>1. NotScored \in Scoring
  BY NotScoredTyped
<1>2. TypeOK
  BY <1>1 DEF Init, TypeOK
<1>3. \A r \in Requests : scoring[r].pc = "none"
  BY DEF Init, NotScored
<1>4. EventKeepsItsTime
  BY DEF Init, EventKeepsItsTime, NotScored, Requests
<1> QED
  BY <1>2, <1>3, <1>4 DEF Init, IndInv, PolicyIsChosen, LevelIsVerdict, FirstTimeUnlogged,
                    ErrorHasACause

(* The request of a scoring that nothing disturbs keeps its part of the    *)
(* invariant.                                                              *)
LEMMA Undisturbed ==
    ASSUME IndInv, NEW q \in Requests,
           scoring'[q] = scoring[q], inference'[q] = inference[q],
           q \in inflight' <=> q \in inflight
    PROVE  /\ scoring'[q].pc \in {"asking", "answered"} => scoring'[q].policy \in Policies
           /\ scoring'[q].pc = "done" =>
                scoring'[q].level = IF scoring'[q].policy = None THEN "low" ELSE Verdict(q)'
           /\ scoring'[q].pc = "none" => q \notin inflight'
           /\ \/ scoring'[q].pc = "none"
              \/ scoring'[q].pc = "asking" /\ ~scoring'[q].again /\ q \in inflight'
              => inference'[q] = "none"
           /\ scoring'[q].pc \in {"answered", "done"} /\ scoring'[q].ml.status = "error" =>
                inference'[q] = "error" \/ scoring'[q].again
<1>1. Verdict(q)' = Verdict(q)
  BY VerdictIsOfItsScoring
<1> QED
  BY <1>1 DEF IndInv, PolicyIsChosen, LevelIsVerdict, FirstTimeUnlogged, ErrorHasACause

(* A scoring begins with a policy, or ends at once.                        *)
LEMMA BeginKeeps ==
    ASSUME IndInv, NEW r \in Requests, NEW at \in GateTimes \cup {Login.at},
           NEW again \in BOOLEAN, Begin(r, at, again),
           stored' \subseteq Past \cup {Login},
           r = "event" => at = Login.at,
           again \/ scoring[r].pc = "none"
    PROVE  IndInv'
<1>1. TypeOK' /\ \A q \in Requests \ {r} : scoring'[q] = scoring[q]
  BY BeginTyped DEF IndInv
<1>2. /\ scoring'[r].at = at /\ scoring'[r].again = again
      /\ scoring'[r].pc = IF active = {} THEN "done" ELSE "asking"
      /\ scoring'[r].level = "low" /\ scoring'[r].ml.status = "unavailable"
      /\ active = {} => scoring'[r].policy = None
      /\ active # {} => scoring'[r].policy \in Policies
  BY BeginTyped DEF IndInv
<1>3. /\ inference' = inference
      /\ \A q \in Requests \ {r} : q \in inflight' <=> q \in inflight
  BY DEF Begin
<1>4. PolicyIsChosen'
  BY <1>1, <1>2, <1>3, Undisturbed DEF PolicyIsChosen
<1>5. LevelIsVerdict'
  BY <1>1, <1>2, <1>3, Undisturbed DEF LevelIsVerdict
<1>6. FirstTimeUnlogged'
  BY <1>1, <1>2, <1>3, Undisturbed DEF FirstTimeUnlogged, IndInv
<1>7. ErrorHasACause'
  BY <1>1, <1>2, <1>3, Undisturbed DEF ErrorHasACause
<1>8. EventKeepsItsTime'
  BY <1>1, <1>2 DEF EventKeepsItsTime, IndInv, Requests
<1> QED  BY <1>1, <1>4, <1>5, <1>6, <1>7, <1>8 DEF IndInv

(* An answer of the ML service: an error has left a row, or has found the  *)
(* row of an earlier scoring.                                              *)
LEMMA AnswerKeeps ==
    ASSUME IndInv, NEW r \in Requests, NEW answer \in Answer, Answered(r, answer),
           inference' \in [Requests -> {"none", "ready", "error"}],
           \A q \in Requests \ {r} : inference'[q] = inference[q],
           inference[r] = "error" => inference'[r] = "error",
           answer.status = "error" =>
             inference'[r] = "error" \/ inference[r] # "none"
    PROVE  IndInv'
<1>1. /\ scoring' \in [Requests -> Scoring]
      /\ \A q \in Requests \ {r} : scoring'[q] = scoring[q]
      /\ scoring[r].pc # "asking" => scoring'[r] = scoring[r]
      /\ scoring[r].pc = "asking" =>
           /\ scoring'[r].pc = "answered" /\ scoring'[r].ml = answer
           /\ scoring'[r].policy = scoring[r].policy
           /\ scoring'[r].again = scoring[r].again
      /\ scoring'[r].at = scoring[r].at
  BY AnsweredTyped DEF IndInv
<1>2. /\ r \in inflight /\ inflight' = inflight \ {r}
      /\ UNCHANGED <<active, activating, stored>>
  BY DEF Answered
<1>3. TypeOK'
  BY <1>1, <1>2 DEF IndInv, TypeOK
<1>4. \A q \in Requests \ {r} : q \in inflight' <=> q \in inflight
  BY <1>2
<1>5. scoring[r].pc # "none"
  BY <1>2 DEF IndInv, FirstTimeUnlogged
<1>6. scoring[r].pc # "asking" => Verdict(r)' = Verdict(r)
  BY <1>1, VerdictIsOfItsScoring
<1>7. PolicyIsChosen'
  BY <1>1, <1>4, Undisturbed DEF PolicyIsChosen, IndInv
<1>8. LevelIsVerdict'
  BY <1>1, <1>4, <1>6, Undisturbed DEF LevelIsVerdict, IndInv
<1>9. FirstTimeUnlogged'
  BY <1>1, <1>2, <1>4, <1>5, Undisturbed DEF FirstTimeUnlogged
<1>10. ErrorHasACause'
  BY <1>1, <1>2, <1>4, Undisturbed DEF ErrorHasACause, FirstTimeUnlogged, IndInv
<1>11. EventKeepsItsTime'
  BY <1>1 DEF EventKeepsItsTime, IndInv, Requests
<1> QED  BY <1>3, <1>7, <1>8, <1>9, <1>10, <1>11 DEF IndInv

(* The steps of one scoring that neither begin it nor bring an answer.     *)
LEMMA TimeoutKeeps ==
    ASSUME IndInv, NEW r \in Requests, MlTimesOut(r)
    PROVE  IndInv'
<1> DEFINE new == [scoring[r] EXCEPT !.pc = "answered", !.ml = Silent("unavailable")]
<1>1. scoring[r] \in Scoring /\ scoring[r].pc = "asking"
  BY DEF MlTimesOut, IndInv, TypeOK
<1>2. scoring' = [scoring EXCEPT ![r] = new]
  BY DEF MlTimesOut, IndInv, TypeOK
<1>3. Silent("unavailable") \in Answer /\ Silent("unavailable").status = "unavailable"
  BY DEF Silent, Answer
<1>4. /\ new \in Scoring /\ new.pc = "answered" /\ new.ml.status = "unavailable"
      /\ new.policy = scoring[r].policy /\ new.at = scoring[r].at
  BY <1>1, <1>3 DEF Scoring
<1> HIDE DEF new
<1>5. /\ scoring' \in [Requests -> Scoring] /\ scoring'[r] = new
      /\ \A q \in Requests \ {r} : scoring'[q] = scoring[q]
  BY <1>2, <1>4 DEF IndInv, TypeOK
<1>6. UNCHANGED <<active, activating, stored, inflight, inference>>
  BY DEF MlTimesOut
<1>7. TypeOK'
  BY <1>5, <1>6 DEF IndInv, TypeOK
<1>8. PolicyIsChosen'
  BY <1>1, <1>4, <1>5, <1>6, Undisturbed DEF PolicyIsChosen, IndInv
<1>9. LevelIsVerdict'
  BY <1>4, <1>5, <1>6, Undisturbed DEF LevelIsVerdict
<1>10. FirstTimeUnlogged'
  BY <1>4, <1>5, <1>6, Undisturbed DEF FirstTimeUnlogged
<1>11. ErrorHasACause'
  BY <1>4, <1>5, <1>6, Undisturbed DEF ErrorHasACause
<1>12. EventKeepsItsTime'
  BY <1>4, <1>5 DEF EventKeepsItsTime, IndInv, Requests
<1> QED  BY <1>7, <1>8, <1>9, <1>10, <1>11, <1>12 DEF IndInv

LEMMA FinishKeeps ==
    ASSUME IndInv, NEW r \in Requests, Finish(r)
    PROVE  IndInv'
<1> DEFINE new == [scoring[r] EXCEPT !.pc = "done", !.level = Verdict(r)]
<1>1. scoring[r] \in Scoring /\ scoring[r].pc = "answered" /\ scoring[r].policy \in Policies
  BY DEF Finish, IndInv, TypeOK, PolicyIsChosen
<1>2. scoring' = [scoring EXCEPT ![r] = new]
  BY DEF Finish, IndInv, TypeOK
<1>3. Verdict(r) \in Levels
  BY LevelTyped, Zenon DEF Verdict
<1>4. /\ new \in Scoring /\ new.pc = "done" /\ new.level = Verdict(r)
      /\ new.ml = scoring[r].ml /\ new.again = scoring[r].again
      /\ new.policy = scoring[r].policy /\ new.seen = scoring[r].seen
      /\ new.at = scoring[r].at
  BY <1>1, <1>3 DEF Scoring
<1> HIDE DEF new
<1>5. /\ scoring' \in [Requests -> Scoring] /\ scoring'[r] = new
      /\ \A q \in Requests \ {r} : scoring'[q] = scoring[q]
  BY <1>2, <1>4 DEF IndInv, TypeOK
<1>6. UNCHANGED <<active, activating, stored, inflight, inference>>
  BY DEF Finish
<1>7. Verdict(r)' = Verdict(r)
  BY <1>4, <1>5, VerdictIsOfItsScoring
<1>8. TypeOK'
  BY <1>5, <1>6 DEF IndInv, TypeOK
<1>9. PolicyIsChosen'
  BY <1>4, <1>5, <1>6, Undisturbed DEF PolicyIsChosen
<1>10. LevelIsVerdict'
  BY <1>1, <1>4, <1>5, <1>6, <1>7, Undisturbed, LoginAssumption DEF LevelIsVerdict
<1>11. FirstTimeUnlogged'
  BY <1>4, <1>5, <1>6, Undisturbed DEF FirstTimeUnlogged
<1>12. ErrorHasACause'
  BY <1>1, <1>4, <1>5, <1>6, Undisturbed DEF ErrorHasACause, IndInv
<1>13. EventKeepsItsTime'
  BY <1>4, <1>5 DEF EventKeepsItsTime, IndInv, Requests
<1> QED  BY <1>8, <1>9, <1>10, <1>11, <1>12, <1>13 DEF IndInv

LEMMA FailKeeps ==
    ASSUME IndInv, NEW r \in Requests, Fail(r)
    PROVE  IndInv'
<1> DEFINE new == [NotScored EXCEPT !.pc = "failed"]
<1>1. new \in Scoring /\ new.pc = "failed" /\ new.at = Login.at
  BY NotScoredTyped DEF Scoring, NotScored
<1>2. scoring' = [scoring EXCEPT ![r] = new]
  BY DEF Fail
<1> HIDE DEF new
<1>3. /\ scoring' \in [Requests -> Scoring] /\ scoring'[r] = new
      /\ \A q \in Requests \ {r} : scoring'[q] = scoring[q]
  BY <1>1, <1>2 DEF IndInv, TypeOK
<1>4. UNCHANGED <<active, activating, stored, inflight, inference>>
  BY DEF Fail
<1>5. TypeOK'
  BY <1>3, <1>4 DEF IndInv, TypeOK
<1>6. PolicyIsChosen'
  BY <1>1, <1>3, <1>4, Undisturbed DEF PolicyIsChosen
<1>7. LevelIsVerdict'
  BY <1>1, <1>3, <1>4, Undisturbed DEF LevelIsVerdict
<1>8. FirstTimeUnlogged'
  BY <1>1, <1>3, <1>4, Undisturbed DEF FirstTimeUnlogged
<1>9. ErrorHasACause'
  BY <1>1, <1>3, <1>4, Undisturbed DEF ErrorHasACause
<1>10. EventKeepsItsTime'
  BY <1>1, <1>3 DEF EventKeepsItsTime, IndInv, Requests
<1> QED  BY <1>5, <1>6, <1>7, <1>8, <1>9, <1>10 DEF IndInv

(* What leaves the scorings and the ML service's log alone.                *)
LEMMA ElsewhereKeeps ==
    ASSUME IndInv, TypeOK', scoring' = scoring, inference' = inference,
           \A q \in Requests :
             \/ q \in inflight' <=> q \in inflight
             \/ q \notin inflight' /\ scoring[q].pc # "none"
    PROVE  IndInv'
<1>1. \A q \in Requests : Verdict(q)' = Verdict(q)
  BY VerdictIsOfItsScoring
<1>2. PolicyIsChosen' /\ ErrorHasACause'
  BY DEF IndInv, PolicyIsChosen, ErrorHasACause
<1>3. LevelIsVerdict'
  BY <1>1 DEF IndInv, LevelIsVerdict
<1>4. FirstTimeUnlogged'
  BY DEF IndInv, FirstTimeUnlogged
<1>5. EventKeepsItsTime'
  BY DEF IndInv, EventKeepsItsTime
<1> QED  BY <1>2, <1>3, <1>4, <1>5 DEF IndInv

LEMMA InvNext == IndInv /\ [Next]_vars => IndInv'
<1> SUFFICES ASSUME IndInv, [Next]_vars
             PROVE  IndInv'
  OBVIOUS
<1>a. "gate" \in Requests /\ "event" \in Requests
  BY DEF Requests
<1>b. stored \subseteq Past \cup {Login}
  BY DEF IndInv, TypeOK
<1>c. Login.at \in GateTimes \cup {Login.at}
  OBVIOUS
<1>1. CASE Gate
  <2>1. PICK at \in GateTimes : Begin("gate", at, FALSE)
    BY <1>1 DEF Gate
  <2>2. scoring["gate"].pc = "none" /\ stored' \subseteq Past \cup {Login}
    BY <1>1, <1>b DEF Gate
  <2>3. at \in GateTimes \cup {Login.at}
    OBVIOUS
  <2> QED  BY <1>a, <2>1, <2>2, <2>3, BeginKeeps
<1>2. CASE Deliver
  <2>1. stored' \subseteq Past \cup {Login}
    BY <1>2, <1>b DEF Deliver
  <2> QED  BY <1>2, <1>a, <1>c, <2>1, BeginKeeps DEF Deliver
<1>3. CASE Rescore
  BY <1>3, <1>a, <1>b, <1>c, BeginKeeps DEF Rescore
<1>4. ASSUME NEW l \in Past, Store(l)
      PROVE  IndInv'
  <2>1. TypeOK'
    BY <1>4 DEF Store, IndInv, TypeOK
  <2> QED  BY <1>4, <2>1, ElsewhereKeeps DEF Store
<1>5. ASSUME NEW r \in Requests, NEW score \in Scores, MlScores(r, score)
      PROVE  IndInv'
  <2> DEFINE answer == [status |-> "success", score |-> score]
  <2>1. answer \in Answer /\ answer.status # "error"
    BY LoginAssumption DEF Answer
  <2>2. Answered(r, answer)
    BY <1>5 DEF MlScores
  <2> HIDE DEF answer
  <2>3. /\ inference[r] = "none"
        /\ inference' = [inference EXCEPT ![r] = "ready"]
    BY <1>5 DEF MlScores, RequestId
  <2>4. /\ inference' \in [Requests -> {"none", "ready", "error"}]
        /\ \A q \in Requests \ {r} : inference'[q] = inference[q]
        /\ inference[r] = "error" => inference'[r] = "error"
    BY <2>3 DEF IndInv, TypeOK
  <2> QED  BY <2>1, <2>2, <2>4, AnswerKeeps
<1>6. ASSUME NEW r \in Requests, MlRefuses(r)
      PROVE  IndInv'
  <2>1. Silent("error") \in Answer
    BY DEF Silent, Answer
  <2>2. /\ Answered(r, Silent("error"))
        /\ inference' = [inference EXCEPT ![r] = IF @ = "none" THEN "error" ELSE @]
    BY <1>6 DEF MlRefuses, RequestId
  <2>3. /\ inference' \in [Requests -> {"none", "ready", "error"}]
        /\ \A q \in Requests \ {r} : inference'[q] = inference[q]
        /\ inference[r] = "error" => inference'[r] = "error"
        /\ inference'[r] = "error" \/ inference[r] # "none"
    BY <2>2 DEF IndInv, TypeOK
  <2> QED  BY <2>1, <2>2, <2>3, AnswerKeeps
<1>7. ASSUME NEW r \in Requests, MlTimesOut(r)
      PROVE  IndInv'
  BY <1>7, TimeoutKeeps
<1>8. ASSUME NEW r \in Requests, MlIsNotReached(r)
      PROVE  IndInv'
  <2>1. TypeOK'
    BY <1>8 DEF MlIsNotReached, IndInv, TypeOK
  <2>2. scoring[r].pc # "none"
    BY <1>8 DEF MlIsNotReached, IndInv, FirstTimeUnlogged
  <2> QED  BY <1>8, <2>1, <2>2, ElsewhereKeeps DEF MlIsNotReached
<1>9. ASSUME NEW r \in Requests, Finish(r)
      PROVE  IndInv'
  BY <1>9, FinishKeeps
<1>10. ASSUME NEW r \in Requests, Fail(r)
       PROVE  IndInv'
  BY <1>10, FailKeeps
<1>11. ASSUME NEW w \in Workers, NEW p \in Policies, ActivateBegin(w, p)
       PROVE  IndInv'
  <2>1. [policy |-> p, others |-> active \ {p}] \in Activation
    BY DEF IndInv, TypeOK, Activation
  <2>2. TypeOK'
    BY <1>11, <2>1 DEF ActivateBegin, IndInv, TypeOK
  <2> QED  BY <1>11, <2>2, ElsewhereKeeps DEF ActivateBegin
<1>12. ASSUME NEW w \in Workers, ActivateCommit(w)
       PROVE  IndInv'
  <2>1. activating[w] \in Activation
    BY <1>12 DEF ActivateCommit, IndInv, TypeOK
  <2>2. active' \subseteq Policies
    BY <1>12, <2>1 DEF ActivateCommit, Activation, IndInv, TypeOK
  <2>3. TypeOK'
    BY <1>12, <2>1, <2>2 DEF ActivateCommit, IndInv, TypeOK
  <2> QED  BY <1>12, <2>3, ElsewhereKeeps DEF ActivateCommit
<1>13. CASE UNCHANGED vars
  <2>1. TypeOK'
    BY <1>13 DEF vars, IndInv, TypeOK
  <2> QED  BY <1>13, <2>1, ElsewhereKeeps DEF vars
<1> QED
  BY <1>1, <1>2, <1>3, <1>4, <1>5, <1>6, <1>7, <1>8, <1>9, <1>10, <1>11, <1>12, <1>13
  DEF Next

(* The invariant holds in every reachable state.                           *)
THEOREM Invariance == Spec => []IndInv
BY InvInit, InvNext, PTL DEF Spec

-----------------------------------------------------------------------------
(* The properties *)

(* Every variable keeps its type: in particular a level is one of the      *)
(* four, whatever the policy and the scores.                               *)
THEOREM TypeCorrect == Spec => []TypeOK
<1>1. IndInv => TypeOK
  BY DEF IndInv
<1> QED  BY <1>1, Invariance, PTL

(* What differs between the gate's features and the event's is the hour,   *)
(* the sign of the device, and the deviation of a login that comes when    *)
(* the user is expected.                                                   *)
LEMMA SameFeatures ==
    ASSUME NEW g, NEW e, g.at \in Int, e.at = Login.at,
           g.seen \subseteq Past \cup {Login}, e.seen \subseteq Past \cup {Login},
           SameHistory(g, e), NoEdgePassed(g, e), SameHour(g, e),
           SameDevice(g), SameRhythm(g, e)
    PROVE  Features(g.seen, g.at, None) = Features(e.seen, e.at, Login.print)
<1> DEFINE recent == Recent(g.seen, g.at)
<1>1. /\ Hour \in Nat /\ e.at \in Int
      /\ IsFiniteSet(g.seen) /\ \A h \in g.seen : h.at \in Int
      /\ \A h \in e.seen : h.at \in Int
  BY SeenIsFinite, LoginAssumption
<1>2. \A hours \in {24, 7 * 24, 30 * 24} :
        History(g.seen, g.at, hours) = History(e.seen, e.at, hours)
  BY <1>1, SameWindow
<1>3. FailCount(g.seen, g.at) = FailCount(e.seen, e.at)
  BY <1>2, Zenon DEF FailCount
<1>4. IpChangeRate(g.seen, g.at) = IpChangeRate(e.seen, e.at)
  BY <1>2, Zenon DEF IpChangeRate
<1>5. NewDevice(g.seen, g.at, None) = NewDevice(e.seen, e.at, Login.print)
  <2>1. KnownPrint(g.seen, g.at, Login.print) <=> KnownPrint(e.seen, e.at, Login.print)
    BY <1>2, Zenon DEF KnownPrint
  <2> QED  BY <2>1, LoginAssumption DEF NewDevice, SameDevice
<1>6. Recent(e.seen, e.at) = recent
  <2>1. Before(g.seen, g.at) = Before(e.seen, e.at)
    BY <1>1, SamePast
  <2> QED  BY <2>1, Zenon DEF Recent
<1>7. Deviation(recent, g.at) = Deviation(recent, e.at)
  <2>1. IsFiniteSet(recent) /\ \A h \in recent : h.at \in Int
    <3>1. recent \subseteq g.seen
      BY DEF Recent, Before
    <3> QED  BY <1>1, <3>1, FS_Subset
  <2> HIDE DEF recent
  <2>2. CASE g.at = e.at
    BY <2>2
  <2>3. CASE NoRhythm(recent)
    BY <2>3 DEF NoRhythm, Deviation
  <2>4. CASE ~NoRhythm(recent) /\ LongSince(recent, Earlier(g, e))
    <3>1. /\ Earlier(g, e) \in {g.at, e.at}
          /\ Earlier(g, e) <= g.at /\ Earlier(g, e) <= e.at
      BY <1>1, EarlierAndLater
    <3> QED  BY <1>1, <2>1, <2>4, <3>1, LongGapIsDeviant
  <2> QED  BY <2>2, <2>3, <2>4 DEF SameRhythm, recent
<1>8. (g.at \div Hour) % 24 = (e.at \div Hour) % 24
  BY DEF SameHour
<1> HIDE DEF recent
<1> QED  BY <1>3, <1>4, <1>5, <1>6, <1>7, <1>8, Zenon DEF Features, recent

(* The gate and the event agree on a login for which they have the same    *)
(* policy and answer, unless a login was stored in between, left a window  *)
(* or the hour turned between their times, the agent and the fingerprint   *)
(* disagree on the device, or the login comes when the user is expected.   *)
THEOREM GateAgrees == Spec => []GateAgreesWithEvent
<1>1. IndInv => GateAgreesWithEvent
  <2> DEFINE g == scoring["gate"]
             e == scoring["event"]
  <2> SUFFICES ASSUME IndInv, g.pc = "done", e.pc = "done",
                      g.policy = e.policy, g.ml = e.ml,
                      SameHistory(g, e), NoEdgePassed(g, e), SameHour(g, e),
                      SameDevice(g), SameRhythm(g, e)
               PROVE  g.level = e.level
    BY DEF GateAgreesWithEvent
  <2>1. /\ g.level = IF g.policy = None THEN "low" ELSE Verdict("gate")
        /\ e.level = IF e.policy = None THEN "low" ELSE Verdict("event")
    BY DEF IndInv, LevelIsVerdict, Requests
  <2>2. PrintOf("gate") = None /\ PrintOf("event") = Login.print
    BY DEF PrintOf
  <2>3. /\ g.at \in Int /\ e.at = Login.at
        /\ g.seen \subseteq Past \cup {Login} /\ e.seen \subseteq Past \cup {Login}
    <3>1. g \in Scoring /\ e \in Scoring /\ e.at = Login.at
      BY DEF IndInv, TypeOK, Requests, EventKeepsItsTime
    <3> HIDE DEF g, e
    <3> QED  BY <3>1, LoginAssumption DEF Scoring
  <2>4. Features(g.seen, g.at, None) = Features(e.seen, e.at, Login.print)
    <3> HIDE DEF g, e
    <3> QED  BY <2>3, SameFeatures
  <2>5. Verdict("gate") = Verdict("event")
    BY <2>2, <2>4, Zenon DEF Verdict
  <2> QED  BY <2>1, <2>5
<1> QED  BY <1>1, Invariance, PTL

(* An error of the ML service means that it had nothing to load, or that   *)
(* the attempt was scored before.                                          *)
THEOREM ErrorsAreExplained == Spec => []ErrorHasACause
<1>1. IndInv => ErrorHasACause
  BY DEF IndInv
<1> QED  BY <1>1, Invariance, PTL

(* No overlap of activations leaves two policies, or none.                 *)
LEMMA OneActive == Spec => [](active = {} \/ \E p \in Policies : active = {p})
<1> DEFINE One == active = {} \/ \E p \in Policies : active = {p}
<1>1. Init => One
  BY DEF Init
<1>2. One /\ IndInv /\ [Next]_vars => One'
  <2> SUFFICES ASSUME One, IndInv, Next
               PROVE  active' = active \/ \E p \in Policies : active' = {p}
    BY DEF vars
  <2>1. ASSUME NEW w \in Workers, ActivateCommit(w)
        PROVE  active' = active \/ \E p \in Policies : active' = {p}
    <3>1. activating[w].policy \in Policies
      BY <2>1 DEF ActivateCommit, Activation, IndInv, TypeOK
    <3> QED  BY <2>1, <3>1 DEF ActivateCommit
  <2> QED
    BY <2>1 DEF Next, Gate, Deliver, Rescore, Begin, Store, MlScores, MlRefuses,
                Answered, MlTimesOut, MlIsNotReached, Finish, Fail, ActivateBegin
<1> QED  BY <1>1, <1>2, Invariance, PTL DEF Spec

THEOREM OnePolicyStays == Spec => OnePolicyStaysActive
<1> DEFINE One == active = {} \/ \E p \in Policies : active = {p}
<1>1. One /\ One' /\ IndInv /\ [Next]_vars =>
        [active # {} => \E p \in Policies : active' = {p}]_vars
  <2> SUFFICES ASSUME One, One', IndInv, Next, active # {}
               PROVE  active' # {}
    BY DEF vars
  <2>1. ASSUME NEW w \in Workers, ActivateCommit(w)
        PROVE  active' # {}
    BY <2>1 DEF ActivateCommit
  <2> QED
    BY <2>1 DEF Next, Gate, Deliver, Rescore, Begin, Store, MlScores, MlRefuses,
                Answered, MlTimesOut, MlIsNotReached, Finish, Fail, ActivateBegin
<1> QED  BY <1>1, OneActive, Invariance, PTL DEF Spec, OnePolicyStaysActive

(* The ML service's strict model takes the features of every scoring: no   *)
(* history, however long or irregular, makes it refuse one.                *)
THEOREM FeaturesAreTaken == Spec => []FeaturesMeetTheContract
BY TypeCorrect, ContractIsMet, PTL

(* The combined score is a fraction whatever the rules, the config and the *)
(* ML service's answer, also for a policy that activate_policy would       *)
(* refuse: the clamp to 0..1 in process_attempt, which the model leaves    *)
(* out, never acts.                                                        *)
THEOREM ScoresAreFractions ==
    ASSUME NEW rules, IsFiniteSet(DOMAIN rules), NEW features, NEW config, NEW ml \in Answer
    PROVE  LET score == Combined(Weights(config), RuleScore(rules, features), ml) IN
           0 <= score.num /\ 0 < score.den /\ score.num <= 100 * score.den
<1> DEFINE r == RuleScore(rules, features)
           w == Weights(config)
           score == Combined(w, r, ml)
<1>1. r.num \in Nat /\ r.den \in Nat /\ r.den > 0 /\ r.num <= 100 * r.den
  BY RuleScoreIsAFraction
<1>2. w.rule \in Nat /\ w.ml \in Nat /\ w.rule + w.ml = 100 /\ ml.score \in 0..100
  BY WeightsAddUp DEF Answer
<1>3. CASE ml.status # "success"
  BY <1>1, <1>3 DEF Combined
<1>4. CASE ml.status = "success"
  <2>1. score.num = w.rule * r.num + w.ml * ml.score * r.den /\ score.den = 100 * r.den
    BY <1>4 DEF Combined
  <2> DEFINE a == w.rule
             b == w.ml
             n == r.num
             d == r.den
             m == ml.score
  <2>2. /\ a \in Nat /\ b \in Nat /\ a + b = 100 /\ m \in 0..100
        /\ n \in Nat /\ d \in Nat /\ d > 0 /\ n <= 100 * d
        /\ score.num = a * n + b * m * d /\ score.den = 100 * d
    BY <1>1, <1>2, <2>1
  <2> HIDE DEF a, b, n, d, m, score
  <2>3. a * n \in Nat /\ a * n <= a * (100 * d)
    BY <2>2
  <2>4. b * m * d \in Nat /\ b * m * d <= (b * 100) * d
    <3>1. b * m \in Nat /\ b * m <= b * 100
      BY <2>2
    <3> QED  BY <2>2, <3>1
  <2>5. a * (100 * d) + (b * 100) * d = 100 * (100 * d)
    BY <2>2
  <2>6. 0 <= score.num /\ 0 < score.den /\ score.num <= 100 * score.den
    BY <2>2, <2>3, <2>4, <2>5
  <2> QED  BY <2>6 DEF score
<1> QED  BY <1>3, <1>4

(* The rules that trigger, as evaluate_rules reports them in its hits.     *)
Usable(rules) == {i \in DOMAIN rules : ValidRule(rules[i]) /\ rules[i].enabled}
Triggered(rules, features) ==
    {i \in Usable(rules) : Compare(features[rules[i].field],
                                   rules[i].operator, rules[i].value)}

(* A score's denominator is that of its rules, whatever triggers; when     *)
(* more of them do, the score does not fall.                               *)
LEMMA RuleScoreGrows ==
    ASSUME NEW rules, IsFiniteSet(DOMAIN rules), NEW f, NEW g,
           Triggered(rules, f) \subseteq Triggered(rules, g)
    PROVE  LET before == RuleScore(rules, f)
               after == RuleScore(rules, g)
           IN  before.den = after.den /\ before.num <= after.num
<1> DEFINE usable == Usable(rules)
           weight == [i \in usable |-> rules[i].weight]
           contribution == [i \in usable |-> rules[i].score * weight[i]]
           den == SumOf(weight, usable)
           Num(h) == SumOf(contribution, Triggered(rules, h))
<1>1. /\ IsFiniteSet(usable)
      /\ Triggered(rules, g) \subseteq usable /\ IsFiniteSet(Triggered(rules, g))
  BY FS_Subset DEF Usable, Triggered
<1>2. ASSUME NEW h
      PROVE  RuleScore(rules, h) = IF den = 0 THEN [num |-> 0, den |-> 1]
                                   ELSE [num |-> Num(h), den |-> den]
  BY Zenon DEF RuleScore, SumOf, Usable, Triggered
<1>3. \A i \in usable : contribution[i] \in Nat
  <2> TAKE i \in usable
  <2>1. rules[i].weight \in 0..100 /\ rules[i].score \in 0..100
    BY DEF ValidRule, Usable
  <2> DEFINE a == rules[i].weight
             b == rules[i].score
  <2>2. b * a \in Nat
    <3>1. a \in 0..100 /\ b \in 0..100
      BY <2>1
    <3> HIDE DEF a, b
    <3> QED  BY <3>1
  <2> QED  BY <2>2
<1> HIDE DEF usable, weight, contribution
<1>4. Num(f) <= Num(g)
  BY <1>1, <1>3, SumOfSome
<1> HIDE DEF den, Num
<1> QED  BY <1>2, <1>4

(* The levels in order.                                                    *)
Severity(level) ==
    CASE level = "low" -> 0 [] level = "medium" -> 1
      [] level = "high" -> 2 [] level = "critical" -> 3

(* A config's thresholds are percentages, or the defaults are.             *)
LEMMA ThresholdsAreNumbers ==
    ASSUME NEW config
    PROVE  LET t == Thresholds(config) IN t.low \in Int /\ t.medium \in Int /\ t.high \in Int
BY DEF Thresholds, ValidThresholds

(* A score that is no lower has a level that is no milder.                 *)
LEMMA LevelGrows ==
    ASSUME NEW s, NEW t, NEW config, s.den = t.den,
           s.num \in Int, t.num \in Int, s.den \in Int, s.num <= t.num
    PROVE  Severity(LevelOf(s, Thresholds(config))) <= Severity(LevelOf(t, Thresholds(config)))
<1> DEFINE low == Thresholds(config).low * s.den
           medium == Thresholds(config).medium * s.den
           high == Thresholds(config).high * s.den
           Level(n) == CASE n < low -> "low"
                         [] ~(n < low) /\ n < medium -> "medium"
                         [] ~(n < low) /\ ~(n < medium) /\ n < high -> "high"
                         [] OTHER -> "critical"
<1>1. low \in Int /\ medium \in Int /\ high \in Int
  BY ThresholdsAreNumbers
<1>2. LevelOf(s, Thresholds(config)) = Level(s.num)
  BY DEF LevelOf
<1>3. LevelOf(t, Thresholds(config)) = Level(t.num)
  BY DEF LevelOf
<1> HIDE DEF low, medium, high
<1>4. Severity(Level(s.num)) <= Severity(Level(t.num))
  BY <1>1 DEF Severity
<1> QED  BY <1>2, <1>3, <1>4

(* Scoring is monotone.  Under one policy, when every rule that triggers   *)
(* for one login triggers for another, and the ML service, if it answers,  *)
(* finds the other no less anomalous, process_attempt judges the other to  *)
(* be no less risky - whatever the weights and thresholds, and although    *)
(* the rules' score is a quotient.                                         *)
THEOREM MoreEvidenceIsNoMilder ==
    ASSUME NEW rules, IsFiniteSet(DOMAIN rules), NEW config, NEW f, NEW g,
           Triggered(rules, f) \subseteq Triggered(rules, g),
           NEW x \in Answer, NEW y \in Answer, x.status = y.status, x.score <= y.score
    PROVE  LET Level(features, ml) ==
                 LevelOf(Combined(Weights(config), RuleScore(rules, features), ml),
                         Thresholds(config))
           IN  Severity(Level(f, x)) <= Severity(Level(g, y))
<1> DEFINE w == Weights(config)
           p == RuleScore(rules, f)
           q == RuleScore(rules, g)
<1>1. p.den = q.den /\ p.num <= q.num
  BY RuleScoreGrows
<1>2. p.num \in Nat /\ q.num \in Nat /\ p.den \in Nat
  BY RuleScoreIsAFraction
<1>3. w.rule \in Nat /\ w.ml \in Nat
  BY WeightsAddUp
<1>4. x.score \in Nat /\ y.score \in Nat
  BY DEF Answer
<1> HIDE DEF w, p, q
<1> DEFINE s == Combined(w, p, x)
           t == Combined(w, q, y)
<1>5. s.den = t.den /\ s.num \in Int /\ t.num \in Int /\ s.den \in Int /\ s.num <= t.num
  <2>1. CASE x.status # "success"
    BY <1>1, <1>2, <2>1 DEF Combined
  <2>2. CASE x.status = "success"
    <3>1. /\ s.num = w.rule * p.num + w.ml * x.score * p.den /\ s.den = 100 * p.den
          /\ t.num = w.rule * q.num + w.ml * y.score * q.den /\ t.den = 100 * q.den
      BY <2>2 DEF Combined
    <3>2. ASSUME NEW a \in Nat, NEW b \in Nat, NEW c \in Nat, a <= b
          PROVE  c * a <= c * b /\ c * a \in Nat /\ c * b \in Nat
      BY <3>2
    <3>3. /\ w.rule * p.num <= w.rule * q.num
          /\ w.rule * p.num \in Nat /\ w.rule * q.num \in Nat
      BY <1>1, <1>2, <1>3, <3>2
    <3>4. w.ml * x.score <= w.ml * y.score /\ w.ml * x.score \in Nat /\ w.ml * y.score \in Nat
      BY <1>3, <1>4, <3>2
    <3> DEFINE i == w.ml * x.score
               j == w.ml * y.score
               d == p.den
    <3>5. i * d <= j * d /\ i * d \in Nat /\ j * d \in Nat
      <4>1. i \in Nat /\ j \in Nat /\ d \in Nat /\ i <= j
        BY <1>2, <3>4
      <4> HIDE DEF i, j, d
      <4> QED  BY <4>1
    <3> QED  BY <1>1, <1>2, <3>1, <3>3, <3>5
  <2> QED  BY <2>1, <2>2
<1> HIDE DEF s, t
<1>6. Severity(LevelOf(s, Thresholds(config))) <= Severity(LevelOf(t, Thresholds(config)))
  BY <1>5, LevelGrows
<1> QED  BY <1>6 DEF s, t, w, p, q

=============================================================================
