----------------------------- MODULE FiniteSums -----------------------------
(***************************************************************************)
(* Facts about finite sets that the proofs about counts need: extremes, and*)
(* the sum over a set (MapThenSumSet of the community modules), which is a *)
(* fold that takes the members in an order that is not known.              *)
(*                                                                         *)
(* Induction is over the parts of a finite set and needs no predicate as a *)
(* parameter: if any part violated a lemma there would be a least one that *)
(* does (LeastSubset), and the lemma holds of it as it holds of its parts. *)
(***************************************************************************)
EXTENDS Integers, FiniteSetsExt, FiniteSetTheorems, TLAPS

(* Among sets of parts of a finite set there is a least one.               *)
LEMMA LeastSubset ==
    ASSUME NEW S, IsFiniteSet(S), NEW T, T \subseteq SUBSET S, T # {}
    PROVE  \E U \in T : \A V \in T : V \subseteq U => V = U
<1>1. IsWellFoundedOn(StrictSubsetOrdering(S), FiniteSubsetsOf(S))
  BY FS_StrictSubsetOrderingWellFounded
<1>2. FiniteSubsetsOf(S) = SUBSET S
  BY FS_FiniteSubsetsOfFinite
<1>3. PICK U \in T : \A V \in T : <<V, U>> \notin StrictSubsetOrdering(S)
  BY <1>1, <1>2, WFMin, Zenon
<1>4. \A V \in T : V \subseteq U => V = U
  BY <1>3 DEF StrictSubsetOrdering
<1> QED  BY <1>4

(* A finite set of integers has a greatest member and a least one.         *)
LEMMA ExtremesExist ==
    ASSUME NEW S, IsFiniteSet(S), S # {}
    PROVE  S \subseteq Int =>
             /\ Max(S) \in S /\ \A x \in S : x <= Max(S)
             /\ Min(S) \in S /\ \A x \in S : Min(S) <= x
<1> DEFINE HasBoth(U) == /\ \E m \in U : \A x \in U : m >= x
                         /\ \E m \in U : \A x \in U : m <= x
           Bad == {U \in SUBSET S : U # {} /\ ~HasBoth(U)}
<1>0. Bad # {} => \E U \in Bad : \A V \in Bad : V \subseteq U => V = U
  <2>1. Bad \subseteq SUBSET S
    OBVIOUS
  <2> HIDE DEF Bad
  <2> QED  BY <2>1, LeastSubset
<1> HAVE S \subseteq Int
<1>1. ASSUME Bad # {}
      PROVE  FALSE
  <2>2. PICK U \in Bad : \A V \in Bad : V \subseteq U => V = U
    BY <1>0, <1>1
  <2>3. PICK x \in U : TRUE
    OBVIOUS
  <2>4. U \ {x} \notin Bad
    BY <2>2, <2>3
  <2>5. CASE U \ {x} = {}
    <3>1. U = {x} /\ x \in Int
      BY <2>3, <2>5
    <3>2. HasBoth(U)
      BY <3>1
    <3> QED  BY <3>2
  <2>6. CASE U \ {x} # {}
    <3>1. HasBoth(U \ {x})
      BY <2>4, <2>6
    <3>2. PICK a, b \in U \ {x} : \A y \in U \ {x} : a >= y /\ b <= y
      BY <3>1
    <3>3. U \subseteq Int /\ x \in Int
      BY <2>3
    <3>4. \E m \in U : \A y \in U : m >= y
      <4>1. CASE a >= x
        BY <3>2, <3>3, <4>1
      <4>2. CASE x >= a
        BY <3>2, <3>3, <4>2
      <4> QED  BY <3>2, <3>3, <4>1, <4>2
    <3>5. \E m \in U : \A y \in U : m <= y
      <4>1. CASE b <= x
        BY <3>2, <3>3, <4>1
      <4>2. CASE x <= b
        BY <3>2, <3>3, <4>2
      <4> QED  BY <3>2, <3>3, <4>1, <4>2
    <3> QED  BY <3>4, <3>5
  <2> QED  BY <2>5, <2>6
<1>2. S \in SUBSET S /\ HasBoth(S)
  BY <1>1
<1>3. /\ Max(S) \in S /\ \A x \in S : Max(S) >= x
  BY <1>2, Zenon DEF Max
<1>4. /\ Min(S) \in S /\ \A x \in S : Min(S) <= x
  BY <1>2, Zenon DEF Min
<1> QED  BY <1>3, <1>4

(* A set that is written out is finite.                                    *)
LEMMA ExplicitPair ==
    ASSUME NEW a, NEW b
    PROVE  IsFiniteSet({a, b})
<1>1. {a, b} = {a} \cup {b}
  OBVIOUS
<1>2. IsFiniteSet({a})
  BY FS_Singleton, Zenon
<1>3. IsFiniteSet({a} \cup {b})
  BY <1>2, FS_AddElement, Zenon
<1> QED  BY <1>1, <1>3, Zenon

(* The smaller and the larger of two numbers.                              *)
LEMMA PairExtremes ==
    ASSUME NEW a \in Int, NEW b \in Int
    PROVE  /\ Max({a, b}) \in {a, b} /\ a <= Max({a, b}) /\ b <= Max({a, b})
           /\ Min({a, b}) \in {a, b} /\ Min({a, b}) <= a /\ Min({a, b}) <= b
<1>1. IsFiniteSet({a, b})
  BY ExplicitPair
<1>2. {a, b} # {} /\ {a, b} \subseteq Int /\ a \in {a, b} /\ b \in {a, b}
  OBVIOUS
<1> DEFINE S == {a, b}
<1> HIDE DEF S
<1>3. IsFiniteSet(S) /\ S # {} /\ S \subseteq Int /\ a \in S /\ b \in S
  BY <1>1, <1>2 DEF S
<1>4. /\ Max(S) \in S /\ a <= Max(S) /\ b <= Max(S)
      /\ Min(S) \in S /\ Min(S) <= a /\ Min(S) <= b
  BY <1>3, ExtremesExist
<1> QED  BY <1>4 DEF S

-----------------------------------------------------------------------------
(* g sums f over the parts of S as the library's fold does, and SumOf is   *)
(* that fold at S.                                                         *)
IsFold(g, f, S) ==
    g = [s \in SUBSET S |->
           IF s = {} THEN 0
           ELSE f[CHOOSE x \in s : TRUE] + g[s \ {CHOOSE x \in s : TRUE}]]
SumOf(f, S) == MapThenSumSet(LAMBDA k : f[k], S)

LEMMA SumIsFold ==
    ASSUME NEW f, NEW S
    PROVE  SumOf(f, S) = (CHOOSE g : IsFold(g, f, S))[S]
BY DEF SumOf, MapThenSumSet, MapThenFoldSet, IsFold

(* Two folds give a set that both know the same sum ...                    *)
LEMMA FoldsAgree ==
    ASSUME NEW f, NEW S, NEW R, IsFiniteSet(S), R \subseteq S,
           NEW g, NEW h, IsFold(g, f, S), IsFold(h, f, R)
    PROVE  g[R] = h[R]
<1> DEFINE Bad == {U \in SUBSET R : g[U] # h[U]}
<1>1. \A U \in SUBSET R : U \in SUBSET S
  OBVIOUS
<1>2. \A U \in SUBSET R : U # {} =>
        LET x == CHOOSE x \in U : TRUE IN
        x \in U /\ g[U] = f[x] + g[U \ {x}] /\ h[U] = f[x] + h[U \ {x}]
  BY <1>1 DEF IsFold
<1>3. g[{}] = 0 /\ h[{}] = 0
  BY DEF IsFold
<1>4. ASSUME Bad # {}
      PROVE  FALSE
  <2>1. Bad \subseteq SUBSET S
    BY <1>1
  <2>2. PICK U \in Bad : \A V \in Bad : V \subseteq U => V = U
    <3> HIDE DEF Bad
    <3> QED  BY <1>4, <2>1, LeastSubset
  <2>3. U # {} /\ U \in SUBSET R
    BY <1>3, <2>2
  <2> DEFINE x == CHOOSE x \in U : TRUE
  <2>4. x \in U /\ g[U] = f[x] + g[U \ {x}] /\ h[U] = f[x] + h[U \ {x}]
    BY <1>2, <2>3
  <2> HIDE DEF x
  <2>5. U \ {x} \notin Bad /\ U \ {x} \in SUBSET R
    BY <2>2, <2>3, <2>4
  <2> QED  BY <2>2, <2>4, <2>5
<1> QED  BY <1>4

(* ... and there is one: it is put together from those of the parts.       *)
LEMMA FoldExists ==
    ASSUME NEW f, NEW S, IsFiniteSet(S)
    PROVE  \E g : IsFold(g, f, S)
<1> DEFINE Bad == {U \in SUBSET S : ~ \E g : IsFold(g, f, U)}
<1>1. ASSUME Bad # {}
      PROVE  FALSE
  <2>2. PICK U \in Bad : \A V \in Bad : V \subseteq U => V = U
    <3>1. Bad \subseteq SUBSET S
      OBVIOUS
    <3> HIDE DEF Bad
    <3> QED  BY <1>1, <3>1, LeastSubset
  <2> DEFINE G(V) == CHOOSE g : IsFold(g, f, V)
             pick(s) == CHOOSE x \in s : TRUE
             below == [s \in SUBSET U |-> IF s = {} THEN 0 ELSE f[pick(s)] + G(s \ {pick(s)})[s \ {pick(s)}]]
  <2>3. \A V \in SUBSET U : V # U => IsFold(G(V), f, V)
    <3> TAKE V \in SUBSET U
    <3> HAVE V # U
    <3>1. \E g : IsFold(g, f, V)
      BY <2>2
    <3> QED  BY <3>1, Zenon
  <2>4. \A s \in SUBSET U : s # {} => pick(s) \in s
    OBVIOUS
  <2>5. \A s \in SUBSET U : s # U => below[s] = G(s)[s]
    <3> TAKE s \in SUBSET U
    <3> HAVE s # U
    <3>1. IsFold(G(s), f, s)
      BY <2>3
    <3>2. CASE s = {}
      BY <3>1, <3>2 DEF IsFold
    <3>3. CASE s # {}
      <4>1. pick(s) \in s /\ below[s] = f[pick(s)] + G(s \ {pick(s)})[s \ {pick(s)}]
        BY <2>4, <3>3
      <4>2. G(s)[s] = f[pick(s)] + G(s)[s \ {pick(s)}]
        BY <3>1, <3>3 DEF IsFold
      <4>3. IsFold(G(s \ {pick(s)}), f, s \ {pick(s)})
        BY <2>3, <4>1
      <4>4. IsFiniteSet(s)
        BY FS_Subset, <2>2
      <4>5. G(s)[s \ {pick(s)}] = G(s \ {pick(s)})[s \ {pick(s)}]
        <5> HIDE DEF pick, G
        <5> QED  BY <3>1, <4>3, <4>4, FoldsAgree
      <4> QED  BY <4>1, <4>2, <4>5
    <3> QED  BY <3>2, <3>3
  <2>6. IsFold(below, f, U)
    <3>1. \A s \in SUBSET U : s # {} => below[s] = f[pick(s)] + below[s \ {pick(s)}]
      <4> TAKE s \in SUBSET U
      <4> HAVE s # {}
      <4>1. s \ {pick(s)} \in SUBSET U /\ s \ {pick(s)} # U
        BY <2>4
      <4> QED  BY <2>5, <4>1
    <3>2. below = [s \in SUBSET U |-> below[s]]
      OBVIOUS
    <3>3. below[{}] = 0
      OBVIOUS
    <3> HIDE DEF below
    <3>4. \A s \in SUBSET U :
            below[s] = IF s = {} THEN 0 ELSE f[pick(s)] + below[s \ {pick(s)}]
      BY <3>1, <3>3
    <3> QED  BY <3>2, <3>4, Zenon DEF IsFold
  <2> QED  BY <2>2, <2>6
<1> QED  BY <1>1

(* The sum over no member, and one that takes a member out.                *)
LEMMA SumOfNothing ==
    ASSUME NEW f
    PROVE  SumOf(f, {}) = 0
<1>1. IsFiniteSet({})
  BY FS_EmptySet
<1>2. PICK g : IsFold(g, f, {})
  BY <1>1, FoldExists
<1>3. IsFold(CHOOSE h : IsFold(h, f, {}), f, {})
  BY <1>2, Zenon
<1>4. \A h : IsFold(h, f, {}) => h[{}] = 0
  BY DEF IsFold
<1> QED  BY <1>3, <1>4, SumIsFold

LEMMA SumPicks ==
    ASSUME NEW f, NEW S, IsFiniteSet(S), S # {}
    PROVE  \E x \in S : SumOf(f, S) = f[x] + SumOf(f, S \ {x})
<1> DEFINE G(V) == CHOOSE g : IsFold(g, f, V)
           x == CHOOSE x \in S : TRUE
<1>1. x \in S /\ S \ {x} \subseteq S
  OBVIOUS
<1>2. IsFiniteSet(S \ {x})
  BY FS_Subset
<1>3. IsFold(G(S), f, S) /\ IsFold(G(S \ {x}), f, S \ {x})
  <2>1. (\E g : IsFold(g, f, S)) /\ (\E g : IsFold(g, f, S \ {x}))
    BY <1>2, FoldExists
  <2> QED  BY <2>1, Zenon
<1>4. G(S)[S] = f[x] + G(S)[S \ {x}]
  BY <1>3 DEF IsFold
<1>5. G(S)[S \ {x}] = G(S \ {x})[S \ {x}]
  <2> HIDE DEF G, x
  <2> QED  BY <1>1, <1>3, FoldsAgree
<1>6. SumOf(f, S) = G(S)[S] /\ SumOf(f, S \ {x}) = G(S \ {x})[S \ {x}]
  BY SumIsFold, Zenon
<1> QED  BY <1>1, <1>4, <1>5, <1>6

(* A sum does not depend on the order in which it is taken.                *)
LEMMA SumRemoves ==
    ASSUME NEW f, NEW S, IsFiniteSet(S), \A k \in S : f[k] \in Int
    PROVE  /\ SumOf(f, S) \in Int
           /\ \A x \in S : SumOf(f, S) = f[x] + SumOf(f, S \ {x})
<1> DEFINE Good(U) == /\ SumOf(f, U) \in Int
                      /\ \A x \in U : SumOf(f, U) = f[x] + SumOf(f, U \ {x})
           Bad == {U \in SUBSET S : ~Good(U)}
<1>1. Bad # {} => \E U \in Bad : \A V \in Bad : V \subseteq U => V = U
  <2>1. Bad \subseteq SUBSET S
    OBVIOUS
  <2> HIDE DEF Bad
  <2> QED  BY <2>1, LeastSubset
<1>2. ASSUME NEW U \in Bad, \A V \in Bad : V \subseteq U => V = U
      PROVE  FALSE
  <2>1. \A V \in SUBSET U : V # U => Good(V)
    BY <1>2
  <2> HIDE DEF Good
  <2>2. IsFiniteSet(U) /\ U \in SUBSET S
    BY FS_Subset
  <2>3. CASE U = {}
    BY <1>2, <2>3, SumOfNothing DEF Good
  <2>4. CASE U # {}
    <3>1. PICK c \in U : SumOf(f, U) = f[c] + SumOf(f, U \ {c})
      BY <2>2, <2>4, SumPicks
    <3>2. Good(U \ {c})
      BY <2>1
    <3>3. f[c] \in Int /\ SumOf(f, U \ {c}) \in Int /\ SumOf(f, U) \in Int
      BY <2>2, <3>1, <3>2 DEF Good
    <3>4. ASSUME NEW x \in U, x # c
          PROVE  SumOf(f, U) = f[x] + SumOf(f, U \ {x})
      <4>1. Good(U \ {x})
        BY <2>1
      <4>2. (U \ {c}) \ {x} = (U \ {x}) \ {c}
        OBVIOUS
      <4>3. SumOf(f, U \ {c}) = f[x] + SumOf(f, (U \ {c}) \ {x})
        BY <3>2, <3>4 DEF Good
      <4>4. SumOf(f, U \ {x}) = f[c] + SumOf(f, (U \ {x}) \ {c})
        BY <3>4, <4>1 DEF Good
      <4>5. f[x] \in Int /\ SumOf(f, U \ {x}) \in Int
        BY <2>2, <4>1 DEF Good
      <4>6. SumOf(f, (U \ {c}) \ {x}) \in Int
        <5>1. (U \ {c}) \ {x} \in SUBSET U /\ (U \ {c}) \ {x} # U
          OBVIOUS
        <5> QED  BY <2>1, <5>1 DEF Good
      <4>7. SumOf(f, (U \ {x}) \ {c}) = SumOf(f, (U \ {c}) \ {x})
        BY <4>2, Zenon
      <4> HIDE DEF Bad
      <4> QED  BY <3>1, <3>3, <4>3, <4>4, <4>5, <4>6, <4>7
    <3>5. Good(U)
      BY <3>1, <3>3, <3>4 DEF Good
    <3> QED  BY <3>5
  <2> QED  BY <2>3, <2>4
<1>3. Bad = {}
  BY <1>1, <1>2
<1> QED  BY <1>3

-----------------------------------------------------------------------------
(* Two sets without a common member.                                       *)
LEMMA DisjointSize ==
    ASSUME NEW S, NEW T, IsFiniteSet(S), IsFiniteSet(T), S \cap T = {}
    PROVE  /\ IsFiniteSet(S \cup T)
           /\ Cardinality(S \cup T) = Cardinality(S) + Cardinality(T)
<1>1. Cardinality(S) \in Nat /\ Cardinality(T) \in Nat
  BY FS_CardinalityType
<1>2. Cardinality(S \cap T) = 0
  BY FS_EmptySet
<1>3. /\ IsFiniteSet(S \cup T)
      /\ Cardinality(S \cup T) = Cardinality(S) + Cardinality(T) - Cardinality(S \cap T)
  BY FS_Union, Zenon
<1> DEFINE s == Cardinality(S)
           t == Cardinality(T)
           both == Cardinality(S \cap T)
           either == Cardinality(S \cup T)
<1>4. s \in Nat /\ t \in Nat /\ both = 0 /\ either = s + t - both
  BY <1>1, <1>2, <1>3
<1>5. either = s + t
  <2> HIDE DEF s, t, both, either
  <2> QED  BY <1>4
<1> QED  BY <1>3, <1>5

(* The parts of a partition have the whole's rows between them.            *)
LEMMA SumOfParts ==
    ASSUME NEW K, IsFiniteSet(K), NEW P, NEW f,
           \A k \in K : IsFiniteSet(P[k]) /\ f[k] = Cardinality(P[k]),
           \A j, k \in K : j # k => P[j] \cap P[k] = {}
    PROVE  SumOf(f, K) = Cardinality(UNION {P[k] : k \in K})
<1> DEFINE All(U) == UNION {P[k] : k \in U}
           Good(U) == SumOf(f, U) = Cardinality(All(U)) /\ IsFiniteSet(All(U))
           Bad == {U \in SUBSET K : ~Good(U)}
<1>1. Bad # {} => \E U \in Bad : \A V \in Bad : V \subseteq U => V = U
  <2>1. Bad \subseteq SUBSET K
    OBVIOUS
  <2> HIDE DEF Bad
  <2> QED  BY <2>1, LeastSubset
<1>2. ASSUME NEW U \in Bad, \A V \in Bad : V \subseteq U => V = U
      PROVE  FALSE
  <2>1. \A V \in SUBSET U : V # U => Good(V)
    BY <1>2
  <2>2. IsFiniteSet(U) /\ U \in SUBSET K
    BY FS_Subset
  <2>3. CASE U = {}
    <3>1. All(U) = {}
      BY <2>3
    <3>2. SumOf(f, U) = 0 /\ Cardinality(All(U)) = 0 /\ IsFiniteSet(All(U))
      BY <2>3, <3>1, SumOfNothing, FS_EmptySet
    <3> QED  BY <1>2, <3>2
  <2>4. CASE U # {}
    <3>1. PICK c \in U : TRUE
      BY <2>4
    <3>2. All(U) = All(U \ {c}) \cup P[c]
      OBVIOUS
    <3>3. All(U \ {c}) \cap P[c] = {}
      BY <2>2
    <3>4. Good(U \ {c})
      BY <2>1
    <3>5. \A k \in U : f[k] \in Int
      BY <2>2, FS_CardinalityType
    <3>6. SumOf(f, U) = f[c] + SumOf(f, U \ {c})
      BY <2>2, <3>5, SumRemoves
    <3>7. IsFiniteSet(P[c]) /\ f[c] = Cardinality(P[c]) /\ f[c] \in Int
      BY <2>2, <3>5
    <3>8. /\ IsFiniteSet(All(U \ {c})) /\ SumOf(f, U \ {c}) = Cardinality(All(U \ {c}))
          /\ Cardinality(All(U \ {c})) \in Int
      BY <3>4, FS_CardinalityType
    <3> HIDE DEF All
    <3>9. /\ IsFiniteSet(All(U))
          /\ Cardinality(All(U)) = Cardinality(All(U \ {c})) + Cardinality(P[c])
      <4> DEFINE A == All(U \ {c})
                 B == P[c]
      <4>1. IsFiniteSet(A) /\ IsFiniteSet(B) /\ A \cap B = {}
        BY <3>3, <3>7, <3>8
      <4>2. IsFiniteSet(A \cup B) /\ Cardinality(A \cup B) = Cardinality(A) + Cardinality(B)
        <5> HIDE DEF A, B
        <5> QED  BY <4>1, DisjointSize
      <4> QED  BY <3>2, <4>2, Zenon
    <3> QED  BY <1>2, <3>6, <3>7, <3>8, <3>9 DEF All
  <2> QED  BY <2>3, <2>4
<1>3. Bad = {}
  BY <1>1, <1>2
<1> QED  BY <1>3

(* A sum is bounded by c times another as its summands are, and a part's   *)
(* sum by the whole's.                                                     *)
LEMMA SumBounded ==
    ASSUME NEW S, IsFiniteSet(S), NEW f, NEW g, NEW c \in Nat,
           \A k \in S : f[k] \in Int /\ g[k] \in Int /\ f[k] <= c * g[k]
    PROVE  SumOf(f, S) <= c * SumOf(g, S)
<1> DEFINE Good(U) == SumOf(f, U) <= c * SumOf(g, U)
           Bad == {U \in SUBSET S : ~Good(U)}
<1>1. Bad # {} => \E U \in Bad : \A V \in Bad : V \subseteq U => V = U
  <2>1. Bad \subseteq SUBSET S
    OBVIOUS
  <2> HIDE DEF Bad
  <2> QED  BY <2>1, LeastSubset
<1>2. ASSUME NEW U \in Bad, \A V \in Bad : V \subseteq U => V = U
      PROVE  FALSE
  <2>1. \A V \in SUBSET U : V # U => Good(V)
    BY <1>2
  <2>2. IsFiniteSet(U) /\ U \in SUBSET S
    BY FS_Subset
  <2>3. CASE U = {}
    BY <1>2, <2>3, SumOfNothing
  <2>4. CASE U # {}
    <3>1. PICK x \in U : TRUE
      BY <2>4
    <3>2. Good(U \ {x})
      BY <2>1
    <3>3. /\ SumOf(f, U) = f[x] + SumOf(f, U \ {x})
          /\ SumOf(g, U) = g[x] + SumOf(g, U \ {x})
      BY <2>2, SumRemoves
    <3>4. IsFiniteSet(U \ {x})
      BY <2>2, FS_Subset
    <3>5. SumOf(f, U \ {x}) \in Int /\ SumOf(g, U \ {x}) \in Int
      BY <2>2, <3>4, SumRemoves
    <3>6. f[x] \in Int /\ g[x] \in Int /\ f[x] <= c * g[x]
      BY <2>2
    <3>7. ASSUME NEW a \in Int, NEW b \in Int, NEW i \in Int, NEW j \in Int,
                 a <= c * i, b <= c * j
          PROVE  a + b <= c * (i + j)
      BY <3>7
    <3>8. f[x] + SumOf(f, U \ {x}) <= c * (g[x] + SumOf(g, U \ {x}))
      BY <3>2, <3>5, <3>6, <3>7
    <3> QED  BY <1>2, <3>3, <3>8
  <2> QED  BY <2>3, <2>4
<1>3. Bad = {}
  BY <1>1, <1>2
<1> QED  BY <1>3

(* Of numbers that are not negative, a part sums up to no more.            *)
LEMMA SumOfSome ==
    ASSUME NEW S, IsFiniteSet(S), NEW f, \A k \in S : f[k] \in Nat,
           NEW R, R \subseteq S
    PROVE  /\ SumOf(f, R) \in Nat /\ SumOf(f, S) \in Nat
           /\ SumOf(f, R) <= SumOf(f, S)
<1> DEFINE Good(U) == \A V \in SUBSET U : SumOf(f, V) <= SumOf(f, U)
           Bad == {U \in SUBSET S : ~Good(U)}
<1>1. Bad # {} => \E U \in Bad : \A V \in Bad : V \subseteq U => V = U
  <2>1. Bad \subseteq SUBSET S
    OBVIOUS
  <2> HIDE DEF Bad
  <2> QED  BY <2>1, LeastSubset
<1>2. \A U \in SUBSET S : SumOf(f, U) \in Int
  <2> TAKE U \in SUBSET S
  <2>1. IsFiniteSet(U) /\ \A k \in U : f[k] \in Int
    BY FS_Subset
  <2> QED  BY <2>1, SumRemoves
<1>3. ASSUME NEW U \in Bad, \A V \in Bad : V \subseteq U => V = U
      PROVE  FALSE
  <2>1. PICK V \in SUBSET U : ~(SumOf(f, V) <= SumOf(f, U))
    OBVIOUS
  <2>2. U \in SUBSET S /\ V \in SUBSET S /\ IsFiniteSet(U)
    BY FS_Subset
  <2>3. V # U
    BY <1>2, <2>1, <2>2
  <2>4. PICK x \in U : x \notin V
    BY <2>3
  <2> DEFINE W == U \ {x}
  <2>5. W \in SUBSET S /\ W \subseteq U /\ W # U /\ V \in SUBSET W
    BY <2>2, <2>4
  <2>6. SumOf(f, V) <= SumOf(f, W)
    <3> HIDE DEF W
    <3> QED  BY <1>3, <2>5
  <2>7. SumOf(f, U) = f[x] + SumOf(f, W) /\ f[x] \in Nat
    <3>1. \A k \in U : f[k] \in Int
      BY <2>2
    <3>2. f[x] \in Nat
      BY <2>2
    <3> QED  BY <2>2, <3>1, <3>2, SumRemoves
  <2> HIDE DEF W
  <2>8. SumOf(f, V) \in Int /\ SumOf(f, W) \in Int /\ SumOf(f, U) \in Int
    BY <1>2, <2>2, <2>5
  <2> DEFINE v == SumOf(f, V)
             w == SumOf(f, W)
             u == SumOf(f, U)
             y == f[x]
  <2>9. v \in Int /\ w \in Int /\ u \in Int /\ y \in Nat /\ u = y + w /\ v <= w /\ ~(v <= u)
    BY <2>1, <2>6, <2>7, <2>8
  <2> HIDE DEF v, w, u, y
  <2> QED  BY <2>9
<1>4. \A U \in SUBSET S : Good(U)
  BY <1>1, <1>3
<1>5. {} \in SUBSET R /\ R \in SUBSET S /\ S \in SUBSET S
  OBVIOUS
<1>6. 0 <= SumOf(f, R) /\ SumOf(f, R) <= SumOf(f, S)
  BY <1>4, <1>5, SumOfNothing
<1>7. SumOf(f, R) \in Int /\ SumOf(f, S) \in Int
  BY <1>2, <1>5
<1> DEFINE r == SumOf(f, R)
           s == SumOf(f, S)
<1>8. r \in Int /\ s \in Int /\ 0 <= r /\ r <= s
  BY <1>6, <1>7
<1> HIDE DEF r, s
<1>9. r \in Nat /\ s \in Nat /\ r <= s
  BY <1>8
<1> QED  BY <1>9 DEF r, s
=============================================================================
