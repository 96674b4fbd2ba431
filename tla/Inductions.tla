------------------------------ MODULE Inductions ------------------------------
(***************************************************************************)
(* Induction without operator parameters: the least element of a set of      *)
(* numbers, and with it sums over finite sets (the folds of the community    *)
(* modules).  The proofs of the components cite these facts by name.         *)
(***************************************************************************)
EXTENDS Integers, Sequences, FiniteSets, SequencesExt, FiniteSetTheorems, SequenceTheorems, TLAPS

LEMMA NatWF == \E R : /\ IsWellFoundedOn(R, Nat)
                      /\ \A m, n \in Nat : <<m, n>> \in R <=> m < n
BY NatLessThanWellFounded DEF OpToRel

LEMMA LeastNumber ==
  ASSUME NEW T, T \subseteq Nat, T # {}
  PROVE  \E n \in T : \A m \in T : n <= m
<1>1. PICK R : /\ IsWellFoundedOn(R, Nat)
               /\ \A m, n \in Nat : <<m, n>> \in R <=> m < n
  BY NatWF
<1>2. IsWellFoundedOn(R, Nat)
  BY <1>1
<1>3. PICK n \in T : \A m \in T : ~ (<<m, n>> \in R)
  BY <1>2, WFMin, Zenon
<1>4. \A m \in T : ~ (m < n)
  BY <1>1, <1>3, Zenon
<1>5. n \in Nat /\ \A m \in T : m \in Nat
  OBVIOUS
<1>6. \A m \in T : n <= m
  BY <1>4, <1>5
<1> QED
  BY <1>6

LEMMA Induction ==
  ASSUME NEW T, 0 \in T, \A n \in Nat : n \in T => n + 1 \in T
  PROVE  Nat \subseteq T
<1> SUFFICES ASSUME Nat \ T # {} PROVE FALSE
  OBVIOUS
<1>1. PICK n \in Nat \ T : \A m \in Nat \ T : n <= m
  BY LeastNumber
<1>2. n # 0 /\ n - 1 \in Nat /\ n - 1 \in T
  BY <1>1
<1> QED
  BY <1>1, <1>2

-----------------------------------------------------------------------------
(* Folds over finite sets: G[s] is what the element pick[s] makes of the rest.*)

Picks(pick, S) == \A s \in SUBSET S : s # {} => pick[s] \in s

Folds(g, V, base, G, pick, S) ==
  /\ g[{}] = base
  /\ \A s \in SUBSET S :
       s # {} /\ g[s \ {pick[s]}] \in V => g[s] = G[s][g[s \ {pick[s]}]]

LEMMA OneLess ==
  ASSUME NEW S, IsFiniteSet(S), NEW s \in SUBSET S, s # {}
  PROVE  /\ IsFiniteSet(s) /\ Cardinality(s) \in Nat \ {0}
         /\ \A x \in s : /\ s \ {x} \in SUBSET S /\ IsFiniteSet(s \ {x})
                         /\ Cardinality(s \ {x}) = Cardinality(s) - 1
<1>1. IsFiniteSet(s)
  BY FS_Subset
<1>2. Cardinality(s) \in Nat /\ Cardinality(s) # 0
  BY <1>1, FS_CardinalityType, FS_EmptySet
<1>3. \A x \in s : IsFiniteSet(s \ {x}) /\ Cardinality(s \ {x}) = Cardinality(s) - 1
  BY <1>1, FS_RemoveElement
<1> QED
  BY <1>1, <1>2, <1>3

LEMMA FoldExists ==
  ASSUME NEW S, IsFiniteSet(S), NEW V, NEW base \in V, NEW G \in [SUBSET S -> [V -> V]],
         NEW pick, Picks(pick, S)
  PROVE  \E g \in [SUBSET S -> V] : Folds(g, V, base, G, pick, S)
<1> DEFINE Next(g, s) == IF s = {} THEN base ELSE G[s][g[s \ {pick[s]}]]
           T == {n \in Nat : \E g \in [SUBSET S -> V] :
                   \A s \in SUBSET S : Cardinality(s) <= n => g[s] = Next(g, s)}
<1>1. 0 \in T
  <2>1. PICK g : g = [s \in SUBSET S |-> base]
    OBVIOUS
  <2>2. ASSUME NEW s \in SUBSET S, Cardinality(s) <= 0
        PROVE  s = {}
    BY <2>2, OneLess
  <2>3. g \in [SUBSET S -> V] /\ \A s \in SUBSET S : Cardinality(s) <= 0 => g[s] = Next(g, s)
    BY <2>1, <2>2
  <2> QED  BY <2>3
<1>2. ASSUME NEW n \in Nat, n \in T
      PROVE  n + 1 \in T
  <2>1. PICK g \in [SUBSET S -> V] :
          \A s \in SUBSET S : Cardinality(s) <= n => g[s] = Next(g, s)
    BY <1>2
  <2>2. PICK h : h = [s \in SUBSET S |-> IF Cardinality(s) <= n THEN g[s] ELSE Next(g, s)]
    OBVIOUS
  <2>3. h \in [SUBSET S -> V]
    <3> SUFFICES ASSUME NEW s \in SUBSET S PROVE Next(g, s) \in V
      BY <2>1, <2>2
    <3>1. CASE s # {}
      <4>1. s \ {pick[s]} \in SUBSET S
        OBVIOUS
      <4>2. g[s \ {pick[s]}] \in V
        BY <2>1, <4>1
      <4> QED  BY <3>1, <4>2
    <3> QED  BY <3>1
  <2>4. ASSUME NEW s \in SUBSET S, Cardinality(s) <= n + 1
        PROVE  h[s] = Next(h, s)
    <3>1. CASE s = {}
      BY <2>1, <2>2, <3>1
    <3>2. CASE s # {}
      <4>1. PICK r : r = s \ {pick[s]}
        OBVIOUS
      <4>2. Cardinality(s) \in Nat /\ r \in SUBSET S /\ Cardinality(r) = Cardinality(s) - 1
        BY <3>2, <4>1, OneLess DEF Picks
      <4>3. Cardinality(r) <= n
        BY <2>4, <4>2
      <4>4. h[r] = g[r]
        BY <2>2, <4>2, <4>3
      <4>5. h[s] = Next(g, s)
        BY <2>1, <2>2
      <4> QED  BY <4>1, <4>4, <4>5
    <3> QED  BY <3>1, <3>2
  <2> HIDE DEF Next
  <2> QED  BY <2>3, <2>4
<1>3. Nat \subseteq T
  <2> HIDE DEF T
  <2> QED  BY <1>1, <1>2, Induction
<1>4. Cardinality(S) \in T
  <2>1. Cardinality(S) \in Nat
    BY FS_CardinalityType
  <2> QED  BY <1>3, <2>1
<1>5. \A s \in SUBSET S : Cardinality(s) <= Cardinality(S)
  BY FS_Subset
<1> QED
  BY <1>4, <1>5 DEF Folds

\* Whatever folds in the same way comes to the same.
SameFold(g, h, V, S) == \A s \in SUBSET S : g[s] \in V /\ g[s] = h[s]

LEMMA FoldUnique ==
  ASSUME NEW S, IsFiniteSet(S), NEW V, NEW base \in V, NEW G \in [SUBSET S -> [V -> V]],
         NEW pick, Picks(pick, S), NEW g, NEW h,
         Folds(g, V, base, G, pick, S), Folds(h, V, base, G, pick, S)
  PROVE  SameFold(g, h, V, S)
<1> DEFINE T == {n \in Nat : \A s \in SUBSET S : Cardinality(s) <= n => g[s] \in V /\ g[s] = h[s]}
<1>1. 0 \in T
  <2>1. ASSUME NEW s \in SUBSET S, Cardinality(s) <= 0
        PROVE  s = {}
    BY <2>1, OneLess
  <2> QED  BY <2>1 DEF Folds
<1>2. ASSUME NEW n \in Nat, n \in T
      PROVE  n + 1 \in T
  <2> SUFFICES ASSUME NEW s \in SUBSET S, Cardinality(s) <= n + 1
               PROVE  g[s] \in V /\ g[s] = h[s]
    OBVIOUS
  <2>1. CASE s = {}
    BY <2>1 DEF Folds
  <2>2. CASE s # {}
    <3>1. PICK r : r = s \ {pick[s]}
      OBVIOUS
    <3>2. Cardinality(s) \in Nat /\ r \in SUBSET S /\ Cardinality(r) = Cardinality(s) - 1
      <4>1. pick[s] \in s
        BY <2>2 DEF Picks
      <4> QED  BY <2>2, <3>1, <4>1, OneLess
    <3>3. g[r] \in V /\ g[r] = h[r]
      BY <1>2, <3>2
    <3> QED  BY <2>2, <3>1, <3>3 DEF Folds
  <2> QED  BY <2>1, <2>2
<1>3. Nat \subseteq T
  <2> HIDE DEF T
  <2> QED  BY <1>1, <1>2, Induction
<1> SUFFICES ASSUME NEW s \in SUBSET S PROVE g[s] \in V /\ g[s] = h[s]
  BY DEF SameFold
<1>4. Cardinality(s) \in Nat
  BY FS_Subset, FS_CardinalityType
<1> QED
  BY <1>3, <1>4

-----------------------------------------------------------------------------
(* Sums over finite sets.                                                   *)

AnyOf(s) == CHOOSE x \in s : TRUE

\* g adds up f, taking one element after another from each part of S.
Adds(g, f, S) ==
  \A s \in SUBSET S : g[s] = IF s = {} THEN 0 ELSE f[AnyOf(s)] + g[s \ {AnyOf(s)}]

LEMMA AnyPicks ==
  ASSUME NEW S, IsFiniteSet(S), NEW f, \A x \in S : f[x] \in Nat
  PROVE  \E pick : \E G \in [SUBSET S -> [Nat -> Nat]] :
           /\ Picks(pick, S) /\ \A s \in SUBSET S : pick[s] = AnyOf(s)
           /\ \A g : Adds(g, f, S) => Folds(g, Nat, 0, G, pick, S)
           /\ \A g \in [SUBSET S -> Nat] : Folds(g, Nat, 0, G, pick, S) => Adds(g, f, S)
<1>1. PICK pick : pick = [s \in SUBSET S |-> AnyOf(s)]
  OBVIOUS
<1>2. PICK G : G = [s \in SUBSET S |-> [n \in Nat |-> IF s = {} THEN 0 ELSE f[AnyOf(s)] + n]]
  OBVIOUS
<1>3. \A s \in SUBSET S : s # {} => AnyOf(s) \in s
  BY DEF AnyOf
<1>4. G \in [SUBSET S -> [Nat -> Nat]]
  BY <1>2, <1>3
<1>5. Picks(pick, S) /\ \A s \in SUBSET S : pick[s] = AnyOf(s)
  BY <1>1, <1>3 DEF Picks
<1>6. \A g : Adds(g, f, S) => Folds(g, Nat, 0, G, pick, S)
  BY <1>2, <1>5 DEF Adds, Folds
<1>7. ASSUME NEW g \in [SUBSET S -> Nat], Folds(g, Nat, 0, G, pick, S)
      PROVE  Adds(g, f, S)
  BY <1>2, <1>5, <1>7 DEF Adds, Folds
<1> QED
  BY <1>4, <1>5, <1>6, <1>7

LEMMA AddsExists ==
  ASSUME NEW S, IsFiniteSet(S), NEW f \in [S -> Nat]
  PROVE  \E g \in [SUBSET S -> Nat] : Adds(g, f, S)
BY AnyPicks, FoldExists

\* Whatever adds up f has the same sums.
LEMMA AddsUnique ==
  ASSUME NEW S, IsFiniteSet(S), NEW f, \A x \in S : f[x] \in Nat,
         NEW g, NEW h, Adds(g, f, S), Adds(h, f, S)
  PROVE  \A s \in SUBSET S : g[s] = h[s]
<1>1. PICK pick : \E G \in [SUBSET S -> [Nat -> Nat]] :
                    Picks(pick, S) /\ Folds(g, Nat, 0, G, pick, S) /\ Folds(h, Nat, 0, G, pick, S)
  BY AnyPicks
<1>2. PICK G \in [SUBSET S -> [Nat -> Nat]] :
        Picks(pick, S) /\ Folds(g, Nat, 0, G, pick, S) /\ Folds(h, Nat, 0, G, pick, S)
  BY <1>1
<1>3. 0 \in Nat
  OBVIOUS
<1>4. SameFold(g, h, Nat, S)
  BY <1>2, <1>3, FoldUnique
<1> QED
  BY <1>4 DEF SameFold

\* Any element may be taken first.
AddsInAnyOrder(g, f, S) == \A s \in SUBSET S : \A x \in s : g[s] = f[x] + g[s \ {x}]

LEMMA AnyFirst ==
  ASSUME NEW S, IsFiniteSet(S), NEW f \in [S -> Nat], NEW g \in [SUBSET S -> Nat], Adds(g, f, S)
  PROVE  AddsInAnyOrder(g, f, S)
<1> DEFINE T == {n \in Nat : \A s \in SUBSET S : Cardinality(s) <= n =>
                   \A x \in s : g[s] = f[x] + g[s \ {x}]}
<1>1. 0 \in T
  <2>1. ASSUME NEW s \in SUBSET S, Cardinality(s) <= 0
        PROVE  s = {}
    BY <2>1, OneLess
  <2> QED  BY <2>1
<1>2. ASSUME NEW n \in Nat, n \in T
      PROVE  n + 1 \in T
  <2> SUFFICES ASSUME NEW s \in SUBSET S, Cardinality(s) <= n + 1, NEW x \in s
               PROVE  g[s] = f[x] + g[s \ {x}]
    OBVIOUS
  <2>1. PICK c : c = AnyOf(s)
    OBVIOUS
  <2>2. /\ Cardinality(s) \in Nat /\ c \in s
        /\ \A y \in s : s \ {y} \in SUBSET S /\ Cardinality(s \ {y}) = Cardinality(s) - 1
    <3>1. c \in s
      BY <2>1 DEF AnyOf
    <3> QED  BY <3>1, OneLess
  <2>3. g[s] = f[c] + g[s \ {c}]
    BY <2>1 DEF Adds
  <2>4. CASE x # c
    <3>1. PICK r : r = (s \ {c}) \ {x}
      OBVIOUS
    <3>2. r = (s \ {x}) \ {c} /\ r \in SUBSET S
      BY <3>1
    <3>3. \A u \in SUBSET S : Cardinality(u) <= n => \A y \in u : g[u] = f[y] + g[u \ {y}]
      BY <1>2
    <3>4. Cardinality(s \ {c}) <= n /\ Cardinality(s \ {x}) <= n
      BY <2>2
    <3>5. g[s \ {c}] = f[x] + g[r]
      BY <2>2, <2>4, <3>1, <3>3, <3>4
    <3>6. g[s \ {x}] = f[c] + g[r]
      BY <2>2, <2>4, <3>2, <3>3, <3>4
    <3>7. f[x] \in Nat /\ f[c] \in Nat /\ g[r] \in Nat
      BY <2>2, <3>2
    <3> QED  BY <2>3, <3>5, <3>6, <3>7
  <2> QED  BY <2>3, <2>4
<1>3. Nat \subseteq T
  <2> HIDE DEF T
  <2> QED  BY <1>1, <1>2, Induction
<1> SUFFICES ASSUME NEW s \in SUBSET S, NEW x \in s PROVE g[s] = f[x] + g[s \ {x}]
  BY DEF AddsInAnyOrder
<1>4. Cardinality(s) \in Nat
  BY FS_Subset, FS_CardinalityType
<1> QED
  BY <1>3, <1>4

LEMMA SumIs ==
  ASSUME NEW S, IsFiniteSet(S), NEW f, \A x \in S : f[x] \in Nat,
         NEW g \in [SUBSET S -> Nat], Adds(g, f, S)
  PROVE  SumFunctionOnSet(f, S) = g[S]
<1> DEFINE Eq(h) == h = [s \in SUBSET S |-> IF s = {} THEN 0
                                           ELSE f[AnyOf(s)] + h[s \ {AnyOf(s)}]]
<1>1. PICK h : h = CHOOSE i : Eq(i)
  OBVIOUS
<1>2. Eq(g)
  BY DEF Adds
<1>3. Eq(h)
  <2> HIDE DEF Eq
  <2> QED  BY <1>1, <1>2
<1>4. Adds(h, f, S)
  BY <1>3 DEF Adds
<1>5. h[S] = g[S]
  BY <1>4, AddsUnique
<1>6. SumFunctionOnSet(f, S) = h[S]
  BY <1>1 DEF SumFunctionOnSet, FoldFunctionOnSet, MapThenFoldSet, AnyOf
<1> QED
  BY <1>5, <1>6

\* What the proofs use: the sum of nothing, of one more element, of one changed.
LEMMA SumNothing ==
  ASSUME NEW f
  PROVE  SumFunctionOnSet(f, {}) = 0
<1>1. PICK g : g = [s \in SUBSET {} |-> 0]
  OBVIOUS
<1>2. g \in [SUBSET {} -> Nat] /\ Adds(g, f, {}) /\ g[{}] = 0
  BY <1>1 DEF Adds
<1> QED
  BY <1>2, FS_EmptySet, SumIs

LEMMA SumIsNatural ==
  ASSUME NEW S, IsFiniteSet(S), NEW f \in [S -> Nat]
  PROVE  SumFunctionOnSet(f, S) \in Nat
<1>1. PICK g \in [SUBSET S -> Nat] : Adds(g, f, S)
  BY AddsExists
<1>2. SumFunctionOnSet(f, S) = g[S]
  BY <1>1, SumIs
<1> QED
  BY <1>2

\* Only the elements that are added up count.
LEMMA SumOfSame ==
  ASSUME NEW S, IsFiniteSet(S), NEW f, NEW h, \A x \in S : f[x] \in Nat /\ h[x] = f[x]
  PROVE  SumFunctionOnSet(h, S) = SumFunctionOnSet(f, S)
<1>1. PICK k : k = [x \in S |-> f[x]]
  OBVIOUS
<1>2. k \in [S -> Nat] /\ \A x \in S : k[x] = f[x] /\ k[x] = h[x]
  BY <1>1
<1>3. PICK g \in [SUBSET S -> Nat] : Adds(g, k, S)
  BY <1>2, AddsExists
<1>4. Adds(g, f, S) /\ Adds(g, h, S)
  <2>1. ASSUME NEW s \in SUBSET S, s # {}
        PROVE  AnyOf(s) \in S
    BY <2>1 DEF AnyOf
  <2> QED  BY <1>2, <1>3, <2>1 DEF Adds
<1> QED
  BY <1>3, <1>4, SumIs

LEMMA SumOneMore ==
  ASSUME NEW S, IsFiniteSet(S), NEW x, x \notin S, NEW f, \A y \in S \cup {x} : f[y] \in Nat
  PROVE  SumFunctionOnSet(f, S \cup {x}) = f[x] + SumFunctionOnSet(f, S)
<1>1. PICK W : W = S \cup {x}
  OBVIOUS
<1>2. IsFiniteSet(W) /\ S \in SUBSET W /\ x \in W /\ W \ {x} = S
  BY <1>1, FS_AddElement
<1>3. PICK k : k = [y \in W |-> f[y]]
  OBVIOUS
<1>4. k \in [W -> Nat] /\ \A y \in W : k[y] = f[y] /\ f[y] \in Nat /\ k[y] \in Nat
  BY <1>1, <1>3
<1>5. PICK g \in [SUBSET W -> Nat] : Adds(g, k, W)
  BY <1>2, <1>4, AddsExists
<1>6. g[W] = k[x] + g[S]
  <2>1. AddsInAnyOrder(g, k, W)
    BY <1>2, <1>4, <1>5, AnyFirst
  <2> QED  BY <1>2, <2>1 DEF AddsInAnyOrder
<1>7. SumFunctionOnSet(k, W) = g[W]
  BY <1>2, <1>4, <1>5, SumIs
<1>8. SumFunctionOnSet(k, S) = g[S]
  <2>1. PICK h : h = [s \in SUBSET S |-> g[s]]
    OBVIOUS
  <2>2. h \in [SUBSET S -> Nat] /\ Adds(h, k, S) /\ h[S] = g[S]
    BY <1>2, <1>5, <2>1 DEF Adds
  <2>3. IsFiniteSet(S) /\ \A y \in S : k[y] \in Nat
    BY <1>2, <1>4
  <2> QED  BY <2>2, <2>3, SumIs
<1>9. SumFunctionOnSet(f, W) = SumFunctionOnSet(k, W)
  BY <1>2, <1>4, SumOfSame
<1>10. SumFunctionOnSet(f, S) = SumFunctionOnSet(k, S)
  BY <1>2, <1>4, SumOfSame
<1> QED
  BY <1>1, <1>2, <1>4, <1>6, <1>7, <1>8, <1>9, <1>10

LEMMA SumOneLess ==
  ASSUME NEW S, IsFiniteSet(S), NEW x \in S, NEW f, \A y \in S : f[y] \in Nat
  PROVE  SumFunctionOnSet(f, S) = f[x] + SumFunctionOnSet(f, S \ {x})
<1>1. PICK r : r = S \ {x}
  OBVIOUS
<1>2. IsFiniteSet(r) /\ x \notin r /\ S = r \cup {x}
  BY <1>1, FS_RemoveElement
<1>3. SumFunctionOnSet(f, r \cup {x}) = f[x] + SumFunctionOnSet(f, r)
  BY <1>2, SumOneMore
<1> QED
  BY <1>1, <1>2, <1>3

\* The parts of a set add up to the whole.
LEMMA SumOfParts ==
  ASSUME NEW S, IsFiniteSet(S), NEW A \in SUBSET S, NEW f, \A y \in S : f[y] \in Nat
  PROVE  SumFunctionOnSet(f, S) = SumFunctionOnSet(f, A) + SumFunctionOnSet(f, S \ A)
<1> DEFINE Sum(s) == SumFunctionOnSet(f, s)
           T == {n \in Nat : \A s \in SUBSET S : Cardinality(s) <= n => Sum(S) = Sum(s) + Sum(S \ s)}
<1>1. \A s \in SUBSET S : IsFiniteSet(s) /\ Sum(s) \in Nat
  <2> SUFFICES ASSUME NEW s \in SUBSET S PROVE IsFiniteSet(s) /\ Sum(s) \in Nat
    OBVIOUS
  <2>1. IsFiniteSet(s)
    BY FS_Subset
  <2>2. PICK k : k = [x \in s |-> f[x]]
    OBVIOUS
  <2>3. k \in [s -> Nat] /\ \A x \in s : f[x] \in Nat /\ k[x] = f[x]
    BY <2>2
  <2>4. SumFunctionOnSet(k, s) = SumFunctionOnSet(f, s)
    BY <2>1, <2>3, SumOfSame
  <2>5. SumFunctionOnSet(k, s) \in Nat
    BY <2>1, <2>3, SumIsNatural
  <2> QED  BY <2>1, <2>4, <2>5
<1>2. 0 \in T
  <2>1. ASSUME NEW s \in SUBSET S, Cardinality(s) <= 0
        PROVE  s = {}
    BY <2>1, OneLess
  <2>2. Sum({}) = 0 /\ S \ {} = S
    BY SumNothing
  <2>3. Sum(S) \in Nat
    BY <1>1
  <2> HIDE DEF Sum
  <2> QED  BY <2>1, <2>2, <2>3
<1>3. ASSUME NEW n \in Nat, n \in T
      PROVE  n + 1 \in T
  <2> SUFFICES ASSUME NEW s \in SUBSET S, Cardinality(s) <= n + 1
               PROVE  Sum(S) = Sum(s) + Sum(S \ s)
    OBVIOUS
  <2>1. CASE s = {}
    <3>1. Sum({}) = 0 /\ S \ {} = S /\ Sum(S) \in Nat
      BY <1>1, SumNothing
    <3> HIDE DEF Sum
    <3> QED  BY <2>1, <3>1
  <2>2. CASE s # {}
    <3>1. PICK x \in s : TRUE
      BY <2>2
    <3>2. PICK r : r = s \ {x}
      OBVIOUS
    <3>3. /\ Cardinality(s) \in Nat /\ r \in SUBSET S /\ Cardinality(r) = Cardinality(s) - 1
          /\ r = s \ {x}
      BY <2>2, <3>2, OneLess
    <3>4. Sum(S) = Sum(r) + Sum(S \ r)
      BY <1>3, <3>3
    <3>5. Sum(s) = f[x] + Sum(r)
      BY <1>1, <3>2, SumOneLess
    <3>6. Sum(S \ r) = f[x] + Sum(S \ s)
      <4>1. x \in S \ r /\ (S \ r) \ {x} = S \ s /\ S \ r \in SUBSET S
        BY <3>2
      <4>2. SumFunctionOnSet(f, S \ r) = f[x] + SumFunctionOnSet(f, (S \ r) \ {x})
        BY <1>1, <4>1, SumOneLess
      <4> QED  BY <4>1, <4>2
    <3>7. f[x] \in Nat /\ Sum(r) \in Nat /\ Sum(S \ s) \in Nat
      BY <1>1, <3>3
    <3> HIDE DEF Sum
    <3> QED  BY <3>4, <3>5, <3>6, <3>7
  <2> QED  BY <2>1, <2>2
<1>4. Nat \subseteq T
  <2> HIDE DEF T
  <2> QED  BY <1>2, <1>3, Induction
<1>5. Cardinality(A) \in Nat
  BY <1>1, FS_CardinalityType
<1> QED
  BY <1>4, <1>5
-----------------------------------------------------------------------------
(* Sequences                                                                *)

LEMMA Indices ==
  ASSUME NEW T, NEW s \in Seq(T)
  PROVE  /\ Len(s) \in Nat /\ DOMAIN s = 1..Len(s) /\ IsFiniteSet(DOMAIN s)
         /\ \A i \in DOMAIN s : s[i] \in T
<1>1. Len(s) \in Nat /\ DOMAIN s = 1..Len(s)
  OBVIOUS
<1>2. IsFiniteSet(1..Len(s))
  BY <1>1, FS_Interval
<1>3. \A i \in DOMAIN s : s[i] \in T
  BY <1>1
<1> QED
  BY <1>1, <1>2, <1>3

\* FlattenSeq joins the sequences one after another.
Joins(h, seqs) ==
  \A i \in DOMAIN seqs : h[i] = IF i = 1 THEN seqs[i] ELSE h[i - 1] \o seqs[i]

LEMMA FlattenSteps ==
  ASSUME NEW T, NEW seqs \in Seq(Seq(T)), Len(seqs) # 0
  PROVE  \E h : Joins(h, seqs) /\ FlattenSeq(seqs) = h[Len(seqs)]
<1>1. PICK n : n = Len(seqs)
  OBVIOUS
<1>2. n \in Nat /\ \A i \in 1..n : seqs[i] \in Seq(T)
  BY <1>1
<1> DEFINE Eq(h) == h = [i \in 1..n |-> IF i = 1 THEN seqs[i] ELSE h[i - 1] \o seqs[i]]
           Until(m) == \E g \in [1..n -> Seq(T)] : \A i \in 1..n : i <= m =>
                         g[i] = IF i = 1 THEN seqs[i] ELSE g[i - 1] \o seqs[i]
           K == {m \in Nat : Until(m)}
<1>3. n # 0
  BY <1>1
<1>4. 0 \in K
  <2>1. PICK g : g = [i \in 1..n |-> <<>>]
    OBVIOUS
  <2>2. g \in [1..n -> Seq(T)]
    BY <2>1
  <2>3. \A i \in 1..n : ~ (i <= 0)
    BY <1>2
  <2>4. Until(0)
    BY <2>2, <2>3
  <2> QED  BY <2>4
<1>5. ASSUME NEW m \in Nat, m \in K
      PROVE  m + 1 \in K
  <2>1. PICK g \in [1..n -> Seq(T)] : \A i \in 1..n : i <= m =>
                       g[i] = IF i = 1 THEN seqs[i] ELSE g[i - 1] \o seqs[i]
    BY <1>5
  <2>2. PICK h : h = [i \in 1..n |-> IF i <= m THEN g[i]
                                     ELSE IF i = 1 THEN seqs[i] ELSE g[i - 1] \o seqs[i]]
    OBVIOUS
  <2>3. ASSUME NEW i \in 1..n
        PROVE  h[i] \in Seq(T)
    <3>1. CASE i <= m
      BY <2>1, <2>2, <3>1
    <3>2. CASE ~ (i <= m) /\ i # 1
      <4>1. i - 1 \in 1..n
        BY <1>2, <3>2
      <4>2. g[i - 1] \in Seq(T) /\ seqs[i] \in Seq(T)
        BY <1>2, <2>1, <4>1
      <4>3. g[i - 1] \o seqs[i] \in Seq(T)
        BY <4>2
      <4> QED  BY <2>2, <3>2, <4>3
    <3> QED  BY <1>2, <2>2, <3>1, <3>2
  <2>4. ASSUME NEW i \in 1..n, i <= m + 1
        PROVE  h[i] = IF i = 1 THEN seqs[i] ELSE h[i - 1] \o seqs[i]
    <3>1. h[i] = IF i = 1 THEN seqs[i] ELSE g[i - 1] \o seqs[i]
      BY <2>1, <2>2
    <3>2. i # 1 => h[i - 1] = g[i - 1]
      <4> SUFFICES ASSUME i # 1 PROVE h[i - 1] = g[i - 1]
        OBVIOUS
      <4>1. i - 1 \in 1..n /\ i - 1 <= m
        BY <1>2, <2>4
      <4> QED  BY <2>2, <4>1
    <3> QED  BY <3>1, <3>2
  <2>5. h \in [1..n -> Seq(T)]
    BY <2>2, <2>3
  <2>6. Until(m + 1)
    BY <2>4, <2>5
  <2> HIDE DEF Until
  <2> QED  BY <2>6
<1>6. Nat \subseteq K
  <2> HIDE DEF K
  <2> QED  BY <1>4, <1>5, Induction
<1>7. Until(n)
  BY <1>2, <1>6
<1>8. PICK g \in [1..n -> Seq(T)] : \A i \in 1..n : i <= n =>
                       g[i] = IF i = 1 THEN seqs[i] ELSE g[i - 1] \o seqs[i]
  BY <1>7
<1>9. Eq(g)
  <2>1. \A i \in 1..n : i <= n
    BY <1>2
  <2> QED  BY <1>8, <2>1
<1>10. PICK h : h = CHOOSE f : Eq(f)
  OBVIOUS
<1>11. Eq(h)
  <2> HIDE DEF Eq
  <2> QED  BY <1>9, <1>10
<1>12. FlattenSeq(seqs) = h[n]
  BY <1>1, <1>3, <1>10 DEF FlattenSeq
<1>13. Joins(h, seqs)
  <2>1. DOMAIN seqs = 1..n
    BY <1>1
  <2> QED  BY <1>11, <2>1 DEF Joins
<1> QED
  BY <1>1, <1>12, <1>13

LEMMA FlattenType ==
  ASSUME NEW T, NEW seqs \in Seq(Seq(T))
  PROVE  FlattenSeq(seqs) \in Seq(T)
<1>1. PICK n : n = Len(seqs)
  OBVIOUS
<1>2. n \in Nat /\ DOMAIN seqs = 1..n /\ \A i \in 1..n : seqs[i] \in Seq(T)
  BY <1>1
<1>3. CASE n = 0
  <2>1. Len(seqs) = 0 /\ seqs = <<>>
    BY <1>1, <1>3, EmptySeq
  <2>2. FlattenSeq(seqs) = seqs
    BY <2>1 DEF FlattenSeq
  <2>3. <<>> \in Seq(T)
    OBVIOUS
  <2> QED  BY <2>1, <2>2, <2>3
<1>4. CASE n # 0
  <2>1. PICK h : Joins(h, seqs) /\ FlattenSeq(seqs) = h[n]
    BY <1>1, <1>4, FlattenSteps
  <2>2. \A i \in 1..n : h[i] \in Seq(T)
    <3> DEFINE M == {m \in Nat : \A i \in 1..n : i <= m => h[i] \in Seq(T)}
    <3>1. 0 \in M
      BY <1>2
    <3>2. ASSUME NEW m \in Nat, m \in M
          PROVE  m + 1 \in M
      <4> SUFFICES ASSUME NEW i \in 1..n, i <= m + 1
                   PROVE  h[i] \in Seq(T)
        OBVIOUS
      <4>1. CASE i = 1
        BY <1>2, <2>1, <4>1 DEF Joins
      <4>2. CASE i # 1
        <5>1. i - 1 \in 1..n /\ i - 1 <= m
          BY <1>2, <4>2
        <5>2. h[i - 1] \in Seq(T) /\ seqs[i] \in Seq(T)
          BY <1>2, <3>2, <5>1
        <5>3. h[i] = h[i - 1] \o seqs[i]
          BY <1>2, <2>1, <4>2 DEF Joins
        <5> QED  BY <5>2, <5>3
      <4> QED  BY <4>1, <4>2
    <3>3. Nat \subseteq M
      <4> HIDE DEF M
      <4> QED  BY <3>1, <3>2, Induction
    <3>4. n \in M
      <4> HIDE DEF M
      <4> QED  BY <1>2, <3>3
    <3>5. \A i \in 1..n : i <= n
      BY <1>2
    <3> QED  BY <3>4, <3>5
  <2> QED
    BY <1>2, <1>4, <2>1, <2>2
<1> QED
  BY <1>3, <1>4

\* The numbers of a set, in their order.
LEMMA NumbersInOrder ==
  ASSUME NEW n \in Nat, NEW S \in SUBSET (1..n)
  PROVE  \E f \in [1..Cardinality(S) -> S] : \A j, k \in DOMAIN f : j < k => f[j] < f[k]
<1> DEFINE Listed(s) == \E f \in [1..Cardinality(s) -> s] :
                          \A j, k \in DOMAIN f : j < k => f[j] < f[k]
           T == {m \in Nat : \A s \in SUBSET (1..m) : Listed(s)}
<1>1. 0 \in T
  <2>1. ASSUME NEW s \in SUBSET (1..0)
        PROVE  Listed(s)
    <3>1. s = {} /\ Cardinality(s) = 0
      <4>1. 1..0 = {}
        OBVIOUS
      <4>2. s = {}
        BY <4>1
      <4> QED  BY <4>2, FS_EmptySet
    <3>2. PICK f : f = [k \in 1..0 |-> 0]
      OBVIOUS
    <3>3. f \in [1..Cardinality(s) -> s] /\ \A j, k \in DOMAIN f : j < k => f[j] < f[k]
      BY <3>1, <3>2
    <3> QED  BY <3>3
  <2> HIDE DEF Listed
  <2> QED  BY <2>1
<1>2. ASSUME NEW m \in Nat, m \in T
      PROVE  m + 1 \in T
  <2>1. ASSUME NEW s \in SUBSET (1..m + 1)
        PROVE  Listed(s)
    <3>1. CASE m + 1 \notin s
      <4>1. s \in SUBSET (1..m)
        BY <3>1
      <4> HIDE DEF Listed
      <4> QED  BY <1>2, <4>1
    <3>2. CASE m + 1 \in s
      <4>1. PICK r : r = s \ {m + 1}
        OBVIOUS
      <4>2. r \in SUBSET (1..m) /\ s = r \cup {m + 1} /\ m + 1 \notin r
        BY <3>2, <4>1
      <4>3. Listed(r)
        <5> HIDE DEF Listed
        <5> QED  BY <1>2, <4>2
      <4>4. IsFiniteSet(r)
        <5>1. IsFiniteSet(1..m)
          BY FS_Interval
        <5> QED  BY <4>2, <5>1, FS_Subset
      <4>5. Cardinality(r) \in Nat /\ Cardinality(s) = Cardinality(r) + 1
        BY <4>2, <4>4, FS_AddElement, FS_CardinalityType
      <4>6. PICK f \in [1..Cardinality(r) -> r] : \A j, k \in DOMAIN f : j < k => f[j] < f[k]
        BY <4>3
      <4>7. PICK c : c = Cardinality(r)
        OBVIOUS
      <4>8. PICK h : h = [k \in 1..c + 1 |-> IF k = c + 1 THEN m + 1 ELSE f[k]]
        OBVIOUS
      <4>9. ASSUME NEW k \in 1..c + 1, k # c + 1
            PROVE  k \in 1..c /\ f[k] \in r /\ h[k] = f[k] /\ f[k] <= m /\ f[k] \in Nat
        <5>1. k \in 1..c
          BY <4>5, <4>7, <4>9
        <5>2. f[k] \in r
          BY <4>6, <4>7, <5>1
        <5>3. h[k] = f[k]
          BY <4>8, <4>9
        <5>4. f[k] \in 1..m
          BY <4>2, <5>2
        <5>5. f[k] <= m /\ f[k] \in Nat
          BY <5>4
        <5> QED  BY <5>1, <5>2, <5>3, <5>5
      <4>10. h[c + 1] = m + 1 /\ c \in Nat
        BY <4>5, <4>7, <4>8
      <4>11. ASSUME NEW k \in 1..c + 1
             PROVE  h[k] \in s
        BY <4>2, <4>9, <4>10
      <4>12. h \in [1..c + 1 -> s]
        BY <4>8, <4>11
      <4>13. ASSUME NEW j \in 1..c + 1, NEW k \in 1..c + 1, j < k
             PROVE  h[j] < h[k]
        <5>1. j # c + 1
          BY <4>10, <4>13
        <5>2. CASE k = c + 1
          BY <4>9, <4>10, <5>1, <5>2
        <5>3. CASE k # c + 1
          <6>1. f[j] < f[k]
            BY <4>6, <4>7, <4>9, <4>13, <5>1, <5>3
          <6> QED  BY <4>9, <5>1, <5>3, <6>1
        <5> QED  BY <5>2, <5>3
      <4>14. Cardinality(s) = c + 1 /\ DOMAIN h = 1..c + 1
        BY <4>5, <4>7, <4>8
      <4> QED  BY <4>12, <4>13, <4>14
    <3> QED  BY <3>1, <3>2
  <2> HIDE DEF Listed
  <2> QED  BY <2>1
<1>3. Nat \subseteq T
  <2> HIDE DEF T
  <2> QED  BY <1>1, <1>2, Induction
<1>4. n \in T
  <2> HIDE DEF T
  <2> QED  BY <1>3
<1> QED
  BY <1>4

\* The numbers up to n, put into an order R that any two of them have.
TotalOrder(R, n) ==
  /\ \A i \in 1..n : <<i, i>> \notin R
  /\ \A i, j \in 1..n : i # j => <<i, j>> \in R \/ <<j, i>> \in R
  /\ \A i, j, k \in 1..n : <<i, j>> \in R /\ <<j, k>> \in R => <<i, k>> \in R

OrderedBy(f, R, m) == \A j, k \in 1..m : j < k => <<f[j], f[k]>> \in R

LEMMA OrderExists ==
  ASSUME NEW n \in Nat, NEW R, TotalOrder(R, n)
  PROVE  \E f \in [1..n -> 1..n] : OrderedBy(f, R, n)
<1> DEFINE T == {m \in Nat : m <= n => \E f \in [1..m -> 1..m] : OrderedBy(f, R, m)}
<1>1. 0 \in T
  <2>1. [i \in 1..0 |-> i] \in [1..0 -> 1..0] /\ 1..0 = {}
    OBVIOUS
  <2> QED  BY <2>1 DEF OrderedBy
<1>2. ASSUME NEW m \in Nat, m \in T
      PROVE  m + 1 \in T
  <2> SUFFICES ASSUME m + 1 <= n
               PROVE  \E f \in [1..m + 1 -> 1..m + 1] : OrderedBy(f, R, m + 1)
    <3>1. m + 1 \in Nat
      OBVIOUS
    <3> QED  BY <3>1, Zenon
  <2>1. PICK f \in [1..m -> 1..m] : OrderedBy(f, R, m)
    BY <1>2
  <2> DEFINE C == {i \in 1..m : <<m + 1, f[i]>> \in R} \cup {m + 1}
  <2>2. PICK c \in C : \A i \in C : c <= i
    <3>1. C \subseteq Nat
      <4>1. m + 1 \in Nat /\ 1..m \subseteq Nat
        OBVIOUS
      <4>2. {i \in 1..m : <<m + 1, f[i]>> \in R} \subseteq 1..m
        OBVIOUS
      <4> QED  BY <4>1, <4>2, Zenon
    <3>2. C # {}
      OBVIOUS
    <3> HIDE DEF C
    <3> QED  BY <3>1, <3>2, LeastNumber
  <2>3. c \in 1..m + 1 /\ (c <= m => <<m + 1, f[c]>> \in R)
    BY <2>2
  <2>4. \A i \in 1..m : i < c => <<f[i], m + 1>> \in R
    <3> TAKE i \in 1..m
    <3> HAVE i < c
    <3>1. i \notin C
      BY <2>2, <2>3
    <3>2. f[i] \in 1..m /\ f[i] \in 1..n /\ m + 1 \in 1..n /\ f[i] # m + 1
      BY <2>1
    <3> QED  BY <3>1, <3>2 DEF TotalOrder
  <2>5. PICK g : g = [i \in 1..m + 1 |-> IF i < c THEN f[i]
                                         ELSE IF i = c THEN m + 1 ELSE f[i - 1]]
    OBVIOUS
  <2> HIDE DEF C
  <2>6. ASSUME NEW i \in 1..m + 1
        PROVE  /\ g[i] \in 1..m + 1 /\ (i < c => i \in 1..m /\ g[i] = f[i])
               /\ (i = c => g[i] = m + 1)
               /\ (i > c => i - 1 \in 1..m /\ g[i] = f[i - 1])
    BY <2>1, <2>3, <2>5
  <2>7. ASSUME NEW j \in 1..m + 1, NEW k \in 1..m + 1, j < k
        PROVE  <<g[j], g[k]>> \in R
    <3>1. CASE k < c
      <4>1. j < c
        BY <2>3, <2>7, <3>1
      <4> QED  BY <2>1, <2>6, <2>7, <3>1, <4>1 DEF OrderedBy
    <3>2. CASE k = c
      BY <2>4, <2>6, <2>7, <3>2
    <3>3. CASE k > c /\ j < c
      <4>1. j \in 1..m /\ k - 1 \in 1..m /\ j < k - 1
        BY <2>3, <3>3
      <4> QED  BY <2>1, <2>6, <3>3, <4>1 DEF OrderedBy
    <3>4. CASE j = c
      <4>1. k > c /\ k - 1 \in 1..m /\ c \in 1..m /\ (c = k - 1 \/ c < k - 1)
        BY <2>3, <2>7, <3>4
      <4>2. <<m + 1, f[c]>> \in R
        BY <2>3, <4>1
      <4>3. c < k - 1 => <<f[c], f[k - 1]>> \in R
        BY <2>1, <4>1 DEF OrderedBy
      <4>4. f[c] \in 1..n /\ f[k - 1] \in 1..n /\ m + 1 \in 1..n
        BY <2>1, <4>1
      <4>5. <<m + 1, f[k - 1]>> \in R
        BY <4>1, <4>2, <4>3, <4>4 DEF TotalOrder
      <4> QED  BY <2>6, <3>4, <4>1, <4>5
    <3>5. CASE j > c
      <4>1. k > c /\ j - 1 \in 1..m /\ k - 1 \in 1..m /\ j - 1 < k - 1
        BY <2>3, <2>7, <3>5
      <4> QED  BY <2>1, <2>6, <3>5, <4>1 DEF OrderedBy
    <3> QED  BY <2>3, <3>1, <3>2, <3>3, <3>4, <3>5
  <2>8. g \in [1..m + 1 -> 1..m + 1]
    BY <2>5, <2>6
  <2> QED  BY <2>7, <2>8 DEF OrderedBy
<1>3. Nat \subseteq T
  <2> HIDE DEF T
  <2> QED  BY <1>1, <1>2, Induction
<1> QED
  <2>1. n \in T
    <3> HIDE DEF T
    <3> QED  BY <1>3
  <2> QED  BY <2>1

\* Of more numbers than places, two share one.
LEMMA TwoShare ==
  ASSUME NEW n \in Nat, NEW T, IsFiniteSet(T), Cardinality(T) < n, NEW f \in [1..n -> T]
  PROVE  \E j, k \in 1..n : j < k /\ f[j] = f[k]
<1>1. PICK S : S = 1..n
  OBVIOUS
<1>2. IsFiniteSet(S) /\ Cardinality(S) = n
  BY <1>1, FS_Interval
<1>3. Cardinality(T) < Cardinality(S) /\ f \in [S -> T]
  BY <1>1, <1>2
<1>6. \E j, k \in S : j # k /\ f[j] = f[k]
  <2>1. IsFiniteSet(S) /\ Cardinality(T) < Cardinality(S)
    BY <1>2, <1>3
  <2> QED  BY <1>3, <2>1, FS_PigeonHole
<1>4. PICK j \in S, k \in S : j # k /\ f[j] = f[k]
  BY <1>6
<1>5. j \in 1..n /\ k \in 1..n /\ (j < k \/ k < j)
  BY <1>1, <1>4
<1> QED  BY <1>4, <1>5

Onto(f, n) == /\ \A x \in 1..n : \E k \in 1..n : f[k] = x
              /\ \A j, k \in 1..n : f[j] = f[k] => j = k

LEMMA OrderIsOnto ==
  ASSUME NEW n \in Nat, NEW R, TotalOrder(R, n), NEW f \in [1..n -> 1..n], OrderedBy(f, R, n)
  PROVE  Onto(f, n)
<1>1. ASSUME NEW j \in 1..n, NEW k \in 1..n, f[j] = f[k]
      PROVE  j = k
  <2>1. ~(j < k)
    BY <1>1 DEF OrderedBy, TotalOrder
  <2>2. ~(k < j)
    BY <1>1 DEF OrderedBy, TotalOrder
  <2> QED  BY <2>1, <2>2
<1>2. ASSUME NEW x \in 1..n, \A k \in 1..n : f[k] # x
      PROVE  FALSE
  <2>1. IsFiniteSet(1..n)
    BY FS_Interval
  <2>2. /\ IsFiniteSet((1..n) \ {x}) /\ Cardinality(1..n) \in Nat
        /\ Cardinality((1..n) \ {x}) = Cardinality(1..n) - 1
    BY <2>1, FS_RemoveElement, FS_CardinalityType
  <2>3. f \in [1..n -> (1..n) \ {x}]
    BY <1>2
  <2>4. Cardinality((1..n) \ {x}) < n /\ IsFiniteSet((1..n) \ {x})
    <3>1. Cardinality(1..n) = n
      BY FS_Interval
    <3> QED  BY <2>2, <3>1
  <2>5. \E j, k \in 1..n : j < k /\ f[j] = f[k]
    BY <2>3, <2>4, TwoShare, Zenon
  <2>6. \A j, k \in 1..n : j < k => j # k
    OBVIOUS
  <2> QED  BY <1>1, <2>5, <2>6, Zenon
<1> QED  BY <1>1, <1>2 DEF Onto

\* What is made step by step.
CanBeMade(n, V, base, G) ==
  \E h \in [0..n -> V] : h[0] = base /\ \A k \in 1..n : h[k] = G[k][h[k - 1]]

LEMMA StepsExist ==
  ASSUME NEW n \in Nat, NEW V, NEW base \in V, NEW G \in [1..n -> [V -> V]]
  PROVE  CanBeMade(n, V, base, G)
<1> SUFFICES \E h \in [0..n -> V] : h[0] = base /\ \A k \in 1..n : h[k] = G[k][h[k - 1]]
  BY DEF CanBeMade
<1> DEFINE Until(m) == \E h \in [0..n -> V] :
                         h[0] = base /\ \A k \in 1..n : k <= m => h[k] = G[k][h[k - 1]]
           T == {m \in Nat : Until(m)}
<1>1. 0 \in T
  <2>1. PICK h : h = [k \in 0..n |-> base]
    OBVIOUS
  <2>2. h \in [0..n -> V] /\ h[0] = base
    BY <2>1
  <2>3. \A k \in 1..n : ~(k <= 0)
    OBVIOUS
  <2> QED  BY <2>2, <2>3
<1>2. ASSUME NEW m \in Nat, m \in T
      PROVE  m + 1 \in T
  <2>1. PICK h \in [0..n -> V] :
          h[0] = base /\ \A k \in 1..n : k <= m => h[k] = G[k][h[k - 1]]
    BY <1>2
  <2>2. CASE m + 1 > n
    <3>1. \A k \in 1..n : k <= m
      BY <2>2
    <3>2. Until(m + 1)
      BY <2>1, <3>1
    <3> QED  BY <3>2
  <2>3. CASE m + 1 <= n
    <3>1. PICK g : g = [h EXCEPT ![m + 1] = G[m + 1][h[m]]]
      OBVIOUS
    <3>2. m + 1 \in 1..n /\ m + 1 \in 0..n /\ m \in 0..n /\ m # m + 1 /\ 0 # m + 1
      BY <2>3
    <3>3. G[m + 1][h[m]] \in V
      BY <2>1, <3>2
    <3>4. g \in [0..n -> V] /\ g[m + 1] = G[m + 1][h[m]]
      BY <2>1, <3>1, <3>2, <3>3
    <3>5. \A k \in 0..n : k # m + 1 => g[k] = h[k]
      BY <2>1, <3>1
    <3>6. g[0] = base
      BY <2>1, <3>2, <3>5
    <3>7. ASSUME NEW k \in 1..n, k <= m + 1
          PROVE  g[k] = G[k][g[k - 1]]
      <4>1. CASE k = m + 1
        <5>1. k - 1 = m
          BY <4>1
        <5>2. g[m] = h[m]
          BY <3>2, <3>5
        <5> QED  BY <3>4, <4>1, <5>1, <5>2
      <4>2. CASE k # m + 1
        <5>1. k <= m /\ k - 1 # m + 1 /\ k - 1 \in 0..n /\ k \in 0..n
          BY <3>7, <4>2
        <5> QED  BY <2>1, <3>5, <4>2, <5>1
      <4> QED  BY <4>1, <4>2
    <3>8. Until(m + 1)
      BY <3>4, <3>6, <3>7
    <3> QED  BY <3>8
  <2> QED  BY <2>2, <2>3
<1>3. n \in T
  <2> HIDE DEF T
  <2> QED  BY <1>1, <1>2, Induction
<1>4. Until(n)
  BY <1>3
<1> QED  BY <1>4

\* The numbers of a set in their order are all of them.
LEMMA ListsAll ==
  ASSUME NEW n \in Nat, NEW S \in SUBSET (1..n), NEW f \in [1..Cardinality(S) -> S],
         \A j, k \in DOMAIN f : j < k => f[j] < f[k]
  PROVE  /\ Cardinality(S) \in Nat
         /\ \A x \in S : \E k \in 1..Cardinality(S) : f[k] = x
<1>1. IsFiniteSet(S)
  <2>1. IsFiniteSet(1..n)
    BY FS_Interval
  <2> QED  BY <2>1, FS_Subset
<1>2. PICK c \in Nat : c = Cardinality(S)
  BY <1>1, FS_CardinalityType
<1>3. ASSUME NEW x \in S, \A k \in 1..c : f[k] # x
      PROVE  FALSE
  <2>1. /\ IsFiniteSet(S \ {x}) /\ Cardinality(S \ {x}) = c - 1
    BY <1>1, <1>2, FS_RemoveElement
  <2>2. f \in [1..c -> S \ {x}]
    BY <1>2, <1>3
  <2>3. Cardinality(S \ {x}) < c
    BY <2>1
  <2>4. \E j, k \in 1..c : j < k /\ f[j] = f[k]
    BY <2>1, <2>2, <2>3, TwoShare, Zenon
  <2>5. ASSUME NEW j \in 1..c, NEW k \in 1..c, j < k
        PROVE  f[j] # f[k]
    <3>1. f[j] < f[k] /\ f[j] \in 1..n /\ f[k] \in 1..n
      BY <1>2, <2>5
    <3> QED  BY <3>1
  <2> QED  BY <2>4, <2>5
<1> QED  BY <1>2, <1>3

\* Each joined sequence begins in its turn.
BeginInTurn(seqs) ==
  \A i, j \in DOMAIN seqs : i < j =>
    \E k, l \in DOMAIN FlattenSeq(seqs) :
      k < l /\ FlattenSeq(seqs)[k] = seqs[i][1] /\ FlattenSeq(seqs)[l] = seqs[j][1]

LEMMA FlattenBegins ==
  ASSUME NEW T, NEW seqs \in Seq(Seq(T)), \A i \in DOMAIN seqs : Len(seqs[i]) # 0
  PROVE  BeginInTurn(seqs)
<1>1. PICK n \in Nat : n = Len(seqs) /\ DOMAIN seqs = 1..n
  OBVIOUS
<1>2. \A i \in 1..n : seqs[i] \in Seq(T) /\ Len(seqs[i]) \in Nat \ {0}
  <2> SUFFICES ASSUME NEW i \in 1..n
               PROVE  seqs[i] \in Seq(T) /\ Len(seqs[i]) \in Nat \ {0}
    OBVIOUS
  <2>1. i \in DOMAIN seqs /\ Len(seqs[i]) # 0
    BY <1>1
  <2>2. PICK s \in Seq(T) : s = seqs[i]
    BY <2>1
  <2> QED  BY <2>1, <2>2
<1>3. CASE n = 0
  BY <1>1, <1>3 DEF BeginInTurn
<1>4. CASE n # 0
  <2>1. PICK h : Joins(h, seqs) /\ FlattenSeq(seqs) = h[n]
    BY <1>1, <1>4, FlattenSteps
  <2>2. /\ h[1] = seqs[1]
        /\ \A i \in 1..n : i # 1 => h[i] = h[i - 1] \o seqs[i]
    <3>1. \A i \in 1..n : h[i] = IF i = 1 THEN seqs[i] ELSE h[i - 1] \o seqs[i]
      BY <1>1, <2>1 DEF Joins
    <3>2. 1 \in 1..n
      BY <1>4
    <3> QED  BY <3>1, <3>2, Zenon
  <2>3. PICK at : at = [i \in 1..n |-> IF i = 1 THEN 1 ELSE Len(h[i - 1]) + 1]
    OBVIOUS
  <2> DEFINE Holds(m, i) == at[i] \in 1..Len(h[m]) /\ h[m][at[i]] = seqs[i][1]
             Whole(m) == h[m] \in Seq(T) /\ \A i \in 1..n : i <= m => Holds(m, i)
             M == {m \in Nat : m \in 1..n => Whole(m)}
  <2>4. 0 \in M
    OBVIOUS
  <2>5. ASSUME NEW m \in Nat, m \in M, m + 1 \in 1..n
        PROVE  Whole(m + 1)
    <3>1. CASE m = 0
      <4>1. h[1] \in Seq(T) /\ Len(h[1]) \in Nat \ {0} /\ h[1] = seqs[1] /\ at[1] = 1
        BY <1>2, <1>4, <2>2, <2>3, <2>5, <3>1
      <4>2. at[1] \in 1..Len(h[1])
        BY <4>1
      <4>3. Holds(1, 1)
        BY <4>1, <4>2
      <4>4. \A i \in 1..n : i <= 1 => i = 1
        OBVIOUS
      <4>5. m + 1 = 1
        BY <3>1
      <4> QED  BY <4>1, <4>3, <4>4, <4>5
    <3>2. CASE m # 0
      <4>1. m \in 1..n /\ Whole(m)
        <5>1. m \in 1..n
          BY <2>5, <3>2
        <5> QED  BY <2>5, <5>1
      <4>2. PICK p, q : p = h[m] /\ q = seqs[m + 1]
        OBVIOUS
      <4>3. p \in Seq(T) /\ q \in Seq(T) /\ Len(q) \in Nat \ {0} /\ Len(p) \in Nat
        BY <1>2, <2>5, <4>1, <4>2
      <4>4. h[m + 1] = p \o q
        <5>1. m + 1 # 1 /\ (m + 1) - 1 = m
          BY <3>2
        <5>2. h[m + 1] = h[(m + 1) - 1] \o seqs[m + 1]
          BY <2>2, <2>5, <5>1, Zenon
        <5> QED  BY <4>2, <5>1, <5>2, Zenon
      <4>5. /\ p \o q \in Seq(T) /\ Len(p \o q) = Len(p) + Len(q)
            /\ \A k \in 1..Len(p) : (p \o q)[k] = p[k]
            /\ (p \o q)[Len(p) + 1] = q[1]
        BY <4>3
      <4>6. Holds(m + 1, m + 1)
        <5>1. at[m + 1] = Len(p) + 1
          BY <2>3, <2>5, <3>2, <4>2
        <5>2. Len(p) + 1 \in 1..Len(p) + Len(q)
          BY <4>3
        <5> QED  BY <4>2, <4>4, <4>5, <5>1, <5>2
      <4>7. ASSUME NEW i \in 1..n, i <= m
            PROVE  Holds(m + 1, i)
        <5>1. at[i] \in 1..Len(p) /\ p[at[i]] = seqs[i][1]
          BY <4>1, <4>2, <4>7
        <5>2. at[i] \in 1..Len(p) + Len(q)
          BY <4>3, <5>1
        <5> QED  BY <4>4, <4>5, <5>1, <5>2
      <4>8. \A i \in 1..n : i <= m + 1 => i <= m \/ i = m + 1
        OBVIOUS
      <4> HIDE DEF Holds
      <4> QED  BY <4>4, <4>5, <4>6, <4>7, <4>8
    <3> QED  BY <3>1, <3>2
  <2>6. \A m \in 1..n : Whole(m)
    <3>1. \A m \in Nat : m \in M => m + 1 \in M
      <4> HIDE DEF Whole
      <4> QED  BY <2>5
    <3>2. Nat \subseteq M
      <4> HIDE DEF M
      <4> QED  BY <2>4, <3>1, Induction
    <3>3. 1..n \subseteq Nat
      OBVIOUS
    <3> HIDE DEF Whole
    <3> QED  BY <3>2, <3>3
  <2>7. ASSUME NEW i \in 1..n, NEW j \in 1..n, i < j
        PROVE  at[i] < at[j]
    <3>1. j - 1 \in 1..n /\ i <= j - 1 /\ j # 1
      BY <2>7
    <3>2. Holds(j - 1, i) /\ h[j - 1] \in Seq(T)
      BY <2>6, <3>1
    <3>3. at[j] = Len(h[j - 1]) + 1 /\ Len(h[j - 1]) \in Nat
      BY <2>3, <3>1, <3>2
    <3> QED  BY <3>2, <3>3
  <2>8. \A i \in 1..n : Holds(n, i) /\ h[n] \in Seq(T)
    <3>1. n \in 1..n /\ \A i \in 1..n : i <= n
      BY <1>4
    <3> QED  BY <2>6, <3>1
  <2>9. \A i \in 1..n : /\ at[i] \in DOMAIN FlattenSeq(seqs)
                        /\ FlattenSeq(seqs)[at[i]] = seqs[i][1]
    BY <2>1, <2>8
  <2>10. ASSUME NEW i \in DOMAIN seqs, NEW j \in DOMAIN seqs, i < j
         PROVE  \E k, l \in DOMAIN FlattenSeq(seqs) :
                  k < l /\ FlattenSeq(seqs)[k] = seqs[i][1] /\ FlattenSeq(seqs)[l] = seqs[j][1]
    <3>1. i \in 1..n /\ j \in 1..n
      BY <1>1
    <3>2. at[i] < at[j]
      BY <2>7, <2>10, <3>1
    <3> QED  BY <2>9, <3>1, <3>2, Zenon
  <2> QED  BY <2>10, Zenon DEF BeginInTurn
<1> QED  BY <1>3, <1>4

-----------------------------------------------------------------------------
(* Sequences from left to right: their induction, and FoldLeft over them.   *)

LEMMA OneAfterAnother ==
  ASSUME NEW S, NEW T, <<>> \in T, \A s \in Seq(S), x \in S : s \in T => Append(s, x) \in T
  PROVE  Seq(S) \subseteq T
<1> DEFINE M == {n \in Nat : \A s \in Seq(S) : Len(s) = n => s \in T}
<1>1. 0 \in M
  OBVIOUS
<1>2. ASSUME NEW n \in Nat, n \in M
      PROVE  n + 1 \in M
  <2> SUFFICES ASSUME NEW s \in Seq(S), Len(s) = n + 1
               PROVE  s \in T
    OBVIOUS
  <2>1. s # <<>>
    OBVIOUS
  <2>2. PICK r \in Seq(S), x \in S : s = Append(r, x)
    BY <2>1, SequenceEmptyOrAppend
  <2>3. Len(r) = n
    BY <2>2
  <2> QED  BY <1>2, <2>2, <2>3
<1>3. Nat \subseteq M
  <2> HIDE DEF M
  <2> QED  BY <1>1, <1>2, Induction
<1> QED  BY <1>3

\* it folds a sequence from left to right: G[x] is what its element x does.
TakesTurns(it, V, base, G, seq) ==
  /\ it[{}] = base
  /\ \A t \in SUBSET DOMAIN seq :
       t # {} /\ it[t \ {Max(t)}] \in V => it[t] = G[seq[Max(t)]][it[t \ {Max(t)}]]

LEMMA MaxIs ==
  ASSUME NEW n \in Nat, NEW t \in SUBSET (1..n), t # {}
  PROVE  Max(t) \in t /\ \A x \in t : x <= Max(t)
<1> DEFINE M == {k \in Nat : \A x \in t : x <= n - k}
           L == {k \in Nat : k <= n /\ n - k \in t}
<1>1. L \subseteq Nat /\ L # {}
  <2>1. PICK x \in t : TRUE
    OBVIOUS
  <2>2. x \in Nat /\ n - x \in Nat /\ n - x <= n /\ n - (n - x) = x
    OBVIOUS
  <2>3. n - x \in L
    BY <2>2
  <2> QED  BY <2>3
<1>2. PICK k \in L : \A m \in L : k <= m
  <2> HIDE DEF L
  <2> QED  BY <1>1, LeastNumber
<1>3. k \in Nat /\ k <= n /\ n - k \in t
  BY <1>2
<1>4. ASSUME NEW x \in t
      PROVE  x <= n - k
  <2>1. x \in Nat /\ x <= n /\ n - x \in Nat /\ n - x <= n /\ n - (n - x) = x
    OBVIOUS
  <2>2. n - x \in L
    BY <2>1
  <2>3. k <= n - x
    BY <1>2, <2>2
  <2> QED  BY <1>3, <2>1, <2>3
<1>5. PICK y : y = n - k
  OBVIOUS
<1>6. y \in t /\ \A x \in t : y >= x
  BY <1>3, <1>4, <1>5
<1>7. Max(t) \in t /\ \A x \in t : Max(t) >= x
  BY <1>6 DEF Max
<1> QED  BY <1>7

AreFolds(V, base, G, n, seq) ==
  \E pick : \E H \in [SUBSET (1..n) -> [V -> V]] :
    Picks(pick, 1..n) /\ \A it : TakesTurns(it, V, base, G, seq) <=> Folds(it, V, base, H, pick, 1..n)

LEMMA TurnsAreFolds ==
  ASSUME NEW O, NEW V, NEW base \in V, NEW G \in [O -> [V -> V]], NEW n \in Nat,
         NEW seq \in [1..n -> O]
  PROVE  AreFolds(V, base, G, n, seq)
<1>1. PICK pick : pick = [t \in SUBSET (1..n) |-> Max(t)]
  OBVIOUS
<1>2. PICK anyone : anyone = [v \in V |-> v]
  OBVIOUS
<1>3. PICK H : H = [t \in SUBSET (1..n) |-> IF t = {} THEN anyone ELSE G[seq[Max(t)]]]
  OBVIOUS
<1>4. \A t \in SUBSET (1..n) : t # {} => Max(t) \in t
  BY MaxIs
<1>5. H \in [SUBSET (1..n) -> [V -> V]]
  BY <1>2, <1>3, <1>4
<1>6. Picks(pick, 1..n)
  BY <1>1, <1>4 DEF Picks
<1>7. ASSUME NEW it
      PROVE  TakesTurns(it, V, base, G, seq) <=> Folds(it, V, base, H, pick, 1..n)
  <2>1. \A t \in SUBSET (1..n) : t # {} => pick[t] = Max(t) /\ H[t] = G[seq[Max(t)]]
    BY <1>1, <1>3
  <2>2. DOMAIN seq = 1..n
    OBVIOUS
  <2> QED  BY <2>1, <2>2 DEF TakesTurns, Folds
<1> QED  BY <1>5, <1>6, <1>7 DEF AreFolds

LEMMA TurnsExist ==
  ASSUME NEW O, NEW V, NEW base \in V, NEW G \in [O -> [V -> V]], NEW seq \in Seq(O)
  PROVE  \E it \in [SUBSET DOMAIN seq -> V] : TakesTurns(it, V, base, G, seq)
<1>1. PICK n \in Nat : n = Len(seq) /\ DOMAIN seq = 1..n /\ seq \in [1..n -> O]
  OBVIOUS
<1>2. PICK pick : \E H \in [SUBSET (1..n) -> [V -> V]] :
           Picks(pick, 1..n) /\ \A it : TakesTurns(it, V, base, G, seq) <=> Folds(it, V, base, H, pick, 1..n)
  <2>1. AreFolds(V, base, G, n, seq)
    BY <1>1, TurnsAreFolds
  <2> QED  BY <2>1 DEF AreFolds
<1>3. PICK H \in [SUBSET (1..n) -> [V -> V]] :
           Picks(pick, 1..n) /\ \A it : TakesTurns(it, V, base, G, seq) <=> Folds(it, V, base, H, pick, 1..n)
  BY <1>2
<1>4. IsFiniteSet(1..n)
  BY FS_Interval
<1>5. \E it \in [SUBSET (1..n) -> V] : Folds(it, V, base, H, pick, 1..n)
  BY <1>3, <1>4, FoldExists
<1> QED  BY <1>1, <1>3, <1>5

\* One element more is one turn more.
LEMMA TurnsAppend ==
  ASSUME NEW O, NEW V, NEW base \in V, NEW G \in [O -> [V -> V]], NEW seq \in Seq(O), NEW x \in O,
         NEW g, NEW h, TakesTurns(g, V, base, G, seq), TakesTurns(h, V, base, G, Append(seq, x))
  PROVE  /\ g[DOMAIN seq] \in V
         /\ h[DOMAIN Append(seq, x)] = G[x][g[DOMAIN seq]]
<1>1. PICK n \in Nat : n = Len(seq) /\ DOMAIN seq = 1..n /\ seq \in [1..n -> O]
  OBVIOUS
<1>2. PICK longer : longer = Append(seq, x)
  OBVIOUS
<1>3. /\ DOMAIN longer = 1..n + 1 /\ longer[n + 1] = x
      /\ \A k \in 1..n : longer[k] = seq[k]
  BY <1>1, <1>2
<1>4. \A t \in SUBSET (1..n) : t # {} => Max(t) \in 1..n
  BY MaxIs
<1>5. TakesTurns(h, V, base, G, seq)
  <2>1. \A t \in SUBSET (1..n) : t \in SUBSET DOMAIN longer
    BY <1>3
  <2>2. \A t \in SUBSET (1..n) : t # {} => longer[Max(t)] = seq[Max(t)]
    BY <1>3, <1>4
  <2> QED  BY <1>1, <1>2, <2>1, <2>2 DEF TakesTurns
<1>6. PICK pick : \E H \in [SUBSET (1..n) -> [V -> V]] :
           Picks(pick, 1..n) /\ \A it : TakesTurns(it, V, base, G, seq) <=> Folds(it, V, base, H, pick, 1..n)
  <2>1. AreFolds(V, base, G, n, seq)
    BY <1>1, TurnsAreFolds
  <2> QED  BY <2>1 DEF AreFolds
<1>7. PICK H \in [SUBSET (1..n) -> [V -> V]] :
           Picks(pick, 1..n) /\ \A it : TakesTurns(it, V, base, G, seq) <=> Folds(it, V, base, H, pick, 1..n)
  BY <1>6
<1>8. g[1..n] \in V /\ g[1..n] = h[1..n]
  <2>1. IsFiniteSet(1..n)
    BY FS_Interval
  <2>2. SameFold(g, h, V, 1..n)
    BY <1>5, <1>7, <2>1, FoldUnique
  <2> QED  BY <2>2 DEF SameFold
<1>9. PICK t : t = 1..n + 1
  OBVIOUS
<1>10. Max(t) = n + 1
  <2>1. n + 1 \in Nat /\ n + 1 \in t /\ t \in SUBSET (1..n + 1) /\ t # {}
    <3>1. n + 1 \in Nat /\ n + 1 \in 1..n + 1
      OBVIOUS
    <3> QED  BY <1>9, <3>1
  <2>2. Max(t) \in t /\ n + 1 <= Max(t)
    BY <2>1, MaxIs
  <2> QED  BY <1>9, <2>2
<1>11. t \ {Max(t)} = 1..n /\ t # {} /\ t \in SUBSET DOMAIN longer
  <2>1. \A y : y \in t <=> y \in 1..n \/ y = n + 1
    BY <1>9
  <2>2. n + 1 \notin 1..n
    OBVIOUS
  <2>3. t \ {n + 1} = 1..n
    BY <2>1, <2>2
  <2>4. t # {} /\ t = DOMAIN longer
    BY <1>3, <1>9, <2>1
  <2> QED  BY <1>10, <2>3, <2>4
<1>12. h[t] = G[longer[n + 1]][h[1..n]]
  BY <1>2, <1>8, <1>10, <1>11 DEF TakesTurns
<1> QED  BY <1>1, <1>2, <1>3, <1>8, <1>9, <1>12

LEMMA MaxIsElement ==
  ASSUME NEW O, NEW seq \in Seq(O), NEW t \in SUBSET DOMAIN seq, t # {}
  PROVE  Max(t) \in DOMAIN seq /\ seq[Max(t)] \in O
<1>1. DOMAIN seq = 1..Len(seq) /\ Len(seq) \in Nat
  OBVIOUS
<1>2. Max(t) \in DOMAIN seq
  BY <1>1, MaxIs
<1> QED  BY <1>2

\* value[s] is what folding s comes to.
Accumulates(value, O, V, base, G) ==
  /\ value[<<>>] = base
  /\ \A s \in Seq(O), x \in O : value[s] \in V /\ value[Append(s, x)] = G[x][value[s]]

LEMMA TurnsAreSteps ==
  ASSUME NEW O, NEW V, NEW base \in V, NEW G \in [O -> [V -> V]], NEW value,
         \A s \in Seq(O) : \E it : TakesTurns(it, V, base, G, s) /\ value[s] = it[DOMAIN s]
  PROVE  Accumulates(value, O, V, base, G)
<1>1. value[<<>>] = base
  <2>1. PICK s \in Seq(O) : s = <<>> /\ DOMAIN s = {}
    <3>1. <<>> \in Seq(O) /\ DOMAIN <<>> = {}
      OBVIOUS
    <3> QED  BY <3>1, Zenon
  <2>2. PICK it : TakesTurns(it, V, base, G, s) /\ value[s] = it[DOMAIN s]
    OBVIOUS
  <2> QED  BY <2>1, <2>2 DEF TakesTurns
<1>2. ASSUME NEW s \in Seq(O), NEW x \in O
      PROVE  value[s] \in V /\ value[Append(s, x)] = G[x][value[s]]
  <2>1. PICK g : TakesTurns(g, V, base, G, s) /\ value[s] = g[DOMAIN s]
    OBVIOUS
  <2>2. PICK longer \in Seq(O) : longer = Append(s, x)
    BY AppendProperties
  <2>3. PICK h : TakesTurns(h, V, base, G, longer) /\ value[longer] = h[DOMAIN longer]
    OBVIOUS
  <2>4. g[DOMAIN s] \in V /\ h[DOMAIN longer] = G[x][g[DOMAIN s]]
    BY <2>1, <2>2, <2>3, TurnsAppend
  <2> QED  BY <2>1, <2>2, <2>3, <2>4
<1> QED  BY <1>1, <1>2 DEF Accumulates
=============================================================================
