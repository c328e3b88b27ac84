------------------------------ MODULE Folding ------------------------------
(***************************************************************************)
(* Induction and folds for the proofs of the other modules.                *)
(*                                                                         *)
(* The theorems on induction of the library take a predicate, which cannot *)
(* be given to them in a proof.  Here a predicate is a set: a set of       *)
(* natural numbers with zero and every successor is all of them.           *)
(*                                                                         *)
(* MapThenFoldSet is a recursive function on the subsets of a set, that    *)
(* is, some function that satisfies an equation.  That there is one for    *)
(* every finite set, and what follows of a fold from its equation, is      *)
(* proved once for any Op, Map and Choose: a module that has a sum is an   *)
(* instance.                                                               *)
(***************************************************************************)
EXTENDS Integers, Sequences, FiniteSetTheorems, Folds, TLAPS

CONSTANTS
    Op(_, _), Base,   \* what is folded: Op(Map(f, i), the rest)
    Map(_, _),        \* what the index i stands for, given f
    Choose(_)         \* the index of a set that is taken off first

Fold(f, S) ==
    MapThenFoldSet(Op, Base, LAMBDA i : Map(f, i), LAMBDA s : Choose(s), S)

(* The same with a base of its own.                                        *)
FoldFrom(f, base, S) ==
    MapThenFoldSet(Op, base, LAMBDA i : Map(f, i), LAMBDA s : Choose(s), S)

-----------------------------------------------------------------------------
(* Natural numbers.                                                        *)

LEMMA LeastNatural ==
    ASSUME NEW T, T \subseteq Nat, T # {}
    PROVE  \E n \in T : \A m \in T : n <= m
<1>1. IsWellFoundedOn(OpToRel(<, Nat), Nat)
  BY NatLessThanWellFounded
<1>2. PICK n \in T : \A m \in T : <<m, n>> \notin OpToRel(<, Nat)
  BY <1>1, WFMin, Zenon
<1>3. \A m \in T : ~(m < n)
  BY <1>2 DEF OpToRel
<1>. QED
  BY <1>3

LEMMA NaturalInduction ==
    ASSUME NEW T, 0 \in T, \A n \in Nat : n \in T => n + 1 \in T
    PROVE  \A n \in Nat : n \in T
<1>. DEFINE others == {n \in Nat : n \notin T}
<1>. SUFFICES ASSUME others # {} PROVE FALSE
  OBVIOUS
<1>1. others \subseteq Nat
  OBVIOUS
<1>2. PICK n \in others : \A m \in others : n <= m
  BY <1>1, LeastNatural, Zenon
<1>3. n \in Nat /\ n # 0 /\ n \notin T
  OBVIOUS
<1>4. n - 1 \in Nat /\ n - 1 + 1 = n /\ n - 1 \notin others
  BY <1>2, <1>3
<1>. QED
  BY <1>3, <1>4

(* A bounded set of natural numbers has a greatest element.                *)
LEMMA GreatestNatural ==
    ASSUME NEW T, T \subseteq Nat, T # {}, NEW b \in Nat, \A n \in T : n <= b
    PROVE  \E n \in T : \A m \in T : m <= n
<1>. DEFINE bounds == {n \in Nat : \A m \in T : m <= n}
<1>1. bounds \subseteq Nat /\ bounds # {}
  OBVIOUS
<1>2. PICK n \in bounds : \A m \in bounds : n <= m
  BY <1>1, LeastNatural, Zenon
<1>3. n \in Nat /\ \A m \in T : m <= n
  OBVIOUS
<1>4. CASE n \in T
  BY <1>3, <1>4
<1>5. CASE n \notin T
  <2>1. n # 0
    <3>1. PICK m \in T : m \in Nat
      OBVIOUS
    <3>. QED
      BY <1>3, <1>5, <3>1
  <2>2. n - 1 \in Nat /\ \A m \in T : m <= n - 1
    BY <1>3, <1>5, <2>1
  <2>3. ~(n <= n - 1)
    BY <1>3
  <2>. QED
    BY <1>2, <2>2, <2>3
<1>. QED
  BY <1>4, <1>5

(* Induction on the size of a set takes elements off.                      *)
LEMMA OneLess ==
    ASSUME NEW s, IsFiniteSet(s), NEW n \in Nat, Cardinality(s) = n + 1
    PROVE  s # {} /\ \A c \in s : Cardinality(s \ {c}) = n
<1>1. s # {}
  BY FS_EmptySet
<1>2. \A c \in s : Cardinality(s \ {c}) = Cardinality(s) - 1
  BY FS_RemoveElement
<1>. QED
  BY <1>1, <1>2

(* A finite set of natural numbers is bounded.                             *)
LEMMA FiniteBound ==
    ASSUME NEW T, T \subseteq Nat, IsFiniteSet(T)
    PROVE  \E b \in Nat : \A n \in T : n <= b
<1>. DEFINE Has(s) == \E b \in Nat : \A n \in s : n <= b
            N == {n \in Nat : \A s \in SUBSET T : Cardinality(s) = n => Has(s)}
<1>1. \A s \in SUBSET T : IsFiniteSet(s) /\ Cardinality(s) \in Nat
  BY FS_Subset, FS_CardinalityType
<1>2. 0 \in N
  BY <1>1, FS_EmptySet
<1>3. ASSUME NEW n \in Nat, n \in N PROVE n + 1 \in N
  <2>1. ASSUME NEW s \in SUBSET T, Cardinality(s) = n + 1 PROVE Has(s)
    <3>1. s # {} /\ \A c \in s : Cardinality(s \ {c}) = n
      BY <1>1, <2>1, OneLess
    <3>2. PICK c \in s : c \in Nat
      BY <3>1
    <3>3. s \ {c} \in SUBSET T
      OBVIOUS
    <3>4. PICK b \in Nat : \A m \in s \ {c} : m <= b
      BY <1>3, <3>1, <3>3
    <3>5. \A m \in s : m <= b + c
      BY <3>2, <3>4
    <3>6. b + c \in Nat
      BY <3>2
    <3>. QED
      BY <3>5, <3>6
  <2>. HIDE DEF Has
  <2>. QED
    BY <2>1
<1>. HIDE DEF N
<1>4. \A n \in Nat : n \in N
  BY <1>2, <1>3, NaturalInduction
<1>. QED
  BY <1>1, <1>4 DEF N

-----------------------------------------------------------------------------
(* What is done n times, one on top of the other, has an outcome.          *)

IsLoop(f, start, g, n) ==
    g = [k \in 0..n |-> IF k = 0 THEN start ELSE Op(f, g[k - 1])]

LEMMA LoopExists ==
    ASSUME NEW f, NEW start, NEW n \in Nat
    PROVE  \E g : IsLoop(f, start, g, n)
<1>. DEFINE N == {m \in Nat : \E g : IsLoop(f, start, g, m)}
<1>1. 0 \in N
  <2>. DEFINE g == [k \in 0..0 |-> start]
  <2>1. IsLoop(f, start, g, 0)
    BY DEF IsLoop
  <2>. QED
    BY <2>1
<1>2. ASSUME NEW m \in Nat, m \in N PROVE m + 1 \in N
  <2>1. PICK g : IsLoop(f, start, g, m)
    BY <1>2
  <2>. DEFINE h == [k \in 0..m + 1 |-> IF k = 0 THEN start ELSE Op(f, g[k - 1])]
  <2>2. \A k \in 0..m : h[k] = g[k]
    BY <2>1 DEF IsLoop
  <2>3. \A k \in 0..m + 1 : k # 0 => k - 1 \in 0..m
    OBVIOUS
  <2>4. h = [k \in 0..m + 1 |-> IF k = 0 THEN start ELSE Op(f, h[k - 1])]
    BY <2>2, <2>3
  <2>. HIDE DEF h
  <2>5. IsLoop(f, start, h, m + 1)
    BY <2>4 DEF IsLoop
  <2>. QED
    BY <2>5
<1>. HIDE DEF N
<1>3. n \in N
  BY <1>1, <1>2, NaturalInduction
<1>. QED
  BY <1>3 DEF N

-----------------------------------------------------------------------------
(* The equation of a fold.                                                 *)

Chooses(S) == \A s \in SUBSET S : s # {} => Choose(s) \in s

Step(f, base, g, s) ==
    IF s = {} THEN base ELSE Op(Map(f, Choose(s)), g[s \ {Choose(s)}])
IsIter(f, base, g, X) == g = [s \in X |-> Step(f, base, g, s)]
Iter(f, base, S) == CHOOSE iter : IsIter(f, base, iter, SUBSET S)

LEMMA FoldIsIter == \A f, base, S : FoldFrom(f, base, S) = Iter(f, base, S)[S]
  BY DEF FoldFrom, MapThenFoldSet, Iter, IsIter, Step

(* The function exists, since it does for all subsets of any size.         *)
LEMMA IterExists ==
    ASSUME NEW f, NEW base, NEW S, IsFiniteSet(S), Chooses(S)
    PROVE  IsIter(f, base, Iter(f, base, S), SUBSET S)
<1>. DEFINE Small(n) == {s \in SUBSET S : Cardinality(s) <= n}
            T == {n \in Nat : \E g : IsIter(f, base, g, Small(n))}
<1>1. \A s \in SUBSET S : IsFiniteSet(s) /\ Cardinality(s) \in Nat
                          /\ Cardinality(s) <= Cardinality(S)
  BY FS_Subset, FS_CardinalityType
<1>2. 0 \in T
  <2>. DEFINE g == [s \in Small(0) |-> base]
  <2>1. \A s \in Small(0) : s = {}
    BY <1>1, FS_EmptySet
  <2>2. IsIter(f, base, g, Small(0))
    BY <2>1 DEF IsIter, Step
  <2>. QED
    BY <2>2
<1>3. ASSUME NEW n \in Nat, n \in T PROVE n + 1 \in T
  <2>1. PICK g : IsIter(f, base, g, Small(n))
    BY <1>3
  <2>. DEFINE h == [s \in Small(n + 1) |-> Step(f, base, g, s)]
  <2>2. ASSUME NEW s \in Small(n + 1) PROVE Step(f, base, h, s) = Step(f, base, g, s)
    <3>1. CASE s = {}
      BY <3>1 DEF Step
    <3>2. CASE s # {}
      <4>. DEFINE rest == s \ {Choose(s)}
      <4>1. Choose(s) \in s
        BY <3>2 DEF Chooses
      <4>2. Cardinality(rest) = Cardinality(s) - 1
        BY <1>1, <4>1, FS_RemoveElement
      <4>3. rest \in Small(n) /\ rest \in Small(n + 1)
        BY <1>1, <4>2
      <4>4. h[rest] = g[rest]
        BY <2>1, <4>3 DEF IsIter
      <4>. QED
        BY <3>2, <4>4 DEF Step
    <3>. QED
      BY <3>1, <3>2
  <2>3. IsIter(f, base, h, Small(n + 1))
    BY <2>2 DEF IsIter
  <2>. HIDE DEF h, Small
  <2>4. n + 1 \in Nat
    OBVIOUS
  <2>. QED
    BY <2>3, <2>4
<1>. HIDE DEF T
<1>4. Cardinality(S) \in T
  BY <1>2, <1>3, NaturalInduction, FS_CardinalityType
<1>5. Small(Cardinality(S)) = SUBSET S
  BY <1>1
<1>6. \E g : IsIter(f, base, g, SUBSET S)
  BY <1>4, <1>5 DEF T
<1>. QED
  BY <1>6 DEF Iter

(* On a subset the fold is the same function.                              *)
LEMMA IterAgrees ==
    ASSUME NEW f, NEW base, NEW S, IsFiniteSet(S), Chooses(S), NEW T \in SUBSET S
    PROVE  \A s \in SUBSET T : Iter(f, base, T)[s] = Iter(f, base, S)[s]
<1>. DEFINE N == {n \in Nat : \A s \in SUBSET T : Cardinality(s) = n
                                  => Iter(f, base, T)[s] = Iter(f, base, S)[s]}
<1>1. IsFiniteSet(T) /\ Chooses(T)
  BY FS_Subset DEF Chooses
<1>2. /\ \A s \in SUBSET T : Iter(f, base, T)[s] = Step(f, base, Iter(f, base, T), s)
      /\ \A s \in SUBSET T : Iter(f, base, S)[s] = Step(f, base, Iter(f, base, S), s)
  <2>1. \A s \in SUBSET T : s \in SUBSET S
    OBVIOUS
  <2>2. IsIter(f, base, Iter(f, base, T), SUBSET T) /\ IsIter(f, base, Iter(f, base, S), SUBSET S)
    BY <1>1, IterExists
  <2>3. \A g, X : IsIter(f, base, g, X) => \A s \in X : g[s] = Step(f, base, g, s)
    BY DEF IsIter
  <2>. QED
    BY <2>1, <2>2, <2>3
<1>3. \A s \in SUBSET T : IsFiniteSet(s) /\ Cardinality(s) \in Nat
  BY <1>1, FS_Subset, FS_CardinalityType
<1>4. 0 \in N
  <2>1. \A s \in SUBSET T : Cardinality(s) = 0 => s = {}
    BY <1>3, FS_EmptySet
  <2>. QED
    BY <1>2, <2>1 DEF Step
<1>5. ASSUME NEW n \in Nat, n \in N PROVE n + 1 \in N
  <2>. SUFFICES ASSUME NEW s \in SUBSET T, Cardinality(s) = n + 1
                PROVE  Iter(f, base, T)[s] = Iter(f, base, S)[s]
    OBVIOUS
  <2>1. s # {}
    BY FS_EmptySet
  <2>2. Choose(s) \in s
    BY <1>1, <2>1 DEF Chooses
  <2>. DEFINE rest == s \ {Choose(s)}
  <2>3. rest \in SUBSET T /\ Cardinality(rest) = n
    BY <1>3, <2>2, FS_RemoveElement
  <2>4. Iter(f, base, T)[rest] = Iter(f, base, S)[rest]
    BY <1>5, <2>3
  <2>. QED
    BY <1>2, <2>1, <2>4 DEF Step
<1>. HIDE DEF N
<1>6. \A n \in Nat : n \in N
  BY <1>4, <1>5, NaturalInduction
<1>. QED
  BY <1>3, <1>6 DEF N

(* A fold over nothing is the base; one over a finite set takes an index   *)
(* off.                                                                    *)
LEMMA FromNothing == ASSUME NEW f, NEW base PROVE FoldFrom(f, base, {}) = base
<1>1. IsFiniteSet({}) /\ Chooses({})
  BY FS_EmptySet DEF Chooses
<1>2. IsIter(f, base, Iter(f, base, {}), SUBSET {})
  BY <1>1, IterExists
<1>3. \A g : IsIter(f, base, g, SUBSET {}) => g[{}] = base
  BY DEF IsIter, Step
<1>. QED
  BY <1>2, <1>3, FoldIsIter

LEMMA FromUnfolds ==
    ASSUME NEW f, NEW base, NEW S, IsFiniteSet(S), Chooses(S), S # {}
    PROVE  /\ Choose(S) \in S
           /\ FoldFrom(f, base, S) = Op(Map(f, Choose(S)), FoldFrom(f, base, S \ {Choose(S)}))
<1>. DEFINE rest == S \ {Choose(S)}
<1>1. IsIter(f, base, Iter(f, base, S), SUBSET S)
  BY IterExists
<1>2. \A g : IsIter(f, base, g, SUBSET S) => g[S] = Step(f, base, g, S)
  BY DEF IsIter
<1>3. Iter(f, base, S)[S] = Op(Map(f, Choose(S)), Iter(f, base, S)[rest])
  BY <1>1, <1>2 DEF Step
<1>4. Iter(f, base, rest)[rest] = Iter(f, base, S)[rest]
  BY IterAgrees
<1>. QED
  BY <1>3, <1>4, FoldIsIter DEF Chooses

LEMMA FoldIsFrom == \A f, S : Fold(f, S) = FoldFrom(f, Base, S)
  BY DEF Fold, FoldFrom

LEMMA FoldNothing == ASSUME NEW f PROVE Fold(f, {}) = Base
  BY FromNothing, FoldIsFrom

LEMMA FoldUnfolds ==
    ASSUME NEW f, NEW S, IsFiniteSet(S), Chooses(S), S # {}
    PROVE  /\ Choose(S) \in S
           /\ Fold(f, S) = Op(Map(f, Choose(S)), Fold(f, S \ {Choose(S)}))
  BY FromUnfolds, FoldIsFrom

-----------------------------------------------------------------------------
(* Folds of an operator for which the order does not matter.               *)

IsSum(D) ==
    /\ Base \in D
    /\ \A x, y \in D : Op(x, y) \in D /\ Op(x, y) = Op(y, x)
    /\ \A x, y, z \in D : Op(x, Op(y, z)) = Op(Op(x, y), z)
    /\ \A x \in D : Op(x, Base) = x

LEMMA SumTyped ==
    ASSUME NEW D, IsSum(D), NEW f, NEW S, IsFiniteSet(S), Chooses(S),
           \A i \in S : Map(f, i) \in D
    PROVE  Fold(f, S) \in D
<1>. DEFINE N == {n \in Nat : \A s \in SUBSET S : Cardinality(s) = n => Fold(f, s) \in D}
<1>1. \A s \in SUBSET S :
        IsFiniteSet(s) /\ Cardinality(s) \in Nat /\ Chooses(s)
  BY FS_Subset, FS_CardinalityType DEF Chooses
<1>2. 0 \in N
  BY <1>1, FS_EmptySet, FoldNothing DEF IsSum
<1>3. ASSUME NEW n \in Nat, n \in N PROVE n + 1 \in N
  <2>1. ASSUME NEW s \in SUBSET S, Cardinality(s) = n + 1 PROVE Fold(f, s) \in D
    <3>. DEFINE c == Choose(s)
    <3>1. s # {}
      BY <2>1, FS_EmptySet
    <3>2. c \in s /\ Fold(f, s) = Op(Map(f, c), Fold(f, s \ {c}))
      BY <1>1, <3>1, FoldUnfolds
    <3>3. Cardinality(s \ {c}) = n
      BY <1>1, <2>1, <3>2, OneLess
    <3>4. Fold(f, s \ {c}) \in D
      BY <1>3, <3>3
    <3>. QED
      BY <3>2, <3>4 DEF IsSum
  <2>. QED
    BY <2>1
<1>. HIDE DEF N
<1>4. \A n \in Nat : n \in N
  BY <1>2, <1>3, NaturalInduction
<1>. QED
  BY <1>1, <1>4 DEF N

(* Sums are of the domain, and whichever index is taken off first is the   *)
(* same.                                                                   *)
LEMMA SumTakesOff ==
    ASSUME NEW D, IsSum(D), NEW f, NEW S, IsFiniteSet(S), Chooses(S),
           \A i \in S : Map(f, i) \in D
    PROVE  /\ Fold(f, S) \in D
           /\ \A i \in S : Fold(f, S) = Op(Map(f, i), Fold(f, S \ {i}))
<1>. DEFINE Right(s) ==
              /\ Fold(f, s) \in D
              /\ \A i \in s : Fold(f, s) = Op(Map(f, i), Fold(f, s \ {i}))
            N == {n \in Nat : \A s \in SUBSET S : Cardinality(s) = n => Right(s)}
<1>1. \A s \in SUBSET S :
        IsFiniteSet(s) /\ Cardinality(s) \in Nat /\ Chooses(s)
  BY FS_Subset, FS_CardinalityType DEF Chooses
<1>2. 0 \in N
  <2>1. \A s \in SUBSET S : Cardinality(s) = 0 => s = {}
    BY <1>1, FS_EmptySet
  <2>2. Right({})
    BY FoldNothing DEF IsSum
  <2>. HIDE DEF Right
  <2>. QED
    BY <2>1, <2>2
<1>3. ASSUME NEW n \in Nat, n \in N PROVE n + 1 \in N
  <2>1. ASSUME NEW s \in SUBSET S, Cardinality(s) = n + 1 PROVE Right(s)
    <3>. DEFINE c == Choose(s)
                rest == s \ {c}
    <3>1. s # {}
      BY <2>1, FS_EmptySet
    <3>2. c \in s /\ Fold(f, s) = Op(Map(f, c), Fold(f, rest))
      BY <1>1, <3>1, FoldUnfolds
    <3>3. \A i \in s : Cardinality(s \ {i}) = n
      BY <1>1, <2>1, OneLess
    <3>4. \A i \in s : Right(s \ {i})
      BY <1>3, <3>3
    <3>5. Map(f, c) \in D /\ Fold(f, rest) \in D
      BY <3>2, <3>4
    <3>6. Fold(f, s) \in D
      BY <3>2, <3>5 DEF IsSum
    <3>. HIDE DEF c
    <3>7. ASSUME NEW i \in s, i # c
          PROVE  Fold(f, s) = Op(Map(f, i), Fold(f, s \ {i}))
      <4>. DEFINE both == s \ {c, i}
      <4>1. rest \ {i} = both /\ (s \ {i}) \ {c} = both
        OBVIOUS
      <4>2. Fold(f, rest) = Op(Map(f, i), Fold(f, both))
        BY <3>2, <3>4, <3>7, <4>1
      <4>3. Fold(f, s \ {i}) = Op(Map(f, c), Fold(f, both))
        BY <3>2, <3>4, <3>7, <4>1
      <4>4. Fold(f, both) \in D /\ Map(f, i) \in D /\ Map(f, c) \in D
        <5>1. both \in SUBSET S
          OBVIOUS
        <5>2. IsFiniteSet(both) /\ Chooses(both) /\ \A j \in both : Map(f, j) \in D
          BY <1>1, <5>1
        <5>. HIDE DEF both
        <5>3. Fold(f, both) \in D
          BY <5>2, SumTyped
        <5>. QED
          BY <3>2, <5>3
      <4>5. Op(Map(f, c), Op(Map(f, i), Fold(f, both)))
            = Op(Map(f, i), Op(Map(f, c), Fold(f, both)))
        BY <4>4 DEF IsSum
      <4>. QED
        BY <3>2, <4>2, <4>3, <4>5
    <3>. QED
      BY <3>2, <3>6, <3>7
  <2>. HIDE DEF Right
  <2>. QED
    BY <2>1
<1>. HIDE DEF N
<1>4. \A n \in Nat : n \in N
  BY <1>2, <1>3, NaturalInduction
<1>. QED
  BY <1>1, <1>4 DEF N

(* What is not looked at does not matter.                                  *)
LEMMA FoldSame ==
    ASSUME NEW f, NEW g, NEW S, IsFiniteSet(S), Chooses(S),
           \A i \in S : Map(f, i) = Map(g, i)
    PROVE  Fold(f, S) = Fold(g, S)
<1>. DEFINE N == {n \in Nat :
                    \A s \in SUBSET S : Cardinality(s) = n => Fold(f, s) = Fold(g, s)}
<1>1. \A s \in SUBSET S :
        IsFiniteSet(s) /\ Cardinality(s) \in Nat /\ Chooses(s)
  BY FS_Subset, FS_CardinalityType DEF Chooses
<1>2. 0 \in N
  BY <1>1, FS_EmptySet, FoldNothing
<1>3. ASSUME NEW n \in Nat, n \in N PROVE n + 1 \in N
  <2>1. ASSUME NEW s \in SUBSET S, Cardinality(s) = n + 1
        PROVE  Fold(f, s) = Fold(g, s)
    <3>. DEFINE c == Choose(s)
    <3>1. s # {}
      BY <2>1, FS_EmptySet
    <3>2. /\ c \in s
          /\ Fold(f, s) = Op(Map(f, c), Fold(f, s \ {c}))
          /\ Fold(g, s) = Op(Map(g, c), Fold(g, s \ {c}))
      BY <1>1, <3>1, FoldUnfolds
    <3>3. Cardinality(s \ {c}) = n
      BY <1>1, <2>1, <3>2, OneLess
    <3>. QED
      BY <1>3, <3>2, <3>3
  <2>. QED
    BY <2>1
<1>. HIDE DEF N
<1>4. \A n \in Nat : n \in N
  BY <1>2, <1>3, NaturalInduction
<1>. QED
  BY <1>1, <1>4 DEF N

(* The sum over two sets apart is the sum of both.                         *)
LEMMA SumApart ==
    ASSUME NEW D, IsSum(D), NEW f, NEW S, IsFiniteSet(S),
           NEW T, IsFiniteSet(T), S \cap T = {}, Chooses(S \cup T),
           \A i \in S \cup T : Map(f, i) \in D
    PROVE  Fold(f, S \cup T) = Op(Fold(f, S), Fold(f, T))
<1>. DEFINE N == {n \in Nat : \A s \in SUBSET S : Cardinality(s) = n
                                => Fold(f, s \cup T) = Op(Fold(f, s), Fold(f, T))}
<1>1. \A s \in SUBSET S :
        IsFiniteSet(s) /\ Cardinality(s) \in Nat /\ Chooses(s)
  BY FS_Subset, FS_CardinalityType DEF Chooses
<1>2. \A s \in SUBSET S : IsFiniteSet(s \cup T) /\ Chooses(s \cup T)
  BY <1>1, FS_Union DEF Chooses
<1>3. Chooses(T) /\ Fold(f, T) \in D
  BY SumTyped DEF Chooses
<1>4. 0 \in N
  <2>1. \A s \in SUBSET S : Cardinality(s) = 0 => s = {}
    BY <1>1, FS_EmptySet
  <2>2. {} \cup T = T /\ Op(Base, Fold(f, T)) = Fold(f, T)
    BY <1>3 DEF IsSum
  <2>. QED
    BY <2>1, <2>2, FoldNothing
<1>5. ASSUME NEW n \in Nat, n \in N PROVE n + 1 \in N
  <2>1. ASSUME NEW s \in SUBSET S, Cardinality(s) = n + 1
        PROVE  Fold(f, s \cup T) = Op(Fold(f, s), Fold(f, T))
    <3>1. s # {}
      BY <2>1, FS_EmptySet
    <3>2. PICK c \in s : TRUE
      BY <3>1
    <3>3. Cardinality(s \ {c}) = n /\ s \ {c} \in SUBSET S
      BY <1>1, <2>1, OneLess
    <3>4. Fold(f, (s \ {c}) \cup T) = Op(Fold(f, s \ {c}), Fold(f, T))
      BY <1>5, <3>3
    <3>5. (s \cup T) \ {c} = (s \ {c}) \cup T
      OBVIOUS
    <3>6. Fold(f, s \cup T) = Op(Map(f, c), Fold(f, (s \cup T) \ {c}))
      BY <1>2, SumTakesOff
    <3>7. Fold(f, s) = Op(Map(f, c), Fold(f, s \ {c}))
      BY <1>1, SumTakesOff
    <3>8. Map(f, c) \in D /\ Fold(f, s \ {c}) \in D
      BY <1>1, <3>3, SumTyped
    <3>9. \A x, y, z \in D : Op(x, Op(y, z)) = Op(Op(x, y), z)
      BY DEF IsSum
    <3>10. Op(Map(f, c), Op(Fold(f, s \ {c}), Fold(f, T)))
           = Op(Op(Map(f, c), Fold(f, s \ {c})), Fold(f, T))
      BY <1>3, <3>8, <3>9
    <3>11. Fold(f, (s \cup T) \ {c}) = Op(Fold(f, s \ {c}), Fold(f, T))
      BY <3>4, <3>5, Zenon
    <3>. QED
      BY <3>6, <3>7, <3>10, <3>11, Zenon
  <2>. QED
    BY <2>1
<1>. HIDE DEF N
<1>6. \A n \in Nat : n \in N
  BY <1>4, <1>5, NaturalInduction
<1>. QED
  BY <1>1, <1>6 DEF N
=============================================================================
