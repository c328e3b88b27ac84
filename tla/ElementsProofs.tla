--------------------------- MODULE ElementsProofs ---------------------------
(***************************************************************************)
(* What belongs to Elements: the selection of coins of an asset and the    *)
(* blinding of a PSET.                                                     *)
(*                                                                         *)
(* The search of wally_coinselect_assets never leaves its arrays, for every*)
(* list of values, target, ratio and limit.  TypeOK and InBounds are       *)
(* inductive together with the fact that a call keeps its arguments.  What *)
(* makes them so is the sentinel: behind the last value nothing remains,   *)
(* and a branch that cannot reach the target is given up, so that no value *)
(* is read or selected there.  A selection that it returns when it has not *)
(* been stopped is a best one: whatever was cut or skipped is beaten.      *)
(*                                                                         *)
(* The scalars of a PSET account for what is blinded, and a PSET that is   *)
(* blinded balances: for any number of inputs, outputs, owners and copies, *)
(* and whatever the order of the calls.  The sums are folds over sets.     *)
(***************************************************************************)
EXTENDS CoinSelect, PsetBlind, SequenceTheorems, FiniteSetTheorems, TLAPS

Inv ==
    /\ problem \in Problems
    /\ TypeOK
    /\ InBounds

(* What the actions need to know of the arguments.                         *)
LEMMA ArgumentTypes ==
    ASSUME problem \in Problems
    PROVE  /\ values \in Seq(Nat) /\ Len(values) \in Nat \ {0}
           /\ target \in Nat \ {0} /\ problem.ratio \in Nat \ {0}
           /\ problem.attempts \in Nat
<1>1. values \in Seq(Nat) /\ values # <<>>
  BY ProblemsAssumption DEF values
<1>2. Len(values) \in Nat /\ Len(values) # 0
  BY <1>1
<1>. QED
  BY <1>1, <1>2, ProblemsAssumption DEF target

(* A value is selected or passed over only in front of the sentinel.       *)
LEMMA IncludesBeforeSentinel ==
    ASSUME Inv, MayInclude
    PROVE  next \in 1..Len(values) /\ Len(chosen) < MaxAssets
<1>1. sum \in Int /\ target \in Int
  BY ArgumentTypes DEF Inv, TypeOK
<1>2. ~(sum + Remaining(next) < target) /\ sum < target
  BY <1>1 DEF MayInclude, CannotReach, Reaches
<1>3. ~(next > Len(values))
  BY <1>1, <1>2 DEF Remaining
<1>4. next \in 1..Len(values)
  BY <1>3, ArgumentTypes DEF Inv, InBounds
<1>5. Len(chosen) < MaxAssets
  BY BoundsAssumption DEF MayInclude, IsCut, Inv, TypeOK
<1>. QED
  BY <1>4, <1>5

(* What is left of a sequence when it is cut behind a position.            *)
LEMMA PrefixOfSequence ==
    ASSUME NEW S, NEW s \in Seq(S), NEW n \in Nat, n <= Len(s)
    PROVE  /\ SubSeq(s, 1, n) \in Seq(S)
           /\ Len(SubSeq(s, 1, n)) = n
           /\ \A i \in 1..n : SubSeq(s, 1, n)[i] = s[i]
<1>1. \A i \in 1..n : s[i] \in S
  OBVIOUS
<1>2. /\ SubSeq(s, 1, n) \in Seq(S)
      /\ Len(SubSeq(s, 1, n)) = IF 1 <= n THEN n - 1 + 1 ELSE 0
      /\ \A i \in 1..(n - 1 + 1) : SubSeq(s, 1, n)[i] = s[1 + i - 1]
  BY <1>1, SubSeqProperties
<1>3. n - 1 + 1 = n /\ \A i \in 1..n : 1 + i - 1 = i
  OBVIOUS
<1>4. Len(SubSeq(s, 1, n)) = n
  BY <1>2
<1>5. \A i \in 1..n : SubSeq(s, 1, n)[i] = s[i]
  BY <1>2, <1>3
<1>. QED
  BY <1>2, <1>4, <1>5

(* The index that is taken off the stack lies behind all that stay.        *)
LEMMA BacktrackStaysInBounds ==
    ASSUME Inv, Backtrack, problem' = problem
    PROVE  /\ next' \in Nat /\ chosen' \in Seq(Nat) /\ sum' \in Int
           /\ InBounds'
           /\ status' \in {status, "searched"}
<1>. USE DEF Inv, TypeOK
<1>1. values' = values
  BY DEF values
<1>2. CASE chosen = <<>>
  BY <1>1, <1>2 DEF Backtrack, InBounds
<1>3. CASE chosen # <<>>
  <2>1. Len(chosen) \in Nat \ {0} /\ Last(chosen) = chosen[Len(chosen)]
    BY <1>3 DEF Last
  <2>2. /\ Last(chosen) \in 1..(next - 1)
        /\ Last(chosen) \in 1..Len(values)
    BY <2>1, ArgumentTypes DEF InBounds
  <2>3. values[Last(chosen)] \in Nat
    BY <2>2, ArgumentTypes
  <2>4. /\ next' = Last(chosen) + 1
        /\ chosen' = Front(chosen)
        /\ sum' = sum - values[Last(chosen)]
        /\ status' = status
    BY <1>3 DEF Backtrack
  <2>5. /\ chosen' \in Seq(Nat) /\ Len(chosen') = Len(chosen) - 1
        /\ \A i \in 1..(Len(chosen) - 1) : chosen'[i] = chosen[i]
    <3>1. chosen' = SubSeq(chosen, 1, Len(chosen) - 1)
      BY <2>4 DEF Front
    <3>. DEFINE m == Len(chosen) - 1
    <3>2. m \in Nat /\ m <= Len(chosen) /\ chosen \in Seq(Nat)
      BY <2>1
    <3>. HIDE DEF m
    <3>3. /\ SubSeq(chosen, 1, m) \in Seq(Nat)
          /\ Len(SubSeq(chosen, 1, m)) = m
          /\ \A i \in 1..m : SubSeq(chosen, 1, m)[i] = chosen[i]
      BY <3>2, PrefixOfSequence
    <3>. QED
      BY <3>1, <3>3 DEF m
  <2>6. next' \in Nat /\ sum' \in Int
    BY <2>2, <2>3, <2>4
  <2>7. InBounds'
    <3>1. next' \in 1..(Len(values') + 1)
      <4>1. Len(values) \in Nat
        BY ArgumentTypes
      <4>. QED
        BY ONLY <1>1, <2>2, <2>4, <4>1
    <3>2. Len(chosen') <= MaxAssets
      BY <2>1, <2>5, BoundsAssumption DEF InBounds
    <3>3. \A i \in 1..Len(chosen') : chosen'[i] \in 1..(next' - 1)
      <4>. SUFFICES ASSUME NEW i \in 1..(Len(chosen) - 1)
                    PROVE  chosen[i] \in 1..(next' - 1)
        BY <2>5
      <4>1. i \in 1..Len(chosen) /\ Len(chosen) \in 1..Len(chosen)
            /\ i < Len(chosen)
        BY <2>1
      <4>2. chosen[i] < chosen[Len(chosen)] /\ chosen[i] \in 1..(next - 1)
        BY <4>1 DEF InBounds
      <4>3. next' - 1 = chosen[Len(chosen)] /\ chosen[Len(chosen)] \in Nat
        <5>1. Last(chosen) \in Nat
          BY ONLY <2>2, next \in Nat
        <5>. QED
          BY ONLY <2>1, <2>4, <5>1
      <4>. QED
        BY <4>2, <4>3
    <3>4. \A i, j \in 1..Len(chosen') : i < j => chosen'[i] < chosen'[j]
      <4>. SUFFICES ASSUME NEW i \in 1..Len(chosen'),
                           NEW j \in 1..Len(chosen'), i < j
                    PROVE  chosen'[i] < chosen'[j]
        OBVIOUS
      <4>1. i \in 1..Len(chosen) /\ j \in 1..Len(chosen)
        BY ONLY <2>1, <2>5, i \in 1..Len(chosen'), j \in 1..Len(chosen')
      <4>2. chosen'[i] = chosen[i] /\ chosen'[j] = chosen[j]
        BY <2>5
      <4>. QED
        BY <4>1, <4>2 DEF InBounds
    <3>. QED
      BY <3>1, <3>2, <3>3, <3>4 DEF InBounds
  <2>. QED
    BY <2>4, <2>5, <2>6, <2>7
<1>. QED
  BY <1>2, <1>3

LEMMA InitInv == Init => Inv
<1>. SUFFICES ASSUME Init PROVE Inv
  OBVIOUS
<1>1. problem \in Problems
  BY DEF Init
<1>2. TypeOK
  BY <1>1, ArgumentTypes, BoundsAssumption DEF Init, TypeOK
<1>3. InBounds
  BY <1>1, ArgumentTypes, BoundsAssumption DEF Init, InBounds
<1>. QED
  BY <1>1, <1>2, <1>3 DEF Inv

(* What an attempt changes besides the search itself.                      *)
LEMMA AttemptCounts ==
    ASSUME Inv, Attempt
    PROVE  /\ problem' = problem /\ values' = values
           /\ attempt' \in 0..problem.attempts
<1>. USE DEF Inv, TypeOK
<1>1. problem' = problem /\ values' = values
  BY DEF Attempt, values
<1>2. attempt' \in 0..problem.attempts
  BY ArgumentTypes DEF Attempt
<1>. QED
  BY <1>1, <1>2

LEMMA NextInv == Inv /\ [Next]_vars => Inv'
<1>. SUFFICES ASSUME Inv, [Next]_vars PROVE Inv'
  OBVIOUS
<1>. USE DEF Inv, TypeOK
<1>1. CASE GiveUp
  <2>1. Attempt /\ Backtrack /\ best' = best
    BY <1>1 DEF GiveUp
  <2>. QED
    BY <2>1, AttemptCounts, BacktrackStaysInBounds
<1>2. CASE Consider
  <2>1. Attempt
    BY <1>2 DEF Consider
  <2>2. /\ next' \in Nat /\ chosen' \in Seq(Nat) /\ sum' \in Int
        /\ InBounds'
        /\ status' \in {status, "searched", "perfect"}
    <3>1. CASE Backtrack
      BY <2>1, <3>1, AttemptCounts, BacktrackStaysInBounds
    <3>2. CASE status' = "perfect" /\ UNCHANGED <<next, chosen, sum>>
      BY <2>1, <3>2, AttemptCounts DEF InBounds
    <3>. QED
      BY <1>2, <3>1, <3>2 DEF Consider
  <2>3. best'.score \in 0..MaxScore /\ best'.chosen \in Seq(1..Len(values))
    <3>1. CASE IsBetter
      <4>1. best' = [score |-> Score, sum |-> sum, chosen |-> chosen]
        BY <1>2, <3>1 DEF Consider
      <4>2. Score \in 0..MaxScore
        <5>1. ScoreOf(Len(chosen), sum = target) \in Nat
          BY ArgumentTypes DEF ScoreOf
        <5>. QED
          BY <5>1, BoundsAssumption DEF Score
      <4>3. chosen \in Seq(1..Len(values))
        <5>1. Len(values) \in Nat
          BY ArgumentTypes
        <5>2. \A k \in 1..(next - 1) : k \in 1..Len(values)
          BY <5>1 DEF InBounds
        <5>3. \A i \in 1..Len(chosen) : chosen[i] \in 1..Len(values)
          BY <5>2 DEF InBounds
        <5>. QED
          BY ONLY <5>3, chosen \in Seq(Nat)
      <4>. QED
        BY <4>1, <4>2, <4>3
    <3>2. CASE ~IsBetter
      BY <1>2, <3>2 DEF Consider
    <3>. QED
      BY <3>1, <3>2
  <2>. QED
    BY <2>1, <2>2, <2>3, AttemptCounts
<1>3. CASE Include
  <2>1. /\ Attempt /\ MayInclude
        /\ chosen' = Append(chosen, next)
        /\ sum' = sum + values[next]
        /\ next' = next + 1
        /\ best' = best /\ status' = status
    BY <1>3 DEF Include
  <2>2. next \in 1..Len(values) /\ Len(chosen) < MaxAssets
    BY <2>1, IncludesBeforeSentinel
  <2>3. values[next] \in Nat
    BY <2>2, ArgumentTypes
  <2>4. /\ chosen' \in Seq(Nat) /\ Len(chosen') = Len(chosen) + 1
        /\ \A i \in 1..Len(chosen) : chosen'[i] = chosen[i]
        /\ chosen'[Len(chosen) + 1] = next
    BY <2>1
  <2>5. InBounds'
    <3>1. next' \in 1..(Len(values') + 1)
      BY <2>1, <2>2, AttemptCounts, ArgumentTypes
    <3>2. Len(chosen') <= MaxAssets
      BY <2>2, <2>4, BoundsAssumption
    <3>3. \A i \in 1..Len(chosen') : chosen'[i] \in 1..(next' - 1)
      BY <2>1, <2>2, <2>4 DEF InBounds
    <3>4. \A i, j \in 1..Len(chosen') : i < j => chosen'[i] < chosen'[j]
      <4>. SUFFICES ASSUME NEW i \in 1..Len(chosen'),
                           NEW j \in 1..Len(chosen'), i < j
                    PROVE  chosen'[i] < chosen'[j]
        OBVIOUS
      <4>1. i \in 1..Len(chosen) /\ chosen'[i] = chosen[i]
            /\ chosen[i] \in 1..(next - 1)
        <5>1. Len(chosen) \in Nat /\ i \in 1..(Len(chosen) + 1)
              /\ j \in 1..(Len(chosen) + 1)
          BY ONLY <2>4, chosen \in Seq(Nat), i \in 1..Len(chosen'),
                  j \in 1..Len(chosen')
        <5>2. i \in 1..Len(chosen)
          BY ONLY <5>1, i < j
        <5>. QED
          BY <2>4, <5>2 DEF InBounds
      <4>2. CASE j \in 1..Len(chosen)
        BY <2>4, <4>1, <4>2 DEF InBounds
      <4>3. CASE j = Len(chosen) + 1
        BY <2>2, <2>4, <4>1, <4>3
      <4>4. j \in 1..Len(chosen) \/ j = Len(chosen) + 1
        <5>1. Len(chosen) \in Nat /\ j \in 1..(Len(chosen) + 1)
          BY <2>4
        <5>. QED
          BY <5>1
      <4>. QED
        BY <4>2, <4>3, <4>4
    <3>. QED
      BY <3>1, <3>2, <3>3, <3>4 DEF InBounds
  <2>. QED
    BY <2>1, <2>2, <2>3, <2>4, <2>5, AttemptCounts
<1>4. CASE Skip
  <2>1. /\ Attempt /\ MayInclude /\ next' = next + 1
        /\ UNCHANGED <<chosen, sum, best, status>>
    BY <1>4 DEF Skip
  <2>2. next \in 1..Len(values)
    BY <2>1, IncludesBeforeSentinel
  <2>3. /\ values' = values /\ chosen' = chosen
        /\ next \in Nat /\ Len(values) \in Nat
    BY <2>1, AttemptCounts, ArgumentTypes
  <2>4. InBounds'
    <3>1. next' \in 1..(Len(values') + 1)
      BY <2>1, <2>2, <2>3
    <3>2. Len(chosen') <= MaxAssets
      BY <2>3 DEF InBounds
    <3>3. \A i \in 1..Len(chosen') : chosen'[i] \in 1..(next' - 1)
      <4>1. \A k \in 1..(next - 1) : k \in 1..(next + 1 - 1)
        BY <2>3
      <4>. QED
        BY <2>1, <2>3, <4>1 DEF InBounds
    <3>4. \A i, j \in 1..Len(chosen') : i < j => chosen'[i] < chosen'[j]
      BY <2>3 DEF InBounds
    <3>. QED
      BY <3>1, <3>2, <3>3, <3>4 DEF InBounds
  <2>. QED
    BY <2>1, <2>2, <2>4, AttemptCounts
<1>5. CASE OutOfAttempts
  BY <1>5 DEF OutOfAttempts, InBounds, values
<1>6. CASE UNCHANGED vars
  BY <1>6 DEF vars, InBounds, values
<1>. QED
  BY <1>1, <1>2, <1>3, <1>4, <1>5, <1>6 DEF Next

(* The search is well-formed whatever it is asked: scores fit in their     *)
(* type and every index returned is that of a value.                       *)
THEOREM SearchTypeCorrect == Spec => []TypeOK
<1>1. Inv => TypeOK
  BY DEF Inv
<1>. QED
  BY <1>1, InitInv, NextInv, PTL DEF Spec

(* vr[] and indices[] are never read or written out of their bounds, and   *)
(* the loop that backtracks always ends at the index it takes off.         *)
THEOREM SearchStaysInBounds == Spec => []InBounds
<1>1. Inv => InBounds
  BY DEF Inv
<1>. QED
  BY <1>1, InitInv, NextInv, PTL DEF Spec

-----------------------------------------------------------------------------
(* The sum of a selection.                                                 *)

At(f, i) == f[i]
Member(s) == CHOOSE x \in s : TRUE
Sums == INSTANCE Folding WITH Op <- +, Base <- 0, Map <- At, Choose <- Member

LEMMA SumIsFold == \A S : SumOf(S) = Sums!Fold(values, S)
  BY DEF SumOf, MapThenSumSet, MapThenFoldSet, Sums!Fold, Sums!MapThenFoldSet, At, Member

LEMMA SumsAreFinite == \A S : IsFiniteSet(S) <=> Sums!IsFiniteSet(S)
  BY DEF IsFiniteSet, Sums!IsFiniteSet

(* The sum of values, whichever of them is added last.                     *)
LEMMA SumTakesOff ==
    ASSUME NEW f, NEW S, IsFiniteSet(S), \A i \in S : f[i] \in Nat
    PROVE  /\ Sums!Fold(f, {}) = 0
           /\ Sums!Fold(f, S) \in Nat
           /\ \A i \in S : Sums!Fold(f, S) = f[i] + Sums!Fold(f, S \ {i})
<1>1. Sums!IsSum(Nat)
  BY DEF Sums!IsSum
<1>2. Sums!Chooses(S) /\ Sums!IsFiniteSet(S)
  BY SumsAreFinite DEF Sums!Chooses, Member
<1>3. \A i \in S : At(f, i) \in Nat
  BY DEF At
<1>4. /\ Sums!Fold(f, S) \in Nat
      /\ \A i \in S : Sums!Fold(f, S) = At(f, i) + Sums!Fold(f, S \ {i})
  BY <1>1, <1>2, <1>3, Sums!SumTakesOff
<1>. QED
  BY <1>4, Sums!FoldNothing DEF At

LEMMA SumOfPositions ==
    ASSUME NEW n \in Nat, NEW vs \in Seq(Nat), n = Len(vs), NEW S \in SUBSET (1..n)
    PROVE  /\ IsFiniteSet(S)
           /\ Sums!Fold(vs, {}) = 0
           /\ Sums!Fold(vs, S) \in Nat
           /\ \A i \in S : Sums!Fold(vs, S) = vs[i] + Sums!Fold(vs, S \ {i})
<1>1. IsFiniteSet(S)
  <2>1. IsFiniteSet(1..n)
    BY FS_Interval
  <2>. QED
    BY <2>1, FS_Subset
<1>2. \A i \in S : vs[i] \in Nat
  OBVIOUS
<1>. QED
  BY <1>1, <1>2, SumTakesOff, ZenonT(40)

SumInv ==
    /\ sum = Sums!Fold(values, Range(chosen))
    /\ best.chosen # <<>> =>
          /\ best.sum = Sums!Fold(values, Range(best.chosen)) /\ best.sum >= target
          /\ Cardinality(Range(best.chosen)) = Len(best.chosen)

LEMMA SumInvReaches == SumInv => SelectionReaches
  BY SumIsFold DEF SumInv, SelectionReaches

(* The last position of a selection is not among the others.               *)
LEMMA SelectionIsSet ==
    ASSUME Inv
    PROVE  /\ Range(chosen) \in SUBSET (1..Len(values))
           /\ Cardinality(Range(chosen)) = Len(chosen)
           /\ Range(Append(chosen, next)) = Range(chosen) \cup {next}
           /\ next \notin Range(chosen)
           /\ chosen # <<>> =>
                 /\ Last(chosen) \in Range(chosen)
                 /\ Range(Front(chosen)) = Range(chosen) \ {Last(chosen)}
<1>. USE DEF Inv, TypeOK
<1>. DEFINE n == Len(chosen)
<1>1. n \in Nat /\ DOMAIN chosen = 1..n /\ Len(values) \in Nat
      /\ Range(chosen) = {chosen[i] : i \in 1..n}
  BY ArgumentTypes DEF Range
<1>2. Range(chosen) \in SUBSET (1..(next - 1))
  BY <1>1 DEF InBounds
<1>3. Range(chosen) \in SUBSET (1..Len(values))
  BY <1>1, <1>2 DEF InBounds
<1>4. Cardinality(Range(chosen)) = n
  <2>1. \A i, j \in 1..n : i # j => chosen[i] # chosen[j]
    BY <1>1 DEF InBounds
  <2>2. chosen \in Bijection(1..n, Range(chosen))
    BY <1>1, <2>1 DEF Bijection, Injection, Surjection, IsInjective
  <2>3. ExistsBijection(1..n, Range(chosen))
    BY <2>2 DEF ExistsBijection
  <2>. QED
    BY <1>1, <2>3, FS_CountingElements
<1>5. next \notin Range(chosen)
  BY <1>2 DEF InBounds
<1>6. Range(Append(chosen, next)) = Range(chosen) \cup {next}
  <2>. DEFINE longer == Append(chosen, next)
  <2>1. /\ DOMAIN longer = 1..(n + 1) /\ longer[n + 1] = next
        /\ \A i \in 1..n : longer[i] = chosen[i]
    BY <1>1
  <2>2. 1..(n + 1) = (1..n) \cup {n + 1} /\ n + 1 \notin 1..n
    BY <1>1
  <2>. HIDE DEF longer, n
  <2>3. Range(longer) = {longer[i] : i \in (1..n) \cup {n + 1}}
    BY <2>1, <2>2 DEF Range
  <2>. QED
    BY <1>1, <2>1, <2>3 DEF longer
<1>7. ASSUME chosen # <<>>
      PROVE  /\ Last(chosen) \in Range(chosen)
             /\ Range(Front(chosen)) = Range(chosen) \ {Last(chosen)}
  <2>1. n \in 1..n /\ Last(chosen) = chosen[n]
    BY <1>1, <1>7 DEF Last
  <2>2. /\ Front(chosen) = SubSeq(chosen, 1, n - 1) /\ n - 1 \in Nat /\ n - 1 <= n
        /\ chosen \in Seq(Nat)
    BY <2>1, <1>1 DEF Front
  <2>. DEFINE m == n - 1
  <2>. HIDE DEF m
  <2>3. /\ DOMAIN SubSeq(chosen, 1, m) = 1..m
        /\ \A i \in 1..m : SubSeq(chosen, 1, m)[i] = chosen[i]
    BY <2>2, PrefixOfSequence DEF m
  <2>4. Range(Front(chosen)) = {chosen[i] : i \in 1..m}
    BY <2>2, <2>3 DEF m, Range
  <2>5. \A i \in 1..n : i < n => i \in 1..m /\ chosen[i] # chosen[n]
    BY <2>1, <1>1 DEF m, InBounds
  <2>6. 1..n = (1..m) \cup {n} /\ n \notin 1..m
    BY <1>1, <2>1 DEF m
  <2>. HIDE DEF n
  <2>7. Range(chosen) = {chosen[i] : i \in 1..m} \cup {chosen[n]}
    BY <1>1, <2>6 DEF n
  <2>8. \A i \in 1..m : chosen[i] # chosen[n]
    <3>1. \A i \in 1..m : i \in 1..n /\ i < n
      BY <1>1, <2>1 DEF m, n
    <3>. QED
      BY <2>5, <3>1
  <2>. QED
    BY <2>1, <2>4, <2>7, <2>8
<1>. QED
  BY <1>1, <1>3, <1>4, <1>5, <1>6, <1>7

LEMMA InitSumInv == Init => SumInv
<1>. SUFFICES ASSUME Init PROVE SumInv
  OBVIOUS
<1>1. Range(chosen) = {}
  BY DEF Init, Range
<1>. QED
  BY <1>1, Sums!FoldNothing DEF Init, SumInv

(* What is taken off the selection is taken off the sum.                   *)
LEMMA BacktrackKeepsSum ==
    ASSUME Inv, SumInv, Backtrack, values' = values
    PROVE  sum' = Sums!Fold(values', Range(chosen'))
<1>1. CASE chosen = <<>>
  BY <1>1 DEF Backtrack, SumInv
<1>2. CASE chosen # <<>>
  <2>. DEFINE S == Range(chosen)
              i == Last(chosen)
  <2>1. /\ S \in SUBSET (1..Len(values)) /\ i \in S
        /\ Range(Front(chosen)) = S \ {i}
    BY <1>2, SelectionIsSet
  <2>2. values \in Seq(Nat) /\ Len(values) \in Nat /\ values[i] \in Nat
    BY <2>1, ArgumentTypes DEF Inv
  <2>3. S \ {i} \in SUBSET (1..Len(values))
    BY <2>1
  <2>4. Sums!Fold(values, S) = values[i] + Sums!Fold(values, S \ {i})
    BY <2>1, <2>2, SumOfPositions
  <2>5. Sums!Fold(values, S \ {i}) \in Nat
    BY <2>2, <2>3, SumOfPositions
  <2>6. chosen' = Front(chosen) /\ sum' = sum - values[i]
    BY <1>2 DEF Backtrack
  <2>7. sum = Sums!Fold(values, S)
    BY DEF SumInv
  <2>8. sum' = Sums!Fold(values, S \ {i})
    BY <2>2, <2>4, <2>5, <2>6, <2>7
  <2>. QED
    BY <2>1, <2>6, <2>8
<1>. QED
  BY <1>1, <1>2

LEMMA NextSumInv == Inv /\ SumInv /\ [Next]_vars => SumInv'
<1>. SUFFICES ASSUME Inv, SumInv, [Next]_vars PROVE SumInv'
  OBVIOUS
<1>1. values' = values /\ target' = target
  BY DEF Next, GiveUp, Consider, Include, Skip, Attempt, OutOfAttempts, vars,
         values, target
<1>2. CASE GiveUp
  BY <1>1, <1>2, BacktrackKeepsSum DEF GiveUp, SumInv
<1>3. CASE Consider
  <2>1. sum' = Sums!Fold(values', Range(chosen'))
    <3>1. CASE Backtrack
      BY <1>1, <3>1, BacktrackKeepsSum
    <3>2. CASE UNCHANGED <<next, chosen, sum>>
      BY <1>1, <3>2 DEF SumInv
    <3>. QED
      BY <1>3, <3>1, <3>2 DEF Consider
  <2>2. CASE IsBetter
    <3>1. best' = [score |-> Score, sum |-> sum, chosen |-> chosen]
      BY <1>3, <2>2 DEF Consider
    <3>2. sum >= target
      BY <1>3 DEF Consider, Reaches
    <3>3. Cardinality(Range(chosen)) = Len(chosen)
      BY SelectionIsSet
    <3>. QED
      BY <1>1, <2>1, <3>1, <3>2, <3>3 DEF SumInv
  <2>3. CASE ~IsBetter
    <3>1. best' = best
      BY <1>3, <2>3 DEF Consider
    <3>. QED
      BY <1>1, <2>1, <3>1 DEF SumInv
  <2>. QED
    BY <2>2, <2>3
<1>4. CASE Include
  <2>1. /\ MayInclude /\ chosen' = Append(chosen, next)
        /\ sum' = sum + values[next] /\ best' = best
    BY <1>4 DEF Include
  <2>. DEFINE S == Range(chosen)
              T == S \cup {next}
  <2>2. next \in 1..Len(values) /\ S \in SUBSET (1..Len(values)) /\ next \notin S
        /\ Range(chosen') = T
    BY <2>1, IncludesBeforeSentinel, SelectionIsSet
  <2>3. T \in SUBSET (1..Len(values)) /\ next \in T /\ T \ {next} = S
    BY <2>2
  <2>4. values \in Seq(Nat) /\ Len(values) \in Nat /\ values[next] \in Nat
    BY <2>2, ArgumentTypes DEF Inv
  <2>. HIDE DEF T, S
  <2>5. Sums!Fold(values, T) = values[next] + Sums!Fold(values, S)
    <3>1. Sums!Fold(values, T) = values[next] + Sums!Fold(values, T \ {next})
      BY <2>3, <2>4, SumOfPositions
    <3>. QED
      BY <2>3, <3>1, Zenon
  <2>6. Sums!Fold(values, S) \in Nat
    BY <2>2, <2>4, SumOfPositions
  <2>7. sum = Sums!Fold(values, S)
    BY DEF SumInv, S
  <2>8. sum' = Sums!Fold(values, T)
    BY ONLY <2>1, <2>4, <2>5, <2>6, <2>7
  <2>. QED
    BY <1>1, <2>1, <2>2, <2>8 DEF SumInv
<1>5. CASE Skip
  BY <1>1, <1>5 DEF Skip, SumInv
<1>6. CASE OutOfAttempts
  BY <1>1, <1>6 DEF OutOfAttempts, SumInv
<1>7. CASE UNCHANGED vars
  BY <1>1, <1>7 DEF vars, SumInv
<1>. QED
  BY <1>2, <1>3, <1>4, <1>5, <1>6, <1>7 DEF Next

(* Whatever is asked for, the indices that are returned are of different   *)
(* values whose sum reaches the target, and the running sum of the search  *)
(* is always that of the selection on its stack (src/coins.c).             *)
THEOREM SelectionsReach == Spec => []SelectionReaches
  BY InitInv, NextInv, InitSumInv, NextSumInv, SumInvReaches, PTL DEF Spec
-----------------------------------------------------------------------------
(* Finding a selection.                                                    *)

AddTo(x, y) == y + x
Greatest(S) == Max(S)
Tails == INSTANCE Folding WITH Op <- AddTo, Base <- 0, Map <- At, Choose <- Greatest

LEMMA SumFromIsFold ==
    \A vs, k : SumFrom(vs, k) = Tails!Fold(SubSeq(vs, k, Len(vs)),
                                           DOMAIN SubSeq(vs, k, Len(vs)))
  BY DEF SumFrom, FoldLeft, MapThenFoldSet, Tails!Fold, Tails!MapThenFoldSet,
         AddTo, At, Greatest

LEMMA GreatestPosition ==
    ASSUME NEW n \in Nat, NEW S \in SUBSET (1..n), S # {}
    PROVE  /\ Greatest(S) \in S
           /\ \A i \in S : i <= Greatest(S)
<1>1. S \subseteq Nat /\ \A i \in S : i <= n
  OBVIOUS
<1>2. PICK m \in S : \A i \in S : i <= m
  BY <1>1, Sums!GreatestNatural, Zenon
<1>3. \E k \in S : \A i \in S : k >= i
  BY <1>1, <1>2
<1>. QED
  BY <1>1, <1>3 DEF Greatest, Max

LEMMA OnePositionMore ==
    ASSUME NEW m \in Nat
    PROVE  /\ (1..(m + 1)) \ {m + 1} = 1..m
           /\ m + 1 \in 1..(m + 1) /\ m + 1 \in Nat
<1>1. (1..(m + 1)) \ {m + 1} = 1..m
  OBVIOUS
<1>2. m + 1 \in 1..(m + 1) /\ m + 1 \in Nat
  OBVIOUS
<1>. QED
  BY <1>1, <1>2

(* The sum of a tail is that of the values at its positions.               *)
LEMMA TailSum ==
    ASSUME NEW vs \in Seq(Nat), NEW k \in 1..Len(vs)
    PROVE  SumFrom(vs, k) = Sums!Fold(vs, k..Len(vs))
<1>. DEFINE n == Len(vs)
            g == SubSeq(vs, k, n)
            Part(S) == Sums!Fold(vs, S)
            N == {m \in Nat : m <= n - k + 1 =>
                     Tails!Fold(g, 1..m) = Part(k..(k + m - 1))}
<1>1. n \in Nat /\ k \in Nat /\ 1 <= k /\ k <= n
  OBVIOUS
<1>2. /\ DOMAIN g = 1..(n - k + 1)
      /\ \A i \in 1..(n - k + 1) : g[i] = vs[k + i - 1]
  <2>1. \A i \in k..n : vs[i] \in Nat
    BY <1>1
  <2>2. /\ SubSeq(vs, k, n) \in Seq(Nat)
        /\ Len(SubSeq(vs, k, n)) = IF k <= n THEN n - k + 1 ELSE 0
        /\ \A i \in 1..(n - k + 1) : SubSeq(vs, k, n)[i] = vs[k + i - 1]
    BY <1>1, <2>1, SubSeqProperties
  <2>. QED
    BY <1>1, <2>2
<1>a. \A S \in SUBSET (1..n) :
        Part(S) \in Nat /\ \A i \in S : Part(S) = vs[i] + Part(S \ {i})
  BY <1>1, SumOfPositions
<1>. HIDE DEF g, n, Part
<1>3. 0 \in N
  <2>1. 1..0 = {} /\ k..(k + 0 - 1) = {}
    BY <1>1
  <2>2. Tails!Fold(g, {}) = 0 /\ Part({}) = 0
    BY Tails!FoldNothing, Sums!FoldNothing DEF Part
  <2>3. Tails!Fold(g, 1..0) = Part(k..(k + 0 - 1))
    BY <2>1, <2>2
  <2>. QED
    BY <2>3
<1>4. ASSUME NEW m \in Nat, m \in N PROVE m + 1 \in N
  <2>. SUFFICES ASSUME m + 1 <= n - k + 1
                PROVE  Tails!Fold(g, 1..(m + 1)) = Part(k..(k + (m + 1) - 1))
    OBVIOUS
  <2>. DEFINE last == k + m
  <2>0. /\ last \in 1..n /\ k <= last /\ last \in Nat /\ k + (m + 1) - 1 = last
        /\ m + 1 \in 1..(n - k + 1)
    BY <1>1
  <2>1. Tails!Fold(g, 1..m) = Part(k..(last - 1))
    BY <1>1, <1>4
  <2>6. At(g, m + 1) = vs[last] /\ vs[last] \in Nat
    <3>1. g[m + 1] = vs[last]
      BY <1>2, <2>0
    <3>2. vs[last] \in Nat
      BY <2>0 DEF n
    <3>. QED
      BY <3>1, <3>2 DEF At
  <2>. HIDE DEF last
  <2>2. /\ (k..last) \ {last} = k..(last - 1)
        /\ k..last \in SUBSET (1..n) /\ k..(last - 1) \in SUBSET (1..n)
        /\ last \in k..last
    BY <1>1, <2>0
  <2>7. /\ (1..(m + 1)) \ {m + 1} = 1..m /\ 1..(m + 1) # {}
        /\ m + 1 \in 1..(m + 1) /\ m + 1 \in Nat
    BY OnePositionMore, Zenon
  <2>3. Greatest(1..(m + 1)) = m + 1
    <3>1. 1..(m + 1) \in SUBSET (1..(m + 1))
      OBVIOUS
    <3>2. Greatest(1..(m + 1)) \in 1..(m + 1) /\ m + 1 <= Greatest(1..(m + 1))
      BY <2>7, <3>1, GreatestPosition, Zenon
    <3>. QED
      BY <3>2
  <2>4. Tails!Fold(g, 1..(m + 1)) = AddTo(At(g, m + 1), Tails!Fold(g, 1..m))
    <3>1. IsFiniteSet(1..(m + 1))
      BY FS_Interval
    <3>2. Tails!IsFiniteSet(1..(m + 1))
      BY <3>1 DEF IsFiniteSet, Tails!IsFiniteSet
    <3>3. Tails!Chooses(1..(m + 1))
      <4>1. m + 1 \in Nat
        OBVIOUS
      <4>. QED
        BY <4>1, GreatestPosition DEF Tails!Chooses
    <3>4. Tails!Fold(g, 1..(m + 1))
            = AddTo(At(g, Greatest(1..(m + 1))),
                    Tails!Fold(g, (1..(m + 1)) \ {Greatest(1..(m + 1))}))
      BY <2>7, <3>2, <3>3, Tails!FoldUnfolds, Zenon
    <3>. QED
      BY <2>7, <2>3, <3>4, Zenon
  <2>5. Part(k..last) = vs[last] + Part(k..(last - 1)) /\ Part(k..(last - 1)) \in Nat
    BY <1>a, <2>2
  <2>8. Tails!Fold(g, 1..(m + 1)) = AddTo(vs[last], Part(k..(last - 1)))
    BY <2>1, <2>4, <2>6, Zenon
  <2>9. AddTo(vs[last], Part(k..(last - 1))) = Part(k..last)
    <3>1. \A x, y \in Nat : AddTo(x, y) = x + y
      BY DEF AddTo
    <3>. QED
      BY <2>5, <2>6, <3>1
  <2>. QED
    BY <2>0, <2>8, <2>9, Zenon
<1>. HIDE DEF N
<1>5. \A m \in Nat : m \in N
  BY <1>3, <1>4, Sums!NaturalInduction
<1>6. n - k + 1 \in Nat /\ k + (n - k + 1) - 1 = n
  BY <1>1
<1>7. Tails!Fold(g, 1..(n - k + 1)) = Part(k..n)
  BY <1>5, <1>6 DEF N
<1>. QED
  BY <1>2, <1>7, SumFromIsFold DEF g, n, Part

LEMMA SumOfBoth ==
    ASSUME NEW f, NEW S, NEW T, IsFiniteSet(S), IsFiniteSet(T), S \cap T = {},
           \A i \in S \cup T : f[i] \in Nat
    PROVE  Sums!Fold(f, S \cup T) = Sums!Fold(f, S) + Sums!Fold(f, T)
<1>1. Sums!IsSum(Nat)
  BY DEF Sums!IsSum
<1>2. Sums!Chooses(S \cup T)
  BY DEF Sums!Chooses, Member
<1>3. Sums!IsFiniteSet(S) /\ Sums!IsFiniteSet(T)
  BY SumsAreFinite
<1>4. \A i \in S \cup T : At(f, i) \in Nat
  BY DEF At
<1>. QED
  BY <1>1, <1>2, <1>3, <1>4, Sums!SumApart

(* The values in front of a position and those behind it are all.          *)
LEMMA HeadAndTail ==
    ASSUME NEW vs \in Seq(Nat), NEW k \in 0..Len(vs)
    PROVE  Sums!Fold(vs, 1..Len(vs))
             = Sums!Fold(vs, 1..k) + (IF k = Len(vs) THEN 0 ELSE SumFrom(vs, k + 1))
<1>. DEFINE n == Len(vs)
<1>1. n \in Nat /\ k \in Nat /\ k <= n
  OBVIOUS
<1>2. CASE k = n
  <2>1. 1..k \in SUBSET (1..n)
    BY <1>1
  <2>2. Sums!Fold(vs, 1..k) \in Nat
    BY <1>1, <2>1, SumOfPositions
  <2>. QED
    BY <1>2, <2>2
<1>3. CASE k # n
  <2>1. /\ 1..k \in SUBSET (1..n) /\ (k + 1)..n \in SUBSET (1..n) /\ k + 1 \in 1..n
        /\ (1..k) \cup ((k + 1)..n) = 1..n /\ (1..k) \cap ((k + 1)..n) = {}
    BY <1>1, <1>3
  <2>2. IsFiniteSet(1..k) /\ IsFiniteSet((k + 1)..n)
    BY <1>1, <2>1, SumOfPositions
  <2>5. \A i \in (1..k) \cup ((k + 1)..n) : vs[i] \in Nat
    BY <2>1
  <2>. HIDE DEF n
  <2>6. Sums!Fold(vs, (1..k) \cup ((k + 1)..n))
          = Sums!Fold(vs, 1..k) + Sums!Fold(vs, (k + 1)..n)
    BY <2>1, <2>2, <2>5, SumOfBoth
  <2>7. SumFrom(vs, k + 1) = Sums!Fold(vs, (k + 1)..n)
    BY <2>1, TailSum DEF n
  <2>. QED
    BY <1>3, <2>1, <2>6, <2>7 DEF n
<1>. QED
  BY <1>2, <1>3

(* Of values from the largest to the smallest, no selection of so many     *)
(* exceeds the first so many.                                              *)
LEMMA FirstAreGreatest ==
    ASSUME NEW n \in Nat, NEW vs \in Seq(Nat), n = Len(vs), FromTheLargest(vs),
           NEW k \in 0..n, NEW S \in SUBSET (1..n), Cardinality(S) <= k
    PROVE  Sums!Fold(vs, S) <= Sums!Fold(vs, 1..k)
<1>. DEFINE Part(s) == Sums!Fold(vs, s)
            N == {m \in Nat : m <= n => \A s \in SUBSET (1..n) :
                    Cardinality(s) <= m => Part(s) <= Part(1..m)}
<1>1. \A s \in SUBSET (1..n) :
        /\ IsFiniteSet(s) /\ Cardinality(s) \in Nat /\ Part(s) \in Nat
        /\ \A i \in s : Part(s) = vs[i] + Part(s \ {i})
  BY SumOfPositions, FS_CardinalityType
<1>2. Part({}) = 0
  BY Sums!FoldNothing
<1>3. \A i \in 1..n : vs[i] \in Nat
  OBVIOUS
<1>4. \A i, j \in 1..n : i <= j => vs[j] <= vs[i]
  BY <1>3 DEF FromTheLargest
<1>. HIDE DEF Part
<1>5. 0 \in N
  <2>1. \A s \in SUBSET (1..n) : Cardinality(s) <= 0 => s = {}
    BY <1>1, FS_EmptySet
  <2>2. 1..0 = {}
    OBVIOUS
  <2>3. \A s \in SUBSET (1..n) : Cardinality(s) <= 0 => Part(s) = 0
    BY <1>2, <2>1
  <2>4. Part(1..0) = 0
    BY <1>2, <2>2, Zenon
  <2>. QED
    BY <2>3, <2>4
<1>6. ASSUME NEW m \in Nat, m + 1 <= n,
             \A s \in SUBSET (1..n) : Cardinality(s) <= m => Part(s) <= Part(1..m),
             NEW s \in SUBSET (1..n), Cardinality(s) <= m + 1
      PROVE  Part(s) <= Part(1..(m + 1))
  <2>1. m + 1 \in 1..n /\ 1..(m + 1) \in SUBSET (1..n) /\ 1..m \in SUBSET (1..n)
    BY <1>6
  <2>2. Part(1..(m + 1)) = vs[m + 1] + Part(1..m) /\ vs[m + 1] \in Nat /\ Part(1..m) \in Nat
    <3>1. Part(1..(m + 1)) = vs[m + 1] + Part((1..(m + 1)) \ {m + 1})
      BY <1>1, <2>1, OnePositionMore, Zenon
    <3>2. Part(1..(m + 1)) = vs[m + 1] + Part(1..m)
      BY <3>1, OnePositionMore, Zenon
    <3>. QED
      BY <1>1, <1>3, <2>1, <3>2, Zenon
  <2>3. CASE Cardinality(s) <= m
    <3>1. Part(s) <= Part(1..m) /\ Part(s) \in Nat
      BY <1>1, <1>6, <2>3, Zenon
    <3>. QED
      BY ONLY <2>2, <3>1
  <2>4. CASE ~(Cardinality(s) <= m)
    <3>1. Cardinality(s) = m + 1
      BY <1>1, <1>6, <2>4
    <3>2. s # {}
      <4>1. m + 1 # 0
        OBVIOUS
      <4>2. Cardinality({}) = 0
        BY FS_EmptySet, Zenon
      <4>. QED
        BY <3>1, <4>1, <4>2, Zenon
    <3>3. PICK i \in s : \A j \in s : j <= i
      BY <3>2, GreatestPosition, Zenon
    <3>4. i \in 1..n /\ i \in Nat
      OBVIOUS
    <3>5. m + 1 <= i
      <4>1. s \in SUBSET (1..i)
        BY <3>3
      <4>2. IsFiniteSet(1..i) /\ Cardinality(1..i) = i
        BY <3>4, FS_Interval
      <4>3. Cardinality(s) <= Cardinality(1..i)
        BY <4>1, <4>2, FS_Subset
      <4>. QED
        BY <3>1, <4>2, <4>3
    <3>6. Cardinality(s \ {i}) <= m /\ s \ {i} \in SUBSET (1..n)
      <4>1. Cardinality(s \ {i}) = Cardinality(s) - 1
        BY <1>1, FS_RemoveElement
      <4>2. Cardinality(s \ {i}) = m
        BY ONLY <3>1, <4>1, m \in Nat
      <4>. QED
        BY <4>2
    <3>7. Part(s \ {i}) <= Part(1..m) /\ Part(s \ {i}) \in Nat
      BY <1>1, <1>6, <3>6, Zenon
    <3>8. Part(s) = vs[i] + Part(s \ {i})
      BY <1>1
    <3>9. vs[i] <= vs[m + 1] /\ vs[i] \in Nat
      BY <1>3, <1>4, <2>1, <3>4, <3>5, Zenon
    <3>. QED
      BY ONLY <2>2, <3>7, <3>8, <3>9
  <2>. QED
    BY <2>3, <2>4
<1>7. ASSUME NEW m \in Nat, m \in N PROVE m + 1 \in N
  <2>1. m + 1 <= n => m <= n
    OBVIOUS
  <2>. QED
    BY <1>6, <1>7, <2>1
<1>. HIDE DEF N
<1>8. \A m \in Nat : m \in N
  BY <1>5, <1>7, Sums!NaturalInduction
<1>. QED
  BY <1>8 DEF N, Part

(* Until a selection is found, the search has only gone down its first     *)
(* branch, which takes the values as they come, or there is none to find.  *)
InFirstDescent ==
    /\ status = "searching" /\ SumFrom(values, 1) >= target
    /\ attempt = Len(chosen) /\ next = attempt + 1
    /\ \A i \in 1..attempt : chosen[i] = i
FindInv ==
    best.chosen = <<>> =>
        /\ best.score = MaxScore /\ best.sum = 0
        /\ Reaching = {} \/ InFirstDescent

LEMMA FindInvFinds == Inv /\ FindInv => AlwaysFinds
  BY DEF FindInv, InFirstDescent, AlwaysFinds, Ended

(* The selections that reach the target depend on the arguments only.      *)
LEMMA ReachingIsKept == problem' = problem => Reaching' = Reaching
<1>. SUFFICES ASSUME problem' = problem PROVE Reaching' = Reaching
  OBVIOUS
<1>1. values' = values /\ target' = target
  BY DEF values, target
<1>2. \A S : SumOf(S) = Sums!Fold(values, S)
  BY SumIsFold
<1>3. \A S : SumOf(S)' = Sums!Fold(values', S)
  BY DEF SumOf, MapThenSumSet, MapThenFoldSet, Sums!Fold, Sums!MapThenFoldSet, At, Member
<1>4. \A S : SumOf(S)' = SumOf(S)
  BY <1>1, <1>2, <1>3
<1>. QED
  BY <1>1, <1>4 DEF Reaching, Selections

(* The positions of so many values.                                        *)
LEMMA SoManyPositions ==
    ASSUME NEW n \in Nat PROVE IsFiniteSet(1..n) /\ Cardinality(1..n) = n
<1>1. IsFiniteSet(1..n) /\ Cardinality(1..n) = IF 1 > n THEN 0 ELSE n - 1 + 1
  BY FS_Interval
<1>. QED
  BY <1>1

(* If the first values do not reach the target, no selection of so many    *)
(* does.                                                                   *)
LEMMA NoneReaches ==
    ASSUME problem \in Problems, NEW k \in 0..Len(values),
           Len(values) <= k \/ MaxAssets <= k,
           Sums!Fold(values, 1..k) < target
    PROVE  Reaching = {}
<1>. SUFFICES ASSUME NEW S \in Reaching PROVE FALSE
  OBVIOUS
<1>1. /\ S \in SUBSET (1..Len(values)) /\ Cardinality(S) <= MaxAssets
      /\ Sums!Fold(values, S) >= target
  BY SumIsFold DEF Reaching, Selections
<1>2. /\ values \in Seq(Nat) /\ Len(values) \in Nat /\ target \in Nat
      /\ FromTheLargest(values) /\ MaxAssets \in Nat
  BY ArgumentTypes, OrderAssumption, BoundsAssumption DEF values
<1>3. Cardinality(S) \in Nat /\ Cardinality(S) <= Len(values)
  <2>1. IsFiniteSet(1..Len(values)) /\ Cardinality(1..Len(values)) = Len(values)
    BY <1>2, SoManyPositions, Zenon
  <2>. QED
    BY <1>1, <2>1, FS_Subset, FS_CardinalityType
<1>4. Cardinality(S) <= k
  BY <1>1, <1>2, <1>3
<1>5. Sums!Fold(values, S) <= Sums!Fold(values, 1..k)
  BY <1>1, <1>2, <1>4, FirstAreGreatest
<1>6. Sums!Fold(values, S) \in Nat /\ Sums!Fold(values, 1..k) \in Nat
  <2>1. 1..k \in SUBSET (1..Len(values))
    BY <1>2
  <2>. QED
    BY <1>1, <1>2, <2>1, SumOfPositions
<1>. QED
  BY <1>1, <1>2, <1>5, <1>6

LEMMA InitFindInv == Init => FindInv
<1>. SUFFICES ASSUME Init PROVE FindInv
  OBVIOUS
<1>1. /\ problem \in Problems /\ next = 1 /\ chosen = <<>> /\ attempt = 0
      /\ best.score = MaxScore /\ best.sum = 0
  BY DEF Init
<1>2. CASE SumFrom(values, 1) >= target
  <2>1. status = "searching"
    <3>1. SumFrom(values, 1) \in Nat /\ target \in Nat
      <4>1. values \in Seq(Nat) /\ Len(values) \in Nat \ {0} /\ target \in Nat
        BY <1>1, ArgumentTypes
      <4>2. 1 \in 1..Len(values) /\ 1..Len(values) \in SUBSET (1..Len(values))
        BY <4>1
      <4>3. Sums!Fold(values, 1..Len(values)) \in Nat
        BY <4>1, <4>2, SumOfPositions
      <4>. QED
        BY <4>1, <4>2, <4>3, TailSum
    <3>. QED
      BY <1>2, <3>1 DEF Init, values, target
  <2>. QED
    BY <1>1, <1>2, <2>1 DEF FindInv, InFirstDescent
<1>3. CASE ~(SumFrom(values, 1) >= target)
  <2>1. values \in Seq(Nat) /\ Len(values) \in Nat \ {0} /\ target \in Nat
    BY <1>1, ArgumentTypes
  <2>2. 1 \in 1..Len(values) /\ 1..Len(values) \in SUBSET (1..Len(values))
        /\ Len(values) \in 0..Len(values)
    BY <2>1
  <2>3. Sums!Fold(values, 1..Len(values)) \in Nat
    BY <2>1, <2>2, SumOfPositions
  <2>4. Sums!Fold(values, 1..Len(values)) < target
    BY <1>3, <2>1, <2>2, <2>3, TailSum
  <2>5. Reaching = {}
    BY <1>1, <2>1, <2>2, <2>4, NoneReaches
  <2>. QED
    BY <1>1, <2>5 DEF FindInv
<1>. QED
  BY <1>2, <1>3

(* The first descent is never given up before it is as long as a selection *)
(* may be, and passes over no value.                                       *)
LEMMA DescentGoesOn ==
    ASSUME Inv, SumInv, InFirstDescent
    PROVE  /\ ~CannotReach
           /\ ~Skip /\ attempt < problem.attempts
           /\ best.score = MaxScore /\ IsCut => Reaching = {}
<1>. DEFINE n == Len(values)
<1>1. /\ problem \in Problems /\ values \in Seq(Nat) /\ n \in Nat \ {0}
      /\ target \in Nat \ {0} /\ problem.attempts \in Nat /\ problem.attempts >= n + 1
  BY ArgumentTypes, ProblemsAssumption DEF Inv, values
<1>2. /\ attempt \in Nat /\ attempt = Len(chosen) /\ next = attempt + 1
      /\ attempt \in 0..n /\ chosen \in Seq(Nat)
  BY <1>1 DEF InFirstDescent, Inv, InBounds, TypeOK
<1>3. sum = Sums!Fold(values, 1..attempt)
  <2>1. DOMAIN chosen = 1..attempt /\ \A i \in 1..attempt : chosen[i] = i
    BY <1>2 DEF InFirstDescent
  <2>2. Range(chosen) = 1..attempt
    BY <2>1 DEF Range
  <2>. QED
    BY <2>2 DEF SumInv
<1>4. sum + Remaining(next) = SumFrom(values, 1)
  <2>1. 1 \in 1..n /\ (next > n <=> attempt = n)
    BY <1>1, <1>2
  <2>2. Remaining(next) = IF attempt = n THEN 0 ELSE SumFrom(values, attempt + 1)
    BY <1>2, <2>1 DEF Remaining
  <2>. QED
    BY <1>1, <1>2, <1>3, <2>1, <2>2, TailSum, HeadAndTail
<1>5. sum \in Nat /\ SumFrom(values, 1) >= target
  <2>1. 1..attempt \in SUBSET (1..n)
    BY <1>1, <1>2
  <2>. QED
    BY <1>1, <1>3, <2>1, SumOfPositions DEF InFirstDescent
<1>6. SumFrom(values, 1) \in Nat
  <2>1. 1 \in 1..n /\ 1..n \in SUBSET (1..n)
    BY <1>1
  <2>. QED
    BY <1>1, <2>1, TailSum, SumOfPositions
<1>7. ~CannotReach
  BY <1>1, <1>4, <1>5, <1>6 DEF CannotReach
<1>8. ~Skip
  <2>1. chosen # <<>> => Last(chosen) = next - 1
    <3>. SUFFICES ASSUME chosen # <<>> PROVE Last(chosen) = next - 1
      OBVIOUS
    <3>1. attempt # 0 /\ attempt \in 1..attempt
      BY <1>2
    <3>. QED
      BY <1>2, <3>1 DEF Last, InFirstDescent
  <2>. QED
    BY <2>1 DEF Skip, IsNewNext
<1>9. ASSUME best.score = MaxScore, IsCut PROVE Reaching = {}
  <2>1. MaxAssets <= attempt
    BY <1>2, <1>9, BoundsAssumption DEF IsCut
  <2>2. sum < target
    BY <1>1, <1>5, <1>7, <1>9 DEF IsCut, Reaches
  <2>. QED
    BY <1>1, <1>2, <1>3, <2>1, <2>2, NoneReaches
<1>10. attempt < problem.attempts
  BY <1>1, <1>2
<1>. QED
  BY <1>7, <1>8, <1>9, <1>10

LEMMA NextFindInv == Inv /\ SumInv /\ FindInv /\ [Next]_vars => FindInv'
<1>. SUFFICES ASSUME Inv, SumInv, FindInv, [Next]_vars, best'.chosen = <<>>
              PROVE  /\ best'.score = MaxScore /\ best'.sum = 0
                     /\ Reaching' = {} \/ InFirstDescent'
  BY DEF FindInv
<1>1. values' = values /\ target' = target /\ Reaching' = Reaching
  <2>1. problem' = problem
    BY DEF Next, GiveUp, Consider, Include, Skip, Attempt, OutOfAttempts, vars
  <2>. QED
    BY <2>1, ReachingIsKept DEF values, target
<1>2. best' = best
  <2>. SUFFICES ASSUME Consider PROVE best' = best
    BY DEF Next, GiveUp, Include, Skip, OutOfAttempts, vars
  <2>. SUFFICES ASSUME IsBetter PROVE FALSE
    BY DEF Consider
  <2>1. best'.chosen = chosen /\ sum >= target
    BY DEF Consider, Reaches
  <2>2. Range(chosen) = {}
    BY <2>1 DEF Range
  <2>3. sum = 0
    BY <2>2, Sums!FoldNothing DEF SumInv
  <2>. QED
    BY <2>1, <2>3, ArgumentTypes DEF Inv
<1>3. /\ best.score = MaxScore /\ best.sum = 0
      /\ Reaching = {} \/ InFirstDescent
  BY <1>2 DEF FindInv
<1>. SUFFICES ASSUME Reaching # {} PROVE InFirstDescent'
  BY <1>1, <1>2, <1>3
<1>4. InFirstDescent /\ ~CannotReach /\ ~IsCut /\ ~Skip /\ attempt < problem.attempts
  BY <1>3, DescentGoesOn
<1>5. ~Consider
  <2>. SUFFICES ASSUME Consider PROVE FALSE
    OBVIOUS
  <2>1. sum >= target /\ target \in Nat /\ target # 0 /\ sum \in Int
    BY ArgumentTypes DEF Consider, Reaches, Inv, TypeOK
  <2>2. Score \in 0..MaxScore
    <3>1. ScoreOf(Len(chosen), sum = target) \in Nat
      <4>1. Len(chosen) \in Nat /\ problem.ratio \in Nat
        BY ArgumentTypes DEF Inv, TypeOK
      <4>. QED
        BY <4>1 DEF ScoreOf
    <3>. QED
      BY <3>1, BoundsAssumption DEF Score
  <2>3. IsBetter
    BY <1>3, <2>1, <2>2, BoundsAssumption DEF IsBetter
  <2>4. chosen = <<>>
    BY <2>3 DEF Consider
  <2>5. Range(chosen) = {}
    BY <2>4 DEF Range
  <2>6. sum = 0
    BY <2>5, Sums!FoldNothing DEF SumInv
  <2>7. target <= 0
    BY ONLY <2>1, <2>6
  <2>. QED
    BY ONLY <2>1, <2>7
<1>6. ~GiveUp /\ ~OutOfAttempts
  <2>1. attempt \in Int /\ attempt # problem.attempts
    BY <1>4 DEF Inv, TypeOK
  <2>. QED
    BY <1>4, <2>1 DEF GiveUp, OutOfAttempts
<1>7. CASE Include
  <2>1. /\ chosen' = Append(chosen, next) /\ next' = next + 1 /\ status' = status
        /\ attempt' = attempt + 1 /\ chosen \in Seq(Nat) /\ attempt \in Nat
        /\ attempt = Len(chosen) /\ next = attempt + 1
    BY <1>4, <1>7 DEF Include, Attempt, Inv, TypeOK, InFirstDescent
  <2>2. /\ Len(chosen') = attempt + 1 /\ chosen'[attempt + 1] = next
        /\ \A i \in 1..attempt : chosen'[i] = chosen[i]
    BY <2>1
  <2>3. \A i \in 1..(attempt + 1) : chosen'[i] = i
    <3>. TAKE i \in 1..(attempt + 1)
    <3>1. i \in 1..attempt \/ i = attempt + 1
      BY <2>1
    <3>. QED
      BY <1>4, <2>1, <2>2, <3>1 DEF InFirstDescent
  <2>. QED
    BY <1>1, <1>4, <2>1, <2>2, <2>3 DEF InFirstDescent
<1>8. CASE UNCHANGED vars
  BY <1>1, <1>4, <1>8 DEF vars, InFirstDescent
<1>. QED
  BY <1>4, <1>5, <1>6, <1>7, <1>8 DEF Next

(* A selection is found whenever there is one, with no more attempts than  *)
(* are asked for: the first branch of the search takes the greatest values *)
(* and either reaches the target or no selection does.                     *)
THEOREM SelectionIsFound == Spec => []AlwaysFinds
  BY InitInv, NextInv, InitSumInv, NextSumInv, InitFindInv, NextFindInv, FindInvFinds, PTL
     DEF Spec

-----------------------------------------------------------------------------
(* The best selection.                                                     *)

(* Selections that the search has not looked at: those that extend the     *)
(* first k positions on its stack by positions behind the one that follows *)
(* there.                                                                  *)
Taken(k) == {chosen[i] : i \in 1..k}
OpenFrom(k) == IF k = Len(chosen) THEN next ELSE chosen[k + 1] + 1
Extends(S, k) ==
    Taken(k) \subseteq S /\ S \ Taken(k) \subseteq OpenFrom(k)..Len(values)
Ahead(S) == \E k \in 0..Len(chosen) : Extends(S, k)

(* A selection that need not be looked at again.  Of the same score, the   *)
(* one with the greater sum counts only as long as there is no exact one.  *)
Beats(b, S) ==
    \/ b.score < TrueScore(S)
    \/ /\ b.score = TrueScore(S)
       /\ \/ SumOf(S) <= b.sum
          \/ \E E \in Reaching : SumOf(E) = target /\ TrueScore(E) = b.score

BestInv ==
    ScoresFit =>
        /\ best.chosen # <<>> =>
              /\ Range(best.chosen) \in Reaching
              /\ best.score = TrueScore(Range(best.chosen))
        /\ status = "searching" =>
              \A S \in Reaching : Beats(best, S) \/ Ahead(S)
        /\ Exhausted => \A S \in Reaching : Beats(best, S)

LEMMA ReachingFacts ==
    ASSUME problem \in Problems, NEW S \in Reaching
    PROVE  /\ S \in SUBSET (1..Len(values)) /\ IsFiniteSet(S)
           /\ Cardinality(S) \in 1..Len(values) /\ Cardinality(S) <= MaxAssets
           /\ SumOf(S) \in Nat /\ SumOf(S) >= target
           /\ TrueScore(S) \in Nat
           /\ TrueScore(S) = Cardinality(S) + (IF SumOf(S) = target THEN 0 ELSE problem.ratio)
<1>1. /\ values \in Seq(Nat) /\ Len(values) \in Nat /\ target \in Nat \ {0}
      /\ problem.ratio \in Nat
  BY ArgumentTypes
<1>2. S \in SUBSET (1..Len(values)) /\ Cardinality(S) <= MaxAssets /\ SumOf(S) >= target
  BY DEF Reaching, Selections
<1>3. IsFiniteSet(S) /\ SumOf(S) \in Nat
  BY <1>1, <1>2, SumOfPositions, SumIsFold
<1>4. S # {}
  <2>1. SumOf({}) = 0
    BY Sums!FoldNothing, SumIsFold
  <2>2. S = {} => SumOf(S) = 0
    BY <2>1, Zenon
  <2>3. SumOf(S) # 0
    BY <1>1, <1>2
  <2>. QED
    BY <2>2, <2>3, Zenon
<1>5. Cardinality(S) \in 1..Len(values)
  <2>1. IsFiniteSet(1..Len(values)) /\ Cardinality(1..Len(values)) = Len(values)
    BY <1>1, SoManyPositions, Zenon
  <2>2. Cardinality(S) \in Nat /\ Cardinality(S) <= Len(values)
    BY <1>2, <2>1, FS_Subset, FS_CardinalityType
  <2>3. Cardinality(S) # 0
    BY <1>3, <1>4, FS_EmptySet
  <2>. QED
    BY <1>1, <2>2, <2>3
<1>6. TrueScore(S) = Cardinality(S) + (IF SumOf(S) = target THEN 0 ELSE problem.ratio)
  BY DEF TrueScore, ScoreOf
<1>. QED
  BY <1>1, <1>2, <1>3, <1>5, <1>6

(* A selection that extends the whole stack: its sum is within what the    *)
(* search expects of the branch.                                           *)
LEMMA ExtendsTheStack ==
    ASSUME Inv, SumInv, NEW S \in Reaching, Extends(S, Len(chosen))
    PROVE  /\ SumOf(S) >= sum /\ SumOf(S) <= sum + Remaining(next)
           /\ S = Range(chosen) \/ Cardinality(S) > Len(chosen)
<1>. DEFINE N == Len(values)
            R == Range(chosen)
            T == S \ R
            U == (next..N) \ T
<1>1. /\ values \in Seq(Nat) /\ N \in Nat /\ problem \in Problems
      /\ next \in 1..(N + 1) /\ Len(chosen) \in Nat
  BY ArgumentTypes DEF Inv, InBounds, TypeOK
<1>2. Taken(Len(chosen)) = R
  <2>1. DOMAIN chosen = 1..Len(chosen)
    BY DEF Inv, TypeOK
  <2>. QED
    BY <2>1 DEF Taken, Range
<1>3. R \subseteq S /\ T \subseteq next..N /\ S \in SUBSET (1..N)
  BY <1>1, <1>2, ReachingFacts DEF Extends, OpenFrom
<1>4. /\ R \in SUBSET (1..N) /\ T \in SUBSET (1..N) /\ U \in SUBSET (1..N)
      /\ S = R \cup T /\ R \cap T = {} /\ next..N = T \cup U /\ T \cap U = {}
  <2>1. next..N \subseteq 1..N
    BY <1>1
  <2>. HIDE DEF N, R
  <2>. QED
    BY <1>3, <2>1, Zenon
<1>5. \A P \in SUBSET (1..N) : IsFiniteSet(P) /\ Sums!Fold(values, P) \in Nat
  BY <1>1, SumOfPositions
<1>6. \A i \in 1..N : values[i] \in Nat
  BY <1>1
<1>. HIDE DEF N, R, T, U
<1>7. Sums!Fold(values, S) = Sums!Fold(values, R) + Sums!Fold(values, T)
  <2>1. \A i \in R \cup T : values[i] \in Nat
    BY <1>4, <1>6
  <2>. QED
    BY <1>4, <1>5, <2>1, SumOfBoth
<1>8. Sums!Fold(values, next..N) = Sums!Fold(values, T) + Sums!Fold(values, U)
  <2>1. \A i \in T \cup U : values[i] \in Nat
    BY <1>4, <1>6
  <2>. QED
    BY <1>4, <1>5, <2>1, SumOfBoth
<1>9. Remaining(next) = Sums!Fold(values, next..N)
  <2>1. CASE next > N
    <3>1. next..N = {}
      BY <1>1, <2>1
    <3>. QED
      BY <2>1, <3>1, Sums!FoldNothing DEF Remaining, N
  <2>2. CASE ~(next > N)
    <3>1. next \in 1..N
      BY <1>1, <2>2
    <3>. QED
      BY <1>1, <2>2, <3>1, TailSum DEF Remaining, N
  <2>. QED
    BY <2>1, <2>2
<1>10. sum = Sums!Fold(values, R) /\ SumOf(S) = Sums!Fold(values, S)
  BY SumIsFold DEF SumInv, R
<1>11. SumOf(S) >= sum /\ SumOf(S) <= sum + Remaining(next)
  <2>1. /\ Sums!Fold(values, R) \in Nat /\ Sums!Fold(values, T) \in Nat
        /\ Sums!Fold(values, U) \in Nat
    BY <1>4, <1>5
  <2>. QED
    BY <1>7, <1>8, <1>9, <1>10, <2>1
<1>12. ASSUME S # R PROVE Cardinality(S) > Len(chosen)
  <2>1. Cardinality(R) = Len(chosen)
    BY SelectionIsSet DEF R
  <2>2. IsFiniteSet(S)
    BY <1>3, <1>5
  <2>3. Cardinality(R) <= Cardinality(S) /\ Cardinality(R) # Cardinality(S)
    BY <1>3, <1>12, <2>2, FS_Subset
  <2>4. Cardinality(S) \in Nat
    BY <2>2, FS_CardinalityType
  <2>. QED
    BY <1>1, <2>1, <2>3, <2>4
<1>. QED
  BY <1>11, <1>12 DEF R

(* A branch is cut only if no selection in it is better.                   *)
LEMMA CutIsBeaten ==
    ASSUME Inv, SumInv, CannotReach \/ IsCut,
           NEW S \in Reaching, Extends(S, Len(chosen))
    PROVE  Beats(best, S)
<1>1. /\ SumOf(S) >= sum /\ SumOf(S) <= sum + Remaining(next)
      /\ S = Range(chosen) \/ Cardinality(S) > Len(chosen)
  BY ExtendsTheStack
<1>2. /\ Cardinality(S) \in Nat /\ Cardinality(S) <= MaxAssets
      /\ SumOf(S) \in Nat /\ SumOf(S) >= target /\ TrueScore(S) >= Cardinality(S)
      /\ TrueScore(S) \in Nat /\ target \in Nat /\ sum \in Int /\ Len(chosen) \in Nat
      /\ best.score \in Nat /\ MaxAssets \in Nat
  <2>1. problem.ratio \in Nat /\ target \in Nat /\ Len(values) \in Nat
    BY ArgumentTypes DEF Inv
  <2>2. sum \in Int /\ Len(chosen) \in Nat /\ best.score \in Nat /\ MaxAssets \in Nat
    BY BoundsAssumption DEF Inv, TypeOK
  <2>. QED
    BY <2>1, <2>2, ReachingFacts DEF Inv
<1>3. ~CannotReach
  <2>. SUFFICES ASSUME sum + Remaining(next) < target PROVE FALSE
    BY DEF CannotReach
  <2>1. Remaining(next) \in Nat
    <3>1. /\ values \in Seq(Nat) /\ Len(values) \in Nat /\ next \in 1..(Len(values) + 1)
      BY ArgumentTypes DEF Inv, InBounds
    <3>2. CASE next > Len(values)
      BY <3>2 DEF Remaining
    <3>3. CASE ~(next > Len(values))
      <4>1. next \in 1..Len(values) /\ next..Len(values) \in SUBSET (1..Len(values))
        BY <3>1, <3>3
      <4>2. Sums!Fold(values, next..Len(values)) \in Nat
        BY <3>1, <4>1, SumOfPositions
      <4>. QED
        BY <3>1, <3>3, <4>1, <4>2, TailSum DEF Remaining
    <3>. QED
      BY <3>2, <3>3
  <2>. QED
    BY <1>1, <1>2, <2>1
<1>4. sum < target
  BY <1>2, <1>3 DEF IsCut, Reaches
<1>5. S # Range(chosen)
  BY <1>2, <1>4, SumIsFold DEF SumInv
<1>6. best.score <= Len(chosen)
  BY <1>1, <1>2, <1>3, <1>5 DEF IsCut
<1>. QED
  BY <1>1, <1>2, <1>5, <1>6 DEF Beats

(* Whichever branch is given up, the others stay ahead.                    *)
LEMMA BacktrackStaysAhead ==
    ASSUME Inv, Backtrack, values' = values, NEW S, Ahead(S), ~Extends(S, Len(chosen))
    PROVE  chosen # <<>> /\ status' = status /\ Ahead(S)'
<1>1. PICK k \in 0..Len(chosen) : Extends(S, k)
  BY DEF Ahead
<1>. DEFINE n == Len(chosen)
<1>2. n \in Nat /\ chosen \in Seq(Nat) /\ k \in 0..(n - 1) /\ n # 0
  BY <1>1 DEF Inv, TypeOK
<1>3. chosen # <<>>
  BY <1>2
<1>4. /\ chosen' = Front(chosen) /\ next' = Last(chosen) + 1 /\ status' = status
      /\ Last(chosen) = chosen[n]
  BY <1>3 DEF Backtrack, Last
<1>5. Len(chosen') = n - 1 /\ \A i \in 1..(n - 1) : chosen'[i] = chosen[i]
  <2>1. Front(chosen) = SubSeq(chosen, 1, n - 1) /\ n - 1 \in Nat /\ n - 1 <= n
    BY <1>2 DEF Front
  <2>. DEFINE m == n - 1
  <2>. HIDE DEF m
  <2>2. Len(SubSeq(chosen, 1, m)) = m /\ \A i \in 1..m : SubSeq(chosen, 1, m)[i] = chosen[i]
    BY <1>2, <2>1, PrefixOfSequence DEF m
  <2>. QED
    BY <1>4, <2>1, <2>2 DEF m
<1>6. Taken(k)' = Taken(k)
  <2>1. \A i \in 1..k : i \in 1..(n - 1)
    BY <1>2
  <2>. QED
    BY <1>5, <2>1 DEF Taken
<1>7. OpenFrom(k)' = OpenFrom(k)
  <2>1. CASE k = n - 1
    BY <1>2, <1>4, <1>5, <2>1 DEF OpenFrom
  <2>2. CASE k # n - 1
    <3>1. k + 1 \in 1..(n - 1) /\ k # n
      BY <1>2, <2>2
    <3>. QED
      BY <1>5, <2>2, <3>1 DEF OpenFrom
  <2>. QED
    BY <2>1, <2>2
<1>8. Extends(S, k)'
  BY <1>1, <1>6, <1>7 DEF Extends
<1>9. k \in 0..Len(chosen')
  BY <1>2, <1>5
<1>. QED
  BY <1>3, <1>4, <1>8, <1>9 DEF Ahead

(* What the stack says of the positions on it when one more is looked at.  *)
LEMMA IncludeStaysAhead ==
    ASSUME Inv, Include, values' = values, NEW S, Ahead(S)
    PROVE  Ahead(S)'
<1>. DEFINE n == Len(chosen)
<1>1. n \in Nat /\ chosen \in Seq(Nat) /\ next \in Nat /\ Len(values) \in Nat
  BY ArgumentTypes DEF Inv, TypeOK
<1>2. /\ chosen' = Append(chosen, next) /\ next' = next + 1
      /\ Len(chosen') = n + 1 /\ chosen'[n + 1] = next
      /\ \A i \in 1..n : chosen'[i] = chosen[i]
  BY <1>1 DEF Include
<1>3. PICK k \in 0..n : Extends(S, k)
  BY DEF Ahead
<1>4. \A l \in 0..n : Taken(l)' = Taken(l)
  <2>1. \A l \in 0..n : \A i \in 1..l : i \in 1..n
    BY <1>1
  <2>. QED
    BY <1>2, <2>1 DEF Taken
<1>5. CASE k # n
  <2>1. k + 1 \in 1..n /\ k # n + 1
    BY <1>1, <1>5
  <2>2. OpenFrom(k)' = OpenFrom(k)
    BY <1>2, <1>5, <2>1 DEF OpenFrom
  <2>3. Extends(S, k)'
    BY <1>3, <1>4, <2>2 DEF Extends
  <2>4. k \in 0..Len(chosen')
    BY <1>1, <1>2
  <2>. QED
    BY <2>3, <2>4 DEF Ahead
<1>6. CASE k = n /\ next \notin S
  <2>1. OpenFrom(k)' = next + 1 /\ OpenFrom(k) = next /\ Taken(k)' = Taken(k)
    BY <1>1, <1>2, <1>4, <1>6 DEF OpenFrom
  <2>2. Extends(S, k)'
    BY <1>1, <1>3, <1>6, <2>1 DEF Extends
  <2>3. k \in 0..Len(chosen')
    BY <1>1, <1>2
  <2>. QED
    BY <2>2, <2>3 DEF Ahead
<1>7. CASE k = n /\ next \in S
  <2>1. Taken(k + 1)' = Taken(k) \cup {next}
    <3>1. 1..(k + 1) = (1..k) \cup {k + 1}
      BY <1>1
    <3>2. Taken(k + 1)' = {chosen'[i] : i \in (1..k) \cup {k + 1}}
      BY <3>1 DEF Taken
    <3>3. chosen'[k + 1] = next /\ \A i \in 1..k : chosen'[i] = chosen[i]
      BY <1>2, <1>7
    <3>. QED
      BY <3>2, <3>3 DEF Taken
  <2>2. OpenFrom(k + 1)' = next + 1 /\ OpenFrom(k) = next
    BY <1>1, <1>2, <1>7 DEF OpenFrom
  <2>3. Extends(S, k + 1)'
    BY <1>1, <1>3, <1>7, <2>1, <2>2 DEF Extends
  <2>4. k + 1 \in 0..Len(chosen')
    BY <1>1, <1>2, <1>7
  <2>. QED
    BY <2>3, <2>4 DEF Ahead
<1>. QED
  BY <1>5, <1>6, <1>7

(* A value that is passed over equals the one before it, which is not      *)
(* selected: what selects it has a twin that selects the other.            *)
LEMMA SkippedHasTwin ==
    ASSUME Inv, Skip, NEW S \in Reaching, Extends(S, Len(chosen)), next \in S
    PROVE  \E T \in Reaching : /\ SumOf(T) = SumOf(S) /\ TrueScore(T) = TrueScore(S)
                              /\ ~Ahead(T)
<1>. DEFINE n == Len(chosen)
            prev == next - 1
            R == S \ {next}
            T == R \cup {prev}
<1>1. /\ n \in Nat /\ chosen \in Seq(Nat) /\ next \in Nat /\ Len(values) \in Nat
      /\ values \in Seq(Nat) /\ next \in 1..Len(values) /\ problem \in Problems
  BY ArgumentTypes, IncludesBeforeSentinel DEF Inv, TypeOK, Skip
<1>2. /\ chosen # <<>> /\ prev # chosen[n] /\ values[next] = values[prev]
  BY DEF Skip, IsNewNext, Last
<1>3. /\ n \in 1..n /\ \A i \in 1..n : chosen[i] \in 1..prev
      /\ \A i, j \in 1..n : i < j => chosen[i] < chosen[j]
  BY <1>1, <1>2 DEF Inv, InBounds
<1>4. chosen[n] < prev /\ prev \in Nat /\ prev \in 1..Len(values)
  <2>1. chosen[n] \in 1..prev
    BY <1>3
  <2>2. chosen[n] \in Nat /\ 1 =< chosen[n] /\ chosen[n] =< prev
    BY <1>1, <2>1
  <2>3. prev \in Int /\ prev < next /\ next =< Len(values)
    BY <1>1
  <2>. QED
    BY <1>1, <1>2, <2>2, <2>3, SMTT(30)
<1>5. \A i \in 1..n : chosen[i] < prev
  <2>. TAKE i \in 1..n
  <2>1. i < n \/ i = n
    BY <1>1
  <2>2. chosen[i] \in Nat /\ chosen[n] \in Nat
    BY <1>3, <1>4
  <2>. QED
    BY <1>3, <1>4, <2>1, <2>2
<1>6. Taken(n) \subseteq S /\ S \ Taken(n) \subseteq next..Len(values)
  BY DEF Extends, OpenFrom
<1>7. prev \notin S /\ next # prev
  <2>1. prev \notin Taken(n)
    BY <1>4, <1>5 DEF Taken
  <2>2. prev \notin next..Len(values)
    BY <1>1
  <2>. QED
    BY <1>1, <1>6, <2>1, <2>2
<1>8. S \in SUBSET (1..Len(values)) /\ IsFiniteSet(S) /\ Cardinality(S) \in Nat
  BY <1>1, ReachingFacts
<1>9. /\ R \in SUBSET (1..Len(values)) /\ T \in SUBSET (1..Len(values))
      /\ T \ {prev} = R /\ prev \in T /\ prev \notin R
  <2>. HIDE DEF prev
  <2>. QED
    BY <1>4, <1>7, <1>8, Zenon
<1>10. SumOf(T) = SumOf(S)
  <2>1. \A P \in SUBSET (1..Len(values)) : \A i \in P :
          Sums!Fold(values, P) = values[i] + Sums!Fold(values, P \ {i})
    BY <1>1, SumOfPositions
  <2>2. Sums!Fold(values, S) = values[next] + Sums!Fold(values, R)
    BY <1>8, <2>1, Zenon
  <2>. HIDE DEF R, T, prev
  <2>3. Sums!Fold(values, T) = values[prev] + Sums!Fold(values, R)
    BY <1>9, <2>1, Zenon
  <2>4. SumOf(T) = Sums!Fold(values, T) /\ SumOf(S) = Sums!Fold(values, S)
    BY SumIsFold
  <2>. QED
    BY <1>2, <2>2, <2>3, <2>4, Zenon
<1>11. Cardinality(T) = Cardinality(S)
  <2>1. IsFiniteSet(R) /\ Cardinality(R) = Cardinality(S) - 1
    BY <1>8, FS_RemoveElement
  <2>. HIDE DEF R, prev
  <2>2. Cardinality(T) = Cardinality(R) + 1
    BY <1>9, <2>1, FS_AddElement
  <2>. QED
    BY <1>8, <2>1, <2>2
<1>12. T \in Reaching /\ TrueScore(T) = TrueScore(S)
  <2>. HIDE DEF T
  <2>. QED
    BY <1>9, <1>10, <1>11 DEF Reaching, Selections, TrueScore
<1>13. ~Ahead(T)
  <2>. SUFFICES ASSUME NEW k \in 0..n, Extends(T, k) PROVE FALSE
    BY DEF Ahead
  <2>1. prev \notin Taken(k)
    <3>1. \A i \in 1..k : i \in 1..n
      BY <1>1
    <3>. QED
      BY <1>4, <1>5, <3>1 DEF Taken
  <2>2. prev \in OpenFrom(k)..Len(values)
    <3>. HIDE DEF prev, T
    <3>. QED
      BY <1>9, <2>1 DEF Extends
  <2>3. k # n
    BY <1>1, <2>2 DEF OpenFrom
  <2>4. k + 1 \in 1..n /\ OpenFrom(k) = chosen[k + 1] + 1
    BY <1>1, <2>3 DEF OpenFrom
  <2>5. chosen[k + 1] \in S /\ chosen[k + 1] # next
    <3>1. chosen[k + 1] \in Taken(n)
      BY <2>4 DEF Taken
    <3>. QED
      BY <1>1, <1>5, <1>6, <2>4, <3>1
  <2>6. chosen[k + 1] \in T
    BY <2>5
  <2>7. chosen[k + 1] \notin Taken(k)
    <3>1. \A i \in 1..k : i \in 1..n /\ i < k + 1
      BY <1>1
    <3>2. \A i \in 1..k : chosen[i] < chosen[k + 1]
      BY <1>3, <2>4, <3>1
    <3>3. chosen[k + 1] \in Nat
      BY <1>3, <2>4
    <3>. QED
      BY <3>2, <3>3 DEF Taken
  <2>8. chosen[k + 1] \in OpenFrom(k)..Len(values) /\ chosen[k + 1] \in Nat
    <3>. HIDE DEF T
    <3>. QED
      BY <1>3, <2>4, <2>6, <2>7 DEF Extends
  <2>. QED
    BY <2>4, <2>8
<1>. QED
  BY <1>10, <1>12, <1>13

(* The score of a selection that reaches the target, when none wraps.      *)
LEMMA ScoreIsTrue ==
    ASSUME Inv, SumInv, ScoresFit, Reaches
    PROVE  /\ Range(chosen) \in Reaching /\ Score = TrueScore(Range(chosen))
           /\ sum = SumOf(Range(chosen))
<1>. DEFINE R == Range(chosen)
<1>1. /\ R \in SUBSET (1..Len(values)) /\ Cardinality(R) = Len(chosen)
      /\ Len(chosen) <= MaxAssets /\ sum = SumOf(R) /\ problem \in Problems
  BY SelectionIsSet, SumIsFold DEF Inv, InBounds, SumInv
<1>2. R \in Reaching
  BY <1>1 DEF Reaching, Selections, Reaches
<1>3. TrueScore(R) = ScoreOf(Len(chosen), sum = target)
  BY <1>1, Zenon DEF TrueScore
<1>4. TrueScore(R) \in 0..MaxScore
  <2>1. /\ problem.ratio \in Nat /\ Len(values) \in Nat /\ MaxScore \in Nat
        /\ problem.ratio + Len(values) <= MaxScore
    BY <1>1, ArgumentTypes, BoundsAssumption DEF ScoresFit
  <2>2. /\ TrueScore(R) \in Nat /\ Cardinality(R) \in 1..Len(values)
        /\ TrueScore(R) <= Cardinality(R) + problem.ratio
    BY <1>1, <1>2, <2>1, ReachingFacts
  <2>. HIDE DEF R
  <2>. QED
    BY <2>1, <2>2
<1>5. \A x \in 0..MaxScore : x % (MaxScore + 1) = x
  BY BoundsAssumption
<1>6. Score = TrueScore(R)
  BY <1>3, <1>4, <1>5 DEF Score
<1>. QED
  BY <1>1, <1>2, <1>6

LEMMA BestSumTyped ==
    ASSUME Inv, SumInv, FindInv PROVE best.sum \in Nat
<1>1. CASE best.chosen = <<>>
  BY <1>1 DEF FindInv
<1>2. CASE best.chosen # <<>>
  <2>1. values \in Seq(Nat) /\ Len(values) \in Nat
    BY ArgumentTypes DEF Inv
  <2>2. Range(best.chosen) \in SUBSET (1..Len(values))
    BY DEF Inv, TypeOK, Range
  <2>3. Sums!Fold(values, Range(best.chosen)) \in Nat
    BY <2>1, <2>2, SumOfPositions
  <2>. QED
    BY <1>2, <2>3 DEF SumInv
<1>. QED
  BY <1>1, <1>2

(* Taking the selection on the stack, or not, leaves nothing better in its *)
(* branch, and nothing that was beaten is better than what is taken.       *)
LEMMA ConsiderBeats ==
    ASSUME Inv, SumInv, FindInv, ScoresFit, Consider, NEW S \in Reaching,
           Beats(best, S) \/ Extends(S, Len(chosen))
    PROVE  Beats(best', S)
<1>. DEFINE R == Range(chosen)
<1>1. R \in Reaching /\ Score = TrueScore(R) /\ sum = SumOf(R) /\ sum >= target
  BY ScoreIsTrue DEF Consider, Reaches
<1>2. /\ TrueScore(S) \in Nat /\ SumOf(S) \in Nat /\ SumOf(S) >= target
      /\ TrueScore(S) = Cardinality(S) + (IF SumOf(S) = target THEN 0 ELSE problem.ratio)
      /\ TrueScore(R) \in Nat /\ SumOf(R) \in Nat /\ Cardinality(S) \in Nat
      /\ TrueScore(R) = Cardinality(R) + (IF SumOf(R) = target THEN 0 ELSE problem.ratio)
      /\ Cardinality(R) = Len(chosen) /\ Cardinality(R) \in Nat
      /\ target \in Nat /\ problem.ratio \in Nat
  <2>1. problem \in Problems
    BY DEF Inv
  <2>. HIDE DEF R
  <2>2. Cardinality(R) = Len(chosen)
    BY SelectionIsSet DEF R
  <2>3. target \in Nat /\ problem.ratio \in Nat /\ Len(values) \in Nat
    BY <2>1, ArgumentTypes
  <2>4. \A P \in Reaching :
          /\ TrueScore(P) \in Nat /\ SumOf(P) \in Nat /\ SumOf(P) >= target
          /\ TrueScore(P) = Cardinality(P) + (IF SumOf(P) = target THEN 0 ELSE problem.ratio)
          /\ Cardinality(P) \in 1..Len(values)
    BY <2>1, ReachingFacts
  <2>5. \A c \in 1..Len(values) : c \in Nat
    BY <2>3
  <2>. QED
    BY <1>1, <2>2, <2>3, <2>4, <2>5, Zenon
<1>3. best.score \in Nat /\ best.sum \in Nat
  BY BoundsAssumption, BestSumTyped DEF Inv, TypeOK
<1>. DEFINE ExactHas(s) == \E E \in Reaching : SumOf(E) = target /\ TrueScore(E) = s
<1>4. SumOf(R) = target => ExactHas(TrueScore(R))
  BY <1>1
<1>5. CASE Extends(S, Len(chosen))
  <2>1. SumOf(S) >= SumOf(R) /\ (S = R \/ Cardinality(S) > Cardinality(R))
    BY <1>1, <1>2, <1>5, ExtendsTheStack
  <2>2. S = R \/ TrueScore(S) > TrueScore(R)
    BY <1>1, <1>2, <2>1
  <2>3. CASE IsBetter
    <3>1. best'.score = TrueScore(R) /\ best'.sum = SumOf(R)
      BY <1>1, <2>3 DEF Consider
    <3>2. S = R => TrueScore(S) = TrueScore(R) /\ SumOf(S) = SumOf(R)
      BY Zenon
    <3>. QED
      BY <1>2, <2>2, <3>1, <3>2 DEF Beats
  <2>4. CASE ~IsBetter
    <3>1. best' = best
      BY <2>4 DEF Consider
    <3>2. \/ TrueScore(R) > best.score
          \/ TrueScore(R) = best.score /\ ~(sum > best.sum)
      BY <1>1, <1>2, <1>3, <2>4 DEF IsBetter
    <3>3. S = R => TrueScore(S) = TrueScore(R) /\ SumOf(S) = SumOf(R)
      BY Zenon
    <3>. QED
      BY <1>1, <1>2, <1>3, <2>2, <3>1, <3>2, <3>3 DEF Beats
  <2>. QED
    BY <2>3, <2>4
<1>6. CASE Beats(best, S)
  <2>1. CASE IsBetter
    <3>1. best'.score = TrueScore(R) /\ best'.sum = SumOf(R)
      BY <1>1, <2>1 DEF Consider
    <3>2. \/ TrueScore(R) < best.score
          \/ /\ TrueScore(R) = best.score
             /\ SumOf(R) > best.sum \/ SumOf(R) = target
      BY <1>1, <2>1 DEF IsBetter
    <3>3. CASE best.score < TrueScore(S)
      BY <1>2, <1>3, <3>1, <3>2, <3>3 DEF Beats
    <3>4. CASE best.score = TrueScore(S) /\ TrueScore(R) < best.score
      BY <1>2, <1>3, <3>1, <3>4 DEF Beats
    <3>5. CASE best.score = TrueScore(S) /\ TrueScore(R) = best.score
      <4>1. CASE ExactHas(best.score)
        BY <3>1, <3>5, <4>1 DEF Beats
      <4>2. CASE SumOf(R) = target
        BY <1>4, <3>1, <3>5, <4>2 DEF Beats
      <4>3. CASE SumOf(S) <= best.sum /\ SumOf(R) > best.sum
        <5>1. SumOf(S) <= SumOf(R)
          BY <1>2, <1>3, <4>3
        <5>. QED
          BY <3>1, <3>5, <5>1 DEF Beats
      <4>. QED
        BY <1>2, <1>3, <1>6, <3>2, <3>5, <4>1, <4>2, <4>3 DEF Beats
    <3>. QED
      BY <1>2, <1>3, <1>6, <3>2, <3>3, <3>4, <3>5 DEF Beats
  <2>2. CASE ~IsBetter
    <3>1. best' = best
      BY <2>2 DEF Consider
    <3>. QED
      BY <1>6, <3>1 DEF Beats
  <2>. QED
    BY <2>1, <2>2
<1>. QED
  BY <1>5, <1>6

(* What a selection is worth depends on the arguments only.                *)
LEMMA WorthIsKept ==
    ASSUME problem' = problem
    PROVE  /\ values' = values /\ Reaching' = Reaching /\ ScoresFit' = ScoresFit
           /\ \A S : TrueScore(S)' = TrueScore(S) /\ SumOf(S)' = SumOf(S)
           /\ \A S : Beats(best, S)' <=> Beats(best', S)
<1>1. values' = values /\ target' = target /\ Reaching' = Reaching
  BY ReachingIsKept DEF values, target
<1>2. \A S : SumOf(S)' = SumOf(S)
  <2>1. \A S : SumOf(S) = Sums!Fold(values, S)
    BY SumIsFold
  <2>2. \A S : SumOf(S)' = Sums!Fold(values', S)
    BY DEF SumOf, MapThenSumSet, MapThenFoldSet, Sums!Fold, Sums!MapThenFoldSet, At, Member
  <2>. QED
    BY <1>1, <2>1, <2>2
<1>3. \A S : TrueScore(S)' = TrueScore(S)
  BY <1>1, <1>2 DEF TrueScore, ScoreOf
<1>4. ScoresFit' = ScoresFit
  BY <1>1 DEF ScoresFit
<1>5. \A S : Beats(best, S)' <=> Beats(best', S)
  BY <1>1, <1>2, <1>3 DEF Beats
<1>. QED
  BY <1>1, <1>2, <1>3, <1>4, <1>5

LEMMA InitBestInv == Init => BestInv
<1>. SUFFICES ASSUME Init PROVE BestInv
  OBVIOUS
<1>1. /\ problem \in Problems /\ next = 1 /\ chosen = <<>> /\ best.chosen = <<>>
      /\ status \in {"insufficient", "searching"}
  BY DEF Init
<1>2. ASSUME NEW S \in Reaching PROVE Ahead(S)
  <2>1. S \in SUBSET (1..Len(values))
    BY <1>1, ReachingFacts
  <2>2. Taken(0) = {} /\ OpenFrom(0) = 1 /\ 0 \in 0..Len(chosen)
    BY <1>1 DEF Taken, OpenFrom
  <2>3. Extends(S, 0)
    BY <2>1, <2>2 DEF Extends
  <2>. QED
    BY <2>2, <2>3 DEF Ahead
<1>. QED
  BY <1>1, <1>2 DEF BestInv, Exhausted

LEMMA NextBestInv ==
    Inv /\ SumInv /\ FindInv /\ BestInv /\ [Next]_vars => BestInv'
<1>. SUFFICES ASSUME Inv, SumInv, FindInv, BestInv, [Next]_vars, ScoresFit'
              PROVE  /\ best'.chosen # <<>> =>
                           /\ Range(best'.chosen) \in Reaching'
                           /\ best'.score = TrueScore(Range(best.chosen))'
                     /\ status' = "searching" =>
                           \A S \in Reaching' : Beats(best, S)' \/ Ahead(S)'
                     /\ Exhausted' => \A S \in Reaching' : Beats(best, S)'
  BY DEF BestInv
<1>1. problem' = problem
  BY DEF Next, GiveUp, Consider, Include, Skip, Attempt, OutOfAttempts, vars
<1>2. /\ values' = values /\ Reaching' = Reaching /\ ScoresFit
      /\ \A S : TrueScore(S)' = TrueScore(S)
      /\ \A S : Beats(best, S)' <=> Beats(best', S)
  BY <1>1, WorthIsKept
<1>3. /\ best.chosen # <<>> =>
            /\ Range(best.chosen) \in Reaching
            /\ best.score = TrueScore(Range(best.chosen))
      /\ status = "searching" => \A S \in Reaching : Beats(best, S) \/ Ahead(S)
      /\ Exhausted => \A S \in Reaching : Beats(best, S)
  BY <1>2 DEF BestInv
<1>4. TrueScore(Range(best.chosen))' = TrueScore(Range(best'.chosen))
  BY <1>2 DEF TrueScore, ScoreOf
<1>. DEFINE Found == best'.chosen # <<>> =>
                       /\ Range(best'.chosen) \in Reaching
                       /\ best'.score = TrueScore(Range(best'.chosen))
            Goal == /\ Found
                    /\ status' = "searching" =>
                          \A S \in Reaching : Beats(best', S) \/ Ahead(S)'
                    /\ Exhausted' => \A S \in Reaching : Beats(best', S)
<1>. SUFFICES Goal
  BY <1>2, <1>4
<1>5. CASE GiveUp
  <2>1. best' = best /\ Backtrack /\ status = "searching" /\ (CannotReach \/ IsCut)
    BY <1>5 DEF GiveUp, Attempt
  <2>2. \A S \in Reaching : Beats(best', S) \/ (chosen # <<>> /\ status' = status /\ Ahead(S)')
    <3>. TAKE S \in Reaching
    <3>1. Extends(S, Len(chosen)) => Beats(best, S)
      BY <2>1, CutIsBeaten
    <3>2. Ahead(S) /\ ~Extends(S, Len(chosen))
            => chosen # <<>> /\ status' = status /\ Ahead(S)'
      BY <1>2, <2>1, BacktrackStaysAhead
    <3>. QED
      BY <1>3, <2>1, <3>1, <3>2
  <2>. QED
    BY <1>3, <2>1, <2>2 DEF Exhausted
<1>6. CASE Consider
  <2>1. status = "searching" /\ Reaches
    BY <1>6 DEF Consider, Attempt
  <2>2. \A S \in Reaching : Beats(best, S) \/ Extends(S, Len(chosen)) => Beats(best', S)
    BY <1>2, <1>6, ConsiderBeats
  <2>3. Found
    <3>1. Range(chosen) \in Reaching /\ Score = TrueScore(Range(chosen))
      BY <1>2, <2>1, ScoreIsTrue
    <3>2. CASE IsBetter
      <4>1. best'.chosen = chosen /\ best'.score = Score
        BY <1>6, <3>2 DEF Consider
      <4>. QED
        BY <3>1, <4>1
    <3>3. CASE ~IsBetter
      <4>1. best' = best
        BY <1>6, <3>3 DEF Consider
      <4>. QED
        BY <1>3, <4>1
    <3>. QED
      BY <3>2, <3>3
  <2>4. CASE IsBetter /\ sum = target /\ Len(chosen) = 1
    <3>1. /\ Range(chosen) \in Reaching /\ Score = TrueScore(Range(chosen))
          /\ sum = SumOf(Range(chosen)) /\ status' = "perfect" /\ best'.score = Score
      BY <1>2, <1>6, <2>1, <2>4, ScoreIsTrue DEF Consider
    <3>2. TrueScore(Range(chosen)) = 1
      <4>1. Cardinality(Range(chosen)) = 1 /\ SumOf(Range(chosen)) = target
        BY <2>4, <3>1, SelectionIsSet
      <4>. QED
        BY <4>1 DEF TrueScore, ScoreOf
    <3>3. \A S \in Reaching : TrueScore(S) \in Nat /\ TrueScore(S) >= 1
      <4>. TAKE S \in Reaching
      <4>1. problem.ratio \in Nat /\ Len(values) \in Nat
        BY ArgumentTypes DEF Inv
      <4>2. /\ Cardinality(S) \in 1..Len(values) /\ TrueScore(S) \in Nat
            /\ TrueScore(S)
                 = Cardinality(S) + (IF SumOf(S) = target THEN 0 ELSE problem.ratio)
        BY ReachingFacts DEF Inv
      <4>. QED
        BY <4>1, <4>2
    <3>4. \A S \in Reaching : Beats(best', S)
      <4>. TAKE S \in Reaching
      <4>1. best'.score = 1 /\ TrueScore(Range(chosen)) = best'.score
            /\ SumOf(Range(chosen)) = target
        BY <2>4, <3>1, <3>2
      <4>2. best'.score < TrueScore(S) \/ best'.score = TrueScore(S)
        BY <3>3, <4>1
      <4>. QED
        BY <3>1, <4>1, <4>2 DEF Beats
    <3>. QED
      BY <2>3, <3>1, <3>4
  <2>5. CASE ~(IsBetter /\ sum = target /\ Len(chosen) = 1)
    <3>1. Backtrack
      BY <1>6, <2>5 DEF Consider
    <3>2. \A S \in Reaching :
            Beats(best', S) \/ (chosen # <<>> /\ status' = status /\ Ahead(S)')
      <4>. TAKE S \in Reaching
      <4>1. Ahead(S) /\ ~Extends(S, Len(chosen))
              => chosen # <<>> /\ status' = status /\ Ahead(S)'
        BY <1>2, <3>1, BacktrackStaysAhead
      <4>. QED
        BY <1>3, <2>1, <2>2, <4>1
    <3>. QED
      BY <2>1, <2>3, <3>2 DEF Exhausted
  <2>. QED
    BY <2>4, <2>5
<1>7. CASE Include
  <2>1. best' = best /\ status' = "searching" /\ status = "searching"
    BY <1>7 DEF Include, Attempt
  <2>2. \A S \in Reaching : Ahead(S) => Ahead(S)'
    BY <1>2, <1>7, IncludeStaysAhead
  <2>. QED
    BY <1>3, <2>1, <2>2 DEF Exhausted
<1>8. CASE Skip
  <2>1. /\ best' = best /\ status' = "searching" /\ status = "searching"
        /\ chosen' = chosen /\ next' = next + 1
    BY <1>8 DEF Skip, Attempt
  <2>2. ASSUME NEW S \in Reaching, Ahead(S) PROVE Beats(best, S) \/ Ahead(S)'
    <3>1. CASE Extends(S, Len(chosen)) /\ next \in S
      <4>1. PICK T \in Reaching :
              SumOf(T) = SumOf(S) /\ TrueScore(T) = TrueScore(S) /\ ~Ahead(T)
        BY <1>8, <3>1, SkippedHasTwin
      <4>2. Beats(best, T)
        BY <1>3, <2>1, <4>1
      <4>. QED
        BY <4>1, <4>2 DEF Beats
    <3>2. CASE ~(Extends(S, Len(chosen)) /\ next \in S)
      <4>1. PICK k \in 0..Len(chosen) : Extends(S, k)
        BY <2>2 DEF Ahead
      <4>2. Taken(k)' = Taken(k)
        BY <2>1 DEF Taken
      <4>3. CASE k = Len(chosen)
        <5>1. OpenFrom(k)' = next + 1 /\ OpenFrom(k) = next /\ next \notin S
          BY <2>1, <3>2, <4>1, <4>3 DEF OpenFrom
        <5>2. next \in Nat /\ Len(values) \in Nat
          BY ArgumentTypes DEF Inv, TypeOK
        <5>3. Extends(S, k)'
          BY <1>2, <4>1, <4>2, <5>1, <5>2 DEF Extends
        <5>. QED
          BY <2>1, <5>3 DEF Ahead
      <4>4. CASE k # Len(chosen)
        <5>1. OpenFrom(k)' = OpenFrom(k)
          BY <2>1, <4>4 DEF OpenFrom
        <5>2. Extends(S, k)'
          BY <1>2, <4>1, <4>2, <5>1 DEF Extends
        <5>. QED
          BY <2>1, <5>2 DEF Ahead
      <4>. QED
        BY <4>3, <4>4
    <3>. QED
      BY <3>1, <3>2
  <2>. QED
    BY <1>3, <2>1, <2>2 DEF Exhausted
<1>9. CASE OutOfAttempts
  <2>1. best' = best /\ status' = "attempts"
    BY <1>9 DEF OutOfAttempts
  <2>. QED
    BY <1>3, <2>1 DEF Exhausted
<1>10. CASE UNCHANGED vars
  <2>1. best' = best /\ status' = status /\ next' = next /\ chosen' = chosen
    BY <1>10 DEF vars
  <2>2. \A S : Ahead(S)' <=> Ahead(S)
    BY <1>2, <2>1 DEF Ahead, Extends, Taken, OpenFrom
  <2>. QED
    BY <1>3, <2>1, <2>2 DEF Exhausted
<1>. QED
  BY <1>5, <1>6, <1>7, <1>8, <1>9, <1>10 DEF Next

LEMMA LeastIs ==
    ASSUME NEW S, S \subseteq Nat, NEW m \in S
    PROVE  /\ (\A x \in S : m <= x) => Min(S) = m
           /\ (\A x \in S : x <= m) => Max(S) = m
<1>1. ASSUME \A x \in S : m <= x PROVE Min(S) = m
  <2>. DEFINE P(x) == \A y \in S : x <= y
  <2>1. \A x \in S : P(x) => x = m
    BY <1>1
  <2>2. P(m)
    BY <1>1
  <2>. HIDE DEF P
  <2>3. (CHOOSE x \in S : P(x)) = m
    BY <2>1, <2>2
  <2>. QED
    BY <2>3 DEF P, Min
<1>2. ASSUME \A x \in S : x <= m PROVE Max(S) = m
  <2>. DEFINE P(x) == \A y \in S : x >= y
  <2>1. \A x \in S : P(x) => x = m
    BY <1>2
  <2>2. P(m)
    BY <1>2
  <2>. HIDE DEF P
  <2>3. (CHOOSE x \in S : P(x)) = m
    BY <2>1, <2>2
  <2>. QED
    BY <2>3 DEF P, Max
<1>. QED
  BY <1>1, <1>2

LEMMA BestInvFinds == Inv /\ SumInv /\ FindInv /\ BestInv => FindsBest
<1>. SUFFICES ASSUME Inv, SumInv, FindInv, BestInv, Exhausted, ScoresFit, Reaching # {}
              PROVE  /\ Range(best.chosen) \in Cheapest
                     /\ ~HasExact => best.sum = Max({SumOf(S) : S \in Cheapest})
  BY DEF FindsBest
<1>. DEFINE R == Range(best.chosen)
<1>1. best.chosen # <<>>
  BY FindInvFinds DEF AlwaysFinds, Ended, Exhausted
<1>2. /\ R \in Reaching /\ best.score = TrueScore(R) /\ best.sum = SumOf(R)
      /\ \A S \in Reaching : Beats(best, S)
  BY <1>1, SumIsFold DEF BestInv, SumInv
<1>3. \A S \in Reaching : TrueScore(S) \in Nat /\ SumOf(S) \in Nat
  BY ReachingFacts DEF Inv
<1>. HIDE DEF R
<1>4. LeastScore = TrueScore(R)
  <2>. DEFINE scores == {TrueScore(S) : S \in Reaching}
  <2>1. scores \subseteq Nat /\ TrueScore(R) \in scores
    BY <1>2, <1>3
  <2>2. \A x \in scores : TrueScore(R) <= x
    BY <1>2, <1>3 DEF Beats
  <2>. HIDE DEF scores
  <2>3. Min(scores) = TrueScore(R)
    BY <2>1, <2>2, LeastIs
  <2>. QED
    BY <2>3 DEF scores, LeastScore
<1>5. R \in Cheapest
  BY <1>2, <1>4 DEF Cheapest
<1>6. ASSUME ~HasExact PROVE best.sum = Max({SumOf(S) : S \in Cheapest})
  <2>. DEFINE sums == {SumOf(S) : S \in Cheapest}
  <2>1. sums \subseteq Nat /\ SumOf(R) \in sums
    BY <1>3, <1>5 DEF Cheapest
  <2>2. \A S \in Cheapest : SumOf(S) <= SumOf(R)
    <3>. TAKE S \in Cheapest
    <3>1. S \in Reaching /\ TrueScore(S) = best.score
      BY <1>2, <1>4 DEF Cheapest
    <3>2. \A E \in Reaching : TrueScore(E) = best.score => SumOf(E) # target
      BY <1>2, <1>4, <1>6 DEF HasExact, Cheapest
    <3>. QED
      BY <1>2, <1>3, <3>1, <3>2 DEF Beats
  <2>3. \A x \in sums : x <= SumOf(R)
    BY <2>2
  <2>. HIDE DEF sums
  <2>4. Max(sums) = SumOf(R)
    BY <2>1, <2>3, LeastIs
  <2>. QED
    BY <1>2, <2>4 DEF sums
<1>. QED
  BY <1>5, <1>6 DEF R

(* What the search leaves out is no better than what it returns: the cuts  *)
(* of wally_coinselect_assets by sum, score and number, the twins it skips *)
(* and the early end lose no selection of a better score, nor, unless one  *)
(* is exact, one of the best score with more change.                       *)
THEOREM SelectionIsBest == Spec => []FindsBest
  BY InitInv, NextInv, InitSumInv, NextSumInv, InitFindInv, NextFindInv,
     InitBestInv, NextBestInv, BestInvFinds, PTL DEF Spec

-----------------------------------------------------------------------------
(* Blinding.                                                               *)

LOCAL ScalarAt(f, i) == f[i]
LOCAL Itself(f, i) == i
LOCAL Whichever(S) == CHOOSE i \in S : TRUE

Totals == INSTANCE Folding WITH Op <- Plus, Base <- Zero, Map <- ScalarAt, Choose <- Whichever
ScalarSums == INSTANCE Folding WITH Op <- Plus, Base <- Zero, Map <- Itself, Choose <- Whichever

-----------------------------------------------------------------------------
(* Scalars are a commutative group.                                        *)
Vec == [Atoms -> Int]

LEMMA ZeroTyped == Zero \in Vec
  BY DEF Zero, Vec

LEMMA PlusTyped == \A x, y \in Vec : Plus(x, y) \in Vec /\ Minus(x, y) \in Vec
  BY DEF Plus, Minus, Vec

LEMMA VecAt == \A x, y \in Vec, a \in Atoms :
        /\ x[a] \in Int /\ Zero[a] = 0
        /\ Plus(x, y)[a] = x[a] + y[a] /\ Minus(x, y)[a] = x[a] - y[a]
  BY DEF Plus, Minus, Vec, Zero

LEMMA VecSame ==
    ASSUME NEW x \in Vec, NEW y \in Vec, \A a \in Atoms : x[a] = y[a]
    PROVE  x = y
  BY DEF Vec

LEMMA PlusIsSum ==
    /\ \A x, y \in Vec : Plus(x, y) = Plus(y, x)
    /\ \A x, y, z \in Vec : Plus(x, Plus(y, z)) = Plus(Plus(x, y), z)
    /\ \A x \in Vec : Plus(x, Zero) = x
<1>1. ASSUME NEW x \in Vec, NEW y \in Vec PROVE Plus(x, y) = Plus(y, x)
  <2>1. \A a \in Atoms : Plus(x, y)[a] = Plus(y, x)[a]
    BY VecAt
  <2>. QED
    BY <2>1, PlusTyped, VecSame
<1>2. ASSUME NEW x \in Vec, NEW y \in Vec, NEW z \in Vec
      PROVE  Plus(x, Plus(y, z)) = Plus(Plus(x, y), z)
  <2>1. Plus(y, z) \in Vec /\ Plus(x, y) \in Vec
    BY PlusTyped
  <2>2. \A a \in Atoms : Plus(x, Plus(y, z))[a] = Plus(Plus(x, y), z)[a]
    BY <2>1, VecAt
  <2>. QED
    BY <2>1, <2>2, PlusTyped, VecSame
<1>3. ASSUME NEW x \in Vec PROVE Plus(x, Zero) = x
  <2>1. \A a \in Atoms : Plus(x, Zero)[a] = x[a]
    BY ZeroTyped, VecAt
  <2>. QED
    BY <2>1, ZeroTyped, PlusTyped, VecSame
<1>. QED
  BY <1>1, <1>2, <1>3

LEMMA VecIsSum == Totals!IsSum(Vec) /\ ScalarSums!IsSum(Vec)
  BY ZeroTyped, PlusTyped, PlusIsSum DEF Totals!IsSum, ScalarSums!IsSum

(* What one owner adds to the account.                                     *)
LEMMA AccountGrows ==
    ASSUME NEW outs \in Vec, NEW ins \in Vec, NEW more \in Vec, NEW spent \in Vec
    PROVE  Minus(Plus(outs, more), Plus(ins, spent))
            = Plus(Minus(more, spent), Minus(outs, ins))
<1>. DEFINE l == Minus(Plus(outs, more), Plus(ins, spent))
            r == Plus(Minus(more, spent), Minus(outs, ins))
<1>1. /\ Plus(outs, more) \in Vec /\ Plus(ins, spent) \in Vec
      /\ Minus(more, spent) \in Vec /\ Minus(outs, ins) \in Vec
  BY PlusTyped
<1>2. l \in Vec /\ r \in Vec
  BY <1>1, PlusTyped
<1>3. \A a \in Atoms : l[a] = r[a]
  <2>. TAKE a \in Atoms
  <2>1. l[a] = outs[a] + more[a] - (ins[a] + spent[a])
    BY <1>1, VecAt
  <2>2. r[a] = more[a] - spent[a] + (outs[a] - ins[a])
    BY <1>1, VecAt
  <2>3. outs[a] \in Int /\ ins[a] \in Int /\ more[a] \in Int /\ spent[a] \in Int
    BY VecAt
  <2>. HIDE DEF l, r
  <2>. QED
    BY <2>1, <2>2, <2>3
<1>. QED
  BY <1>2, <1>3, VecSame

(* What the last output takes evens it out.                                *)
LEMMA AccountCloses ==
    ASSUME NEW outs \in Vec, NEW ins \in Vec, NEW last \in Vec, NEW rest \in Vec,
           NEW spent \in Vec
    PROVE  Minus(Plus(outs, Plus(Minus(Minus(last, Minus(Plus(last, rest), spent)),
                                       Minus(outs, ins)), rest)),
                 Plus(ins, spent)) = Zero
<1>. DEFINE scalars == Minus(outs, ins)
            final == Minus(Minus(last, Minus(Plus(last, rest), spent)), scalars)
            total == Minus(Plus(outs, Plus(final, rest)), Plus(ins, spent))
<1>0. scalars \in Vec /\ \A a \in Atoms : scalars[a] = outs[a] - ins[a]
  BY PlusTyped, VecAt
<1>. HIDE DEF scalars
<1>1. /\ Plus(last, rest) \in Vec /\ Minus(Plus(last, rest), spent) \in Vec
      /\ Minus(last, Minus(Plus(last, rest), spent)) \in Vec /\ final \in Vec
  BY <1>0, PlusTyped
<1>. HIDE DEF final
<1>2. Plus(final, rest) \in Vec /\ Plus(ins, spent) \in Vec
      /\ Plus(outs, Plus(final, rest)) \in Vec
  BY <1>1, PlusTyped
<1>3. total \in Vec
  BY <1>2, PlusTyped
<1>4. \A a \in Atoms : total[a] = 0
  <2>. TAKE a \in Atoms
  <2>1. scalars[a] = outs[a] - ins[a]
    BY <1>0
  <2>2. Plus(last, rest)[a] = last[a] + rest[a]
    BY VecAt
  <2>3. Minus(Plus(last, rest), spent)[a] = last[a] + rest[a] - spent[a]
    BY <1>1, <2>2, VecAt
  <2>4. Minus(last, Minus(Plus(last, rest), spent))[a]
        = last[a] - (last[a] + rest[a] - spent[a])
    BY <1>1, <2>3, VecAt
  <2>5. final[a] = last[a] - (last[a] + rest[a] - spent[a]) - scalars[a]
    BY <1>0, <1>1, <2>4, VecAt DEF final
  <2>6. Plus(final, rest)[a] = final[a] + rest[a] /\ Plus(ins, spent)[a] = ins[a] + spent[a]
    BY <1>1, VecAt
  <2>7. Plus(outs, Plus(final, rest))[a] = outs[a] + (final[a] + rest[a])
    BY <1>2, <2>6, VecAt
  <2>8. total[a] = outs[a] + (final[a] + rest[a]) - (ins[a] + spent[a])
    BY <1>2, <2>6, <2>7, VecAt
  <2>9. /\ outs[a] \in Int /\ ins[a] \in Int /\ last[a] \in Int /\ rest[a] \in Int
        /\ spent[a] \in Int /\ scalars[a] \in Int /\ final[a] \in Int
    BY <1>0, <1>1, VecAt
  <2>. HIDE DEF total
  <2>. QED
    BY <2>1, <2>5, <2>8, <2>9
<1>. HIDE DEF total
<1>5. total = Zero
  BY <1>3, <1>4, ZeroTyped, VecAt, VecSame
<1>. QED
  BY <1>5 DEF total, final, scalars

-----------------------------------------------------------------------------
(* Sums over sets.                                                         *)

LEMMA TotalIsFold == \A f, S : Total(f, S) = Totals!Fold(f, S)
  BY DEF Total, FoldFunctionOnSet, MapThenFoldSet, Totals!Fold, Totals!MapThenFoldSet,
         ScalarAt, Whichever

LEMMA ScalarSumIsFold == \A S : Sum(S) = ScalarSums!Fold(S, S)
  BY DEF Sum, FoldSet, MapThenFoldSet, ScalarSums!Fold, ScalarSums!MapThenFoldSet, Itself, Whichever

LEMMA FiniteIsFinite ==
    \A S : IsFiniteSet(S) <=> Totals!IsFiniteSet(S) /\ ScalarSums!IsFiniteSet(S)
  BY DEF IsFiniteSet, Totals!IsFiniteSet, ScalarSums!IsFiniteSet

LEMMA AnyIsChosen == \A S : Totals!Chooses(S) /\ ScalarSums!Chooses(S)
  BY DEF Totals!Chooses, ScalarSums!Chooses, Whichever

LEMMA TotalTyped ==
    ASSUME NEW f, NEW S, IsFiniteSet(S), \A i \in S : f[i] \in Vec
    PROVE  Total(f, S) \in Vec
<1>1. \A i \in S : ScalarAt(f, i) \in Vec
  BY DEF ScalarAt
<1>2. Totals!IsFiniteSet(S) /\ Totals!Chooses(S) /\ Totals!IsSum(Vec)
  BY FiniteIsFinite, AnyIsChosen, VecIsSum
<1>3. Totals!Fold(f, S) \in Vec
  BY <1>1, <1>2, Totals!SumTyped, Zenon
<1>. QED
  BY <1>3, TotalIsFold

LEMMA TotalSame ==
    ASSUME NEW f, NEW g, NEW S, IsFiniteSet(S), \A i \in S : f[i] = g[i]
    PROVE  Total(f, S) = Total(g, S)
<1>1. \A i \in S : ScalarAt(f, i) = ScalarAt(g, i)
  BY DEF ScalarAt
<1>2. Totals!IsFiniteSet(S) /\ Totals!Chooses(S)
  BY FiniteIsFinite, AnyIsChosen
<1>3. Totals!Fold(f, S) = Totals!Fold(g, S)
  BY <1>1, <1>2, Totals!FoldSame, Zenon
<1>. QED
  BY <1>3, TotalIsFold

LEMMA TotalTakesOff ==
    ASSUME NEW f, NEW S, IsFiniteSet(S), \A i \in S : f[i] \in Vec, NEW j \in S
    PROVE  /\ Total(f, S) = Plus(f[j], Total(f, S \ {j}))
           /\ Total(f, S \ {j}) \in Vec
<1>1. \A i \in S : ScalarAt(f, i) \in Vec
  BY DEF ScalarAt
<1>2. Totals!IsFiniteSet(S) /\ Totals!Chooses(S) /\ Totals!IsSum(Vec)
  BY FiniteIsFinite, AnyIsChosen, VecIsSum
<1>3. Totals!Fold(f, S) = Plus(ScalarAt(f, j), Totals!Fold(f, S \ {j}))
  BY <1>1, <1>2, Totals!SumTakesOff
<1>4. IsFiniteSet(S \ {j}) /\ \A i \in S \ {j} : f[i] \in Vec
  BY FS_Subset
<1>. QED
  BY <1>3, <1>4, TotalIsFold, TotalTyped DEF ScalarAt

LEMMA TotalApart ==
    ASSUME NEW f, NEW S, NEW T, IsFiniteSet(S), IsFiniteSet(T), S \cap T = {},
           \A i \in S \cup T : f[i] \in Vec
    PROVE  Total(f, S \cup T) = Plus(Total(f, S), Total(f, T))
<1>1. \A i \in S \cup T : ScalarAt(f, i) \in Vec
  BY DEF ScalarAt
<1>2. /\ Totals!IsFiniteSet(S) /\ Totals!IsFiniteSet(T)
      /\ Totals!Chooses(S \cup T) /\ Totals!IsSum(Vec)
  BY FiniteIsFinite, AnyIsChosen, VecIsSum
<1>3. Totals!Fold(f, S \cup T) = Plus(Totals!Fold(f, S), Totals!Fold(f, T))
  BY <1>1, <1>2, Totals!SumApart
<1>. QED
  BY <1>3, TotalIsFold

(* A sum of what does not count an atom does not count it.                 *)
LEMMA TotalZeroAt ==
    ASSUME NEW f, NEW S, IsFiniteSet(S), NEW a \in Atoms,
           \A i \in S : f[i] \in Vec /\ f[i][a] = 0
    PROVE  Total(f, S)[a] = 0
<1>. DEFINE D == {x \in Vec : x[a] = 0}
<1>1. Totals!IsSum(D)
  <2>1. Zero \in D
    BY ZeroTyped, VecAt
  <2>2. ASSUME NEW x \in D, NEW y \in D PROVE Plus(x, y) \in D
    <3>1. Plus(x, y)[a] = x[a] + y[a]
      BY VecAt
    <3>. QED
      BY <3>1, PlusTyped
  <2>. QED
    BY <2>1, <2>2, PlusIsSum DEF Totals!IsSum
<1>2. \A i \in S : ScalarAt(f, i) \in D
  BY DEF ScalarAt
<1>3. Totals!IsFiniteSet(S) /\ Totals!Chooses(S)
  BY FiniteIsFinite, AnyIsChosen
<1>. HIDE DEF D
<1>4. Totals!Fold(f, S) \in D
  BY <1>1, <1>2, <1>3, Totals!SumTyped, Zenon
<1>. QED
  BY <1>4, TotalIsFold DEF D

LEMMA SumNothing == Sum({}) = Zero
<1>1. ScalarSums!Fold({}, {}) = Zero
  BY ScalarSums!FoldNothing, Zenon
<1>. QED
  BY <1>1, ScalarSumIsFold

LEMMA SumTyped ==
    ASSUME NEW S, IsFiniteSet(S), S \subseteq Vec
    PROVE  Sum(S) \in Vec
<1>1. \A i \in S : Itself(S, i) \in Vec
  BY DEF Itself
<1>2. ScalarSums!IsFiniteSet(S) /\ ScalarSums!Chooses(S) /\ ScalarSums!IsSum(Vec)
  BY FiniteIsFinite, AnyIsChosen, VecIsSum
<1>3. ScalarSums!Fold(S, S) \in Vec
  BY <1>1, <1>2, ScalarSums!SumTyped, Zenon
<1>. QED
  BY <1>3, ScalarSumIsFold

(* A scalar that is new counts once more.                                  *)
LEMMA SumAdds ==
    ASSUME NEW S, IsFiniteSet(S), S \subseteq Vec, NEW x \in Vec, x \notin S
    PROVE  Sum(S \cup {x}) = Plus(x, Sum(S))
<1>. DEFINE T == S \cup {x}
<1>1. IsFiniteSet(T) /\ T \ {x} = S /\ x \in T
  BY FS_AddElement
<1>2. \A i \in T : Itself(T, i) \in Vec
  BY DEF Itself
<1>3. ScalarSums!IsFiniteSet(T) /\ ScalarSums!Chooses(T) /\ ScalarSums!IsSum(Vec)
  BY <1>1, FiniteIsFinite, AnyIsChosen, VecIsSum
<1>. HIDE DEF T
<1>4. ScalarSums!Fold(T, T) = Plus(Itself(T, x), ScalarSums!Fold(T, T \ {x}))
  BY <1>1, <1>2, <1>3, ScalarSums!SumTakesOff
<1>5. ScalarSums!Fold(T, S) = ScalarSums!Fold(S, S)
  <2>1. \A i \in S : Itself(T, i) = Itself(S, i)
    BY DEF Itself
  <2>2. ScalarSums!IsFiniteSet(S) /\ ScalarSums!Chooses(S)
    BY FiniteIsFinite, AnyIsChosen
  <2>. QED
    BY <2>1, <2>2, ScalarSums!FoldSame, Zenon
<1>. QED
  BY <1>1, <1>4, <1>5, ScalarSumIsFold DEF Itself, T

-----------------------------------------------------------------------------
(* The invariant of a copy.                                                *)
OwnerOf(o) == Owner[Blinder[o]]
OutSet == {Unblinded} \cup {Blinded(x) : x \in Vec}

(* An owner's outputs are blinded together; and the scalars count no input *)
(* of an owner who has not blinded, so the scalar it adds is a new one.    *)
Accounted(s) ==
    /\ s.outputs \in [Outputs -> OutSet]
    /\ s.scalars \subseteq Vec /\ IsFiniteSet(s.scalars)
    /\ \A o \in Full(s), q \in Required : OwnerOf(o) = OwnerOf(q) => q \in Full(s)
    /\ \A x \in s.scalars, i \in Inputs : Owner[i] \notin Blinders(s) => x[<<"input", i>>] = 0
    /\ Minus(OutputTotal(s), InputTotal(s)) = Sum(s.scalars)
    /\ IsBlinded(s) => s.scalars = {}

LEMMA OffsetTyped ==
    /\ \A atom \in Atoms : ScalarOffset(atom) \in Vec
    /\ \A a, b \in Atoms : ScalarOffset(a)[b] = IF a = b THEN 1 ELSE 0
  BY DEF ScalarOffset, Zero, Vec

LEMMA InputOffsets ==
    /\ \A i \in Inputs : InputOffset[i] = ScalarOffset(<<"input", i>>)
    /\ \A i \in Inputs : InputOffset[i] \in Vec
    /\ \A S \in SUBSET Inputs : IsFiniteSet(S) /\ Total(InputOffset, S) \in Vec
<1>1. \A i \in Inputs : InputOffset[i] = ScalarOffset(<<"input", i>>)
  BY DEF InputOffset
<1>2. \A i \in Inputs : <<"input", i>> \in Atoms
  BY DEF Atoms
<1>3. \A i \in Inputs : InputOffset[i] \in Vec
  BY <1>1, <1>2, OffsetTyped
<1>4. ASSUME NEW S \in SUBSET Inputs
      PROVE  IsFiniteSet(S) /\ Total(InputOffset, S) \in Vec
  <2>1. IsFiniteSet(S)
    BY BlinderAssumption, FS_Subset
  <2>. QED
    BY <1>3, <2>1, TotalTyped
<1>. QED
  BY <1>1, <1>3, <1>4

LEMMA FullOutputs ==
    ASSUME NEW s, s.outputs \in [Outputs -> OutSet]
    PROVE  \A o \in Full(s) : s.outputs[o].offset \in Vec
<1>1. \A out \in OutSet : IsFull(out) => out.offset \in Vec
  BY DEF OutSet, IsFull, Unblinded, Blinded, BlindingFields, Commitments
<1>. QED
  BY <1>1 DEF Full, Required

LEMMA OutputTotalTyped ==
    ASSUME NEW s, s.outputs \in [Outputs -> OutSet]
    PROVE  IsFiniteSet(Full(s)) /\ OutputTotal(s) \in Vec
<1>. DEFINE offsets == [o \in Full(s) |-> s.outputs[o].offset]
<1>1. IsFiniteSet(Full(s))
  <2>1. Full(s) \subseteq Outputs
    BY DEF Full, Required
  <2>. QED
    BY <2>1, BlinderAssumption, FS_Subset
<1>2. \A o \in Full(s) : offsets[o] \in Vec
  BY FullOutputs
<1>. HIDE DEF offsets
<1>3. Total(offsets, Full(s)) \in Vec
  BY <1>1, <1>2, TotalTyped
<1>. QED
  BY <1>1, <1>3 DEF OutputTotal, offsets

LEMMA GreatestIsIn ==
    ASSUME NEW S, S \subseteq Outputs, S # {}
    PROVE  Max(S) \in S
<1>1. S \subseteq Nat /\ IsFiniteSet(S)
  BY BlinderAssumption, FS_Subset
<1>2. Totals!IsFiniteSet(S)
  BY <1>1, FiniteIsFinite
<1>3. PICK b \in Nat : \A n \in S : n <= b
  BY <1>1, <1>2, Totals!FiniteBound
<1>4. PICK m \in S : \A n \in S : n <= m
  BY <1>1, <1>3, Totals!GreatestNatural
<1>5. \E k \in S : \A n \in S : k >= n
  BY <1>1, <1>4
<1>. QED
  BY <1>5 DEF Max

LEMMA InitAccounted ==
    ASSUME NEW s, s = [outputs |-> [o \in Outputs |-> Unblinded], scalars |-> {}]
    PROVE  Accounted(s)
<1>1. Full(s) = {}
  BY DEF Full, Required, IsFull, Unblinded, BlindingFields, Commitments
<1>2. Blinders(s) = {}
  BY <1>1 DEF Blinders
<1>3. OutputTotal(s) = Zero /\ InputTotal(s) = Zero
  <2>1. \A f : Total(f, {}) = Zero
    BY Totals!FoldNothing, TotalIsFold
  <2>. QED
    BY <1>1, <1>2, <2>1 DEF OutputTotal, InputTotal
<1>4. Minus(Zero, Zero) = Zero
  <2>1. \A a \in Atoms : Minus(Zero, Zero)[a] = Zero[a] - Zero[a] /\ Zero[a] = 0
    BY ZeroTyped, VecAt
  <2>2. Minus(Zero, Zero) \in Vec /\ \A a \in Atoms : Minus(Zero, Zero)[a] = Zero[a]
    BY <2>1, ZeroTyped, PlusTyped
  <2>. QED
    BY <2>2, ZeroTyped, VecSame
<1>5. s.outputs \in [Outputs -> OutSet] /\ IsFiniteSet({}) /\ s.scalars = {}
  BY FS_EmptySet DEF OutSet
<1>. QED
  BY <1>1, <1>3, <1>4, <1>5, SumNothing DEF Accounted

(* The outputs of p that a call for all of them blinds, and what of them.  *)
LEMMA BlindAccounted ==
    ASSUME NEW s, Accounted(s), NEW h \in Handles, NEW p \in Parties,
           Mine(s, p, Outputs) # {}
    PROVE  Accounted(Blind(s, h, p, Outputs))
<1>. DEFINE mine == Mine(s, p, Outputs)
            offset == [o \in mine |-> ScalarOffset(<<h, o>>)]
            last == Full(s) \cup mine = Required
            final == FinalOffset(s, p, offset, mine)
            spent == InputScalar(p)
            added == Total(offset, mine)
            t == Blind(s, h, p, Outputs)
            owned == {i \in Inputs : Owner[i] = p}
            before == {i \in Inputs : Owner[i] \in Blinders(s)}
            old == [o \in Full(s) |-> s.outputs[o].offset]
            new == [o \in Full(t) |-> t.outputs[o].offset]
<1>1. /\ mine \subseteq Required /\ mine \subseteq Outputs /\ Full(s) \subseteq Required
      /\ mine \cap Full(s) = {} /\ mine # {} /\ Required \subseteq Outputs
      /\ \A o \in mine : OwnerOf(o) = p
  BY DEF Mine, Required, Full, OwnerOf
<1>2. IsFiniteSet(mine) /\ IsFiniteSet(Full(s)) /\ Max(mine) \in mine
  BY <1>1, GreatestIsIn, OutputTotalTyped, BlinderAssumption, FS_Subset DEF Accounted
<1>3. \A o \in mine : offset[o] = ScalarOffset(<<h, o>>) /\ offset[o] \in Vec
  <2>1. \A o \in mine : <<h, o>> \in Atoms
    BY <1>1 DEF Atoms
  <2>. QED
    BY <2>1, OffsetTyped
<1>4. owned \in SUBSET Inputs /\ before \in SUBSET Inputs /\ spent = Total(InputOffset, owned)
  BY DEF InputScalar
<1>5. spent \in Vec /\ added \in Vec
  <2>. HIDE DEF offset, mine, owned, spent
  <2>. QED
    BY <1>2, <1>3, <1>4, InputOffsets, TotalTyped
<1>6. s.scalars \subseteq Vec /\ IsFiniteSet(s.scalars) /\ Sum(s.scalars) \in Vec
  BY SumTyped DEF Accounted
<1>7. /\ t.outputs = [o \in Outputs |->
            IF o \notin mine THEN s.outputs[o]
            ELSE IF last /\ o = Max(mine) THEN Blinded(final)
            ELSE Blinded(offset[o])]
      /\ t.scalars = IF last THEN {} ELSE s.scalars \cup {Minus(added, spent)}
  BY DEF Blind
<1>8. final \in Vec
  <2>. HIDE DEF offset, mine, spent, added
  <2>1. final = Minus(Minus(offset[Max(mine)], Minus(added, spent)), Sum(s.scalars))
    BY Zenon DEF FinalOffset, spent, added
  <2>. HIDE DEF final
  <2>2. offset[Max(mine)] \in Vec
    BY <1>2, <1>3
  <2>3. Minus(added, spent) \in Vec
    BY <1>5, PlusTyped
  <2>4. Minus(offset[Max(mine)], Minus(added, spent)) \in Vec
    BY <2>2, <2>3, PlusTyped
  <2>. QED
    BY <1>6, <2>1, <2>4, PlusTyped
<1>9. t.outputs \in [Outputs -> OutSet]
  <2>1. \A o \in Outputs : s.outputs[o] \in OutSet
    BY DEF Accounted
  <2>2. Blinded(final) \in OutSet /\ \A o \in mine : Blinded(offset[o]) \in OutSet
    BY <1>3, <1>8 DEF OutSet
  <2>. HIDE DEF offset, mine, last, final, t
  <2>. QED
    BY <1>7, <2>1, <2>2
<1>10. Full(t) = Full(s) \cup mine
  <2>1. \A x : IsFull(Blinded(x))
    BY DEF IsFull, Blinded
  <2>. HIDE DEF offset, mine, last, final, t
  <2>2. \A o \in Outputs \ mine : t.outputs[o] = s.outputs[o]
    BY <1>7
  <2>3. \A o \in mine : IsFull(t.outputs[o])
    BY <1>1, <1>7, <2>1
  <2>. QED
    BY <1>1, <2>2, <2>3 DEF Full
<1>11. \A o \in Required : OwnerOf(o) = p => o \in mine
  <2>1. PICK m \in mine : OwnerOf(m) = p
    BY <1>1
  <2>2. \A o \in Full(s) : OwnerOf(o) # p
    BY <1>1, <2>1 DEF Accounted
  <2>. QED
    BY <1>1, <2>2 DEF Mine, OwnerOf, Required
<1>12. p \notin Blinders(s) /\ Blinders(t) = Blinders(s) \cup {p}
  <2>1. Blinders(s) = {OwnerOf(o) : o \in Full(s)} /\ Blinders(t) = {OwnerOf(o) : o \in Full(t)}
    BY DEF Blinders, OwnerOf
  <2>. HIDE DEF mine, t
  <2>. QED
    BY <1>1, <1>10, <1>11, <2>1
<1>13. /\ {i \in Inputs : Owner[i] \in Blinders(t)} = before \cup owned
       /\ before \cap owned = {}
  <2>. HIDE DEF t
  <2>. QED
    BY <1>12
<1>14. InputTotal(t) = Plus(InputTotal(s), spent)
  <2>1. Total(InputOffset, before \cup owned)
        = Plus(Total(InputOffset, before), Total(InputOffset, owned))
    <3>. HIDE DEF before, owned
    <3>1. /\ IsFiniteSet(before) /\ IsFiniteSet(owned)
          /\ \A i \in before \cup owned : InputOffset[i] \in Vec
      BY <1>4, InputOffsets
    <3>. QED
      BY <1>13, <3>1, TotalApart
  <2>. QED
    BY <1>4, <1>13, <2>1, Zenon DEF InputTotal
<1>15. OutputTotal(t) = Plus(OutputTotal(s), Total(new, mine))
  <2>1. OutputTotal(t) = Total(new, Full(t)) /\ OutputTotal(s) = Total(old, Full(s))
    BY DEF OutputTotal
  <2>2. \A o \in Full(s) : new[o] = old[o]
    <3>. HIDE DEF mine, t
    <3>1. \A o \in Full(s) : o \in Full(t) /\ o \in Outputs /\ o \notin mine
      BY <1>1, <1>10
    <3>2. \A o \in Full(s) : t.outputs[o] = s.outputs[o]
      BY <1>7, <3>1
    <3>. QED
      BY <3>1, <3>2
  <2>3. \A o \in Full(t) : new[o] \in Vec
    BY <1>9, FullOutputs
  <2>. HIDE DEF mine, t, new, old
  <2>4. Total(new, Full(s) \cup mine) = Plus(Total(new, Full(s)), Total(new, mine))
    BY <1>1, <1>2, <1>10, <2>3, TotalApart
  <2>5. Total(new, Full(s)) = Total(old, Full(s))
    BY <1>2, <2>2, TotalSame
  <2>. QED
    BY <1>10, <2>1, <2>4, <2>5
<1>16. /\ OutputTotal(s) \in Vec /\ InputTotal(s) \in Vec
       /\ Minus(OutputTotal(s), InputTotal(s)) = Sum(s.scalars)
  BY <1>4, OutputTotalTyped, InputOffsets DEF Accounted, InputTotal
<1>17. \A o \in mine : new[o] = IF last /\ o = Max(mine) THEN final ELSE offset[o]
  <2>1. \A x : Blinded(x).offset = x
    BY DEF Blinded
  <2>. HIDE DEF mine, t, last, final, offset
  <2>2. \A o \in mine : o \in Full(t) /\ o \in Outputs
    BY <1>1, <1>10
  <2>. QED
    BY <1>7, <2>1, <2>2
<1>18. \A o \in Full(t), q \in Required : OwnerOf(o) = OwnerOf(q) => q \in Full(t)
  <2>. HIDE DEF mine, t
  <2>. QED
    BY <1>1, <1>10, <1>11 DEF Accounted
<1>19. CASE last
  <2>. DEFINE m == Max(mine)
              rest == Total(offset, mine \ {m})
  <2>1. added = Plus(offset[m], rest) /\ rest \in Vec
    <3>. HIDE DEF mine, offset
    <3>. QED
      BY <1>2, <1>3, TotalTakesOff
  <2>2. \A o \in mine : new[o] \in Vec
    BY <1>3, <1>8, <1>17
  <2>3. Total(new, mine) = Plus(new[m], Total(new, mine \ {m}))
    <3>. HIDE DEF mine, new
    <3>. QED
      BY <1>2, <2>2, TotalTakesOff
  <2>4. new[m] = final /\ \A o \in mine \ {m} : new[o] = offset[o]
    BY <1>2, <1>17, <1>19
  <2>5. Total(new, mine \ {m}) = rest
    <3>. HIDE DEF mine, new, offset, m
    <3>1. IsFiniteSet(mine \ {m})
      BY <1>2, FS_Subset
    <3>. QED
      BY <2>4, <3>1, TotalSame
  <2>6. final = Minus(Minus(offset[m], Minus(Plus(offset[m], rest), spent)), Sum(s.scalars))
    <3>1. final = Minus(Minus(offset[m], Minus(added, spent)), Sum(s.scalars))
      BY Zenon DEF FinalOffset
    <3>. HIDE DEF mine, offset, final, added, spent, rest
    <3>. QED
      BY <2>1, <3>1
  <2>7. Minus(OutputTotal(t), InputTotal(t)) = Zero
    <3>1. offset[m] \in Vec
      BY <1>2, <1>3
    <3>. HIDE DEF mine, offset, final, added, spent, rest, t, new, m
    <3>2. Minus(Plus(OutputTotal(s), Plus(final, rest)), Plus(InputTotal(s), spent)) = Zero
      <4>1. final = Minus(Minus(offset[m], Minus(Plus(offset[m], rest), spent)),
                          Minus(OutputTotal(s), InputTotal(s)))
        BY <1>16, <2>6
      <4>. DEFINE outs == OutputTotal(s)
                  ins == InputTotal(s)
                  own == offset[m]
      <4>2. outs \in Vec /\ ins \in Vec /\ own \in Vec /\ rest \in Vec /\ spent \in Vec
        BY <1>5, <1>16, <2>1, <3>1
      <4>3. final = Minus(Minus(own, Minus(Plus(own, rest), spent)), Minus(outs, ins))
        BY <4>1
      <4>. HIDE DEF outs, ins, own
      <4>4. Minus(Plus(outs, Plus(Minus(Minus(own, Minus(Plus(own, rest), spent)),
                                       Minus(outs, ins)), rest)),
                 Plus(ins, spent)) = Zero
        BY <4>2, AccountCloses
      <4>5. Minus(Plus(outs, Plus(final, rest)), Plus(ins, spent)) = Zero
        BY <4>3, <4>4, Zenon
      <4>. QED
        BY <4>5 DEF outs, ins
    <3>. QED
      BY <1>14, <1>15, <2>3, <2>4, <2>5, <3>2
  <2>8. t.scalars = {}
    BY <1>7, <1>19
  <2>. HIDE DEF t
  <2>. QED
    <3>1. Accounted(t)
      BY <1>9, <1>18, <2>7, <2>8, SumNothing, FS_EmptySet DEF Accounted
    <3>. QED
      BY <3>1 DEF t
<1>20. CASE ~last
  <2>. DEFINE x == Minus(added, spent)
  <2>1. x \in Vec /\ t.scalars = s.scalars \cup {x}
    BY <1>5, <1>7, <1>20, PlusTyped
  <2>2. PICK i \in Inputs : Owner[i] = p
    BY DEF Parties, Range, Inputs
  <2>. DEFINE a == <<"input", i>>
  <2>3. a \in Atoms
    BY DEF Atoms
  <2>4. added[a] = 0
    <3>1. \A o \in mine : offset[o][a] = 0
      <4>1. \A o \in mine : <<h, o>> \in Atoms /\ <<h, o>> # a
        BY <1>1, HandlesAssumption DEF Atoms
      <4>. QED
        BY <1>3, <2>3, <4>1, OffsetTyped
    <3>. HIDE DEF mine, offset, a
    <3>. QED
      BY <1>2, <1>3, <2>3, <3>1, TotalZeroAt
  <2>5. spent[a] = 1
    <3>1. i \in owned
      BY <2>2
    <3>2. \A j \in owned \ {i} : InputOffset[j] \in Vec /\ InputOffset[j][a] = 0
      <4>1. \A j \in owned \ {i} : <<"input", j>> \in Atoms /\ <<"input", j>> # a
        BY DEF Atoms
      <4>2. \A j \in owned \ {i} : /\ InputOffset[j] = ScalarOffset(<<"input", j>>)
                              /\ InputOffset[j] \in Vec
        BY InputOffsets
      <4>. HIDE DEF owned, a
      <4>3. \A j \in owned \ {i} : ScalarOffset(<<"input", j>>)[a] = 0
        BY <2>3, <4>1, OffsetTyped
      <4>. QED
        BY <4>2, <4>3
    <3>3. InputOffset[i][a] = 1 /\ InputOffset[i] \in Vec
      BY <2>3, InputOffsets, OffsetTyped
    <3>. HIDE DEF owned, a
    <3>4. IsFiniteSet(owned \ {i}) /\ IsFiniteSet(owned)
      BY <1>4, InputOffsets, FS_Subset
    <3>5. Total(InputOffset, owned \ {i})[a] = 0
      BY <2>3, <3>2, <3>4, TotalZeroAt
    <3>6. /\ Total(InputOffset, owned) = Plus(InputOffset[i], Total(InputOffset, owned \ {i}))
          /\ Total(InputOffset, owned \ {i}) \in Vec
      BY <1>4, <3>1, <3>4, InputOffsets, TotalTakesOff
    <3>. QED
      BY <1>4, <2>3, <3>3, <3>5, <3>6, VecAt
  <2>6. x[a] = 0 - 1
    <3>. HIDE DEF a, added, spent
    <3>. QED
      BY <1>5, <2>3, <2>4, <2>5, VecAt
  <2>7. x \notin s.scalars
    BY <1>12, <2>2, <2>6 DEF Accounted
  <2>8. \A j \in Inputs : Owner[j] \notin Blinders(t) => x[<<"input", j>>] = 0
    <3>. SUFFICES ASSUME NEW j \in Inputs, Owner[j] \notin Blinders(t)
                  PROVE  x[<<"input", j>>] = 0
      OBVIOUS
    <3>. DEFINE b == <<"input", j>>
    <3>1. b \in Atoms /\ Owner[j] # p
      BY <1>12 DEF Atoms
    <3>2. \A o \in mine : offset[o][b] = 0
      <4>1. \A o \in mine : <<h, o>> \in Atoms /\ <<h, o>> # b
        BY <1>1, HandlesAssumption DEF Atoms
      <4>. QED
        BY <1>3, <3>1, <4>1, OffsetTyped
    <3>3. \A k \in owned : InputOffset[k] \in Vec /\ InputOffset[k][b] = 0
      <4>1. \A k \in owned : <<"input", k>> \in Atoms /\ <<"input", k>> # b
        BY <3>1 DEF Atoms
      <4>2. \A k \in owned : /\ InputOffset[k] = ScalarOffset(<<"input", k>>)
                              /\ InputOffset[k] \in Vec
        BY InputOffsets
      <4>. HIDE DEF owned, b
      <4>3. \A k \in owned : ScalarOffset(<<"input", k>>)[b] = 0
        BY <3>1, <4>1, OffsetTyped
      <4>. QED
        BY <4>2, <4>3
    <3>4. added[b] = 0
      <4>. HIDE DEF mine, offset, b
      <4>. QED
        BY <1>2, <1>3, <3>1, <3>2, TotalZeroAt
    <3>5. spent[b] = 0
      <4>. HIDE DEF owned, b
      <4>. QED
        BY <1>4, <3>1, <3>3, InputOffsets, TotalZeroAt
    <3>. HIDE DEF added, spent
    <3>. QED
      BY <1>5, <3>1, <3>4, <3>5, VecAt
  <2>9. Total(new, mine) = added
    <3>1. \A o \in mine : new[o] = offset[o]
      BY <1>17, <1>20
    <3>. HIDE DEF mine, new, offset
    <3>. QED
      BY <1>2, <3>1, TotalSame
  <2>10. Minus(OutputTotal(t), InputTotal(t)) = Sum(t.scalars)
    <3>. HIDE DEF added, spent, t, new, mine
    <3>1. Minus(OutputTotal(t), InputTotal(t))
          = Plus(x, Minus(OutputTotal(s), InputTotal(s)))
      BY <1>5, <1>14, <1>15, <1>16, <2>9, AccountGrows
    <3>2. Sum(t.scalars) = Plus(x, Sum(s.scalars))
      BY <1>6, <2>1, <2>7, SumAdds
    <3>. QED
      BY <1>16, <3>1, <3>2
  <2>11. ~IsBlinded(t)
    BY <1>10, <1>20 DEF IsBlinded
  <2>12. t.scalars \subseteq Vec /\ IsFiniteSet(t.scalars)
    BY <1>6, <2>1, FS_AddElement
  <2>13. \A y \in t.scalars, j \in Inputs :
            Owner[j] \notin Blinders(t) => y[<<"input", j>>] = 0
    <3>. HIDE DEF x, t
    <3>. QED
      BY <1>12, <2>1, <2>8 DEF Accounted
  <2>. HIDE DEF t
  <2>. QED
    <3>1. Accounted(t)
      BY <1>9, <1>18, <2>10, <2>11, <2>12, <2>13 DEF Accounted
    <3>. QED
      BY <3>1 DEF t
<1>. QED
  BY <1>19, <1>20
-----------------------------------------------------------------------------
(* The invariant of the specification, in which each owner blinds all of   *)
(* its outputs: every copy is accounted for.                               *)
AccountInv ==
    /\ DOMAIN pset = Handles
    /\ \A h \in Live : Accounted(pset[h])

LEMMA InitAccount == BlindInit => AccountInv
<1>. SUFFICES ASSUME BlindInit PROVE AccountInv
  OBVIOUS
<1>. DEFINE fresh == [outputs |-> [o \in Outputs |-> Unblinded], scalars |-> {}]
<1>1. PICK h \in Handles : pset = [g \in Handles |-> IF g = h THEN fresh ELSE None]
  BY DEF BlindInit
<1>2. Accounted(fresh)
  BY InitAccounted
<1>. HIDE DEF fresh
<1>3. \A g \in Live : pset[g] = fresh
  BY <1>1 DEF Live
<1>. QED
  BY <1>1, <1>2, <1>3 DEF AccountInv

LEMMA BlindAccount ==
    ASSUME AccountInv, NEW h \in Handles, NEW p \in Parties, BlindAll(h, p)
    PROVE  AccountInv'
<1>1. /\ h \in Live /\ Mine(pset[h], p, Outputs) # {}
      /\ pset' = [pset EXCEPT ![h] = Blind(pset[h], h, p, Outputs)]
  BY DEF BlindAll, BlindOutputs
<1>2. Accounted(Blind(pset[h], h, p, Outputs))
  BY <1>1, BlindAccounted DEF AccountInv
<1>3. DOMAIN pset' = Handles
  BY <1>1 DEF AccountInv
<1>4. \A g \in Live' : pset'[g] = IF g = h THEN Blind(pset[h], h, p, Outputs) ELSE pset[g]
  BY <1>1 DEF Live, AccountInv
<1>5. \A g \in Live' : g # h => g \in Live
  BY <1>4 DEF Live
<1>6. \A g \in Live' : Accounted(pset'[g])
  BY <1>2, <1>4, <1>5 DEF AccountInv
<1>. QED
  BY <1>3, <1>6 DEF AccountInv

LEMMA CloneAccount ==
    ASSUME AccountInv, NEW h \in Handles, NEW g \in Handles, CloneTo(h, g)
    PROVE  AccountInv'
<1>1. h \in Live /\ pset' = [pset EXCEPT ![g] = pset[h]]
  BY DEF CloneTo
<1>2. DOMAIN pset' = Handles
  BY <1>1 DEF AccountInv
<1>3. \A k \in Live' : pset'[k] = IF k = g THEN pset[h] ELSE pset[k]
  BY <1>1 DEF Live, AccountInv
<1>4. \A k \in Live' : k # g => k \in Live
  BY <1>3 DEF Live
<1>5. \A k \in Live' : Accounted(pset'[k])
  BY <1>1, <1>3, <1>4 DEF AccountInv
<1>. QED
  BY <1>2, <1>5 DEF AccountInv

(* Whatever the order in which the owners blind their outputs and clone    *)
(* the PSET, each copy is accounted for.                                   *)
THEOREM EveryCopyAccounted == BlindSpec => []AccountInv
<1>1. AccountInv /\ [BlindNext]_blindVars => AccountInv'
  <2>. SUFFICES ASSUME AccountInv, [BlindNext]_blindVars PROVE AccountInv'
    OBVIOUS
  <2>1. ASSUME NEW h \in Handles, NEW p \in Parties, BlindAll(h, p) PROVE AccountInv'
    BY <2>1, BlindAccount
  <2>2. ASSUME NEW h \in Handles, NEW g \in Handles, CloneTo(h, g) PROVE AccountInv'
    BY <2>2, CloneAccount
  <2>3. CASE UNCHANGED blindVars
    BY <2>3 DEF blindVars, AccountInv, Live
  <2>. QED
    BY <2>1, <2>2, <2>3 DEF BlindNext
<1>. QED
  BY <1>1, InitAccount, PTL DEF BlindSpec

LEMMA BlindedBalances ==
    ASSUME NEW s, Accounted(s), IsBlinded(s)
    PROVE  s.scalars = {} /\ Balanced(s)
<1>1. s.scalars = {} /\ Full(s) = Required
  BY DEF Accounted, IsBlinded
<1>2. OutputTotal(s) = Total([o \in Required |-> s.outputs[o].offset], Required)
  BY <1>1 DEF OutputTotal
<1>3. InputTotal(s) = Total(InputOffset, Inputs)
  <2>1. \A i \in Inputs : Owner[i] \in Parties
    BY DEF Parties, Range, Inputs
  <2>2. \A p \in Parties : \E o \in Required : Owner[Blinder[o]] = p
    BY OwnersAssumption DEF Required
  <2>3. \A i \in Inputs : Owner[i] \in Blinders(s)
    BY <1>1, <2>1, <2>2 DEF Blinders
  <2>4. {i \in Inputs : Owner[i] \in Blinders(s)} = Inputs
    BY <2>3
  <2>. QED
    BY <2>4 DEF InputTotal
<1>4. OutputTotal(s) = InputTotal(s)
  <2>1. OutputTotal(s) \in Vec /\ InputTotal(s) \in Vec
    BY <1>3, OutputTotalTyped, InputOffsets DEF Accounted
  <2>2. Minus(OutputTotal(s), InputTotal(s)) = Zero
    BY <1>1, SumNothing DEF Accounted
  <2>3. ASSUME NEW x \in Vec, NEW y \in Vec, Minus(x, y) = Zero PROVE x = y
    <3>1. \A a \in Atoms : x[a] \in Int /\ y[a] \in Int /\ x[a] - y[a] = 0
      BY <2>3, VecAt
    <3>2. \A a \in Atoms : x[a] = y[a]
      BY <3>1
    <3>. QED
      BY <3>2, VecSame
  <2>. QED
    BY <2>1, <2>2, <2>3
<1>. QED
  BY <1>1, <1>2, <1>3, <1>4 DEF Balanced

(* The scalars that wally_psbt_blind leaves in a PSET say at any time by   *)
(* how much its blinded outputs exceed the inputs of those who blinded     *)
(* them: what whoever blinds last relies on.  So a copy whose outputs are  *)
(* all blinded balances and holds no scalar, whoever called last: the      *)
(* commitments of a transaction made of it have the same sum on both sides.*)
THEOREM BlindedCopiesBalance == BlindSpec => []ScalarsAccount
<1>1. AccountInv => ScalarsAccount
  BY BlindedBalances DEF AccountInv, Accounted, ScalarsAccount, IsDone
<1>. QED
  BY <1>1, EveryCopyAccounted, PTL
=============================================================================
