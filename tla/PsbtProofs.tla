----------------------------- MODULE PsbtProofs -----------------------------
(***************************************************************************)
(* PSBTs, for every set of transactions, inputs and outputs, every number  *)
(* of handles and every order of calls.                                    *)
(*                                                                         *)
(* The constructor: what each call makes of one PSBT, that it keeps its    *)
(* type and keeps it good, which is what the properties follow from; the   *)
(* invariant; the locktime, the clone and the change of version.           *)
(* The signers: what a signature commits to stays while the rest changes.  *)
(* The signing cache: what every key of it stands for, that each message   *)
(* only ever puts that under the key, and that what is in the cache is     *)
(* what its keys stand for.                                                *)
(***************************************************************************)
EXTENDS PsbtWorkflow, SigningCache, FiniteSetTheorems, SequenceTheorems, TLAPS

(* The total of the outputs is a fold that takes off the last.             *)
LOCAL AddTo(x, y) == y + x
LOCAL AmountAt(outs, n) == outs[n].satoshi
LOCAL Largest(S) == Max(S)
Totals == INSTANCE Folding
          WITH Op <- AddTo, Base <- 0, Map <- AmountAt, Choose <- Largest

-----------------------------------------------------------------------------
(* Sequences.                                                              *)

LEMMA PartTyped ==
    ASSUME NEW S, NEW s \in Seq(S), NEW m \in Nat, NEW n \in Nat,
           1 <= m, m <= n + 1, n <= Len(s)
    PROVE  SubSeq(s, m, n) \in Seq(S) /\ Len(SubSeq(s, m, n)) = n - m + 1
<1>1. m \in Int /\ n \in Int /\ \A i \in m..n : s[i] \in S
  OBVIOUS
<1>2. /\ SubSeq(s, m, n) \in Seq(S)
      /\ Len(SubSeq(s, m, n)) = IF m <= n THEN n - m + 1 ELSE 0
  BY <1>1, SubSeqProperties
<1>. QED
  BY <1>2

LEMMA InsertTyped ==
    ASSUME NEW S, NEW s \in Seq(S), NEW i \in 1..(Len(s) + 1), NEW e \in S
    PROVE  InsertAt(s, i, e) \in Seq(S) /\ Len(InsertAt(s, i, e)) = Len(s) + 1
<1>1. /\ SubSeq(s, 1, i - 1) \in Seq(S) /\ Len(SubSeq(s, 1, i - 1)) = i - 1
      /\ SubSeq(s, i, Len(s)) \in Seq(S) /\ Len(SubSeq(s, i, Len(s))) = Len(s) - i + 1
  BY PartTyped
<1>2. /\ SubSeq(s, 1, i - 1) \o <<e>> \in Seq(S)
      /\ Len(SubSeq(s, 1, i - 1) \o <<e>>) = i
  BY <1>1
<1>. DEFINE before == SubSeq(s, 1, i - 1) \o <<e>>
            after == SubSeq(s, i, Len(s))
<1>3. before \o after \in Seq(S) /\ Len(before \o after) = Len(before) + Len(after)
  BY ONLY <1>1, <1>2, ConcatProperties, Zenon
<1>4. Len(before) + Len(after) = Len(s) + 1
  BY <1>1, <1>2
<1>. QED
  BY <1>3, <1>4, Zenon DEF InsertAt

LEMMA RemoveTyped ==
    ASSUME NEW S, NEW s \in Seq(S), NEW i \in 1..Len(s)
    PROVE  RemoveAt(s, i) \in Seq(S) /\ Len(RemoveAt(s, i)) = Len(s) - 1
<1>1. /\ SubSeq(s, 1, i - 1) \in Seq(S) /\ Len(SubSeq(s, 1, i - 1)) = i - 1
      /\ SubSeq(s, i + 1, Len(s)) \in Seq(S) /\ Len(SubSeq(s, i + 1, Len(s))) = Len(s) - i
  BY PartTyped
<1>. DEFINE before == SubSeq(s, 1, i - 1)
            after == SubSeq(s, i + 1, Len(s))
<1>2. before \o after \in Seq(S) /\ Len(before \o after) = Len(before) + Len(after)
  BY ONLY <1>1, ConcatProperties, Zenon
<1>3. Len(before) = i - 1 /\ Len(after) = Len(s) - i /\ Len(s) \in Nat /\ i \in Nat
  BY <1>1
<1>. HIDE DEF before, after
<1>4. Len(before) + Len(after) = Len(s) - 1
  BY <1>3
<1>. QED
  BY <1>2, <1>4, Zenon DEF RemoveAt, before, after

LEMMA MapTyped ==
    ASSUME NEW S, NEW f, NEW n \in Nat, \A i \in 1..n : f[i] \in S
    PROVE  [i \in 1..n |-> f[i]] \in Seq(S) /\ Len([i \in 1..n |-> f[i]]) = n
  OBVIOUS

LEMMA SameSequence ==
    ASSUME NEW S, NEW s \in Seq(S), NEW N, N = Len(s),
           NEW t \in [1..N -> S], \A n \in 1..N : t[n] = s[n]
    PROVE  t = s
  OBVIOUS

LEMMA SameElements ==
    ASSUME NEW S, NEW s \in Seq(S), NEW T, \A i \in 1..Len(s) : s[i] \in T
    PROVE  s \in Seq(T)
  OBVIOUS

-----------------------------------------------------------------------------
(* What every call leaves of the type of a PSBT.                           *)

LEMMA EmptyTyped == EmptyInput \in InputSet /\ EmptyOutput \in OutputSet
  BY DEF EmptyInput, EmptyOutput, InputSet, OutputSet, NoSigs, TxIds

LEMMA PartsTyped ==
    /\ \A p \in PsbtSet, in \in TxInSet : InputFromTx(p, in) \in InputSet
    /\ \A p \in PsbtSet, out \in TxOutSet : OutputFromTx(p, out) \in OutputSet
<1>1. ASSUME NEW p \in PsbtSet, NEW in \in TxInSet
      PROVE  InputFromTx(p, in) \in InputSet
  BY EmptyTyped DEF InputFromTx, InputSet, TxInSet
<1>2. ASSUME NEW p \in PsbtSet, NEW out \in TxOutSet
      PROVE  OutputFromTx(p, out) \in OutputSet
  BY EmptyTyped DEF OutputFromTx, OutputSet, TxOutSet
<1>. QED
  BY <1>1, <1>2

LEMMA InitPsbtTyped ==
    ASSUME NEW version \in {0, 2}
    PROVE  InitPsbt(version) \in PsbtSet
  BY DEF InitPsbt, PsbtSet, Flags

LEMMA SetGlobalTxTyped ==
    ASSUME NEW p \in PsbtSet, NEW tx \in TxSet
    PROVE  SetGlobalTx(p, tx) \in PsbtSet
<1>1. Len(tx.inputs) \in Nat /\ Len(tx.outputs) \in Nat
  BY DEF TxSet
<1>2. /\ [n \in 1..Len(tx.inputs) |-> EmptyInput] \in Seq(InputSet)
      /\ [n \in 1..Len(tx.outputs) |-> EmptyOutput] \in Seq(OutputSet)
  BY <1>1, EmptyTyped
<1>. QED
  BY <1>2 DEF SetGlobalTx, PsbtSet

LEMMA FromTxTyped ==
    ASSUME NEW tx \in TxSet, NEW version \in {0, 2}
    PROVE  FromTx(tx, version) \in PsbtSet
<1>1. CASE version = 0
  BY <1>1, InitPsbtTyped, SetGlobalTxTyped DEF FromTx
<1>2. CASE version = 2
  <2>. DEFINE p == InitPsbt(2)
              ins == [n \in 1..Len(tx.inputs) |-> InputFromTx(p, tx.inputs[n])]
              outs == [n \in 1..Len(tx.outputs) |-> OutputFromTx(p, tx.outputs[n])]
  <2>1. p \in PsbtSet
    BY InitPsbtTyped
  <2>2. /\ Len(tx.inputs) \in Nat /\ \A n \in 1..Len(tx.inputs) : tx.inputs[n] \in TxInSet
        /\ Len(tx.outputs) \in Nat /\ \A n \in 1..Len(tx.outputs) : tx.outputs[n] \in TxOutSet
    BY DEF TxSet
  <2>. HIDE DEF p
  <2>3. ins \in Seq(InputSet) /\ outs \in Seq(OutputSet)
    BY <2>1, <2>2, PartsTyped
  <2>4. FromTx(tx, version) = [p EXCEPT !.inputs = ins, !.outputs = outs,
                                        !.txVersion = tx.version, !.fallback = tx.locktime]
    BY <1>2 DEF FromTx, p
  <2>5. tx.version \in Nat /\ tx.locktime \in Nat
    BY DEF TxSet
  <2>. HIDE DEF ins, outs
  <2>. QED
    BY <2>1, <2>3, <2>4, <2>5 DEF PsbtSet
<1>. QED
  BY <1>1, <1>2

LEMMA AddInputTyped ==
    ASSUME NEW p \in PsbtSet, NEW i, CanAddInput(p, i), NEW in \in TxInSet
    PROVE  AddInput(p, i, in) \in PsbtSet
<1>. DEFINE ins == InsertAt(p.inputs, i, InputFromTx(p, in))
            tx == IF p.version = 0
                  THEN [p.tx EXCEPT !.inputs = InsertAt(@, i, in)] ELSE p.tx
<1>1. p.inputs \in Seq(InputSet) /\ i \in 1..(Len(p.inputs) + 1)
  BY DEF PsbtSet, CanAddInput
<1>2. ins \in Seq(InputSet)
  BY <1>1, PartsTyped, InsertTyped
<1>3. tx \in TxSet \cup {None}
  <2>1. CASE p.version = 0
    <3>1. p.tx \in TxSet /\ Len(p.tx.inputs) = Len(p.inputs)
      BY <2>1 DEF CanAddInput, IsValid, PsbtSet
    <3>2. p.tx.inputs \in Seq(TxInSet)
      BY <3>1 DEF TxSet
    <3>3. InsertAt(p.tx.inputs, i, in) \in Seq(TxInSet)
      BY <1>1, <3>1, <3>2, InsertTyped
    <3>. QED
      BY <2>1, <3>1, <3>3 DEF TxSet
  <2>2. CASE p.version # 0
    BY <2>2 DEF PsbtSet
  <2>. QED
    BY <2>1, <2>2
<1>4. AddInput(p, i, in) = [p EXCEPT !.tx = tx, !.inputs = ins]
  BY Zenon DEF AddInput
<1>. HIDE DEF ins, tx
<1>. QED
  BY <1>2, <1>3, <1>4 DEF PsbtSet

LEMMA RemoveInputTyped ==
    ASSUME NEW p \in PsbtSet, NEW i, CanRemoveInput(p, i)
    PROVE  RemoveInput(p, i) \in PsbtSet
<1>. DEFINE ins == RemoveAt(p.inputs, i)
            tx == IF p.version = 0
                  THEN [p.tx EXCEPT !.inputs = RemoveAt(@, i)] ELSE p.tx
<1>1. p.inputs \in Seq(InputSet) /\ i \in 1..Len(p.inputs)
  BY DEF PsbtSet, CanRemoveInput
<1>2. ins \in Seq(InputSet)
  BY <1>1, RemoveTyped
<1>3. tx \in TxSet \cup {None}
  <2>1. CASE p.version = 0
    <3>1. p.tx \in TxSet /\ Len(p.tx.inputs) = Len(p.inputs)
      BY <2>1 DEF CanRemoveInput, IsValid, PsbtSet
    <3>2. p.tx.inputs \in Seq(TxInSet)
      BY <3>1 DEF TxSet
    <3>3. RemoveAt(p.tx.inputs, i) \in Seq(TxInSet)
      BY <1>1, <3>1, <3>2, RemoveTyped
    <3>. QED
      BY <2>1, <3>1, <3>3 DEF TxSet
  <2>2. CASE p.version # 0
    BY <2>2 DEF PsbtSet
  <2>. QED
    BY <2>1, <2>2
<1>. DEFINE mods == IF p.version = 2 /\ IsSingle(p.inputs[i])
                        /\ ~(\E n \in 1..Len(p.inputs) : n # i /\ IsSingle(p.inputs[n]))
                    THEN p.mods \ {"SINGLE"} ELSE p.mods
<1>4. RemoveInput(p, i) = [p EXCEPT !.tx = tx, !.mods = mods, !.inputs = ins]
  BY Zenon DEF RemoveInput
<1>5. mods \in SUBSET Flags
  BY DEF PsbtSet
<1>. HIDE DEF ins, tx, mods
<1>. QED
  BY <1>2, <1>3, <1>4, <1>5 DEF PsbtSet

LEMMA AddOutputTyped ==
    ASSUME NEW p \in PsbtSet, NEW i, CanAddOutputAt(p, i), NEW out \in TxOutSet
    PROVE  AddOutput(p, i, out) \in PsbtSet
<1>1. p.outputs \in Seq(OutputSet) /\ i \in 1..(Len(p.outputs) + 1)
  BY DEF PsbtSet, CanAddOutputAt
<1>2. ASSUME p.version = 0
      PROVE  /\ p.tx \in TxSet /\ p.tx.outputs \in Seq(TxOutSet)
             /\ Len(p.tx.outputs) = Len(p.outputs)
  BY <1>2 DEF CanAddOutputAt, IsValid, PsbtSet, TxSet
<1>3. CASE p.version = 0 /\ ~CanAddOutput(p.tx.outputs, out)
  <2>. DEFINE outs == RemoveAt(p.tx.outputs, i)
  <2>1. CASE i <= Len(p.tx.outputs)
    <3>1. outs \in Seq(TxOutSet)
      BY <1>1, <1>2, <1>3, <2>1, RemoveTyped
    <3>2. AddOutput(p, i, out) = [p EXCEPT !.tx = [@ EXCEPT !.outputs = outs]]
      BY <1>2, <1>3, <2>1 DEF AddOutput, PsbtSet, TxSet
    <3>. HIDE DEF outs
    <3>3. [p.tx EXCEPT !.outputs = outs] \in TxSet
      BY <1>2, <1>3, <3>1 DEF TxSet
    <3>. QED
      BY <3>2, <3>3 DEF PsbtSet
  <2>2. CASE ~(i <= Len(p.tx.outputs))
    BY <1>3, <2>2 DEF AddOutput
  <2>. QED
    BY <2>1, <2>2
<1>4. CASE ~(p.version = 0 /\ ~CanAddOutput(p.tx.outputs, out))
  <2>. DEFINE outs == InsertAt(p.outputs, i, OutputFromTx(p, out))
              tx == IF p.version = 0
                    THEN [p.tx EXCEPT !.outputs = InsertAt(@, i, out)] ELSE p.tx
  <2>1. outs \in Seq(OutputSet)
    BY <1>1, PartsTyped, InsertTyped
  <2>2. CASE p.version = 0
    <3>1. InsertAt(p.tx.outputs, i, out) \in Seq(TxOutSet)
      BY <1>1, <1>2, <2>2, InsertTyped
    <3>. QED
      <4>1. tx \in TxSet
        BY <1>2, <2>2, <3>1 DEF TxSet
      <4>2. AddOutput(p, i, out) = [p EXCEPT !.tx = tx, !.outputs = outs]
        BY <1>4, Zenon DEF AddOutput
      <4>. HIDE DEF tx, outs
      <4>. QED
        BY <2>1, <4>1, <4>2 DEF PsbtSet
  <2>3. CASE p.version # 0
    <3>1. AddOutput(p, i, out) = [p EXCEPT !.tx = p.tx, !.outputs = outs]
      BY <2>3 DEF AddOutput, PsbtSet
    <3>. HIDE DEF outs
    <3>. QED
      BY <2>1, <3>1 DEF PsbtSet
  <2>. QED
    BY <2>2, <2>3
<1>. QED
  BY <1>3, <1>4

LEMMA RemoveOutputTyped ==
    ASSUME NEW p \in PsbtSet, NEW i, CanRemoveOutput(p, i)
    PROVE  RemoveOutput(p, i) \in PsbtSet
<1>. DEFINE outs == RemoveAt(p.outputs, i)
            tx == IF p.version = 0
                  THEN [p.tx EXCEPT !.outputs = RemoveAt(@, i)] ELSE p.tx
<1>1. p.outputs \in Seq(OutputSet) /\ i \in 1..Len(p.outputs)
  BY DEF PsbtSet, CanRemoveOutput
<1>2. outs \in Seq(OutputSet)
  BY <1>1, RemoveTyped
<1>3. tx \in TxSet \cup {None}
  <2>1. CASE p.version = 0
    <3>1. /\ p.tx \in TxSet /\ Len(p.tx.outputs) = Len(p.outputs)
          /\ p.tx.outputs \in Seq(TxOutSet)
      BY <2>1 DEF CanRemoveOutput, IsValid, PsbtSet, TxSet
    <3>2. RemoveAt(p.tx.outputs, i) \in Seq(TxOutSet)
      BY <1>1, <3>1, RemoveTyped
    <3>. QED
      BY <2>1, <3>1, <3>2 DEF TxSet
  <2>2. CASE p.version # 0
    BY <2>2 DEF PsbtSet
  <2>. QED
    BY <2>1, <2>2
<1>4. RemoveOutput(p, i) = [p EXCEPT !.tx = tx, !.outputs = outs]
  BY Zenon DEF RemoveOutput
<1>. HIDE DEF outs, tx
<1>. QED
  BY <1>2, <1>3, <1>4 DEF PsbtSet

-----------------------------------------------------------------------------
(* The locktime.                                                           *)

LEMMA Bounded ==
    ASSUME NEW f, NEW N \in Nat, \A i \in 1..N : f[i] \in Nat
    PROVE  \E b \in Nat : \A i \in 1..N : f[i] <= b
<1>. DEFINE T == {n \in Nat : n <= N => \E b \in Nat : \A i \in 1..n : f[i] <= b}
<1>1. 0 \in T
  OBVIOUS
<1>2. ASSUME NEW n \in Nat, n \in T PROVE n + 1 \in T
  <2>. SUFFICES ASSUME n + 1 <= N PROVE \E b \in Nat : \A i \in 1..(n + 1) : f[i] <= b
    OBVIOUS
  <2>1. PICK b \in Nat : \A i \in 1..n : f[i] <= b
    BY <1>2
  <2>2. f[n + 1] \in Nat
    OBVIOUS
  <2>3. \A i \in 1..(n + 1) : f[i] <= b + f[n + 1]
    <3>. TAKE i \in 1..(n + 1)
    <3>1. i \in 1..n \/ i = n + 1
      OBVIOUS
    <3>2. f[i] \in Nat
      OBVIOUS
    <3>. QED
      BY <2>1, <2>2, <3>1, <3>2
  <2>. QED
    BY <2>2, <2>3
<1>. HIDE DEF T
<1>3. N \in T
  BY <1>1, <1>2, Totals!NaturalInduction
<1>. QED
  BY <1>3 DEF T

LEMMA MaxIs ==
    ASSUME NEW S, S \subseteq Nat, S # {}, NEW b \in Nat, \A n \in S : n <= b
    PROVE  Max(S) \in S /\ \A n \in S : Max(S) >= n
<1>1. PICK m \in S : \A n \in S : n <= m
  BY Totals!GreatestNatural, Zenon
<1>2. \E k \in S : \A n \in S : k >= n
  BY <1>1
<1>. QED
  BY <1>2 DEF Max

LEMMA MinIs ==
    ASSUME NEW S, S \subseteq Nat, NEW m \in S, \A n \in S : m <= n
    PROVE  Min(S) = m
<1>1. \E k \in S : \A n \in S : k =< n
  OBVIOUS
<1>2. Min(S) \in S /\ \A n \in S : Min(S) =< n
  BY <1>1 DEF Min
<1>3. Min(S) \in Nat /\ m \in Nat /\ Min(S) <= m /\ m <= Min(S)
  BY <1>2
<1>. QED
  BY <1>3

LEMMA MaxOfInputs ==
    ASSUME NEW f, NEW N \in Nat, \A i \in 1..N : f[i] \in Nat,
           NEW S, S = {0} \cup {f[i] : i \in 1..N}
    PROVE  Max(S) \in Nat /\ Max(S) \in S /\ \A i \in 1..N : f[i] <= Max(S)
<1>1. PICK b \in Nat : \A i \in 1..N : f[i] <= b
  BY Bounded
<1>2. S \subseteq Nat /\ S # {} /\ \A n \in S : n <= b
  BY <1>1
<1>3. \A i \in 1..N : f[i] \in S
  OBVIOUS
<1>4. Max(S) \in S /\ \A n \in S : Max(S) >= n
  BY <1>2, MaxIs
<1>5. Max(S) \in Nat /\ \A i \in 1..N : f[i] <= Max(S)
  BY <1>2, <1>3, <1>4
<1>. QED
  BY <1>4, <1>5

(* The greatest times and heights of a PSBT.                               *)
LEMMA GreatestLocks ==
    ASSUME NEW p \in PsbtSet
    PROVE  /\ MaxTime(p) \in Nat /\ MaxHeight(p) \in Nat
           /\ \A n \in 1..Len(p.inputs) : /\ p.inputs[n].time <= MaxTime(p)
                                          /\ p.inputs[n].height <= MaxHeight(p)
           /\ \/ MaxTime(p) = 0
              \/ \E n \in 1..Len(p.inputs) : p.inputs[n].time = MaxTime(p)
           /\ \/ MaxHeight(p) = 0
              \/ \E n \in 1..Len(p.inputs) : p.inputs[n].height = MaxHeight(p)
<1>. DEFINE N == Len(p.inputs)
            times == [n \in 1..N |-> p.inputs[n].time]
            heights == [n \in 1..N |-> p.inputs[n].height]
<1>1. N \in Nat /\ \A n \in 1..N : p.inputs[n].time \in Nat /\ p.inputs[n].height \in Nat
  <2>1. p.inputs \in Seq(InputSet)
    BY DEF PsbtSet
  <2>2. \A in \in InputSet : in.time \in Nat /\ in.height \in Nat
    BY DEF InputSet
  <2>. QED
    BY <2>1, <2>2
<1>2. /\ \A n \in 1..N : times[n] = p.inputs[n].time /\ times[n] \in Nat
      /\ \A n \in 1..N : heights[n] = p.inputs[n].height /\ heights[n] \in Nat
  BY <1>1
<1>3. /\ {times[n] : n \in 1..N} = {p.inputs[n].time : n \in 1..N}
      /\ {heights[n] : n \in 1..N} = {p.inputs[n].height : n \in 1..N}
  BY <1>2
<1>. HIDE DEF times, heights
<1>4. /\ MaxTime(p) = Max({0} \cup {times[n] : n \in 1..N})
      /\ MaxHeight(p) = Max({0} \cup {heights[n] : n \in 1..N})
  BY <1>3, Zenon DEF MaxTime, MaxHeight
<1>. HIDE DEF N
<1>5. /\ MaxTime(p) \in Nat /\ MaxTime(p) \in {0} \cup {times[n] : n \in 1..N}
      /\ \A n \in 1..N : times[n] <= MaxTime(p)
  <2>1. \A S : S = {0} \cup {times[n] : n \in 1..N} =>
            Max(S) \in Nat /\ Max(S) \in S /\ \A n \in 1..N : times[n] <= Max(S)
    BY <1>1, <1>2, MaxOfInputs
  <2>. QED
    BY <1>4, <2>1, Zenon
<1>6. /\ MaxHeight(p) \in Nat /\ MaxHeight(p) \in {0} \cup {heights[n] : n \in 1..N}
      /\ \A n \in 1..N : heights[n] <= MaxHeight(p)
  <2>1. \A S : S = {0} \cup {heights[n] : n \in 1..N} =>
            Max(S) \in Nat /\ Max(S) \in S /\ \A n \in 1..N : heights[n] <= Max(S)
    BY <1>1, <1>2, MaxOfInputs
  <2>. QED
    BY <1>4, <2>1, Zenon
<1>. QED
  BY <1>2, <1>5, <1>6 DEF N

-----------------------------------------------------------------------------
(* The type is not inductive: an output without a script could be built    *)
(* into a transaction.  Only version 0 has such outputs.                   *)
KnownOutput == {out \in OutputSet : out.script \in ScriptPKs}
Typed(p) == p \in PsbtSet /\ (p.version = 2 => p.outputs \in Seq(KnownOutput))

LEMMA KnownOutputs ==
    /\ \A p \in PsbtSet, out \in TxOutSet :
            p.version = 2 => OutputFromTx(p, out) \in KnownOutput
    /\ \A out \in TxOutSet : out \in KnownOutput
  BY DEF OutputFromTx, KnownOutput, OutputSet, TxOutSet

LEMMA CreateKeepsTyped ==
    ASSUME NEW version \in {0, 2}, NEW tx \in TxSet
    PROVE  /\ Typed(InitPsbt(version)) /\ Typed(FromTx(tx, version))
           /\ \A p : Typed(p) /\ CanSetGlobalTx(p) => Typed(SetGlobalTx(p, tx))
<1>1. Typed(InitPsbt(version))
  <2>1. InitPsbt(version).outputs = <<>> /\ <<>> \in Seq(KnownOutput)
    BY DEF InitPsbt
  <2>. QED
    BY <2>1, InitPsbtTyped DEF Typed
<1>2. \A p : Typed(p) /\ CanSetGlobalTx(p) => Typed(SetGlobalTx(p, tx))
  <2>. TAKE p
  <2>. SUFFICES ASSUME Typed(p), CanSetGlobalTx(p) PROVE Typed(SetGlobalTx(p, tx))
    OBVIOUS
  <2>1. SetGlobalTx(p, tx) \in PsbtSet
    BY SetGlobalTxTyped DEF Typed
  <2>2. SetGlobalTx(p, tx).version = 0
    BY DEF SetGlobalTx, CanSetGlobalTx, Typed, PsbtSet
  <2>. QED
    BY <2>1, <2>2 DEF Typed
<1>3. Typed(FromTx(tx, version))
  <2>1. FromTx(tx, version) \in PsbtSet
    BY FromTxTyped
  <2>2. CASE version = 0
    <3>1. FromTx(tx, version).version = 0
      BY <2>2 DEF FromTx, SetGlobalTx, InitPsbt
    <3>. QED
      BY <2>1, <3>1 DEF Typed
  <2>3. CASE version = 2
    <3>. DEFINE p == InitPsbt(2)
                outs == [n \in 1..Len(tx.outputs) |-> OutputFromTx(p, tx.outputs[n])]
    <3>1. FromTx(tx, version).outputs = outs
      BY <2>3 DEF FromTx, InitPsbt
    <3>2. p \in PsbtSet /\ p.version = 2
      BY InitPsbtTyped DEF InitPsbt
    <3>3. Len(tx.outputs) \in Nat /\ \A n \in 1..Len(tx.outputs) : tx.outputs[n] \in TxOutSet
      BY DEF TxSet
    <3>. HIDE DEF p
    <3>4. outs \in Seq(KnownOutput)
      BY <3>2, <3>3, KnownOutputs
    <3>. QED
      BY <2>1, <3>1, <3>4 DEF Typed
  <2>. QED
    BY <2>2, <2>3
<1>. QED
  BY <1>1, <1>2, <1>3

LEMMA InputKeepsTyped ==
    ASSUME NEW p, Typed(p), NEW i
    PROVE  /\ CanAddInput(p, i) => \A in \in TxInSet : Typed(AddInput(p, i, in))
           /\ CanRemoveInput(p, i) => Typed(RemoveInput(p, i))
<1>1. /\ \A in : AddInput(p, i, in).version = p.version
                 /\ AddInput(p, i, in).outputs = p.outputs
      /\ RemoveInput(p, i).version = p.version
      /\ RemoveInput(p, i).outputs = p.outputs
  BY DEF Typed, PsbtSet, AddInput, RemoveInput
<1>. QED
  BY <1>1, AddInputTyped, RemoveInputTyped DEF Typed

LEMMA OutputKeepsTyped ==
    ASSUME NEW p, Typed(p), NEW i
    PROVE  /\ CanAddOutputAt(p, i) => \A out \in TxOutSet : Typed(AddOutput(p, i, out))
           /\ CanRemoveOutput(p, i) => Typed(RemoveOutput(p, i))
<1>1. /\ \A out : AddOutput(p, i, out).version = p.version
      /\ RemoveOutput(p, i).version = p.version
  BY DEF Typed, PsbtSet, AddOutput, RemoveOutput
<1>2. ASSUME CanAddOutputAt(p, i), p.version = 2, NEW out \in TxOutSet
      PROVE  AddOutput(p, i, out).outputs \in Seq(KnownOutput)
  <2>1. AddOutput(p, i, out).outputs = InsertAt(p.outputs, i, OutputFromTx(p, out))
    BY <1>2 DEF AddOutput, Typed, PsbtSet
  <2>2. p.outputs \in Seq(KnownOutput) /\ OutputFromTx(p, out) \in KnownOutput
    BY <1>2, KnownOutputs DEF Typed
  <2>. QED
    BY <1>2, <2>1, <2>2, InsertTyped DEF CanAddOutputAt
<1>3. ASSUME CanRemoveOutput(p, i), p.version = 2
      PROVE  RemoveOutput(p, i).outputs \in Seq(KnownOutput)
  <2>1. RemoveOutput(p, i).outputs = RemoveAt(p.outputs, i)
    BY <1>3 DEF RemoveOutput, Typed, PsbtSet
  <2>. QED
    BY <1>3, <2>1, RemoveTyped DEF CanRemoveOutput, Typed
<1>. QED
  BY <1>1, <1>2, <1>3, AddOutputTyped, RemoveOutputTyped DEF Typed

LEMMA BuildTxTyped ==
    ASSUME NEW p, Typed(p), CanBuildTx(p)
    PROVE  BuildTx(p) \in TxSet
<1>1. CASE p.version = 0
  BY <1>1 DEF Typed, PsbtSet, CanBuildTx, BuildTx
<1>2. CASE p.version = 2
  <2>. DEFINE ins == [n \in 1..Len(p.inputs) |->
                        TxIn(p.inputs[n].txid, p.inputs[n].index, p.inputs[n].sequence)]
              outs == [n \in 1..Len(p.outputs) |->
                        TxOut(p.outputs[n].script, p.outputs[n].satoshi)]
  <2>1. GetLocktime(p) \in Nat
    <3>1. p \in PsbtSet /\ p.fallback \in Nat \cup {None} /\ GetLocktime(p) # None
      BY <1>2 DEF Typed, PsbtSet, CanBuildTx
    <3>. QED
      BY <3>1, GreatestLocks DEF GetLocktime
  <2>2. ins \in Seq(TxInSet)
    <3>1. p.inputs \in Seq(InputSet)
      BY DEF Typed, PsbtSet
    <3>2. \A in \in InputSet : TxIn(in.txid, in.index, in.sequence) \in TxInSet
      BY DEF InputSet, TxInSet, TxIn
    <3>. QED
      BY <3>1, <3>2
  <2>3. outs \in Seq(TxOutSet)
    <3>1. p.outputs \in Seq(KnownOutput)
          /\ \A n \in 1..Len(p.outputs) : p.outputs[n].satoshi # None
      BY <1>2 DEF Typed, CanBuildTx
    <3>2. \A out \in KnownOutput :
            out.satoshi # None => TxOut(out.script, out.satoshi) \in TxOutSet
      BY DEF KnownOutput, OutputSet, TxOutSet, TxOut
    <3>. QED
      BY <3>1, <3>2
  <2>4. BuildTx(p) = Tx(p.txVersion, GetLocktime(p), ins, outs)
    <3>1. p.version # 0
      BY <1>2
    <3>. QED
      BY <3>1, Zenon DEF BuildTx
  <2>5. p.txVersion \in Nat
    BY DEF Typed, PsbtSet
  <2>. HIDE DEF ins, outs
  <2>. QED
    BY <2>1, <2>2, <2>3, <2>4, <2>5 DEF Tx, TxSet
<1>. QED
  BY <1>1, <1>2 DEF Typed, PsbtSet

LEMMA SetVersionKeepsTyped ==
    ASSUME NEW p, Typed(p), NEW version \in {0, 2}, CanSetVersion(p, version)
    PROVE  Typed(SetVersion(p, version))
<1>1. p \in PsbtSet /\ p.inputs \in Seq(InputSet)
  BY DEF Typed, PsbtSet
<1>2. CASE version = 2
  <2>. DEFINE ins == [n \in 1..Len(p.inputs) |->
                        [p.inputs[n] EXCEPT !.txid = p.tx.inputs[n].txid,
                                            !.index = p.tx.inputs[n].index,
                                            !.sequence = p.tx.inputs[n].sequence]]
              outs == [n \in 1..Len(p.outputs) |->
                        [script |-> p.tx.outputs[n].script,
                         satoshi |-> p.tx.outputs[n].satoshi]]
  <2>1. /\ p.tx \in TxSet
        /\ Len(p.tx.inputs) = Len(p.inputs) /\ Len(p.tx.outputs) = Len(p.outputs)
    BY <1>1, <1>2 DEF CanSetVersion, IsValid, PsbtSet
  <2>2. /\ p.tx.inputs \in Seq(TxInSet) /\ p.tx.outputs \in Seq(TxOutSet)
        /\ p.tx.version \in Nat /\ p.tx.locktime \in Nat
    BY <2>1 DEF TxSet
  <2>3. \A in \in InputSet, from \in TxInSet :
            [in EXCEPT !.txid = from.txid, !.index = from.index,
                       !.sequence = from.sequence] \in InputSet
    BY DEF InputSet, TxInSet
  <2>4. ins \in Seq(InputSet)
    <3>1. ASSUME NEW n \in 1..Len(p.inputs) PROVE ins[n] \in InputSet
      <4>1. p.inputs[n] \in InputSet /\ p.tx.inputs[n] \in TxInSet
        BY <1>1, <2>1, <2>2
      <4>. QED
        BY <2>3, <4>1, Zenon
    <3>2. ins \in [1..Len(p.inputs) -> InputSet]
      BY <3>1, Zenon
    <3>. HIDE DEF ins
    <3>. QED
      BY <1>1, <3>2
  <2>5. \A out \in TxOutSet :
            [script |-> out.script, satoshi |-> out.satoshi] \in KnownOutput
    BY DEF TxOutSet, KnownOutput, OutputSet
  <2>6. outs \in Seq(KnownOutput)
    BY <2>1, <2>2, <2>5
  <2>7. SetVersion(p, version) =
          [p EXCEPT !.version = 2,
                    !.txVersion = IF p.tx.version < 2 THEN 2 ELSE p.tx.version,
                    !.fallback = IF p.tx.locktime = 0 THEN None ELSE p.tx.locktime,
                    !.mods = {"INPUTS", "OUTPUTS"},
                    !.inputs = ins, !.outputs = outs, !.tx = None]
    BY <1>2, Zenon DEF SetVersion, V0ToV2
  <2>. HIDE DEF ins, outs
  <2>8. outs \in Seq(OutputSet)
    BY <2>6 DEF KnownOutput
  <2>9. SetVersion(p, version) \in PsbtSet /\ SetVersion(p, version).outputs = outs
    <3>. DEFINE version2 == IF p.tx.version < 2 THEN 2 ELSE p.tx.version
                fallback == IF p.tx.locktime = 0 THEN None ELSE p.tx.locktime
    <3>1. version2 \in Nat /\ fallback \in Nat \cup {None}
      BY <2>2
    <3>. HIDE DEF version2, fallback
    <3>2. SetVersion(p, version) =
            [version |-> 2, tx |-> None, txVersion |-> version2, fallback |-> fallback,
             mods |-> {"INPUTS", "OUTPUTS"}, inputs |-> ins, outputs |-> outs]
      BY <1>1, <2>7 DEF PsbtSet, version2, fallback
    <3>. QED
      BY <2>4, <2>8, <3>1, <3>2 DEF PsbtSet, Flags
  <2>. QED
    BY <2>6, <2>9 DEF Typed
<1>3. CASE version = 0
  <2>. DEFINE ins == [n \in 1..Len(p.inputs) |->
                        [p.inputs[n] EXCEPT !.index = 0, !.sequence = 0,
                                            !.time = 0, !.height = 0]]
              outs == [n \in 1..Len(p.outputs) |-> EmptyOutput]
  <2>1. \A in \in InputSet :
            [in EXCEPT !.index = 0, !.sequence = 0, !.time = 0, !.height = 0] \in InputSet
    BY DEF InputSet
  <2>2. ins \in Seq(InputSet)
    <3>1. ASSUME NEW n \in 1..Len(p.inputs) PROVE ins[n] \in InputSet
      <4>1. p.inputs[n] \in InputSet
        BY <1>1
      <4>. QED
        BY <2>1, <4>1, Zenon
    <3>2. ins \in [1..Len(p.inputs) -> InputSet]
      BY <3>1, Zenon
    <3>. HIDE DEF ins
    <3>. QED
      BY <1>1, <3>2
  <2>3. outs \in Seq(OutputSet)
    BY <1>1, EmptyTyped DEF PsbtSet
  <2>4. BuildTx(p) \in TxSet
    BY <1>3, BuildTxTyped DEF CanSetVersion
  <2>5. SetVersion(p, version) =
          [p EXCEPT !.tx = BuildTx(p), !.inputs = ins, !.outputs = outs,
                    !.version = 0, !.txVersion = 0, !.fallback = None, !.mods = {}]
    <3>1. version # 2
      BY <1>3
    <3>. QED
      BY <3>1, Zenon DEF SetVersion, V2ToV0
  <2>. HIDE DEF ins, outs
  <2>6. SetVersion(p, version) \in PsbtSet /\ SetVersion(p, version).version = 0
    <3>1. SetVersion(p, version) =
            [version |-> 0, tx |-> BuildTx(p), txVersion |-> 0, fallback |-> None,
             mods |-> {}, inputs |-> ins, outputs |-> outs]
      BY <1>1, <2>5 DEF PsbtSet
    <3>. QED
      BY <2>2, <2>3, <2>4, <3>1 DEF PsbtSet
  <2>. QED
    BY <2>6 DEF Typed
<1>. QED
  BY <1>2, <1>3

(* The setters change one field.                                           *)
LEMMA SettersKeepTyped ==
    ASSUME NEW p, Typed(p), NEW n \in Nat
    PROVE  /\ Typed([p EXCEPT !.txVersion = n]) /\ Typed([p EXCEPT !.fallback = n])
           /\ Typed([p EXCEPT !.fallback = None])
           /\ \A flags \in SUBSET Flags : Typed([p EXCEPT !.mods = flags])
  BY DEF Typed, PsbtSet

LEMMA InputSettersKeepTyped ==
    ASSUME NEW p, Typed(p), NEW i \in 1..Len(p.inputs), NEW n \in Nat
    PROVE  /\ Typed([p EXCEPT !.inputs[i].sequence = n])
           /\ Typed([p EXCEPT !.inputs[i].time = n])
           /\ Typed([p EXCEPT !.inputs[i].height = n])
<1>1. p \in PsbtSet /\ p.inputs \in Seq(InputSet)
  BY DEF Typed, PsbtSet
<1>2. \A in \in InputSet : /\ [in EXCEPT !.sequence = n] \in InputSet
                           /\ [in EXCEPT !.time = n] \in InputSet
                           /\ [in EXCEPT !.height = n] \in InputSet
  BY DEF InputSet
<1>3. ASSUME NEW in \in InputSet PROVE [p.inputs EXCEPT ![i] = in] \in Seq(InputSet)
  BY <1>1
<1>4. /\ [p.inputs EXCEPT ![i].sequence = n] \in Seq(InputSet)
      /\ [p.inputs EXCEPT ![i].time = n] \in Seq(InputSet)
      /\ [p.inputs EXCEPT ![i].height = n] \in Seq(InputSet)
  BY <1>1, <1>2, <1>3
<1>5. ASSUME NEW ins \in Seq(InputSet) PROVE Typed([p EXCEPT !.inputs = ins])
  BY DEF Typed, PsbtSet
<1>. QED
  BY <1>4, <1>5

LEMMA OutputSettersKeepTyped ==
    ASSUME NEW p, Typed(p), NEW i \in 1..Len(p.outputs), NEW out \in TxOutSet
    PROVE  /\ Typed([p EXCEPT !.outputs[i].satoshi = out.satoshi])
           /\ Typed([p EXCEPT !.outputs[i].satoshi = None])
           /\ Typed([p EXCEPT !.outputs[i].script = out.script])
<1>1. p \in PsbtSet /\ p.outputs \in Seq(OutputSet)
  BY DEF Typed, PsbtSet
<1>2. ASSUME NEW S \in {OutputSet, KnownOutput}, NEW o \in S
      PROVE  /\ [o EXCEPT !.satoshi = out.satoshi] \in S
             /\ [o EXCEPT !.satoshi = None] \in S
             /\ [o EXCEPT !.script = out.script] \in S
  <2>1. CASE S = OutputSet
    BY <2>1 DEF OutputSet, TxOutSet
  <2>2. CASE S = KnownOutput
    BY <2>2 DEF KnownOutput, OutputSet, TxOutSet
  <2>. QED
    BY <2>1, <2>2
<1>3. ASSUME NEW S, p.outputs \in Seq(S), NEW o \in S
      PROVE  [p.outputs EXCEPT ![i] = o] \in Seq(S)
  BY <1>3
<1>4. ASSUME NEW S \in {OutputSet, KnownOutput}, p.outputs \in Seq(S)
      PROVE  /\ [p.outputs EXCEPT ![i].satoshi = out.satoshi] \in Seq(S)
             /\ [p.outputs EXCEPT ![i].satoshi = None] \in Seq(S)
             /\ [p.outputs EXCEPT ![i].script = out.script] \in Seq(S)
  <2>1. p.outputs[i] \in S
    BY <1>4
  <2>. QED
    BY <1>2, <1>3, <1>4, <2>1
<1>5. ASSUME NEW outs \in Seq(OutputSet), p.version = 2 => outs \in Seq(KnownOutput)
      PROVE  Typed([p EXCEPT !.outputs = outs])
  BY <1>5 DEF Typed, PsbtSet
<1>6. p.version = 2 => p.outputs \in Seq(KnownOutput)
  BY DEF Typed
<1>. QED
  BY <1>1, <1>4, <1>5, <1>6

TypeInv == TypeOK /\ \A h \in Live : Typed(psbt[h])

LEMMA UpdateTyped ==
    ASSUME TypeInv, NEW h \in Handles, NEW p, Typed(p) \/ p = None, Update(h, p)
    PROVE  TypeInv'
<1>1. psbt' = [psbt EXCEPT ![h] = p]
  BY DEF Update
<1>2. psbt \in [Handles -> PsbtSet \cup {None}] /\ p \in PsbtSet \cup {None}
  BY DEF TypeInv, TypeOK, Typed
<1>3. TypeOK'
  BY <1>1, <1>2 DEF TypeOK
<1>4. ASSUME NEW g \in Handles, psbt'[g] # None PROVE Typed(psbt'[g])
  <2>1. CASE g = h
    BY <1>1, <1>2, <1>4, <2>1
  <2>2. CASE g # h
    BY <1>1, <1>2, <1>4, <2>2 DEF TypeInv, Live
  <2>. QED
    BY <2>1, <2>2
<1>. QED
  BY <1>3, <1>4 DEF TypeInv, Live

LEMMA SetFieldsTyped ==
    ASSUME TypeInv, NEW h \in Handles, SetFields(h)
    PROVE  TypeInv'
<1>1. CASE \E n \in TxVersions : SetTxVersion(h, n)
  BY <1>1, SettersKeepTyped, UpdateTyped, FieldsAssumption DEF SetTxVersion, IsV2, TypeInv
<1>2. CASE \E n \in Fallbacks \cup {None} : SetFallback(h, n)
  BY <1>2, SettersKeepTyped, UpdateTyped, FieldsAssumption DEF SetFallback, IsV2, TypeInv
<1>3. ASSUME NEW i, NEW n \in Sequences \cup Times \cup Heights,
             SetSequence(h, i, n) \/ SetTime(h, i, n) \/ SetHeight(h, i, n)
      PROVE  TypeInv'
  <2>1. /\ Typed(psbt[h]) /\ psbt[h].version = 2 /\ n \in Nat
        /\ i \in 1..Len(psbt[h].inputs)
    BY <1>3, FieldsAssumption
    DEF SetSequence, SetTime, SetHeight, IsV2, TypeInv, Inputs
  <2>. QED
    BY <1>3, <2>1, InputSettersKeepTyped, UpdateTyped DEF SetSequence, SetTime, SetHeight
<1>4. ASSUME NEW i, NEW out \in TxOuts, SetOutput(h, i, out)
      PROVE  TypeInv'
  <2>1. /\ Typed(psbt[h]) /\ psbt[h].version = 2 /\ out \in TxOutSet
        /\ i \in 1..Len(psbt[h].outputs)
    BY <1>4, PartsAssumption DEF SetOutput, IsV2, TypeInv, Outputs
  <2>. QED
    BY <1>4, <2>1, OutputSettersKeepTyped, UpdateTyped DEF SetOutput
<1>. QED
  BY <1>1, <1>2, <1>3, <1>4 DEF SetFields

LEMMA ConstructTyped ==
    ASSUME TypeInv, NEW h \in Handles,
           \/ Create(h) \/ ModifyTx(h) \/ \E version \in Versions : ChangeVersion(h, version)
           \/ SetFields(h)
           \/ \E flags \in {{"INPUTS"}, {"INPUTS", "OUTPUTS"}} : SetModifiable(h, flags)
           \/ Free(h)
    PROVE  TypeInv'
<1>1. ASSUME NEW version \in Versions, NEW tx \in Txs, CreateFromTx(h, tx, version)
      PROVE  TypeInv'
  <2>1. version \in {0, 2} /\ tx \in TxSet
    BY VersionsAssumption, PartsAssumption
  <2>. QED
    BY <1>1, <2>1, CreateKeepsTyped, UpdateTyped DEF CreateFromTx
<1>2. ASSUME NEW version \in Versions, InitAlloc(h, version) PROVE TypeInv'
  <2>1. version \in {0, 2}
    BY VersionsAssumption
  <2>2. Typed(InitPsbt(version))
    <3>1. InitPsbt(version).outputs = <<>> /\ <<>> \in Seq(KnownOutput)
      BY DEF InitPsbt
    <3>. QED
      BY <2>1, <3>1, InitPsbtTyped DEF Typed
  <2>. QED
    BY <1>2, <2>2, UpdateTyped DEF InitAlloc
<1>3. ASSUME NEW tx \in Txs, SetTx(h, tx) PROVE TypeInv'
  <2>1. tx \in TxSet /\ 0 \in {0, 2}
    BY PartsAssumption
  <2>. QED
    BY <1>3, <2>1, CreateKeepsTyped, UpdateTyped DEF SetTx, TypeInv
<1>4. CASE Create(h)
  BY <1>1, <1>2, <1>3, <1>4 DEF Create
<1>5. ASSUME NEW i, NEW in \in TxIns, AddTxInputAt(h, i, in) PROVE TypeInv'
  BY <1>5, PartsAssumption, InputKeepsTyped, UpdateTyped DEF AddTxInputAt, TypeInv
<1>6. ASSUME NEW i, RemoveInputAt(h, i) PROVE TypeInv'
  BY <1>6, InputKeepsTyped, UpdateTyped DEF RemoveInputAt, TypeInv
<1>7. ASSUME NEW i, NEW out \in TxOuts, AddTxOutputAt(h, i, out) PROVE TypeInv'
  BY <1>7, PartsAssumption, OutputKeepsTyped, UpdateTyped DEF AddTxOutputAt, TypeInv
<1>8. ASSUME NEW i, RemoveOutputAt(h, i) PROVE TypeInv'
  BY <1>8, OutputKeepsTyped, UpdateTyped DEF RemoveOutputAt, TypeInv
<1>9. CASE ModifyTx(h)
  BY <1>5, <1>6, <1>7, <1>8, <1>9 DEF ModifyTx
<1>10. ASSUME NEW version \in Versions, ChangeVersion(h, version) PROVE TypeInv'
  <2>1. version \in {0, 2}
    BY VersionsAssumption
  <2>. QED
    BY <1>10, <2>1, SetVersionKeepsTyped, UpdateTyped DEF ChangeVersion, TypeInv
<1>11. ASSUME NEW flags \in {{"INPUTS"}, {"INPUTS", "OUTPUTS"}}, SetModifiable(h, flags)
       PROVE  TypeInv'
  <2>1. flags \in SUBSET Flags /\ 0 \in Nat
    BY DEF Flags
  <2>. QED
    BY <1>11, <2>1, SettersKeepTyped, UpdateTyped DEF SetModifiable, IsV2, TypeInv
<1>12. CASE Free(h)
  BY <1>12, UpdateTyped DEF Free
<1>. QED
  BY <1>4, <1>9, <1>10, <1>11, <1>12, SetFieldsTyped

LEMMA InitTyped == EmptyInit => TypeInv
  BY DEF EmptyInit, TypeInv, TypeOK, Live

LEMMA NextTyped == TypeInv /\ [ConstructNext]_vars => TypeInv'
<1>. SUFFICES ASSUME TypeInv, [ConstructNext]_vars PROVE TypeInv'
  OBVIOUS
<1>1. CASE UNCHANGED vars
  BY <1>1 DEF vars, TypeInv, TypeOK, Live
<1>2. CASE ConstructNext
  BY <1>2, ConstructTyped DEF ConstructNext
<1>. QED
  BY <1>1, <1>2

(* Whatever is created, added, removed, set and converted, and whether or  *)
(* not the transaction refuses an output, every field of every PSBT keeps  *)
(* its type (src/psbt.c): no transaction is ever built of an output that   *)
(* has no script.                                                          *)
THEOREM ConstructTypeCorrect == ConstructSpec => []TypeOK
<1>1. TypeInv => TypeOK
  BY DEF TypeInv
<1>. QED
  BY <1>1, InitTyped, NextTyped, PTL DEF ConstructSpec

-----------------------------------------------------------------------------
(* The total of the outputs, and that it fits.                             *)
SureOutput == [script : ScriptPKs, satoshi : Amounts]
PayOutput  == [script : ScriptPKs, satoshi : Amounts \cup {None}]

LEMMA AmountsAreNaturals == Amounts \subseteq Nat
<1>1. \A out \in TxOutSet : out.satoshi \in Nat
  BY DEF TxOutSet
<1>2. \A tx \in TxSet : Range(tx.outputs) \subseteq TxOutSet
  BY DEF TxSet, Range
<1>. QED
  BY <1>1, <1>2, PartsAssumption DEF Amounts

LEMMA OutputsAreSure ==
    /\ \A out \in TxOuts : out \in SureOutput
    /\ \A tx \in Txs : tx.outputs \in Seq(SureOutput)
<1>1. \A out \in TxOutSet : out.satoshi \in Amounts => out \in SureOutput
  BY DEF TxOutSet, SureOutput
<1>2. ASSUME NEW out \in TxOuts PROVE out \in SureOutput
  BY <1>1, PartsAssumption DEF Amounts
<1>3. ASSUME NEW tx \in Txs PROVE tx.outputs \in Seq(SureOutput)
  <2>1. tx.outputs \in Seq(TxOutSet)
    BY PartsAssumption DEF TxSet
  <2>2. \A n \in 1..Len(tx.outputs) : tx.outputs[n].satoshi \in Amounts
    BY <2>1 DEF Amounts, Range
  <2>. QED
    BY <1>1, <2>1, <2>2
<1>. QED
  BY <1>2, <1>3

LEMMA TotalIsFold == \A outs : TotalOutput(outs) = Totals!Fold(outs, DOMAIN outs)
  BY DEF TotalOutput, FoldLeft, MapThenFoldSet, Totals!Fold, Totals!MapThenFoldSet,
         AddTo, AmountAt, Largest

LEMMA FiniteIsFinite == \A S : IsFiniteSet(S) <=> Totals!IsFiniteSet(S)
  BY DEF IsFiniteSet, Totals!IsFiniteSet

LEMMA PositionsAreFinite ==
    ASSUME NEW n \in Nat
    PROVE  Totals!IsFiniteSet(1..n) /\ Totals!Chooses(1..n)
<1>1. Totals!IsFiniteSet(1..n)
  BY FS_Interval, FiniteIsFinite
<1>2. ASSUME NEW S \in SUBSET (1..n), S # {} PROVE Largest(S) \in S
  <2>1. S \subseteq Nat /\ \A m \in S : m <= n
    OBVIOUS
  <2>. QED
    BY <1>2, <2>1, MaxIs DEF Largest
<1>. QED
  BY <1>1, <1>2 DEF Totals!Chooses

LEMMA NaturalsAreSums == Totals!IsSum(Nat)
  BY DEF Totals!IsSum, AddTo

LEMMA LargestPosition == ASSUME NEW n \in Nat, n # 0 PROVE Largest(1..n) = n
<1>1. 1..n \subseteq Nat /\ 1..n # {} /\ \A m \in 1..n : m <= n
  OBVIOUS
<1>2. Max(1..n) \in 1..n /\ \A m \in 1..n : Max(1..n) >= m
  BY <1>1, MaxIs
<1>3. Max(1..n) \in Nat /\ Max(1..n) <= n /\ n <= Max(1..n)
  BY <1>2
<1>. QED
  BY <1>3 DEF Largest

LEMMA TotalTakesOffLast ==
    ASSUME NEW f, NEW n \in Nat, n # 0, \A i \in 1..n : AmountAt(f, i) \in Nat
    PROVE  /\ Totals!Fold(f, 1..n) = Totals!Fold(f, 1..(n - 1)) + AmountAt(f, n)
           /\ Totals!Fold(f, 1..(n - 1)) \in Nat
<1>1. Totals!IsFiniteSet(1..n) /\ Totals!Chooses(1..n) /\ 1..n # {}
  <2>1. 1..n # {}
    OBVIOUS
  <2>. QED
    BY <2>1, PositionsAreFinite, Zenon
<1>2. Totals!Fold(f, 1..n) = AddTo(AmountAt(f, Largest(1..n)),
                                   Totals!Fold(f, (1..n) \ {Largest(1..n)}))
  BY <1>1, Totals!FoldUnfolds, Zenon
<1>3. (1..n) \ {n} = 1..(n - 1)
  OBVIOUS
<1>4. Totals!Fold(f, 1..n) = AddTo(AmountAt(f, n), Totals!Fold(f, 1..(n - 1)))
  BY <1>2, <1>3, LargestPosition, Zenon
<1>5. n - 1 \in Nat /\ \A i \in 1..(n - 1) : AmountAt(f, i) \in Nat
  OBVIOUS
<1>6. Totals!Fold(f, 1..(n - 1)) \in Nat
  BY <1>5, PositionsAreFinite, NaturalsAreSums, Totals!SumTyped, Zenon
<1>. QED
  BY <1>4, <1>6 DEF AddTo

LEMMA SameTotal ==
    ASSUME NEW f, NEW g, NEW n \in Nat, \A i \in 1..n : AmountAt(f, i) = AmountAt(g, i)
    PROVE  Totals!Fold(f, 1..n) = Totals!Fold(g, 1..n)
  BY PositionsAreFinite, Totals!FoldSame, Zenon

(* The total of one output more.                                           *)
LEMMA TotalOfOneMore ==
    ASSUME NEW S, NEW outs \in Seq(S), NEW more \in Seq(S),
           Len(more) = Len(outs) + 1, \A i \in 1..Len(outs) : more[i] = outs[i],
           \A i \in 1..Len(more) : more[i].satoshi \in Nat
    PROVE  /\ TotalOutput(more) = TotalOutput(outs) + more[Len(more)].satoshi
           /\ TotalOutput(outs) \in Nat
<1>. DEFINE n == Len(more)
<1>1. n \in Nat /\ n # 0 /\ n - 1 = Len(outs) /\ Len(outs) \in Nat
  OBVIOUS
<1>2. \A i \in 1..n : AmountAt(more, i) \in Nat
  BY DEF AmountAt
<1>3. \A i \in 1..Len(outs) : AmountAt(more, i) = AmountAt(outs, i)
  BY DEF AmountAt
<1>4. DOMAIN more = 1..n /\ DOMAIN outs = 1..Len(outs)
  OBVIOUS
<1>. HIDE DEF n
<1>5. /\ Totals!Fold(more, 1..n) = Totals!Fold(more, 1..(n - 1)) + AmountAt(more, n)
      /\ Totals!Fold(more, 1..(n - 1)) \in Nat
  BY <1>1, <1>2, TotalTakesOffLast
<1>6. Totals!Fold(more, 1..(n - 1)) = Totals!Fold(outs, 1..Len(outs))
  BY <1>1, <1>3, SameTotal
<1>7. TotalOutput(more) = Totals!Fold(more, 1..n)
      /\ TotalOutput(outs) = Totals!Fold(outs, 1..Len(outs))
  BY <1>4, TotalIsFold, Zenon
<1>. QED
  BY <1>5, <1>6, <1>7 DEF AmountAt, n

LEMMA SureOutputsFit ==
    ASSUME AmountsFit, NEW outs \in Seq(SureOutput), Len(outs) <= MaxOutputs
    PROVE  TotalOutput(outs) <= MaxMoney
<1>1. Len(outs) \in 0..MaxOutputs /\ outs \in [1..Len(outs) -> SureOutput]
  BY FieldsAssumption
<1>. QED
  BY <1>1 DEF AmountsFit, SureOutput

LEMMA SureAmounts ==
    ASSUME NEW outs \in Seq(SureOutput)
    PROVE  \A n \in 1..Len(outs) : outs[n].satoshi \in Nat
<1>1. \A out \in SureOutput : out.satoshi \in Nat
  BY AmountsAreNaturals DEF SureOutput
<1>. QED
  BY <1>1

(* No output is refused while there is room for it.                        *)
LEMMA NotRefused ==
    ASSUME AmountsFit, NEW outs \in Seq(SureOutput), Len(outs) < MaxOutputs,
           NEW out \in SureOutput
    PROVE  CanAddOutput(outs, out)
<1>. DEFINE more == Append(outs, out)
<1>1. /\ more \in Seq(SureOutput) /\ Len(more) = Len(outs) + 1
      /\ more[Len(more)] = out /\ \A i \in 1..Len(outs) : more[i] = outs[i]
  OBVIOUS
<1>. HIDE DEF more
<1>2. TotalOutput(more) <= MaxMoney
  BY <1>1, SureOutputsFit, FieldsAssumption
<1>3. \A i \in 1..Len(more) : more[i].satoshi \in Nat
  BY <1>1, SureAmounts
<1>4. TotalOutput(more) = TotalOutput(outs) + out.satoshi /\ TotalOutput(outs) \in Nat
  BY <1>1, <1>3, TotalOfOneMore
<1>5. out.satoshi \in Nat
  BY AmountsAreNaturals DEF SureOutput
<1>. QED
  BY <1>2, <1>4, <1>5, MaxMoneyAssumption DEF CanAddOutput

LEMMA AllAreAdded ==
    ASSUME AmountsFit, NEW outs \in Seq(SureOutput), Len(outs) <= MaxOutputs
    PROVE  CanAddAll(outs)
<1>. SUFFICES ASSUME NEW n \in 1..Len(outs)
              PROVE  CanAddOutput(SubSeq(outs, 1, n - 1), outs[n])
  BY DEF CanAddAll
<1>1. /\ SubSeq(outs, 1, n - 1) \in Seq(SureOutput)
      /\ Len(SubSeq(outs, 1, n - 1)) = n - 1
  BY PartTyped
<1>2. outs[n] \in SureOutput /\ n - 1 < MaxOutputs
  BY FieldsAssumption
<1>. QED
  BY <1>1, <1>2, NotRefused

-----------------------------------------------------------------------------
(* The invariant of a PSBT that is built and converted.                    *)

PlainInput == {in \in InputSet : in.time = 0 /\ in.height = 0}
LockInput == {in \in InputSet : /\ in.time = 0 \/ in.time >= MinTimestamp
                                /\ in.height < MinTimestamp}

Good(p) ==
    /\ Typed(p) /\ IsValid(p)
    /\ Len(p.outputs) <= MaxOutputs
    /\ p.version = 0 => /\ p.inputs \in Seq(PlainInput)
                        /\ p.tx # None => p.tx.outputs \in Seq(SureOutput)
    /\ p.version = 2 => p.inputs \in Seq(LockInput) /\ p.outputs \in Seq(PayOutput)

LEMMA PlainIsLock == PlainInput \subseteq LockInput
  BY MinTimestampAssumption DEF PlainInput, LockInput

LEMMA PartsAreGood ==
    /\ EmptyInput \in PlainInput
    /\ \A p \in PsbtSet, in \in TxInSet : InputFromTx(p, in) \in PlainInput
    /\ \A p : \A out \in SureOutput :
            p.version = 2 => OutputFromTx(p, out) \in PayOutput
<1>1. EmptyInput \in PlainInput
  BY EmptyTyped DEF PlainInput, EmptyInput
<1>2. ASSUME NEW p \in PsbtSet, NEW in \in TxInSet PROVE InputFromTx(p, in) \in PlainInput
  <2>1. InputFromTx(p, in).time = 0 /\ InputFromTx(p, in).height = 0
    BY DEF InputFromTx, EmptyInput
  <2>. QED
    BY <2>1, PartsTyped DEF PlainInput
<1>3. ASSUME NEW p, NEW out \in SureOutput, p.version = 2
      PROVE  OutputFromTx(p, out) \in PayOutput
  BY <1>3 DEF OutputFromTx, SureOutput, PayOutput
<1>. QED
  BY <1>1, <1>2, <1>3

LEMMA InitPsbtGood == ASSUME NEW version \in {0, 2} PROVE Good(InitPsbt(version))
<1>. DEFINE p == InitPsbt(version)
<1>1. Typed(p)
  <2>1. p.outputs = <<>> /\ <<>> \in Seq(KnownOutput)
    BY DEF InitPsbt
  <2>. QED
    BY <2>1, InitPsbtTyped DEF Typed
<1>2. /\ p.version = version /\ p.tx = None /\ p.inputs = <<>> /\ p.outputs = <<>>
      /\ Len(p.inputs) = 0 /\ Len(p.outputs) = 0
  BY DEF InitPsbt
<1>3. <<>> \in Seq(PlainInput) /\ <<>> \in Seq(LockInput) /\ <<>> \in Seq(PayOutput)
  OBVIOUS
<1>. HIDE DEF p
<1>. QED
  BY <1>1, <1>2, <1>3, FieldsAssumption DEF Good, IsValid, p

LEMMA SetGlobalTxGood ==
    ASSUME AmountsFit, NEW p, Good(p), CanSetGlobalTx(p), NEW tx \in Txs
    PROVE  Good(SetGlobalTx(p, tx))
<1>. DEFINE q == SetGlobalTx(p, tx)
            ins == [n \in 1..Len(tx.inputs) |-> EmptyInput]
            outs == [n \in 1..Len(tx.outputs) |-> EmptyOutput]
<1>1. tx \in TxSet /\ Len(tx.inputs) \in Nat /\ Len(tx.outputs) \in Nat
      /\ Len(tx.outputs) <= MaxOutputs
  BY PartsAssumption DEF TxSet, AmountsFit
<1>2. Typed(q)
  BY <1>1, CreateKeepsTyped DEF Good
<1>3. p \in PsbtSet /\ p.version = 0
  BY DEF Good, Typed, CanSetGlobalTx
<1>4. q.version = 0 /\ q.tx = tx /\ q.inputs = ins /\ q.outputs = outs
  BY <1>3 DEF SetGlobalTx, PsbtSet
<1>5. ins \in Seq(PlainInput) /\ Len(ins) = Len(tx.inputs) /\ Len(outs) = Len(tx.outputs)
  BY <1>1, PartsAreGood
<1>. HIDE DEF q, ins, outs
<1>6. IsValid(q) /\ Len(q.outputs) <= MaxOutputs
  BY <1>1, <1>4, <1>5, NoneIsNoTx DEF IsValid
<1>7. q.inputs \in Seq(PlainInput) /\ q.tx.outputs \in Seq(SureOutput) /\ q.version # 2
  BY <1>4, <1>5, OutputsAreSure
<1>8. Good(q)
  BY <1>2, <1>6, <1>7 DEF Good
<1>. QED
  BY <1>8 DEF q

LEMMA FromTxGood ==
    ASSUME AmountsFit, NEW tx \in Txs, NEW version \in {0, 2}
    PROVE  Good(FromTx(tx, version))
<1>1. CASE version = 0
  <2>1. Good(InitPsbt(0)) /\ CanSetGlobalTx(InitPsbt(0))
    BY InitPsbtGood DEF CanSetGlobalTx, InitPsbt, Good
  <2>. QED
    BY <1>1, <2>1, SetGlobalTxGood DEF FromTx
<1>2. CASE version = 2
  <2>. DEFINE p == InitPsbt(2)
              q == FromTx(tx, 2)
              ins == [n \in 1..Len(tx.inputs) |-> InputFromTx(p, tx.inputs[n])]
              outs == [n \in 1..Len(tx.outputs) |-> OutputFromTx(p, tx.outputs[n])]
  <2>1. Typed(q)
    BY CreateKeepsTyped, PartsAssumption
  <2>2. q.version = 2 /\ q.tx = None /\ q.inputs = ins /\ q.outputs = outs
    BY DEF FromTx, InitPsbt
  <2>3. p \in PsbtSet /\ p.version = 2
    BY InitPsbtTyped DEF InitPsbt
  <2>4. /\ tx.inputs \in Seq(TxInSet) /\ tx.outputs \in Seq(SureOutput)
        /\ Len(tx.outputs) <= MaxOutputs
    BY PartsAssumption, OutputsAreSure DEF TxSet, AmountsFit
  <2>. HIDE DEF p, q
  <2>5. \A in \in TxInSet : InputFromTx(p, in) \in LockInput
    BY <2>3, PartsAreGood, PlainIsLock
  <2>6. \A out \in SureOutput : OutputFromTx(p, out) \in PayOutput
    BY <2>3, PartsAreGood
  <2>7. ins \in Seq(LockInput) /\ outs \in Seq(PayOutput) /\ Len(outs) = Len(tx.outputs)
    BY <2>4, <2>5, <2>6
  <2>. HIDE DEF ins, outs
  <2>8. Good(q)
    BY <2>1, <2>2, <2>4, <2>7 DEF Good, IsValid
  <2>. QED
    BY <1>2, <2>8 DEF q
<1>. QED
  BY <1>1, <1>2

LEMMA AddInputGood ==
    ASSUME NEW p, Good(p), NEW i, CanAddInput(p, i), NEW in \in TxInSet
    PROVE  Good(AddInput(p, i, in))
<1>. DEFINE q == AddInput(p, i, in)
            new == InputFromTx(p, in)
<1>1. Typed(q) /\ p \in PsbtSet /\ new \in PlainInput /\ new \in LockInput
  BY InputKeepsTyped, PartsAreGood, PlainIsLock DEF Good, Typed
<1>. HIDE DEF new
<1>2. /\ q.version = p.version /\ q.outputs = p.outputs
      /\ q.inputs = InsertAt(p.inputs, i, new)
      /\ p.version = 2 => q.tx = p.tx
  BY <1>1 DEF AddInput, PsbtSet, new
<1>3. i \in 1..(Len(p.inputs) + 1)
  BY DEF CanAddInput
<1>4. CASE p.version = 0
  <2>1. /\ p.tx \in TxSet /\ p.tx.inputs \in Seq(TxInSet)
        /\ Len(p.tx.inputs) = Len(p.inputs) /\ Len(p.tx.outputs) = Len(p.outputs)
    BY <1>1, <1>4 DEF CanAddInput, IsValid, PsbtSet, TxSet
  <2>2. q.tx = [p.tx EXCEPT !.inputs = InsertAt(p.tx.inputs, i, in)]
    BY <1>1, <1>4 DEF AddInput, PsbtSet
  <2>3. q.tx.inputs = InsertAt(p.tx.inputs, i, in) /\ q.tx.outputs = p.tx.outputs
    BY <2>1, <2>2 DEF TxSet
  <2>4. q.tx \in TxSet
    <3>1. InsertAt(p.tx.inputs, i, in) \in Seq(TxInSet)
      BY <1>3, <2>1, InsertTyped
    <3>. QED
      BY <2>1, <2>2, <3>1 DEF TxSet
  <2>5. p.inputs \in Seq(PlainInput) /\ p.tx.outputs \in Seq(SureOutput)
    BY <1>4, <2>1, NoneIsNoTx DEF Good
  <2>6. q.inputs \in Seq(PlainInput) /\ Len(q.inputs) = Len(p.inputs) + 1
    BY <1>1, <1>2, <1>3, <2>5, InsertTyped
  <2>7. Len(q.tx.inputs) = Len(p.tx.inputs) + 1
    BY <1>3, <2>1, <2>3, InsertTyped
  <2>. HIDE DEF q
  <2>8. IsValid(q)
    BY <1>2, <1>4, <2>1, <2>3, <2>4, <2>6, <2>7, NoneIsNoTx DEF IsValid
  <2>9. Good(q)
    BY <1>1, <1>2, <1>4, <2>3, <2>5, <2>6, <2>8 DEF Good
  <2>. QED
    BY <2>9 DEF q
<1>5. CASE p.version = 2
  <2>1. p.inputs \in Seq(LockInput) /\ p.tx = None
    BY <1>5 DEF Good, IsValid
  <2>2. q.inputs \in Seq(LockInput)
    BY <1>1, <1>2, <1>3, <2>1, InsertTyped
  <2>. HIDE DEF q
  <2>3. Good(q)
    BY <1>1, <1>2, <1>5, <2>1, <2>2 DEF Good, IsValid
  <2>. QED
    BY <2>3 DEF q
<1>. QED
  BY <1>1, <1>4, <1>5 DEF PsbtSet

LEMMA RemoveInputGood ==
    ASSUME NEW p, Good(p), NEW i, CanRemoveInput(p, i)
    PROVE  Good(RemoveInput(p, i))
<1>. DEFINE q == RemoveInput(p, i)
<1>1. Typed(q) /\ p \in PsbtSet
  BY InputKeepsTyped DEF Good, Typed
<1>2. /\ q.version = p.version /\ q.outputs = p.outputs
      /\ q.inputs = RemoveAt(p.inputs, i)
      /\ p.version = 2 => q.tx = p.tx
  BY <1>1 DEF RemoveInput, PsbtSet
<1>3. i \in 1..Len(p.inputs)
  BY DEF CanRemoveInput
<1>4. CASE p.version = 0
  <2>1. /\ p.tx \in TxSet /\ p.tx.inputs \in Seq(TxInSet)
        /\ Len(p.tx.inputs) = Len(p.inputs) /\ Len(p.tx.outputs) = Len(p.outputs)
    BY <1>1, <1>4 DEF CanRemoveInput, IsValid, PsbtSet, TxSet
  <2>2. q.tx = [p.tx EXCEPT !.inputs = RemoveAt(p.tx.inputs, i)]
    BY <1>1, <1>4 DEF RemoveInput, PsbtSet
  <2>3. q.tx.inputs = RemoveAt(p.tx.inputs, i) /\ q.tx.outputs = p.tx.outputs
    BY <2>1, <2>2 DEF TxSet
  <2>4. q.tx \in TxSet
    BY <1>1, <1>2, <1>3, <2>1, <2>2, RemoveTyped, SMTT(30) DEF TxSet
  <2>5. p.inputs \in Seq(PlainInput) /\ p.tx.outputs \in Seq(SureOutput)
    BY <1>4, <2>1, NoneIsNoTx DEF Good
  <2>6. q.inputs \in Seq(PlainInput) /\ Len(q.inputs) = Len(p.inputs) - 1
    BY <1>2, <1>3, <2>5, RemoveTyped
  <2>7. Len(q.tx.inputs) = Len(p.tx.inputs) - 1
    BY <1>3, <2>1, <2>3, RemoveTyped
  <2>. HIDE DEF q
  <2>8. IsValid(q)
    BY <1>2, <1>4, <2>1, <2>3, <2>4, <2>6, <2>7, NoneIsNoTx DEF IsValid
  <2>9. Good(q)
    BY <1>1, <1>2, <1>4, <2>3, <2>5, <2>6, <2>8 DEF Good
  <2>. QED
    BY <2>9 DEF q
<1>5. CASE p.version = 2
  <2>1. p.inputs \in Seq(LockInput) /\ p.tx = None
    BY <1>5 DEF Good, IsValid
  <2>2. q.inputs \in Seq(LockInput)
    BY <1>2, <1>3, <2>1, RemoveTyped
  <2>. HIDE DEF q
  <2>3. Good(q)
    BY <1>1, <1>2, <1>5, <2>1, <2>2 DEF Good, IsValid
  <2>. QED
    BY <2>3 DEF q
<1>. QED
  BY <1>1, <1>4, <1>5 DEF PsbtSet

LEMMA AddOutputGood ==
    ASSUME AmountsFit, NEW p, Good(p), NEW i, CanAddOutputAt(p, i),
           Len(p.outputs) < MaxOutputs, NEW out \in TxOuts
    PROVE  Good(AddOutput(p, i, out))
<1>. DEFINE q == AddOutput(p, i, out)
            new == OutputFromTx(p, out)
<1>1. /\ Typed(q) /\ p \in PsbtSet /\ out \in SureOutput
      /\ p.outputs \in Seq(OutputSet) /\ new \in OutputSet
  BY OutputKeepsTyped, OutputsAreSure, PartsAssumption, PartsTyped DEF Good, Typed, PsbtSet
<1>2. p.version = 2 => new \in PayOutput
  BY <1>1, PartsAreGood
<1>. HIDE DEF new
<1>3. i \in 1..(Len(p.outputs) + 1) /\ Len(p.outputs) \in Nat
  BY <1>1 DEF CanAddOutputAt
<1>4. CASE p.version = 0
  <2>1. /\ p.tx \in TxSet
        /\ Len(p.tx.inputs) = Len(p.inputs) /\ Len(p.tx.outputs) = Len(p.outputs)
    BY <1>1, <1>4 DEF CanAddOutputAt, IsValid, PsbtSet
  <2>2. p.inputs \in Seq(PlainInput) /\ p.tx.outputs \in Seq(SureOutput)
    BY <1>4, <2>1, NoneIsNoTx DEF Good
  <2>3. CanAddOutput(p.tx.outputs, out)
    BY <1>1, <2>1, <2>2, NotRefused
  <2>4. /\ q.version = 0 /\ q.inputs = p.inputs
        /\ q.outputs = InsertAt(p.outputs, i, new)
        /\ q.tx = [p.tx EXCEPT !.outputs = InsertAt(p.tx.outputs, i, out)]
    BY <1>1, <1>4, <2>3 DEF AddOutput, PsbtSet, new
  <2>5. q.tx.outputs = InsertAt(p.tx.outputs, i, out) /\ q.tx.inputs = p.tx.inputs
    BY <2>1, <2>4 DEF TxSet
  <2>6. q.tx.outputs \in Seq(SureOutput) /\ Len(q.tx.outputs) = Len(p.tx.outputs) + 1
    <3>. DEFINE old == p.tx.outputs
    <3>1. old \in Seq(SureOutput) /\ i \in 1..(Len(old) + 1) /\ out \in SureOutput
      BY <1>1, <1>3, <2>1, <2>2
    <3>2. q.tx.outputs = InsertAt(old, i, out)
      BY <2>5
    <3>. HIDE DEF old, q
    <3>3. q.tx.outputs \in Seq(SureOutput) /\ Len(q.tx.outputs) = Len(old) + 1
      BY <3>1, <3>2, InsertTyped
    <3>. QED
      BY <3>3, Zenon DEF old
  <2>7. Len(q.outputs) = Len(p.outputs) + 1
    BY <1>1, <1>3, <2>4, InsertTyped
  <2>8. q.tx # None
    <3>1. \A o \in SureOutput : o \in TxOutSet
      BY AmountsAreNaturals DEF SureOutput, TxOutSet
    <3>2. q.tx.outputs \in Seq(TxOutSet)
      BY <2>6, <3>1
    <3>3. q.tx \in TxSet
      BY <2>1, <2>4, <2>5, <3>2 DEF TxSet
    <3>. QED
      BY <3>3, NoneIsNoTx
  <2>. HIDE DEF q
  <2>9. IsValid(q) /\ Len(q.outputs) <= MaxOutputs
    BY <1>3, <2>1, <2>4, <2>5, <2>6, <2>7, <2>8, FieldsAssumption DEF IsValid
  <2>10. Good(q)
    BY <1>1, <2>2, <2>4, <2>6, <2>9 DEF Good
  <2>. QED
    BY <2>10 DEF q
<1>5. CASE p.version = 2
  <2>1. /\ p.inputs \in Seq(LockInput) /\ p.outputs \in Seq(PayOutput) /\ p.tx = None
    BY <1>5 DEF Good, IsValid
  <2>2. /\ q.version = 2 /\ q.inputs = p.inputs /\ q.tx = p.tx
        /\ q.outputs = InsertAt(p.outputs, i, new)
    BY <1>1, <1>5 DEF AddOutput, PsbtSet, new
  <2>3. q.outputs \in Seq(PayOutput) /\ Len(q.outputs) = Len(p.outputs) + 1
    BY <1>2, <1>3, <1>5, <2>1, <2>2, InsertTyped
  <2>. HIDE DEF q
  <2>4. Len(q.outputs) <= MaxOutputs
    BY <1>3, <2>3, FieldsAssumption
  <2>5. Good(q)
    BY <1>1, <2>1, <2>2, <2>3, <2>4 DEF Good, IsValid
  <2>. QED
    BY <2>5 DEF q
<1>. QED
  BY <1>1, <1>4, <1>5 DEF PsbtSet

LEMMA RemoveOutputGood ==
    ASSUME NEW p, Good(p), NEW i, CanRemoveOutput(p, i)
    PROVE  Good(RemoveOutput(p, i))
<1>. DEFINE q == RemoveOutput(p, i)
<1>1. Typed(q) /\ p \in PsbtSet /\ p.outputs \in Seq(OutputSet)
  BY OutputKeepsTyped DEF Good, Typed, PsbtSet
<1>2. /\ q.version = p.version /\ q.inputs = p.inputs
      /\ q.outputs = RemoveAt(p.outputs, i)
      /\ p.version = 2 => q.tx = p.tx
  BY <1>1 DEF RemoveOutput, PsbtSet
<1>3. i \in 1..Len(p.outputs) /\ Len(p.outputs) \in Nat /\ Len(p.outputs) <= MaxOutputs
  BY <1>1 DEF CanRemoveOutput, Good
<1>4. Len(q.outputs) = Len(p.outputs) - 1 /\ Len(q.outputs) <= MaxOutputs
  BY <1>1, <1>2, <1>3, RemoveTyped, FieldsAssumption
<1>5. CASE p.version = 0
  <2>1. /\ p.tx \in TxSet
        /\ Len(p.tx.inputs) = Len(p.inputs) /\ Len(p.tx.outputs) = Len(p.outputs)
    BY <1>1, <1>5 DEF CanRemoveOutput, IsValid, PsbtSet
  <2>2. p.inputs \in Seq(PlainInput) /\ p.tx.outputs \in Seq(SureOutput)
    BY <1>5, <2>1, NoneIsNoTx DEF Good
  <2>3. q.tx = [p.tx EXCEPT !.outputs = RemoveAt(p.tx.outputs, i)]
    BY <1>1, <1>5 DEF RemoveOutput, PsbtSet
  <2>4. q.tx.outputs = RemoveAt(p.tx.outputs, i) /\ q.tx.inputs = p.tx.inputs
    BY <2>1, <2>3 DEF TxSet
  <2>5. q.tx.outputs \in Seq(SureOutput) /\ Len(q.tx.outputs) = Len(p.tx.outputs) - 1
    BY <1>3, <2>1, <2>2, <2>4, RemoveTyped
  <2>6. q.tx # None
    <3>1. \A o \in SureOutput : o \in TxOutSet
      BY AmountsAreNaturals DEF SureOutput, TxOutSet
    <3>2. q.tx.outputs \in Seq(TxOutSet)
      BY <2>5, <3>1
    <3>3. q.tx \in TxSet
      BY <2>1, <2>3, <2>4, <3>2 DEF TxSet
    <3>. QED
      BY <3>3, NoneIsNoTx
  <2>. HIDE DEF q
  <2>7. IsValid(q)
    BY <1>2, <1>4, <1>5, <2>1, <2>4, <2>5, <2>6 DEF IsValid
  <2>8. Good(q)
    BY <1>1, <1>2, <1>4, <1>5, <2>2, <2>5, <2>7 DEF Good
  <2>. QED
    BY <2>8 DEF q
<1>6. CASE p.version = 2
  <2>1. /\ p.inputs \in Seq(LockInput) /\ p.outputs \in Seq(PayOutput) /\ p.tx = None
    BY <1>6 DEF Good, IsValid
  <2>2. q.outputs \in Seq(PayOutput)
    BY <1>2, <1>3, <2>1, RemoveTyped
  <2>. HIDE DEF q
  <2>3. Good(q)
    BY <1>1, <1>2, <1>4, <1>6, <2>1, <2>2 DEF Good, IsValid
  <2>. QED
    BY <2>3 DEF q
<1>. QED
  BY <1>1, <1>5, <1>6 DEF PsbtSet

(* The transaction that is built has the outputs of the PSBT.              *)
LEMMA BuildTxGood ==
    ASSUME NEW p, Good(p), CanBuildTx(p)
    PROVE  /\ BuildTx(p) \in TxSet /\ BuildTx(p).outputs \in Seq(SureOutput)
           /\ Len(BuildTx(p).inputs) = Len(p.inputs)
           /\ Len(BuildTx(p).outputs) = Len(p.outputs)
<1>1. BuildTx(p) \in TxSet /\ p \in PsbtSet
  BY BuildTxTyped DEF Good, Typed
<1>2. CASE p.version = 0
  BY <1>1, <1>2 DEF CanBuildTx, BuildTx, Good, IsValid
<1>3. CASE p.version = 2
  <2>1. p.outputs \in Seq(PayOutput) /\ p.inputs \in Seq(LockInput)
        /\ \A n \in 1..Len(p.outputs) : p.outputs[n].satoshi # None
    BY <1>3 DEF Good, CanBuildTx
  <2>2. \A out \in PayOutput :
            out.satoshi # None => TxOut(out.script, out.satoshi) \in SureOutput
    BY DEF PayOutput, SureOutput, TxOut
  <2>. DEFINE outs == [n \in 1..Len(p.outputs) |->
                        TxOut(p.outputs[n].script, p.outputs[n].satoshi)]
              ins == [n \in 1..Len(p.inputs) |->
                        TxIn(p.inputs[n].txid, p.inputs[n].index, p.inputs[n].sequence)]
  <2>3. BuildTx(p).outputs = outs /\ BuildTx(p).inputs = ins
    BY <1>3 DEF BuildTx, Tx
  <2>4. outs \in Seq(SureOutput) /\ Len(outs) = Len(p.outputs) /\ Len(ins) = Len(p.inputs)
    BY <2>1, <2>2
  <2>. QED
    BY <1>1, <2>3, <2>4
<1>. QED
  BY <1>1, <1>2, <1>3 DEF PsbtSet

LEMMA SetVersionGood ==
    ASSUME NEW p, Good(p), NEW version \in {0, 2}, CanSetVersion(p, version)
    PROVE  Good(SetVersion(p, version))
<1>. DEFINE q == SetVersion(p, version)
<1>1. Typed(q) /\ p \in PsbtSet /\ Len(p.outputs) <= MaxOutputs
  BY SetVersionKeepsTyped DEF Good, Typed
<1>2. p.inputs \in Seq(InputSet) /\ p.outputs \in Seq(OutputSet)
  BY <1>1 DEF PsbtSet
<1>3. CASE version = 2
  <2>. DEFINE ins == [n \in 1..Len(p.inputs) |->
                        [p.inputs[n] EXCEPT !.txid = p.tx.inputs[n].txid,
                                            !.index = p.tx.inputs[n].index,
                                            !.sequence = p.tx.inputs[n].sequence]]
              outs == [n \in 1..Len(p.outputs) |->
                        [script |-> p.tx.outputs[n].script,
                         satoshi |-> p.tx.outputs[n].satoshi]]
  <2>1. /\ p.version = 0 /\ p.tx \in TxSet
        /\ Len(p.tx.inputs) = Len(p.inputs) /\ Len(p.tx.outputs) = Len(p.outputs)
    BY <1>1, <1>3 DEF CanSetVersion, IsValid, PsbtSet
  <2>2. /\ p.inputs \in Seq(PlainInput) /\ p.tx.outputs \in Seq(SureOutput)
        /\ p.tx.inputs \in Seq(TxInSet)
    BY <2>1, NoneIsNoTx DEF Good, TxSet
  <2>3. q.version = 2 /\ q.tx = None /\ q.inputs = ins /\ q.outputs = outs
    BY <1>1, <1>3 DEF SetVersion, V0ToV2, PsbtSet
  <2>4. \A in \in PlainInput, from \in TxInSet :
            [in EXCEPT !.txid = from.txid, !.index = from.index,
                       !.sequence = from.sequence] \in LockInput
    <3>. TAKE in \in PlainInput, from \in TxInSet
    <3>. DEFINE new == [in EXCEPT !.txid = from.txid, !.index = from.index,
                                  !.sequence = from.sequence]
    <3>1. new \in InputSet /\ new.time = 0 /\ new.height = 0
      BY DEF PlainInput, InputSet, TxInSet
    <3>. HIDE DEF new
    <3>2. new \in LockInput
      BY <3>1, MinTimestampAssumption DEF LockInput
    <3>. QED
      BY <3>2 DEF new
  <2>5. ins \in [1..Len(p.inputs) -> LockInput]
    <3>1. ASSUME NEW n \in 1..Len(p.inputs) PROVE ins[n] \in LockInput
      <4>1. p.inputs[n] \in PlainInput /\ p.tx.inputs[n] \in TxInSet
        BY <1>2, <2>1, <2>2
      <4>. QED
        BY <2>4, <4>1, Zenon
    <3>. QED
      BY <3>1, Zenon
  <2>6. \A out \in SureOutput :
            [script |-> out.script, satoshi |-> out.satoshi] \in PayOutput
    BY DEF SureOutput, PayOutput
  <2>7. outs \in Seq(PayOutput) /\ Len(outs) = Len(p.outputs)
    BY <1>2, <2>1, <2>2, <2>6
  <2>. HIDE DEF ins, outs, q
  <2>8. ins \in Seq(LockInput)
    BY <1>2, <2>5
  <2>9. Good(q)
    BY <1>1, <2>3, <2>7, <2>8 DEF Good, IsValid
  <2>. QED
    BY <2>9 DEF q
<1>4. CASE version = 0
  <2>. DEFINE ins == [n \in 1..Len(p.inputs) |->
                        [p.inputs[n] EXCEPT !.index = 0, !.sequence = 0,
                                            !.time = 0, !.height = 0]]
              outs == [n \in 1..Len(p.outputs) |-> EmptyOutput]
  <2>1. /\ BuildTx(p) \in TxSet /\ BuildTx(p).outputs \in Seq(SureOutput)
        /\ Len(BuildTx(p).inputs) = Len(p.inputs)
        /\ Len(BuildTx(p).outputs) = Len(p.outputs)
    BY <1>4, BuildTxGood DEF CanSetVersion
  <2>2. q.version = 0 /\ q.tx = BuildTx(p) /\ q.inputs = ins /\ q.outputs = outs
    BY <1>1, <1>4 DEF SetVersion, V2ToV0, PsbtSet
  <2>3. \A in \in InputSet :
            [in EXCEPT !.index = 0, !.sequence = 0, !.time = 0, !.height = 0] \in PlainInput
    BY DEF InputSet, PlainInput
  <2>4. ins \in [1..Len(p.inputs) -> PlainInput]
    <3>1. ASSUME NEW n \in 1..Len(p.inputs) PROVE ins[n] \in PlainInput
      <4>1. p.inputs[n] \in InputSet
        BY <1>2
      <4>. QED
        BY <2>3, <4>1, Zenon
    <3>. QED
      BY <3>1, Zenon
  <2>5. Len(outs) = Len(p.outputs)
    BY <1>2
  <2>. HIDE DEF ins, outs, q
  <2>6. ins \in Seq(PlainInput) /\ Len(ins) = Len(p.inputs)
    BY <1>2, <2>4
  <2>7. IsValid(q)
    BY <2>1, <2>2, <2>5, <2>6, NoneIsNoTx DEF IsValid
  <2>8. Good(q)
    BY <1>1, <2>1, <2>2, <2>5, <2>6, <2>7 DEF Good
  <2>. QED
    BY <2>8 DEF q
<1>. QED
  BY <1>3, <1>4

(* The setters of version 2.                                               *)
LEMMA SettersGood ==
    ASSUME NEW p, Good(p), NEW n \in Nat
    PROVE  /\ Good([p EXCEPT !.txVersion = n]) /\ Good([p EXCEPT !.fallback = n])
           /\ Good([p EXCEPT !.fallback = None])
           /\ \A flags \in SUBSET Flags : Good([p EXCEPT !.mods = flags])
<1>1. p \in PsbtSet /\ Typed(p)
  BY DEF Good, Typed
<1>2. ASSUME NEW q, Typed(q), q.version = p.version, q.tx = p.tx,
             q.inputs = p.inputs, q.outputs = p.outputs
      PROVE  Good(q)
  BY <1>2 DEF Good, IsValid
<1>3. /\ Typed([p EXCEPT !.txVersion = n]) /\ Typed([p EXCEPT !.fallback = n])
      /\ Typed([p EXCEPT !.fallback = None])
      /\ \A flags \in SUBSET Flags : Typed([p EXCEPT !.mods = flags])
  BY <1>1, SettersKeepTyped
<1>. QED
  BY <1>1, <1>2, <1>3 DEF PsbtSet

LEMMA InputSettersGood ==
    ASSUME NEW p, Good(p), p.version = 2, NEW i \in 1..Len(p.inputs), NEW n \in Nat
    PROVE  /\ Good([p EXCEPT !.inputs[i].sequence = n])
           /\ n = 0 \/ n >= MinTimestamp => Good([p EXCEPT !.inputs[i].time = n])
           /\ n < MinTimestamp => Good([p EXCEPT !.inputs[i].height = n])
<1>1. /\ p \in PsbtSet /\ Typed(p) /\ p.inputs \in Seq(LockInput)
      /\ p.outputs \in Seq(PayOutput) /\ Len(p.outputs) <= MaxOutputs /\ p.tx = None
  BY DEF Good, Typed, IsValid
<1>2. /\ Typed([p EXCEPT !.inputs[i].sequence = n])
      /\ Typed([p EXCEPT !.inputs[i].time = n])
      /\ Typed([p EXCEPT !.inputs[i].height = n])
  BY <1>1, InputSettersKeepTyped
<1>3. \A in \in LockInput :
        /\ [in EXCEPT !.sequence = n] \in LockInput
        /\ n = 0 \/ n >= MinTimestamp => [in EXCEPT !.time = n] \in LockInput
        /\ n < MinTimestamp => [in EXCEPT !.height = n] \in LockInput
  BY DEF LockInput, InputSet
<1>4. ASSUME NEW in \in LockInput PROVE [p.inputs EXCEPT ![i] = in] \in Seq(LockInput)
  BY <1>1
<1>5. p.inputs[i] \in LockInput
  BY <1>1
<1>6. ASSUME NEW ins \in Seq(LockInput), Typed([p EXCEPT !.inputs = ins])
      PROVE  Good([p EXCEPT !.inputs = ins])
  BY <1>1, <1>6 DEF Good, IsValid, PsbtSet
<1>. QED
  BY <1>2, <1>3, <1>4, <1>5, <1>6

LEMMA OutputSettersGood ==
    ASSUME NEW p, Good(p), p.version = 2, NEW i \in 1..Len(p.outputs), NEW out \in TxOuts
    PROVE  /\ Good([p EXCEPT !.outputs[i].satoshi = out.satoshi])
           /\ Good([p EXCEPT !.outputs[i].satoshi = None])
           /\ Good([p EXCEPT !.outputs[i].script = out.script])
<1>1. /\ p \in PsbtSet /\ Typed(p) /\ p.inputs \in Seq(LockInput)
      /\ p.outputs \in Seq(PayOutput) /\ Len(p.outputs) <= MaxOutputs /\ p.tx = None
  BY DEF Good, Typed, IsValid
<1>2. /\ Typed([p EXCEPT !.outputs[i].satoshi = out.satoshi])
      /\ Typed([p EXCEPT !.outputs[i].satoshi = None])
      /\ Typed([p EXCEPT !.outputs[i].script = out.script])
  BY <1>1, OutputSettersKeepTyped, PartsAssumption
<1>3. out \in SureOutput
  BY OutputsAreSure
<1>4. \A o \in PayOutput : /\ [o EXCEPT !.satoshi = out.satoshi] \in PayOutput
                           /\ [o EXCEPT !.satoshi = None] \in PayOutput
                           /\ [o EXCEPT !.script = out.script] \in PayOutput
  BY <1>3 DEF PayOutput, SureOutput
<1>5. ASSUME NEW o \in PayOutput
      PROVE  /\ [p.outputs EXCEPT ![i] = o] \in Seq(PayOutput)
             /\ Len([p.outputs EXCEPT ![i] = o]) = Len(p.outputs)
  BY <1>1
<1>6. p.outputs[i] \in PayOutput
  BY <1>1
<1>7. ASSUME NEW outs \in Seq(PayOutput), Len(outs) = Len(p.outputs),
             Typed([p EXCEPT !.outputs = outs])
      PROVE  Good([p EXCEPT !.outputs = outs])
  BY <1>1, <1>7 DEF Good, IsValid, PsbtSet
<1>. QED
  BY <1>2, <1>4, <1>5, <1>6, <1>7

GoodInv == TypeInv /\ \A h \in Live : Good(psbt[h])

LEMMA UpdateGood ==
    ASSUME GoodInv, NEW h \in Handles, NEW p, Good(p) \/ p = None, Update(h, p)
    PROVE  GoodInv'
<1>1. psbt' = [psbt EXCEPT ![h] = p]
  BY DEF Update
<1>2. psbt \in [Handles -> PsbtSet \cup {None}]
  BY DEF GoodInv, TypeInv, TypeOK
<1>3. TypeInv'
  BY UpdateTyped DEF GoodInv, Good
<1>4. ASSUME NEW g \in Handles, psbt'[g] # None PROVE Good(psbt'[g])
  <2>1. CASE g = h
    BY <1>1, <1>2, <1>4, <2>1
  <2>2. CASE g # h
    BY <1>1, <1>2, <1>4, <2>2 DEF GoodInv, Live
  <2>. QED
    BY <2>1, <2>2
<1>. QED
  BY <1>3, <1>4 DEF GoodInv, Live

LEMMA SetFieldsGood ==
    ASSUME GoodInv, NEW h \in Handles, SetFields(h)
    PROVE  GoodInv'
<1>1. ASSUME NEW n \in TxVersions, SetTxVersion(h, n) PROVE GoodInv'
  BY <1>1, SettersGood, UpdateGood, FieldsAssumption DEF SetTxVersion, IsV2, GoodInv
<1>2. ASSUME NEW n \in Fallbacks \cup {None}, SetFallback(h, n) PROVE GoodInv'
  <2>1. Good(psbt[h]) /\ (n \in Nat \/ n = None) /\ 0 \in Nat
    BY <1>2, FieldsAssumption DEF SetFallback, IsV2, GoodInv
  <2>. QED
    BY <1>2, <2>1, SettersGood, UpdateGood DEF SetFallback
<1>3. ASSUME NEW i, NEW n \in Sequences \cup Times \cup Heights,
             SetSequence(h, i, n) \/ SetTime(h, i, n) \/ SetHeight(h, i, n)
      PROVE  GoodInv'
  <2>1. /\ Good(psbt[h]) /\ psbt[h].version = 2 /\ n \in Nat
        /\ i \in 1..Len(psbt[h].inputs)
    BY <1>3, FieldsAssumption
    DEF SetSequence, SetTime, SetHeight, IsV2, GoodInv, Inputs
  <2>. QED
    BY <1>3, <2>1, InputSettersGood, UpdateGood DEF SetSequence, SetTime, SetHeight
<1>4. ASSUME NEW i, NEW out \in TxOuts, SetOutput(h, i, out) PROVE GoodInv'
  <2>1. /\ Good(psbt[h]) /\ psbt[h].version = 2
        /\ i \in 1..Len(psbt[h].outputs)
    BY <1>4 DEF SetOutput, IsV2, GoodInv, Outputs
  <2>. QED
    BY <1>4, <2>1, OutputSettersGood, UpdateGood DEF SetOutput
<1>. QED
  BY <1>1, <1>2, <1>3, <1>4 DEF SetFields

LEMMA ConstructGood ==
    ASSUME AmountsFit, GoodInv, NEW h \in Handles,
           \/ Create(h) \/ ModifyTx(h) \/ \E version \in Versions : ChangeVersion(h, version)
           \/ SetFields(h)
           \/ \E flags \in {{"INPUTS"}, {"INPUTS", "OUTPUTS"}} : SetModifiable(h, flags)
           \/ Free(h)
    PROVE  GoodInv'
<1>1. ASSUME NEW version \in Versions, NEW tx \in Txs, CreateFromTx(h, tx, version)
      PROVE  GoodInv'
  BY <1>1, VersionsAssumption, FromTxGood, UpdateGood DEF CreateFromTx
<1>2. ASSUME NEW version \in Versions, InitAlloc(h, version) PROVE GoodInv'
  BY <1>2, VersionsAssumption, InitPsbtGood, UpdateGood DEF InitAlloc
<1>3. ASSUME NEW tx \in Txs, SetTx(h, tx) PROVE GoodInv'
  BY <1>3, SetGlobalTxGood, UpdateGood DEF SetTx, GoodInv
<1>4. CASE Create(h)
  BY <1>1, <1>2, <1>3, <1>4 DEF Create
<1>5. ASSUME NEW i, NEW in \in TxIns, AddTxInputAt(h, i, in) PROVE GoodInv'
  BY <1>5, PartsAssumption, AddInputGood, UpdateGood DEF AddTxInputAt, GoodInv
<1>6. ASSUME NEW i, RemoveInputAt(h, i) PROVE GoodInv'
  BY <1>6, RemoveInputGood, UpdateGood DEF RemoveInputAt, GoodInv
<1>7. ASSUME NEW i, NEW out \in TxOuts, AddTxOutputAt(h, i, out) PROVE GoodInv'
  BY <1>7, AddOutputGood, UpdateGood DEF AddTxOutputAt, GoodInv
<1>8. ASSUME NEW i, RemoveOutputAt(h, i) PROVE GoodInv'
  BY <1>8, RemoveOutputGood, UpdateGood DEF RemoveOutputAt, GoodInv
<1>9. CASE ModifyTx(h)
  BY <1>5, <1>6, <1>7, <1>8, <1>9 DEF ModifyTx
<1>10. ASSUME NEW version \in Versions, ChangeVersion(h, version) PROVE GoodInv'
  BY <1>10, VersionsAssumption, SetVersionGood, UpdateGood DEF ChangeVersion, GoodInv
<1>11. ASSUME NEW flags \in {{"INPUTS"}, {"INPUTS", "OUTPUTS"}}, SetModifiable(h, flags)
       PROVE  GoodInv'
  <2>1. flags \in SUBSET Flags /\ 0 \in Nat
    BY DEF Flags
  <2>. QED
    BY <1>11, <2>1, SettersGood, UpdateGood DEF SetModifiable, IsV2, GoodInv
<1>12. CASE Free(h)
  BY <1>12, UpdateGood DEF Free
<1>. QED
  BY <1>4, <1>9, <1>10, <1>11, <1>12, SetFieldsGood

LEMMA InitGood == EmptyInit => GoodInv
  BY InitTyped DEF EmptyInit, GoodInv, Live

LEMMA NextGood == AmountsFit /\ GoodInv /\ [ConstructNext]_vars => GoodInv'
<1>. SUFFICES ASSUME AmountsFit, GoodInv, [ConstructNext]_vars PROVE GoodInv'
  OBVIOUS
<1>1. CASE UNCHANGED vars
  BY <1>1 DEF vars, GoodInv, TypeInv, TypeOK, Live
<1>2. CASE ConstructNext
  BY <1>2, ConstructGood DEF ConstructNext
<1>. QED
  BY <1>1, <1>2

-----------------------------------------------------------------------------
(* However a PSBT is put together and converted, a version 0 PSBT has as   *)
(* many inputs and outputs as its transaction and a version 2 PSBT has no  *)
(* transaction (psbt_is_valid, src/psbt.c): no call leaves one that the    *)
(* next call refuses.  The amounts have to fit: the undo of a refused      *)
(* output breaks it.                                                       *)
THEOREM ConstructLeavesValid ==
    ASSUME AmountsFit
    PROVE  ConstructSpec => []ValidPsbt
<1>1. GoodInv => ValidPsbt
  BY DEF GoodInv, Good, ValidPsbt
<1>2. EmptyInit => GoodInv
  BY InitGood
<1>3. GoodInv /\ [ConstructNext]_vars => GoodInv'
  BY NextGood
<1>. QED
  BY <1>1, <1>2, <1>3, PTL DEF ConstructSpec
-----------------------------------------------------------------------------
(* The locktime is the least that satisfies every input.                   *)
LEMMA LocktimeIsLeast ==
    ASSUME NEW p \in PsbtSet, p.inputs \in Seq(LockInput)
    PROVE  GetLocktime(p) = LeastLocktime(p)
<1>. DEFINE ins == Range(p.inputs)
            wanted == {in.height : in \in ins} \cup {in.time : in \in ins}
            good == {n \in wanted \ {0} : \A in \in ins : Satisfies(n, in)}
            heights == {n \in good : n < MinTimestamp}
            least == IF wanted \subseteq {0}
                     THEN IF p.fallback = None THEN 0 ELSE p.fallback
                     ELSE IF heights # {} THEN Min(heights)
                     ELSE IF good # {} THEN Min(good) ELSE None
<1>. SUFFICES GetLocktime(p) = least
  BY Zenon DEF LeastLocktime
<1>0. /\ ins = Range(p.inputs)
      /\ wanted = {in.height : in \in ins} \cup {in.time : in \in ins}
      /\ good = {n \in wanted \ {0} : \A in \in ins : Satisfies(n, in)}
      /\ heights = {n \in good : n < MinTimestamp}
  BY Zenon
<1>. HIDE DEF ins, wanted, good, heights
<1>. USE <1>0
<1>1. \A in \in ins : /\ in.time \in Nat /\ in.height \in Nat
                      /\ in.time = 0 \/ in.time >= MinTimestamp
                      /\ in.height < MinTimestamp
  <2>1. \A in \in LockInput : /\ in.time \in Nat /\ in.height \in Nat
                              /\ in.time = 0 \/ in.time >= MinTimestamp
                              /\ in.height < MinTimestamp
    BY DEF LockInput, InputSet
  <2>2. ins \subseteq LockInput
    BY DEF Range
  <2>. QED
    BY <2>1, <2>2
<1>2. /\ OnlyTime(p) <=> \E in \in ins : in.time # 0 /\ in.height = 0
      /\ OnlyHeight(p) <=> \E in \in ins : in.height # 0 /\ in.time = 0
  BY DEF OnlyTime, OnlyHeight, Range
<1>3. /\ MaxTime(p) \in Nat /\ MaxHeight(p) \in Nat
      /\ \A in \in ins : in.time <= MaxTime(p) /\ in.height <= MaxHeight(p)
      /\ MaxTime(p) = 0 \/ \E in \in ins : in.time = MaxTime(p)
      /\ MaxHeight(p) = 0 \/ \E in \in ins : in.height = MaxHeight(p)
  <2>1. \A n \in 1..Len(p.inputs) : p.inputs[n] \in ins
    BY DEF Range
  <2>2. \A in \in ins : \E n \in 1..Len(p.inputs) : in = p.inputs[n]
    BY DEF Range
  <2>3. /\ MaxTime(p) \in Nat /\ MaxHeight(p) \in Nat
        /\ \A n \in 1..Len(p.inputs) : /\ p.inputs[n].time <= MaxTime(p)
                                       /\ p.inputs[n].height <= MaxHeight(p)
        /\ MaxTime(p) = 0 \/ \E n \in 1..Len(p.inputs) : p.inputs[n].time = MaxTime(p)
        /\ MaxHeight(p) = 0 \/ \E n \in 1..Len(p.inputs) : p.inputs[n].height = MaxHeight(p)
    BY GreatestLocks
  <2>. QED
    BY <2>1, <2>2, <2>3, Zenon
<1>4. /\ \A in \in ins : in.time \in wanted /\ in.height \in wanted
      /\ wanted \subseteq Nat /\ good \subseteq Nat /\ heights \subseteq Nat
  BY <1>1
<1>5. MinTimestamp \in Nat /\ MinTimestamp # 0
  BY MinTimestampAssumption
<1>6. CASE OnlyTime(p) /\ OnlyHeight(p)
  <2>1. PICK a \in ins : a.time # 0 /\ a.height = 0
    BY <1>2, <1>6
  <2>2. PICK b \in ins : b.height # 0 /\ b.time = 0
    BY <1>2, <1>6
  <2>3. good = {} /\ heights = {}
    BY <1>4, <1>5, <2>1, <2>2 DEF Satisfies
  <2>4. ~(wanted \subseteq {0})
    BY <1>4, <2>1
  <2>5. GetLocktime(p) = None
    BY <1>6, Zenon DEF GetLocktime
  <2>. QED
    BY <2>3, <2>4, <2>5, Zenon
<1>7. CASE OnlyTime(p) /\ ~OnlyHeight(p)
  <2>1. PICK a \in ins : a.time # 0 /\ a.height = 0
    BY <1>2, <1>7
  <2>2. \A in \in ins : in.height # 0 => in.time # 0
    BY <1>2, <1>7
  <2>3. MaxTime(p) # 0 /\ MaxTime(p) \in wanted
    BY <1>1, <1>3, <1>4, <2>1
  <2>4. PICK m \in ins : m.time = MaxTime(p)
    BY <1>3, <2>3
  <2>5. MaxTime(p) >= MinTimestamp
    BY <1>1, <2>3, <2>4
  <2>6. \A in \in ins : Satisfies(MaxTime(p), in)
    BY <1>1, <1>3, <2>2, <2>5 DEF Satisfies
  <2>7. MaxTime(p) \in good
    BY <2>3, <2>6
  <2>8. \A n \in good : n >= MinTimestamp
    BY <2>1 DEF Satisfies
  <2>9. heights = {}
    BY <1>4, <1>5, <2>8
  <2>10. \A n \in good : MaxTime(p) <= n
    <3>1. ASSUME NEW n \in good PROVE MaxTime(p) <= n
      <4>1. n \in Nat /\ n >= MinTimestamp /\ Satisfies(n, m)
        BY <1>4, <2>8
      <4>. QED
        BY <1>1, <1>5, <2>3, <2>4, <4>1 DEF Satisfies
    <3>. QED
      BY <3>1
  <2>11. Min(good) = MaxTime(p)
    BY <1>4, <2>7, <2>10, MinIs
  <2>12. GetLocktime(p) = MaxTime(p)
    BY <1>7, Zenon DEF GetLocktime
  <2>13. good # {} /\ ~(wanted \subseteq {0})
    BY <2>3, <2>7
  <2>. QED
    BY <2>9, <2>11, <2>12, <2>13, Zenon
<1>8. CASE ~OnlyTime(p) /\ MaxHeight(p) # 0
  <2>1. PICK m \in ins : m.height = MaxHeight(p)
    BY <1>3, <1>8
  <2>2. \A in \in ins : in.time # 0 => in.height # 0
    BY <1>2, <1>8
  <2>3. MaxHeight(p) < MinTimestamp /\ MaxHeight(p) \in wanted
    BY <1>1, <1>4, <2>1
  <2>4. \A in \in ins : Satisfies(MaxHeight(p), in)
    BY <1>1, <1>3, <2>2, <2>3 DEF Satisfies
  <2>5. MaxHeight(p) \in heights
    BY <1>8, <2>3, <2>4
  <2>6. \A n \in heights : MaxHeight(p) <= n
    <3>1. ASSUME NEW n \in heights PROVE MaxHeight(p) <= n
      <4>1. n \in Nat /\ n < MinTimestamp /\ Satisfies(n, m)
        BY <1>4
      <4>. QED
        BY <1>1, <1>5, <1>8, <2>1, <4>1 DEF Satisfies
    <3>. QED
      BY <3>1
  <2>7. Min(heights) = MaxHeight(p)
    BY <1>4, <2>5, <2>6, MinIs
  <2>8. GetLocktime(p) = MaxHeight(p)
    BY <1>8, Zenon DEF GetLocktime
  <2>9. heights # {} /\ ~(wanted \subseteq {0})
    BY <1>8, <2>3, <2>5
  <2>. QED
    BY <2>7, <2>8, <2>9, Zenon
<1>9. CASE ~OnlyTime(p) /\ MaxHeight(p) = 0
  <2>1. \A in \in ins : in.height = 0 /\ in.time = 0
    BY <1>1, <1>2, <1>3, <1>9
  <2>2. wanted \subseteq {0} /\ MaxTime(p) = 0 /\ ~OnlyHeight(p)
    BY <1>2, <1>3, <2>1
  <2>3. GetLocktime(p) = IF p.fallback # None THEN p.fallback ELSE 0
    BY <1>9, <2>2, Zenon DEF GetLocktime
  <2>. QED
    BY <2>2, <2>3, Zenon
<1>. QED
  BY <1>6, <1>7, <1>8, <1>9

(* wally_psbt_get_locktime finds what BIP 370 asks for, for any number of  *)
(* inputs and any times and heights the setters accept: the least locktime *)
(* that every input accepts, a height before a time, the fallback when no  *)
(* input asks for any, and an error exactly when nothing satisfies all.    *)
THEOREM LocktimeIsSatisfied ==
    ASSUME AmountsFit
    PROVE  ConstructSpec => []LocktimeSatisfiesInputs
<1>1. GoodInv => LocktimeSatisfiesInputs
  <2>1. ASSUME GoodInv, NEW h \in Live, psbt[h].version = 2
        PROVE  GetLocktime(psbt[h]) = LeastLocktime(psbt[h])
    <3>1. psbt[h] \in PsbtSet /\ psbt[h].inputs \in Seq(LockInput)
      BY <2>1 DEF GoodInv, Good, Typed
    <3>. QED
      BY <3>1, LocktimeIsLeast
  <2>. QED
    BY <2>1 DEF LocktimeSatisfiesInputs
<1>2. EmptyInit => GoodInv
  BY InitGood
<1>3. GoodInv /\ [ConstructNext]_vars => GoodInv'
  BY NextGood
<1>. QED
  BY <1>1, <1>2, <1>3, PTL DEF ConstructSpec
-----------------------------------------------------------------------------
(* A clone is the PSBT it is made of.                                      *)

BlankClone == [EmptyInput EXCEPT !.sequence = FinalSequence]

LEMMA PartsAreCloned ==
    /\ \A in \in InputSet : CombineInput(BlankClone, in) = in
    /\ \A in \in InputSet : CanCombineInput(BlankClone, in, TRUE)
    /\ \A out \in OutputSet : CombineOutput(EmptyOutput, out) = out
<1>1. ASSUME NEW in \in InputSet PROVE CombineInput(BlankClone, in) = in
  <2>1. CombineSigMap(NoSigs, in.sigs) = in.sigs
    <3>1. in.sigs \in [Keys -> SigSet \cup {None}]
      BY DEF InputSet
    <3>2. \A k \in Keys : NoSigs[k] = None
      BY DEF NoSigs
    <3>3. \A k \in Keys : Pick(NoSigs[k], in.sigs[k], None) = in.sigs[k]
      BY <3>2, Zenon DEF Pick
    <3>. QED
      BY <3>1, <3>3 DEF CombineSigMap
  <2>2. CombineInput(BlankClone, in) =
          [txid |-> in.txid, index |-> in.index, sequence |-> in.sequence,
           time |-> in.time, height |-> in.height, sighash |-> in.sighash,
           utxo |-> in.utxo, script |-> in.script, keypaths |-> in.keypaths,
           sigs |-> in.sigs, final |-> in.final]
    BY <2>1 DEF CombineInput, BlankClone, EmptyInput, Pick
  <2>. QED
    BY <2>2 DEF InputSet
<1>2. \A in : CanCombineInput(BlankClone, in, TRUE)
  BY DEF CanCombineInput, BlankClone, EmptyInput
<1>3. \A out \in OutputSet : CombineOutput(EmptyOutput, out) = out
  BY DEF CombineOutput, EmptyOutput, Pick, OutputSet
<1>. QED
  BY <1>1, <1>2, <1>3

LEMMA CloneIsSame == ASSUME NEW p \in PsbtSet PROVE Clone(p) = p
<1>. DEFINE ins == [n \in 1..Len(p.inputs) |-> BlankClone]
            outs == [n \in 1..Len(p.outputs) |-> EmptyOutput]
            blank == [version |-> p.version, tx |-> None, txVersion |-> p.txVersion,
                      fallback |-> None, mods |-> {}, inputs |-> ins, outputs |-> outs]
            newIns == [n \in 1..Len(p.inputs) |-> CombineInput(ins[n], p.inputs[n])]
            newOuts == [n \in 1..Len(p.outputs) |-> CombineOutput(outs[n], p.outputs[n])]
<1>1. Blank(p) = blank
  <2>1. Blank(p) = [InitPsbt(p.version) EXCEPT !.txVersion = p.txVersion, !.mods = {},
                                               !.inputs = ins, !.outputs = outs]
    BY Zenon DEF Blank, BlankClone
  <2>. HIDE DEF ins, outs
  <2>. QED
    BY <2>1 DEF InitPsbt
<1>2. p.inputs \in Seq(InputSet) /\ p.outputs \in Seq(OutputSet)
  BY DEF PsbtSet
<1>3. Len(ins) = Len(p.inputs) /\ Len(outs) = Len(p.outputs)
  BY <1>2
<1>4. /\ \A n \in 1..Len(p.inputs) : p.inputs[n] \in InputSet /\ ins[n] = BlankClone
      /\ \A n \in 1..Len(p.outputs) : p.outputs[n] \in OutputSet /\ outs[n] = EmptyOutput
  BY <1>2
<1>5. newIns = p.inputs /\ newOuts = p.outputs
  <2>1. /\ \A n \in 1..Len(p.inputs) : newIns[n] = p.inputs[n]
        /\ \A n \in 1..Len(p.outputs) : newOuts[n] = p.outputs[n]
    <3>1. /\ \A n \in 1..Len(p.inputs) : newIns[n] = CombineInput(ins[n], p.inputs[n])
          /\ \A n \in 1..Len(p.outputs) : newOuts[n] = CombineOutput(outs[n], p.outputs[n])
      OBVIOUS
    <3>. HIDE DEF ins, outs, newIns, newOuts
    <3>. QED
      BY <1>4, <3>1, PartsAreCloned, Zenon
  <2>2. /\ newIns \in [1..Len(p.inputs) -> InputSet]
        /\ newOuts \in [1..Len(p.outputs) -> OutputSet]
    BY <1>4, <2>1, Zenon
  <2>. HIDE DEF newIns, newOuts
  <2>3. newIns = p.inputs
    BY <1>2, <2>1, <2>2, SameSequence, SMTT(30)
  <2>4. newOuts = p.outputs
    BY <1>2, <2>1, <2>2, SameSequence, SMTT(30)
  <2>. QED
    BY <2>3, <2>4
<1>6. {n \in 1..Len(p.inputs) : ~CanCombineInput(ins[n], p.inputs[n], TRUE)} = {}
  <2>. HIDE DEF ins
  <2>1. \A n \in 1..Len(p.inputs) : CanCombineInput(ins[n], p.inputs[n], TRUE)
    BY <1>4, PartsAreCloned, Zenon
  <2>. QED
    BY <2>1
<1>7. Merge(blank, p, TRUE) =
        [blank EXCEPT !.fallback = p.fallback, !.mods = p.mods,
                      !.inputs = newIns, !.outputs = newOuts]
  <2>. HIDE DEF ins, outs
  <2>1. /\ Pick(None, p.fallback, None) = p.fallback /\ {} \cup p.mods = p.mods
    BY DEF Pick
  <2>. QED
    BY <1>3, <1>6, <2>1 DEF Merge
<1>. HIDE DEF ins, outs, newIns, newOuts
<1>8. Clone(p) = [version |-> p.version, tx |-> p.tx, txVersion |-> p.txVersion,
                  fallback |-> p.fallback, mods |-> p.mods,
                  inputs |-> p.inputs, outputs |-> p.outputs]
  <2>. DEFINE merged == Merge(blank, p, TRUE)
  <2>1. Clone(p) = [merged EXCEPT !.tx = p.tx]
    <3>. HIDE DEF blank
    <3>. QED
      BY <1>1, Zenon DEF Clone
  <2>2. merged = [version |-> p.version, tx |-> None, txVersion |-> p.txVersion,
                  fallback |-> p.fallback, mods |-> p.mods,
                  inputs |-> p.inputs, outputs |-> p.outputs]
    BY <1>5, <1>7
  <2>. HIDE DEF merged
  <2>. QED
    BY <2>1, <2>2
<1>. QED
  BY <1>8 DEF PsbtSet

(* wally_psbt_clone_alloc combines the original into an empty PSBT of its  *)
(* shape; the copy is equal to it in every field whatever the original     *)
(* holds, for each field's empty value is what the combination replaces.   *)
THEOREM CloneEqualsOriginal == ConstructSpec => []CloneIsEqual
<1>1. TypeInv => CloneIsEqual
  BY CloneIsSame DEF TypeInv, Typed, CloneIsEqual
<1>. QED
  BY <1>1, InitTyped, NextTyped, PTL DEF ConstructSpec

-----------------------------------------------------------------------------
(* A change of version keeps the transaction.                              *)
LEMMA SetVersionSame ==
    ASSUME AmountsFit, NEW p, Good(p), NEW version \in {0, 2}, CanSetVersion(p, version)
    PROVE  /\ CanBuildTx(SetVersion(p, version))
           /\ BuildTx(SetVersion(p, version)) =
                [BuildTx(p) EXCEPT !.version = IF version = 2 /\ @ < 2 THEN 2 ELSE @]
<1>. DEFINE q == SetVersion(p, version)
<1>1. p \in PsbtSet /\ Typed(p) /\ Len(p.outputs) <= MaxOutputs /\ Good(q)
  BY SetVersionGood DEF Good, Typed
<1>2. p.inputs \in Seq(InputSet) /\ p.outputs \in Seq(OutputSet)
  BY <1>1 DEF PsbtSet
<1>3. CASE version = 2
  <2>. DEFINE ins == [n \in 1..Len(p.inputs) |->
                        [p.inputs[n] EXCEPT !.txid = p.tx.inputs[n].txid,
                                            !.index = p.tx.inputs[n].index,
                                            !.sequence = p.tx.inputs[n].sequence]]
              outs == [n \in 1..Len(p.outputs) |->
                        [script |-> p.tx.outputs[n].script,
                         satoshi |-> p.tx.outputs[n].satoshi]]
              raised == IF p.tx.version < 2 THEN 2 ELSE p.tx.version
  <2>1. /\ p.version = 0 /\ p.tx \in TxSet
        /\ Len(p.tx.inputs) = Len(p.inputs) /\ Len(p.tx.outputs) = Len(p.outputs)
    BY <1>1, <1>3 DEF CanSetVersion, IsValid, PsbtSet
  <2>2. /\ p.inputs \in Seq(PlainInput) /\ p.tx.outputs \in Seq(SureOutput)
        /\ p.tx.inputs \in Seq(TxInSet) /\ p.tx.locktime \in Nat
    BY <2>1, NoneIsNoTx DEF Good, TxSet
  <2>3. /\ q.version = 2 /\ q.inputs = ins /\ q.outputs = outs /\ q.txVersion = raised
        /\ q.fallback = IF p.tx.locktime = 0 THEN None ELSE p.tx.locktime
    BY <1>1, <1>3 DEF SetVersion, V0ToV2, PsbtSet
  <2>4. outs = p.tx.outputs
    <3>1. \A out \in SureOutput :
            [script |-> out.script, satoshi |-> out.satoshi] = out
      BY DEF SureOutput
    <3>2. \A n \in 1..Len(p.outputs) : outs[n] = p.tx.outputs[n]
      BY <2>1, <2>2, <3>1
    <3>3. \A n \in 1..Len(p.outputs) : p.tx.outputs[n] \in SureOutput
      BY <2>1, <2>2
    <3>4. outs \in [1..Len(p.outputs) -> SureOutput]
      BY <3>2, <3>3, Zenon
    <3>. HIDE DEF outs
    <3>. QED
      BY <2>1, <2>2, <3>2, <3>4, SameSequence, SMTT(30)
  <2>5. \A n \in 1..Len(p.inputs) :
            /\ ins[n].txid = p.tx.inputs[n].txid /\ ins[n].index = p.tx.inputs[n].index
            /\ ins[n].sequence = p.tx.inputs[n].sequence
            /\ ins[n].time = 0 /\ ins[n].height = 0
    <3>. DEFINE Moved(in, from) == [in EXCEPT !.txid = from.txid, !.index = from.index,
                                              !.sequence = from.sequence]
    <3>1. \A in \in PlainInput, from \in TxInSet :
            /\ Moved(in, from).txid = from.txid /\ Moved(in, from).index = from.index
            /\ Moved(in, from).sequence = from.sequence
            /\ Moved(in, from).time = 0 /\ Moved(in, from).height = 0
      BY DEF PlainInput, InputSet
    <3>. TAKE n \in 1..Len(p.inputs)
    <3>2. p.inputs[n] \in PlainInput /\ p.tx.inputs[n] \in TxInSet
      BY <1>2, <2>1, <2>2
    <3>3. ins[n] = Moved(p.inputs[n], p.tx.inputs[n])
      BY Zenon
    <3>. HIDE DEF ins, Moved
    <3>. QED
      BY <3>1, <3>2, <3>3
  <2>6. Len(ins) = Len(p.inputs) /\ Len(p.inputs) \in Nat
    BY <1>2
  <2>. HIDE DEF ins, outs, q, raised
  <2>7. GetLocktime(q) = p.tx.locktime
    <3>1. /\ \A n \in 1..Len(q.inputs) : q.inputs[n].time = 0 /\ q.inputs[n].height = 0
          /\ q \in PsbtSet
      BY <1>1, <2>3, <2>5, <2>6 DEF Good, Typed
    <3>2. ~OnlyTime(q) /\ ~OnlyHeight(q) /\ MaxTime(q) = 0 /\ MaxHeight(q) = 0
      <4>1. ~OnlyTime(q) /\ ~OnlyHeight(q)
        BY <3>1 DEF OnlyTime, OnlyHeight
      <4>. QED
        BY <3>1, <4>1, GreatestLocks
    <3>3. GetLocktime(q) = IF q.fallback # None THEN q.fallback ELSE 0
      BY <3>2, Zenon DEF GetLocktime
    <3>. QED
      BY <2>2, <2>3, <3>3, NoneAssumption
  <2>8. CanBuildTx(q)
    <3>1. CanAddAll(q.outputs)
      BY <1>1, <2>1, <2>2, <2>3, <2>4, AllAreAdded
    <3>2. \A n \in 1..Len(q.outputs) : q.outputs[n].satoshi # None
      BY <2>2, <2>3, <2>4, SureAmounts, NoneAssumption
    <3>3. GetLocktime(q) # None /\ IsValid(q)
      BY <1>1, <2>2, <2>7, NoneAssumption DEF Good
    <3>. QED
      BY <2>3, <3>1, <3>2, <3>3 DEF CanBuildTx
  <2>9. [n \in 1..Len(q.inputs) |->
            TxIn(q.inputs[n].txid, q.inputs[n].index, q.inputs[n].sequence)]
        = p.tx.inputs
    <3>1. \A from \in TxInSet : TxIn(from.txid, from.index, from.sequence) = from
      BY DEF TxInSet, TxIn
    <3>2. \A n \in 1..Len(p.inputs) :
            TxIn(ins[n].txid, ins[n].index, ins[n].sequence) = p.tx.inputs[n]
      <4>1. \A n \in 1..Len(p.inputs) : p.tx.inputs[n] \in TxInSet
        BY <2>1, <2>2
      <4>. QED
        BY <2>5, <3>1, <4>1, Zenon
    <3>. DEFINE built == [n \in 1..Len(p.inputs) |->
                            TxIn(ins[n].txid, ins[n].index, ins[n].sequence)]
    <3>3. /\ built \in [1..Len(p.inputs) -> TxInSet]
          /\ \A n \in 1..Len(p.inputs) : built[n] = p.tx.inputs[n]
      <4>1. \A n \in 1..Len(p.inputs) : p.tx.inputs[n] \in TxInSet
        BY <2>1, <2>2
      <4>. QED
        BY <3>2, <4>1, Zenon
    <3>. HIDE DEF built
    <3>4. built = p.tx.inputs
      BY <2>1, <2>2, <3>3, SameSequence, SMTT(30)
    <3>. QED
      BY <2>3, <2>6, <3>4, Zenon DEF built
  <2>10. [n \in 1..Len(q.outputs) |-> TxOut(q.outputs[n].script, q.outputs[n].satoshi)]
         = p.tx.outputs
    <3>1. \A out \in SureOutput : TxOut(out.script, out.satoshi) = out
      BY DEF SureOutput, TxOut
    <3>2. q.outputs = p.tx.outputs
      BY <2>3, <2>4
    <3>. DEFINE to == [n \in 1..Len(q.outputs) |->
                         TxOut(q.outputs[n].script, q.outputs[n].satoshi)]
    <3>3. /\ to \in [1..Len(p.tx.outputs) -> SureOutput]
          /\ \A n \in 1..Len(p.tx.outputs) : to[n] = p.tx.outputs[n]
      <4>1. \A n \in 1..Len(p.tx.outputs) : p.tx.outputs[n] \in SureOutput
        BY <2>2
      <4>. QED
        BY <3>1, <3>2, <4>1, Zenon
    <3>. HIDE DEF to
    <3>4. to = p.tx.outputs
      BY <2>2, <3>3, SameSequence, SMTT(60)
    <3>. QED
      BY <3>4 DEF to
  <2>11. BuildTx(q) = Tx(raised, p.tx.locktime, p.tx.inputs, p.tx.outputs)
    <3>1. q.version # 0
      BY <2>3
    <3>. QED
      BY <2>3, <2>7, <2>9, <2>10, <3>1, Zenon DEF BuildTx
  <2>12. BuildTx(p) = p.tx
    BY <2>1 DEF BuildTx
  <2>13. BuildTx(q) = [p.tx EXCEPT !.version = IF version = 2 /\ @ < 2 THEN 2 ELSE @]
    BY <1>3, <2>1, <2>11 DEF Tx, TxSet, raised
  <2>. QED
    BY <2>8, <2>12, <2>13 DEF q
<1>4. CASE version = 0
  <2>1. BuildTx(p) \in TxSet
    BY <1>4, BuildTxGood DEF CanSetVersion
  <2>2. q.version = 0 /\ q.tx = BuildTx(p)
    BY <1>1, <1>4 DEF SetVersion, V2ToV0, PsbtSet
  <2>. HIDE DEF q
  <2>3. CanBuildTx(q)
    BY <1>1, <2>1, <2>2, NoneIsNoTx DEF CanBuildTx, Good
  <2>4. BuildTx(q) = BuildTx(p)
    BY <2>2 DEF BuildTx
  <2>5. BuildTx(p) = [BuildTx(p) EXCEPT !.version = IF version = 2 /\ @ < 2 THEN 2 ELSE @]
    BY <1>4, <2>1 DEF TxSet
  <2>. QED
    BY <2>3, <2>4, <2>5 DEF q
<1>. QED
  BY <1>3, <1>4

(* wally_psbt_set_version: the PSBT that is made can be built and extracts *)
(* the same transaction as the one it was made of, the transaction version *)
(* raised to 2 for version 2, whatever calls came before.                  *)
THEOREM VersionKeepsTx ==
    ASSUME AmountsFit
    PROVE  ConstructSpec => SetVersionKeepsTx
<1>1. ASSUME GoodInv, NEW h \in Handles, NEW version \in Versions,
             ChangeVersion(h, version)
      PROVE  KeepsTx(h, version)
  <2>1. /\ h \in Live /\ CanSetVersion(psbt[h], version)
        /\ psbt' = [psbt EXCEPT ![h] = SetVersion(psbt[h], version)]
    BY <1>1 DEF ChangeVersion, Update
  <2>2. Good(psbt[h]) /\ version \in {0, 2} /\ psbt \in [Handles -> PsbtSet \cup {None}]
    BY <1>1, <2>1, VersionsAssumption DEF GoodInv, TypeInv, TypeOK
  <2>3. psbt'[h] = SetVersion(psbt[h], version)
    BY <2>1, <2>2
  <2>4. /\ CanBuildTx(psbt'[h])
        /\ BuildTx(psbt'[h]) =
             [BuildTx(psbt[h]) EXCEPT !.version = IF version = 2 /\ @ < 2 THEN 2 ELSE @]
    BY <2>1, <2>2, <2>3, SetVersionSame
  <2>. QED
    BY <2>4, Zenon DEF KeepsTx
<1>2. GoodInv => [\A h \in Handles, version \in Versions :
                    ChangeVersion(h, version) => KeepsTx(h, version)]_vars
  BY <1>1
<1>3. EmptyInit => GoodInv
  BY InitGood
<1>4. GoodInv /\ [ConstructNext]_vars => GoodInv'
  BY NextGood
<1>. QED
  BY <1>2, <1>3, <1>4, PTL DEF ConstructSpec, SetVersionKeepsTx
-----------------------------------------------------------------------------
(* Signing: what a signature commits to stays as it is while what it does  *)
(* not commit to changes.  First where the elements of a sequence go.      *)

LEMMA PartElement ==
    ASSUME NEW S, NEW s \in Seq(S), NEW m \in Nat, NEW n \in Nat,
           1 <= m, m <= n + 1, n <= Len(s)
    PROVE  \A j \in 1..(n - m + 1) : SubSeq(s, m, n)[j] = s[m + j - 1]
<1>1. m \in Int /\ n \in Int /\ \A i \in m..n : s[i] \in S
  OBVIOUS
<1>. QED
  BY <1>1, SubSeqProperties

LEMMA JoinedElement ==
    ASSUME NEW S, NEW s \in Seq(S), NEW t \in Seq(S), NEW m, m = Len(s), NEW j \in 1..(m + Len(t))
    PROVE  (s \o t)[j] = IF j <= m THEN s[j] ELSE t[j - m]
  OBVIOUS

LEMMA InsertedElement ==
    ASSUME NEW S, NEW s \in Seq(S), NEW i \in 1..(Len(s) + 1), NEW e \in S,
           NEW j \in 1..(Len(s) + 1)
    PROVE  InsertAt(s, i, e)[j] = IF j < i THEN s[j] ELSE IF j = i THEN e ELSE s[j - 1]
<1>. DEFINE before == SubSeq(s, 1, i - 1)
            after == SubSeq(s, i, Len(s))
<1>1. /\ before \in Seq(S) /\ Len(before) = i - 1
      /\ after \in Seq(S) /\ Len(after) = Len(s) - i + 1
  BY PartTyped
<1>2. /\ \A n \in 1..(i - 1) : before[n] = s[n]
      /\ \A n \in 1..(Len(s) - i + 1) : after[n] = s[i + n - 1]
  BY PartElement
<1>. HIDE DEF before, after
<1>3. /\ before \o <<e>> \in Seq(S) /\ Len(before \o <<e>>) = i
      /\ \A n \in 1..(i - 1) : (before \o <<e>>)[n] = before[n]
      /\ (before \o <<e>>)[i] = e
  BY <1>1, SMTT(30)
<1>4. InsertAt(s, i, e) = (before \o <<e>>) \o after
  BY Zenon DEF InsertAt, before, after
<1>. DEFINE upTo == before \o <<e>>
<1>5. upTo \in Seq(S) /\ Len(upTo) = i
  BY <1>3
<1>6. j \in 1..(i + Len(after))
  BY <1>1
<1>. HIDE DEF upTo
<1>7. (upTo \o after)[j] = IF j <= i THEN upTo[j] ELSE after[j - i]
  BY <1>1, <1>5, <1>6, JoinedElement, SMTT(30)
<1>8. CASE j < i
  BY <1>2, <1>3, <1>4, <1>7, <1>8 DEF upTo
<1>9. CASE j = i
  BY <1>3, <1>4, <1>7, <1>9 DEF upTo
<1>10. CASE j > i
  <2>1. j - i \in 1..(Len(s) - i + 1) /\ i + (j - i) - 1 = j - 1 /\ ~(j <= i) /\ ~(j < i) /\ j # i
    BY <1>10
  <2>2. after[j - i] = s[j - 1]
    BY <1>2, <2>1
  <2>. QED
    BY <1>4, <1>7, <2>1, <2>2, Zenon DEF upTo
<1>. QED
  BY <1>8, <1>9, <1>10

LEMMA RemovedElement ==
    ASSUME NEW S, NEW s \in Seq(S), NEW i \in 1..Len(s), NEW j \in 1..(Len(s) - 1)
    PROVE  RemoveAt(s, i)[j] = IF j < i THEN s[j] ELSE s[j + 1]
<1>. DEFINE before == SubSeq(s, 1, i - 1)
            after == SubSeq(s, i + 1, Len(s))
<1>1. /\ before \in Seq(S) /\ Len(before) = i - 1
      /\ after \in Seq(S) /\ Len(after) = Len(s) - i
  BY PartTyped
<1>2. /\ \A n \in 1..(i - 1) : before[n] = s[n]
      /\ \A n \in 1..(Len(s) - i) : after[n] = s[i + n]
  BY PartElement
<1>. HIDE DEF before, after
<1>3. RemoveAt(s, i) = before \o after
  BY Zenon DEF RemoveAt, before, after
<1>4. (before \o after)[j] = IF j <= i - 1 THEN before[j] ELSE after[j - (i - 1)]
  <2>. DEFINE m == i - 1
  <2>1. m = Len(before) /\ j \in 1..(m + Len(after))
    BY <1>1
  <2>. HIDE DEF m
  <2>2. (before \o after)[j] = IF j <= m THEN before[j] ELSE after[j - m]
    BY <1>1, <2>1, JoinedElement
  <2>. QED
    BY <2>2 DEF m
<1>5. CASE j < i
  BY <1>2, <1>3, <1>4, <1>5
<1>6. CASE ~(j < i)
  <2>1. j - (i - 1) \in 1..(Len(s) - i) /\ i + (j - (i - 1)) = j + 1 /\ ~(j <= i - 1)
    BY <1>6
  <2>2. after[j - (i - 1)] = s[j + 1]
    BY <1>2, <2>1
  <2>. QED
    BY <1>3, <1>4, <1>6, <2>1, <2>2, Zenon
<1>. QED
  BY <1>5, <1>6

-----------------------------------------------------------------------------
(* Two PSBTs of version 2 that agree in these fields build the same        *)
(* transaction input.                                                      *)
SameTxIn(a, b) == a.txid = b.txid /\ a.index = b.index /\ a.sequence = b.sequence
NoLocks(p) == \A n \in 1..Len(p.inputs) : p.inputs[n].time = 0 /\ p.inputs[n].height = 0

LEMMA LocktimeIsFallback ==
    ASSUME NEW p \in PsbtSet, NoLocks(p)
    PROVE  GetLocktime(p) = IF p.fallback # None THEN p.fallback ELSE 0
<1>1. ~OnlyTime(p) /\ ~OnlyHeight(p)
  BY DEF NoLocks, OnlyTime, OnlyHeight
<1>2. MaxTime(p) = 0 /\ MaxHeight(p) = 0
  BY GreatestLocks DEF NoLocks
<1>. QED
  BY <1>1, <1>2, Zenon DEF GetLocktime

(* The transaction that version 2 builds, field by field.                  *)
LEMMA BuiltFields ==
    ASSUME NEW p \in PsbtSet, p.version = 2
    PROVE  /\ BuildTx(p).version = p.txVersion
           /\ BuildTx(p).locktime = GetLocktime(p)
           /\ Len(BuildTx(p).inputs) = Len(p.inputs)
           /\ \A n \in 1..Len(p.inputs) :
                BuildTx(p).inputs[n] =
                    TxIn(p.inputs[n].txid, p.inputs[n].index, p.inputs[n].sequence)
           /\ BuildTx(p).outputs = [n \in 1..Len(p.outputs) |->
                TxOut(p.outputs[n].script, p.outputs[n].satoshi)]
<1>. DEFINE ins == [n \in 1..Len(p.inputs) |->
                TxIn(p.inputs[n].txid, p.inputs[n].index, p.inputs[n].sequence)]
            outs == [n \in 1..Len(p.outputs) |->
                TxOut(p.outputs[n].script, p.outputs[n].satoshi)]
<1>1. BuildTx(p) = Tx(p.txVersion, GetLocktime(p), ins, outs)
  <2>1. p.version # 0
    OBVIOUS
  <2>. QED
    BY <2>1, Zenon DEF BuildTx
<1>2. Len(p.inputs) \in Nat
  BY DEF PsbtSet
<1>3. Len(ins) = Len(p.inputs)
  BY <1>2
<1>4. \A n \in 1..Len(p.inputs) :
        ins[n] = TxIn(p.inputs[n].txid, p.inputs[n].index, p.inputs[n].sequence)
  OBVIOUS
<1>. HIDE DEF ins
<1>. QED
  BY <1>1, <1>3, <1>4 DEF Tx

(* What is signed stays the same: with ANYONECANPAY the other inputs count *)
(* for nothing; with NONE no output does, and with SINGLE the position.    *)
LEMMA MessageIsKept ==
    ASSUME NEW p \in PsbtSet, NEW q \in PsbtSet, p.version = 2, q.version = 2,
           NoLocks(p), NoLocks(q),
           q.txVersion = p.txVersion, q.fallback = p.fallback,
           NEW i \in 1..Len(p.inputs), NEW j \in 1..Len(q.inputs),
           SameTxIn(q.inputs[j], p.inputs[i]), NEW sighash \in Sighashes,
           \/ sighash.acp
           \/ /\ Len(q.inputs) = Len(p.inputs)
              /\ \A n \in 1..Len(p.inputs) : SameTxIn(q.inputs[n], p.inputs[n]),
           \/ sighash.type = "NONE"
           \/ /\ q.outputs = p.outputs
              /\ sighash.type = "SINGLE" => i = j
    PROVE  \A utxo, code : SignatureHash(BuildTx(q), j, utxo, code, sighash)
                            = SignatureHash(BuildTx(p), i, utxo, code, sighash)
<1>. DEFINE tp == BuildTx(p)
            tq == BuildTx(q)
<1>1. tq.version = tp.version /\ tq.locktime = tp.locktime
  <2>1. tp.version = p.txVersion /\ tp.locktime = GetLocktime(p)
    BY BuiltFields
  <2>2. tq.version = q.txVersion /\ tq.locktime = GetLocktime(q)
    BY BuiltFields
  <2>3. GetLocktime(q) = GetLocktime(p)
    BY LocktimeIsFallback
  <2>. QED
    BY <2>1, <2>2, <2>3
<1>. DEFINE in(r, n) == TxIn(r.inputs[n].txid, r.inputs[n].index, r.inputs[n].sequence)
<1>7. /\ Len(tp.inputs) = Len(p.inputs) /\ \A n \in 1..Len(p.inputs) : tp.inputs[n] = in(p, n)
      /\ Len(tq.inputs) = Len(q.inputs) /\ \A n \in 1..Len(q.inputs) : tq.inputs[n] = in(q, n)
  BY BuiltFields
<1>8. /\ in(q, j) = in(p, i)
      /\ ~sighash.acp => /\ Len(q.inputs) = Len(p.inputs)
                         /\ \A n \in 1..Len(p.inputs) : in(q, n) = in(p, n)
  BY DEF SameTxIn
<1>9. tp.outputs = tq.outputs \/ p.outputs # q.outputs
  BY BuiltFields
<1>. HIDE DEF tp, tq, in
<1>2. tq.inputs[j] = tp.inputs[i]
  BY <1>7, <1>8
<1>10. ~sighash.acp => /\ Len(tq.inputs) = Len(tp.inputs)
                       /\ \A n \in 1..Len(tp.inputs) : tq.inputs[n] = tp.inputs[n]
  BY <1>7, <1>8
<1>3. (IF sighash.acp THEN None ELSE [n \in 1..Len(tq.inputs) |-> Outpoint(tq.inputs[n])])
      = (IF sighash.acp THEN None ELSE [n \in 1..Len(tp.inputs) |-> Outpoint(tp.inputs[n])])
  <2>. SUFFICES ASSUME ~sighash.acp
                PROVE  [n \in 1..Len(tq.inputs) |-> Outpoint(tq.inputs[n])]
                       = [n \in 1..Len(tp.inputs) |-> Outpoint(tp.inputs[n])]
    BY Zenon
  <2>. QED
    BY <1>10
<1>4. (IF sighash.acp \/ sighash.type # "ALL" THEN None
       ELSE [n \in 1..Len(tq.inputs) |-> tq.inputs[n].sequence])
      = (IF sighash.acp \/ sighash.type # "ALL" THEN None
         ELSE [n \in 1..Len(tp.inputs) |-> tp.inputs[n].sequence])
  <2>. SUFFICES ASSUME ~sighash.acp
                PROVE  [n \in 1..Len(tq.inputs) |-> tq.inputs[n].sequence]
                       = [n \in 1..Len(tp.inputs) |-> tp.inputs[n].sequence]
    BY Zenon
  <2>. QED
    BY <1>10
<1>5. HashedOutputs(tq, j, sighash) = HashedOutputs(tp, i, sighash)
  <2>1. CASE sighash.type = "NONE"
    BY <2>1 DEF HashedOutputs
  <2>2. CASE q.outputs = p.outputs /\ (sighash.type = "SINGLE" => i = j)
    BY <1>9, <2>2 DEF HashedOutputs
  <2>. QED
    BY <2>1, <2>2
<1>6. \A utxo, code : SignatureHash(tq, j, utxo, code, sighash)
                        = SignatureHash(tp, i, utxo, code, sighash)
  BY <1>1, <1>2, <1>3, <1>4, <1>5, Zenon DEF SignatureHash
<1>. QED
  BY <1>6 DEF tp, tq

-----------------------------------------------------------------------------
(* The invariant of signing: an input has the output it spends or none,    *)
(* and a signature signs the transaction as it is, with flags that lock    *)
(* whatever it commits to.                                                 *)

CodeOf(utxo) ==
    IF utxo.script.type = "p2wsh" THEN utxo.script.of ELSE utxo.script

Locks(mods, sighash) ==
    /\ "INPUTS" \in mods => sighash.acp
    /\ "OUTPUTS" \in mods => sighash.type = "NONE"
    /\ sighash.type = "SINGLE" => "SINGLE" \in mods /\ ~sighash.acp

Held(p, i, k) ==
    LET in == p.inputs[i]
        sig == in.sigs[k]
        sighash == sig.hash.sighash
    IN /\ in.utxo # None /\ sig.key = k
       /\ sig.hash = SignatureHash(BuildTx(p), i, in.utxo, CodeOf(in.utxo), sighash)
       /\ Locks(p.mods, sighash)

SpendsKnown(in) ==
    /\ in.time = 0 /\ in.height = 0
    /\ Outpoint(in) \in DOMAIN Prevouts
    /\ in.utxo = None \/ in.utxo = Prevouts[Outpoint(in)]

Sound(p) ==
    /\ Typed(p) /\ p.version = 2 /\ p.tx = None
    /\ \A i \in 1..Len(p.inputs) :
        /\ SpendsKnown(p.inputs[i])
        /\ \A k \in Signers(p.inputs[i]) : Held(p, i, k)

(* What a call has to leave alone: the inputs, unless the flag says that   *)
(* they may change; the outputs likewise; and what the flags say.          *)
Leaves(p, q) ==
    /\ q.version = 2 /\ q.tx = None
    /\ q.txVersion = p.txVersion /\ q.fallback = p.fallback
    /\ \/ "INPUTS" \in p.mods
       \/ /\ Len(q.inputs) = Len(p.inputs)
          /\ \A n \in 1..Len(p.inputs) : SameTxIn(q.inputs[n], p.inputs[n])
    /\ "OUTPUTS" \in p.mods \/ q.outputs = p.outputs
    /\ \A flag \in {"INPUTS", "OUTPUTS"} : flag \in q.mods => flag \in p.mods
    /\ "SINGLE" \in p.mods => "SINGLE" \in q.mods \/ "INPUTS" \in p.mods

(* Input j is what has become of input i.                                  *)
BecameInput(p, q, i, j) ==
    /\ i \in 1..Len(p.inputs) /\ ("INPUTS" \in p.mods \/ i = j)
    /\ SameTxIn(q.inputs[j], p.inputs[i])
    /\ p.inputs[i].utxo # None => q.inputs[j].utxo = p.inputs[i].utxo

LEMMA SoundTyped ==
    ASSUME NEW p, Sound(p)
    PROVE  /\ p \in PsbtSet /\ NoLocks(p) /\ p.inputs \in Seq(InputSet)
           /\ Len(p.inputs) \in Nat
           /\ \A i \in 1..Len(p.inputs) : p.inputs[i] \in InputSet
<1>1. p \in PsbtSet /\ NoLocks(p)
  BY DEF Sound, SpendsKnown, Typed, NoLocks
<1>2. p.inputs \in Seq(InputSet)
  BY <1>1 DEF PsbtSet
<1>. QED
  BY <1>1, <1>2

LEMMA SighashTyped ==
    ASSUME NEW in \in InputSet, NEW k \in Signers(in)
    PROVE  in.sigs[k] \in SigSet /\ in.sigs[k].hash.sighash \in Sighashes
<1>1. in.sigs[k] \in SigSet
  BY DEF InputSet, Signers
<1>. QED
  BY <1>1 DEF SigSet, HashSet

LEMMA HeldIsKept ==
    ASSUME NEW p, Sound(p), NEW q \in PsbtSet, NoLocks(q), Leaves(p, q),
           NEW i, NEW j \in 1..Len(q.inputs), BecameInput(p, q, i, j),
           NEW k \in Signers(p.inputs[i]), q.inputs[j].sigs[k] = p.inputs[i].sigs[k]
    PROVE  Held(q, j, k)
<1>. DEFINE sig == p.inputs[i].sigs[k]
            sighash == sig.hash.sighash
            utxo == p.inputs[i].utxo
<1>1. /\ p \in PsbtSet /\ p.version = 2 /\ NoLocks(p) /\ i \in 1..Len(p.inputs)
      /\ p.inputs[i] \in InputSet
  BY SoundTyped DEF Sound, BecameInput
<1>2. sighash \in Sighashes
  BY <1>1, SighashTyped
<1>3. /\ utxo # None /\ sig.key = k /\ Locks(p.mods, sighash)
      /\ sig.hash = SignatureHash(BuildTx(p), i, utxo, CodeOf(utxo), sighash)
  <2>1. Held(p, i, k)
    BY <1>1 DEF Sound
  <2>. QED
    BY <2>1 DEF Held
<1>4. q.inputs[j].utxo = utxo /\ SameTxIn(q.inputs[j], p.inputs[i])
  BY <1>3 DEF BecameInput
<1>. HIDE DEF sighash, utxo
<1>5. sighash.type = "SINGLE" => i = j
  BY <1>3 DEF BecameInput, Locks
<1>6. \/ sighash.acp
      \/ /\ Len(q.inputs) = Len(p.inputs)
         /\ \A n \in 1..Len(p.inputs) : SameTxIn(q.inputs[n], p.inputs[n])
  BY <1>3 DEF Leaves, Locks
<1>7. \/ sighash.type = "NONE"
      \/ q.outputs = p.outputs /\ (sighash.type = "SINGLE" => i = j)
  BY <1>3, <1>5 DEF Leaves, Locks
<1>8. SignatureHash(BuildTx(q), j, utxo, CodeOf(utxo), sighash)
      = SignatureHash(BuildTx(p), i, utxo, CodeOf(utxo), sighash)
  BY <1>1, <1>2, <1>4, <1>6, <1>7, MessageIsKept DEF Leaves
<1>9. Locks(q.mods, sighash)
  BY <1>3 DEF Leaves, Locks
<1>. QED
  BY <1>3, <1>4, <1>8, <1>9 DEF Held, sighash

LEMMA SoundIsKept ==
    ASSUME NEW p, Sound(p), NEW q, Typed(q), Leaves(p, q),
           \A j \in 1..Len(q.inputs) :
                /\ SpendsKnown(q.inputs[j])
                /\ \/ Signers(q.inputs[j]) = {}
                   \/ \E i : /\ BecameInput(p, q, i, j)
                             /\ q.inputs[j].sigs = p.inputs[i].sigs
    PROVE  Sound(q)
<1>1. q \in PsbtSet /\ NoLocks(q) /\ q.version = 2 /\ q.tx = None
  BY DEF Typed, SpendsKnown, NoLocks, Leaves
<1>2. ASSUME NEW j \in 1..Len(q.inputs), NEW k \in Signers(q.inputs[j])
      PROVE  Held(q, j, k)
  <2>1. PICK i : BecameInput(p, q, i, j) /\ q.inputs[j].sigs = p.inputs[i].sigs
    BY <1>2
  <2>2. k \in Signers(p.inputs[i])
    BY <1>2, <2>1 DEF Signers
  <2>. QED
    BY <1>1, <2>1, <2>2, HeldIsKept
<1>. QED
  BY <1>1, <1>2 DEF Sound

LEMMA AddInputSound ==
    ASSUME PrevoutsKnown, NEW p, Sound(p), NEW i, CanAddInput(p, i), NEW in \in TxIns
    PROVE  Sound(AddInput(p, i, in))
<1>. DEFINE q == AddInput(p, i, in)
            new == InputFromTx(p, in)
<1>1. /\ p \in PsbtSet /\ p.version = 2 /\ p.tx = None /\ p.inputs \in Seq(InputSet)
      /\ i \in 1..(Len(p.inputs) + 1) /\ "INPUTS" \in p.mods /\ in \in TxInSet
  BY SoundTyped, PartsAssumption DEF Sound, CanAddInput, CanModify
<1>2. Typed(q)
  BY <1>1, InputKeepsTyped DEF Sound
<1>3. new \in InputSet
  BY <1>1, PartsTyped
<1>4. SpendsKnown(new) /\ Signers(new) = {}
  <2>1. /\ new.txid = in.txid /\ new.index = in.index /\ new.time = 0 /\ new.height = 0
        /\ new.utxo = None /\ new.sigs = NoSigs
    BY <1>1 DEF InputFromTx, EmptyInput
  <2>2. Outpoint(in) \in DOMAIN Prevouts
    BY DEF PrevoutsKnown, AllIns
  <2>. QED
    BY <2>1, <2>2 DEF SpendsKnown, Outpoint, Signers, NoSigs
<1>. HIDE DEF new
<1>5. /\ q.inputs = InsertAt(p.inputs, i, new) /\ q.outputs = p.outputs
      /\ q.version = 2 /\ q.tx = None /\ q.txVersion = p.txVersion
      /\ q.fallback = p.fallback /\ q.mods = p.mods
  BY <1>1 DEF AddInput, PsbtSet, new
<1>. HIDE DEF q
<1>6. Leaves(p, q)
  BY <1>1, <1>5 DEF Leaves
<1>7. Len(q.inputs) = Len(p.inputs) + 1 /\ Len(p.inputs) \in Nat
  BY <1>1, <1>3, <1>5, InsertTyped
<1>8. ASSUME NEW j \in 1..Len(q.inputs), NEW n \in 1..Len(p.inputs),
             q.inputs[j] = p.inputs[n]
      PROVE  /\ SpendsKnown(q.inputs[j])
             /\ BecameInput(p, q, n, j) /\ q.inputs[j].sigs = p.inputs[n].sigs
  BY <1>1, <1>8 DEF BecameInput, SameTxIn, Sound
<1>9. ASSUME NEW j \in 1..Len(q.inputs)
      PROVE  /\ SpendsKnown(q.inputs[j])
             /\ \/ Signers(q.inputs[j]) = {}
                \/ \E n : /\ BecameInput(p, q, n, j)
                          /\ q.inputs[j].sigs = p.inputs[n].sigs
  <2>1. q.inputs[j] = IF j < i THEN p.inputs[j] ELSE IF j = i THEN new ELSE p.inputs[j - 1]
    <3>1. j \in 1..(Len(p.inputs) + 1)
      BY <1>7
    <3>2. InsertAt(p.inputs, i, new)[j]
            = IF j < i THEN p.inputs[j] ELSE IF j = i THEN new ELSE p.inputs[j - 1]
      BY <1>1, <1>3, <3>1, InsertedElement
    <3>. QED
      BY <1>5, <3>2, Zenon
  <2>2. CASE j < i
    <3>1. j \in 1..Len(p.inputs)
      BY <1>1, <1>7, <2>2
    <3>. QED
      BY <1>8, <2>1, <2>2, <3>1
  <2>3. CASE j = i
    BY <1>4, <2>1, <2>3
  <2>4. CASE j > i
    <3>1. j - 1 \in 1..Len(p.inputs) /\ ~(j < i) /\ j # i
      BY <1>1, <1>7, <2>4
    <3>. QED
      BY <1>8, <2>1, <3>1
  <2>. QED
    BY <1>1, <2>2, <2>3, <2>4
<1>. QED
  BY <1>2, <1>6, <1>9, SoundIsKept DEF q

LEMMA RemoveInputSound ==
    ASSUME NEW p, Sound(p), NEW i, CanRemoveInput(p, i)
    PROVE  Sound(RemoveInput(p, i))
<1>. DEFINE q == RemoveInput(p, i)
<1>1. /\ p \in PsbtSet /\ p.version = 2 /\ p.tx = None /\ p.inputs \in Seq(InputSet)
      /\ i \in 1..Len(p.inputs) /\ "INPUTS" \in p.mods
  BY SoundTyped DEF Sound, CanRemoveInput, CanModify
<1>2. Typed(q)
  BY <1>1, InputKeepsTyped DEF Sound
<1>3. /\ q.inputs = RemoveAt(p.inputs, i) /\ q.outputs = p.outputs
      /\ q.version = 2 /\ q.tx = None /\ q.txVersion = p.txVersion
      /\ q.fallback = p.fallback /\ q.mods \subseteq p.mods
  BY <1>1 DEF RemoveInput, PsbtSet
<1>. HIDE DEF q
<1>4. Leaves(p, q)
  BY <1>1, <1>3 DEF Leaves
<1>5. Len(q.inputs) = Len(p.inputs) - 1 /\ Len(p.inputs) \in Nat
  BY <1>1, <1>3, RemoveTyped
<1>6. ASSUME NEW j \in 1..Len(q.inputs), NEW n \in 1..Len(p.inputs),
             q.inputs[j] = p.inputs[n]
      PROVE  /\ SpendsKnown(q.inputs[j])
             /\ BecameInput(p, q, n, j) /\ q.inputs[j].sigs = p.inputs[n].sigs
  BY <1>1, <1>6 DEF BecameInput, SameTxIn, Sound
<1>7. ASSUME NEW j \in 1..Len(q.inputs)
      PROVE  /\ SpendsKnown(q.inputs[j])
             /\ \E n : BecameInput(p, q, n, j) /\ q.inputs[j].sigs = p.inputs[n].sigs
  <2>1. q.inputs[j] = IF j < i THEN p.inputs[j] ELSE p.inputs[j + 1]
    BY <1>1, <1>3, <1>5, RemovedElement
  <2>2. j \in 1..Len(p.inputs) /\ j + 1 \in 1..Len(p.inputs)
    BY <1>5
  <2>. QED
    BY <1>6, <2>1, <2>2
<1>. QED
  BY <1>2, <1>4, <1>7, SoundIsKept DEF q

(* Outputs come and go only while every signature is of none.              *)
LEMMA OutputsSound ==
    ASSUME NEW p, Sound(p), NEW i
    PROVE  /\ CanAddOutputAt(p, i) => \A out \in TxOutSet : Sound(AddOutput(p, i, out))
           /\ CanRemoveOutput(p, i) => Sound(RemoveOutput(p, i))
<1>1. /\ p \in PsbtSet /\ p.version = 2 /\ p.tx = None /\ Typed(p)
      /\ \A n \in 1..Len(p.inputs) : SpendsKnown(p.inputs[n])
  BY SoundTyped DEF Sound
<1>2. ASSUME NEW q, Typed(q), "OUTPUTS" \in p.mods, q.inputs = p.inputs,
             q.version = 2, q.tx = None, q.txVersion = p.txVersion,
             q.fallback = p.fallback, q.mods = p.mods
      PROVE  Sound(q)
  <2>1. Leaves(p, q)
    BY <1>2 DEF Leaves, SameTxIn
  <2>2. \A j \in 1..Len(q.inputs) : /\ SpendsKnown(q.inputs[j])
                                    /\ BecameInput(p, q, j, j)
                                    /\ q.inputs[j].sigs = p.inputs[j].sigs
    BY <1>1, <1>2 DEF BecameInput, SameTxIn
  <2>. QED
    BY <1>2, <2>1, <2>2, SoundIsKept
<1>3. ASSUME CanAddOutputAt(p, i), NEW out \in TxOutSet PROVE Sound(AddOutput(p, i, out))
  <2>. DEFINE q == AddOutput(p, i, out)
  <2>1. /\ q.inputs = p.inputs /\ q.version = 2 /\ q.tx = None /\ q.mods = p.mods
        /\ q.txVersion = p.txVersion /\ q.fallback = p.fallback
    BY <1>1 DEF AddOutput, PsbtSet
  <2>2. Typed(q) /\ "OUTPUTS" \in p.mods
    BY <1>1, <1>3, OutputKeepsTyped DEF CanAddOutputAt, CanModify
  <2>. QED
    BY <1>2, <2>1, <2>2
<1>4. ASSUME CanRemoveOutput(p, i) PROVE Sound(RemoveOutput(p, i))
  <2>. DEFINE q == RemoveOutput(p, i)
  <2>1. /\ q.inputs = p.inputs /\ q.version = 2 /\ q.tx = None /\ q.mods = p.mods
        /\ q.txVersion = p.txVersion /\ q.fallback = p.fallback
    BY <1>1 DEF RemoveOutput, PsbtSet
  <2>2. Typed(q) /\ "OUTPUTS" \in p.mods
    BY <1>1, <1>4, OutputKeepsTyped DEF CanRemoveOutput, CanModify
  <2>. QED
    BY <1>2, <2>1, <2>2
<1>. QED
  BY <1>3, <1>4

(* One input is described anew, its signatures stay.                       *)
LEMMA DescribedSound ==
    ASSUME NEW p, Sound(p), NEW i \in 1..Len(p.inputs), NEW new \in InputSet,
           SpendsKnown(new), SameTxIn(new, p.inputs[i]), new.sigs = p.inputs[i].sigs,
           p.inputs[i].utxo # None => new.utxo = p.inputs[i].utxo
    PROVE  Sound([p EXCEPT !.inputs = [p.inputs EXCEPT ![i] = new]])
<1>. DEFINE ins == [p.inputs EXCEPT ![i] = new]
            q == [p EXCEPT !.inputs = ins]
<1>1. /\ p \in PsbtSet /\ p.version = 2 /\ p.tx = None /\ p.inputs \in Seq(InputSet)
      /\ Typed(p) /\ \A n \in 1..Len(p.inputs) : SpendsKnown(p.inputs[n])
  BY SoundTyped DEF Sound
<1>2. /\ ins \in Seq(InputSet) /\ Len(ins) = Len(p.inputs) /\ ins[i] = new
      /\ \A n \in 1..Len(p.inputs) : n # i => ins[n] = p.inputs[n]
  BY <1>1
<1>. HIDE DEF ins
<1>3. Typed(q)
  BY <1>1, <1>2 DEF Typed, PsbtSet
<1>4. /\ q.inputs = ins /\ q.version = 2 /\ q.tx = None /\ q.mods = p.mods
      /\ q.txVersion = p.txVersion /\ q.fallback = p.fallback /\ q.outputs = p.outputs
  BY <1>1 DEF PsbtSet
<1>. HIDE DEF q
<1>5. \A n \in 1..Len(p.inputs) : /\ SameTxIn(q.inputs[n], p.inputs[n])
                                  /\ SpendsKnown(q.inputs[n])
                                  /\ q.inputs[n].sigs = p.inputs[n].sigs
                                  /\ p.inputs[n].utxo # None =>
                                        q.inputs[n].utxo = p.inputs[n].utxo
  BY <1>1, <1>2, <1>4 DEF SameTxIn
<1>6. Leaves(p, q)
  BY <1>2, <1>4, <1>5 DEF Leaves
<1>7. \A n \in 1..Len(q.inputs) : BecameInput(p, q, n, n)
  BY <1>2, <1>4, <1>5 DEF BecameInput
<1>8. Len(q.inputs) = Len(p.inputs)
  BY <1>2, <1>4
<1>9. Sound(q)
  BY <1>3, <1>5, <1>6, <1>7, <1>8, SoundIsKept
<1>. QED
  BY <1>9 DEF q, ins

(* A signature is of the code that its input's output wants.               *)
LEMMA SignTyped ==
    ASSUME NEW p, Sound(p), NEW i \in 1..Len(p.inputs), CanBuildTx(p),
           ScriptCode(p.inputs[i]) # None, NEW k \in Keys, NEW sighash \in Sighashes
    PROVE  /\ p.inputs[i].utxo # None
           /\ ScriptCode(p.inputs[i]) = CodeOf(p.inputs[i].utxo)
           /\ Sign(p, i, k, sighash) \in SigSet
<1>. DEFINE in == p.inputs[i]
            code == ScriptCode(in)
            tx == BuildTx(p)
<1>1. p \in PsbtSet /\ in \in InputSet /\ p.version = 2 /\ Typed(p)
  BY SoundTyped DEF Sound
<1>2. /\ in.utxo # None /\ in.utxo \in TxOutSet
      /\ in.script \in WitnessScripts \cup {None} /\ code # None
  BY <1>1 DEF ScriptCode, InputSet
<1>. HIDE DEF in
<1>3. code = CodeOf(in.utxo) /\ code \in Codes
  <2>1. CASE in.utxo.script.type = "p2wpkh"
    BY <1>2, <2>1 DEF ScriptCode, CodeOf, Codes, TxOutSet, in
  <2>2. CASE in.utxo.script.type # "p2wpkh"
    <3>1. in.utxo.script = P2wsh(in.script) /\ code = in.script /\ code # None
      BY <1>2, <2>2 DEF ScriptCode, in
    <3>. QED
      BY <1>2, <3>1 DEF CodeOf, Codes, P2wsh
  <2>. QED
    BY <2>1, <2>2
<1>4. tx \in TxSet /\ Len(tx.inputs) = Len(p.inputs)
  BY <1>1, BuildTxTyped, BuiltFields
<1>. HIDE DEF tx, code
<1>5. /\ tx.version \in Nat /\ tx.locktime \in Nat /\ tx.outputs \in Seq(TxOutSet)
      /\ tx.inputs \in Seq(TxInSet) /\ Len(tx.inputs) \in Nat /\ tx.inputs[i] \in TxInSet
      /\ Len(tx.outputs) \in Nat
  BY <1>4 DEF TxSet
<1>6. \A in2 \in TxInSet : Outpoint(in2) \in Outpoints /\ in2.sequence \in Nat
  BY DEF TxInSet, Outpoint, Outpoints
<1>7. (IF sighash.acp THEN None ELSE [n \in 1..Len(tx.inputs) |-> Outpoint(tx.inputs[n])])
        \in Seq(Outpoints) \cup {None}
  <2>1. [n \in 1..Len(tx.inputs) |-> Outpoint(tx.inputs[n])] \in Seq(Outpoints)
    BY <1>5, <1>6
  <2>. QED
    BY <2>1, Zenon
<1>8. (IF sighash.acp \/ sighash.type # "ALL" THEN None
       ELSE [n \in 1..Len(tx.inputs) |-> tx.inputs[n].sequence])
        \in Seq(Nat) \cup {None}
  <2>1. [n \in 1..Len(tx.inputs) |-> tx.inputs[n].sequence] \in Seq(Nat)
    BY <1>5, <1>6
  <2>. QED
    BY <2>1, Zenon
<1>9. HashedOutputs(tx, i, sighash) \in Seq(TxOutSet) \cup {None}
  <2>1. i \in Nat
    BY <1>4, <1>5
  <2>. QED
    BY <1>5, <2>1 DEF HashedOutputs
<1>10. SignatureHash(tx, i, in.utxo, code, sighash) \in HashSet
  <2>1. in.utxo.satoshi \in Nat
    BY <1>2 DEF TxOutSet
  <2>. QED
    BY <1>3, <1>5, <1>6, <1>7, <1>8, <1>9, <2>1, Zenon DEF SignatureHash, HashSet
<1>. QED
  BY <1>2, <1>3, <1>10 DEF Sign, SigSet, in, code, tx

LEMMA SignSound ==
    ASSUME NEW p, Sound(p), NEW i \in 1..Len(p.inputs), CanBuildTx(p),
           ScriptCode(p.inputs[i]) # None, NEW k \in Keys, NEW sighash \in Sighashes,
           ~(sighash.type = "SINGLE" /\ sighash.acp)
    PROVE  Sound(AddInputSignature(p, i, Sign(p, i, k, sighash)))
<1>. DEFINE sig == Sign(p, i, k, sighash)
            in == p.inputs[i]
            new == AddSignature(in, sig)
            ins == [p.inputs EXCEPT ![i] = new]
            mods == ModsAfter(p.mods, sighash)
            q == [p EXCEPT !.inputs = ins, !.mods = mods]
<1>1. /\ p \in PsbtSet /\ p.version = 2 /\ p.tx = None /\ p.inputs \in Seq(InputSet)
      /\ Typed(p) /\ in \in InputSet /\ \A n \in 1..Len(p.inputs) : SpendsKnown(p.inputs[n])
      /\ NoLocks(p) /\ p.mods \in SUBSET Flags
  BY SoundTyped DEF Sound, PsbtSet
<1>2. /\ sig \in SigSet /\ sig.key = k /\ in.utxo # None /\ sig.hash.sighash = sighash
      /\ sig.hash = SignatureHash(BuildTx(p), i, in.utxo, CodeOf(in.utxo), sighash)
  <2>1. sig \in SigSet /\ in.utxo # None /\ ScriptCode(in) = CodeOf(in.utxo)
    BY SignTyped
  <2>2. /\ sig.key = k
        /\ sig.hash = SignatureHash(BuildTx(p), i, in.utxo, ScriptCode(in), sighash)
    BY DEF Sign
  <2>3. sig.hash.sighash = sighash
    BY <2>2 DEF SignatureHash
  <2>. QED
    BY <2>1, <2>2, <2>3, Zenon
<1>3. AddInputSignature(p, i, sig) = q
  BY <1>1, <1>2 DEF AddInputSignature, PsbtSet
<1>. HIDE DEF sig
<1>4. /\ new \in InputSet
      /\ new.txid = in.txid /\ new.index = in.index /\ new.sequence = in.sequence
      /\ new.time = in.time /\ new.height = in.height /\ new.utxo = in.utxo
      /\ new.sigs = [in.sigs EXCEPT ![k] = IF @ = None THEN sig ELSE @]
      /\ in.sigs \in [Keys -> SigSet \cup {None}]
  BY <1>1, <1>2 DEF AddSignature, InputSet
<1>5. /\ mods \in SUBSET Flags
      /\ "INPUTS" \in mods => "INPUTS" \in p.mods /\ sighash.acp
      /\ "OUTPUTS" \in mods => "OUTPUTS" \in p.mods /\ sighash.type = "NONE"
      /\ "SINGLE" \in p.mods => "SINGLE" \in mods
      /\ sighash.type = "SINGLE" => "SINGLE" \in mods
  BY <1>1 DEF ModsAfter, Flags
<1>. HIDE DEF new, mods
<1>6. /\ ins \in Seq(InputSet) /\ Len(ins) = Len(p.inputs) /\ ins[i] = new
      /\ \A n \in 1..Len(p.inputs) : n # i => ins[n] = p.inputs[n]
  BY <1>1, <1>4
<1>. HIDE DEF ins
<1>7. Typed(q)
  BY <1>1, <1>5, <1>6 DEF Typed, PsbtSet
<1>8. /\ q.inputs = ins /\ q.version = 2 /\ q.tx = None /\ q.mods = mods
      /\ q.txVersion = p.txVersion /\ q.fallback = p.fallback /\ q.outputs = p.outputs
  BY <1>1 DEF PsbtSet
<1>. HIDE DEF q
<1>9. \A n \in 1..Len(p.inputs) : /\ SameTxIn(q.inputs[n], p.inputs[n])
                                  /\ SpendsKnown(q.inputs[n])
                                  /\ q.inputs[n].utxo = p.inputs[n].utxo
  <2>. TAKE n \in 1..Len(p.inputs)
  <2>1. CASE n = i
    BY <1>1, <1>4, <1>6, <1>8, <2>1 DEF SameTxIn, SpendsKnown, Outpoint
  <2>2. CASE n # i
    BY <1>1, <1>6, <1>8, <2>2 DEF SameTxIn
  <2>. QED
    BY <2>1, <2>2
<1>10. /\ Leaves(p, q) /\ q \in PsbtSet /\ NoLocks(q)
       /\ \A n \in 1..Len(p.inputs) : BecameInput(p, q, n, n)
  BY <1>5, <1>6, <1>7, <1>8, <1>9 DEF Leaves, Typed, NoLocks, SpendsKnown, BecameInput
<1>11. ASSUME NEW n \in 1..Len(p.inputs), NEW l \in Signers(q.inputs[n])
       PROVE  Held(q, n, l)
  <2>1. n \in 1..Len(q.inputs) /\ l \in Keys
    BY <1>6, <1>8 DEF Signers
  <2>2. CASE l \in Signers(p.inputs[n]) /\ q.inputs[n].sigs[l] = p.inputs[n].sigs[l]
    BY <1>10, <2>1, <2>2, HeldIsKept
  <2>3. CASE n = i /\ l = k /\ q.inputs[n].sigs[l] = sig
    <3>1. SignatureHash(BuildTx(q), i, in.utxo, CodeOf(in.utxo), sighash)
            = SignatureHash(BuildTx(p), i, in.utxo, CodeOf(in.utxo), sighash)
      <4>1. Len(q.inputs) = Len(p.inputs) /\ i \in 1..Len(q.inputs)
        BY <1>6, <1>8
      <4>. QED
        BY <1>1, <1>8, <1>9, <1>10, <4>1, MessageIsKept
    <3>2. Locks(mods, sighash)
      BY <1>5 DEF Locks
    <3>3. q.inputs[i].utxo = in.utxo
      BY <1>9
    <3>. QED
      BY <1>2, <1>8, <2>3, <3>1, <3>2, <3>3, Zenon DEF Held
  <2>4. l \notin Signers(p.inputs[n]) \/ q.inputs[n].sigs[l] # p.inputs[n].sigs[l]
        => n = i /\ l = k /\ q.inputs[n].sigs[l] = sig
    <3>1. CASE n = i
      BY <1>4, <1>6, <1>8, <2>1, <3>1 DEF Signers
    <3>2. CASE n # i
      BY <1>6, <1>8, <2>1, <3>2
    <3>. QED
      BY <3>1, <3>2
  <2>. QED
    BY <2>2, <2>3, <2>4
<1>12. Sound(q)
  BY <1>6, <1>7, <1>8, <1>9, <1>11 DEF Sound
<1>. QED
  BY <1>3, <1>12 DEF sig

(* What the callers start from: inputs with their outputs, nothing signed. *)
LEMMA StartsSound ==
    ASSUME PrevoutsKnown, NEW tx \in Txs
    PROVE  Sound(Described(FromTx(tx, 2)))
<1>. DEFINE p == FromTx(tx, 2)
            outpoint(n) == Outpoint(tx.inputs[n])
            old(n) == InputFromTx(InitPsbt(2), tx.inputs[n])
            utxo(n) == Prevouts[outpoint(n)]
            new(n) == IF utxo(n).script.type = "p2wpkh"
                      THEN [old(n) EXCEPT !.utxo = utxo(n),
                                          !.keypaths = Range(utxo(n).script.keys)]
                      ELSE [old(n) EXCEPT !.utxo = utxo(n), !.script = utxo(n).script.of,
                                          !.keypaths = Range(utxo(n).script.of.keys)]
            ins == [n \in 1..Len(tx.inputs) |-> new(n)]
<1>1. /\ tx \in TxSet /\ tx.inputs \in Seq(TxInSet) /\ Len(tx.inputs) \in Nat
      /\ \A n \in 1..Len(tx.inputs) : tx.inputs[n] \in TxInSet
  BY PartsAssumption DEF TxSet
<1>2. /\ Typed(p) /\ p \in PsbtSet /\ p.version = 2 /\ p.tx = None
      /\ p.inputs = [n \in 1..Len(tx.inputs) |-> old(n)]
  <2>1. Typed(p)
    BY <1>1, CreateKeepsTyped
  <2>. QED
    BY <2>1, SMTT(30) DEF FromTx, InitPsbt, Typed
<1>3. ASSUME NEW n \in 1..Len(tx.inputs)
      PROVE  /\ OutpointOf(p, n) = outpoint(n)
             /\ new(n) \in InputSet /\ SpendsKnown(new(n)) /\ Signers(new(n)) = {}
  <2>1. /\ old(n) \in InputSet /\ old(n).txid = tx.inputs[n].txid
        /\ old(n).index = tx.inputs[n].index /\ old(n).time = 0 /\ old(n).height = 0
        /\ old(n).sigs = NoSigs
    <3>1. InitPsbt(2) \in PsbtSet
      BY InitPsbtTyped
    <3>2. old(n) \in InputSet
      BY <1>1, <3>1, PartsTyped
    <3>3. InitPsbt(2).version # 0
      BY DEF InitPsbt
    <3>4. old(n) = [EmptyInput EXCEPT !.txid = tx.inputs[n].txid,
                        !.index = tx.inputs[n].index, !.sequence = tx.inputs[n].sequence]
      BY <3>3, Zenon DEF InputFromTx
    <3>. QED
      BY <3>2, <3>4 DEF EmptyInput
  <2>2. outpoint(n) \in DOMAIN Prevouts
    <3>1. tx.inputs[n] \in AllIns
      BY <1>1 DEF AllIns, Range
    <3>. QED
      BY <3>1 DEF PrevoutsKnown
  <2>3. OutpointOf(p, n) = outpoint(n)
    <3>1. p.inputs[n] = old(n) /\ p.version # 0
      BY <1>2
    <3>. QED
      BY <2>1, <3>1 DEF OutpointOf, Outpoint
  <2>4. /\ utxo(n) \in TxOutSet
        /\ \/ /\ utxo(n).script.type = "p2wpkh"
              /\ Range(utxo(n).script.keys) \subseteq Keys
           \/ /\ utxo(n).script = P2wsh(utxo(n).script.of)
              /\ utxo(n).script.of \in WitnessScripts
              /\ Range(utxo(n).script.of.keys) \subseteq Keys
    BY <2>2 DEF PrevoutsKnown
  <2>. HIDE DEF old, utxo
  <2>5. /\ new(n) \in InputSet
        /\ new(n).txid = old(n).txid /\ new(n).index = old(n).index
        /\ new(n).time = 0 /\ new(n).height = 0
        /\ new(n).sigs = NoSigs /\ new(n).utxo = utxo(n)
    <3>1. CASE utxo(n).script.type = "p2wpkh"
      <4>1. Range(utxo(n).script.keys) \subseteq Keys
        BY <2>4, <3>1 DEF P2wsh
      <4>. QED
        BY <2>1, <2>4, <3>1, <4>1 DEF InputSet
    <3>2. CASE utxo(n).script.type # "p2wpkh"
      BY <2>1, <2>4, <3>2 DEF InputSet
    <3>. QED
      BY <3>1, <3>2
  <2>6. Outpoint(new(n)) = outpoint(n)
    BY <2>1, <2>5 DEF Outpoint
  <2>7. SpendsKnown(new(n))
    BY <2>2, <2>5, <2>6, Zenon DEF SpendsKnown, utxo
  <2>8. Signers(new(n)) = {}
    BY <2>5 DEF Signers, NoSigs
  <2>. QED
    BY <2>3, <2>5, <2>7, <2>8
<1>4. Described(p) = [p EXCEPT !.inputs = ins]
  <2>. DEFINE like(n) == IF Prevouts[OutpointOf(p, n)].script.type = "p2wpkh"
            THEN [p.inputs[n] EXCEPT !.utxo = Prevouts[OutpointOf(p, n)],
                    !.keypaths = Range(Prevouts[OutpointOf(p, n)].script.keys)]
            ELSE [p.inputs[n] EXCEPT !.utxo = Prevouts[OutpointOf(p, n)],
                    !.script = Prevouts[OutpointOf(p, n)].script.of,
                    !.keypaths = Range(Prevouts[OutpointOf(p, n)].script.of.keys)]
  <2>1. Described(p) = [p EXCEPT !.inputs = [n \in 1..Len(p.inputs) |-> like(n)]]
    BY Zenon DEF Described
  <2>2. Len(p.inputs) = Len(tx.inputs) /\ \A n \in 1..Len(tx.inputs) : p.inputs[n] = old(n)
    BY <1>1, <1>2
  <2>. HIDE DEF p, old
  <2>3. \A n \in 1..Len(tx.inputs) : like(n) = new(n)
    BY <1>3, <2>2, Zenon
  <2>. HIDE DEF like, new
  <2>4. [n \in 1..Len(p.inputs) |-> like(n)] = ins
    BY <2>2, <2>3, Zenon
  <2>. QED
    BY <2>1, <2>4, Zenon
<1>5. ins \in Seq(InputSet) /\ Len(ins) = Len(tx.inputs)
  <2>. HIDE DEF new
  <2>. QED
    BY <1>1, <1>3
<1>6. \A n \in 1..Len(ins) : SpendsKnown(ins[n]) /\ Signers(ins[n]) = {}
  <2>. HIDE DEF new
  <2>. QED
    BY <1>3, <1>5
<1>. HIDE DEF ins, p
<1>7. [p EXCEPT !.inputs = ins].inputs = ins
  BY <1>2 DEF PsbtSet
<1>8. /\ Typed([p EXCEPT !.inputs = ins]) /\ [p EXCEPT !.inputs = ins].version = 2
      /\ [p EXCEPT !.inputs = ins].tx = None
  BY <1>2, <1>5 DEF Typed, PsbtSet
<1>9. Sound([p EXCEPT !.inputs = ins])
  BY <1>6, <1>7, <1>8, Zenon DEF Sound
<1>. QED
  BY <1>4, <1>9 DEF p

(* The updater's calls.                                                    *)
LEMMA DescribeSound ==
    ASSUME PrevoutsKnown, NEW p, Sound(p), NEW i \in 1..Len(p.inputs)
    PROVE  /\ Sound([p EXCEPT !.inputs[i].utxo = Prevouts[OutpointOf(p, i)]])
           /\ \A script \in WitnessScripts : Sound([p EXCEPT !.inputs[i].script = script])
           /\ \A k \in Keys :
                Sound([p EXCEPT !.inputs[i].keypaths = p.inputs[i].keypaths \cup {k}])
           /\ \A sighash \in Sighashes \cup {None} :
                Sound([p EXCEPT !.inputs[i].sighash = sighash])
<1>. DEFINE in == p.inputs[i]
            Changed(new) == [p EXCEPT !.inputs = [p.inputs EXCEPT ![i] = new]]
<1>1. p \in PsbtSet /\ in \in InputSet /\ SpendsKnown(in) /\ p.version # 0
  BY SoundTyped DEF Sound
<1>2. OutpointOf(p, i) = Outpoint(in) /\ Prevouts[Outpoint(in)] \in TxOutSet
  BY <1>1 DEF OutpointOf, SpendsKnown, PrevoutsKnown
<1>3. ASSUME NEW new \in InputSet, new.txid = in.txid, new.index = in.index,
             new.sequence = in.sequence, new.time = in.time, new.height = in.height,
             new.sigs = in.sigs, new.utxo = in.utxo \/ new.utxo = Prevouts[Outpoint(in)]
      PROVE  Sound(Changed(new))
  <2>1. Outpoint(new) = Outpoint(in)
    BY <1>3 DEF Outpoint
  <2>2. SpendsKnown(new) /\ SameTxIn(new, in) /\ (in.utxo # None => new.utxo = in.utxo)
    BY <1>1, <1>3, <2>1 DEF SpendsKnown, SameTxIn
  <2>. QED
    BY <1>3, <2>2, DescribedSound
<1>4. Sound([p EXCEPT !.inputs[i].utxo = Prevouts[OutpointOf(p, i)]])
  <2>. DEFINE new == [in EXCEPT !.utxo = Prevouts[Outpoint(in)]]
  <2>1. /\ new \in InputSet /\ new.txid = in.txid /\ new.index = in.index
        /\ new.sequence = in.sequence /\ new.time = in.time /\ new.height = in.height
        /\ new.sigs = in.sigs /\ new.utxo = Prevouts[Outpoint(in)]
    BY <1>1, <1>2 DEF InputSet
  <2>2. Sound(Changed(new))
    <3>. HIDE DEF new, Changed
    <3>. QED
      BY <1>3, <2>1
  <2>. QED
    BY <1>2, <2>2, Zenon
<1>5. ASSUME NEW script \in WitnessScripts
      PROVE  Sound([p EXCEPT !.inputs[i].script = script])
  <2>. DEFINE new == [in EXCEPT !.script = script]
  <2>1. /\ new \in InputSet /\ new.txid = in.txid /\ new.index = in.index
        /\ new.sequence = in.sequence /\ new.time = in.time /\ new.height = in.height
        /\ new.sigs = in.sigs /\ new.utxo = in.utxo
    BY <1>1 DEF InputSet
  <2>2. Sound(Changed(new))
    <3>. HIDE DEF new, Changed
    <3>. QED
      BY <1>3, <2>1
  <2>. QED
    BY <2>2, Zenon
<1>6. ASSUME NEW k \in Keys
      PROVE  Sound([p EXCEPT !.inputs[i].keypaths = p.inputs[i].keypaths \cup {k}])
  <2>. DEFINE new == [in EXCEPT !.keypaths = in.keypaths \cup {k}]
  <2>1. /\ new \in InputSet /\ new.txid = in.txid /\ new.index = in.index
        /\ new.sequence = in.sequence /\ new.time = in.time /\ new.height = in.height
        /\ new.sigs = in.sigs /\ new.utxo = in.utxo
    BY <1>1 DEF InputSet
  <2>2. Sound(Changed(new))
    <3>. HIDE DEF new, Changed
    <3>. QED
      BY <1>3, <2>1
  <2>. QED
    BY <2>2, Zenon
<1>7. ASSUME NEW sighash \in Sighashes \cup {None}
      PROVE  Sound([p EXCEPT !.inputs[i].sighash = sighash])
  <2>. DEFINE new == [in EXCEPT !.sighash = sighash]
  <2>1. /\ new \in InputSet /\ new.txid = in.txid /\ new.index = in.index
        /\ new.sequence = in.sequence /\ new.time = in.time /\ new.height = in.height
        /\ new.sigs = in.sigs /\ new.utxo = in.utxo
    BY <1>1 DEF InputSet
  <2>2. Sound(Changed(new))
    <3>. HIDE DEF new, Changed
    <3>. QED
      BY <1>3, <2>1
  <2>. QED
    BY <2>2, Zenon
<1>. QED
  BY <1>4, <1>5, <1>6, <1>7

SoundInv == TypeInv /\ \A h \in Live : Sound(psbt[h])

LEMMA UpdateSound ==
    ASSUME SoundInv, NEW h \in Handles, NEW p, Sound(p), Update(h, p)
    PROVE  SoundInv'
<1>1. psbt' = [psbt EXCEPT ![h] = p] /\ Typed(p)
  BY DEF Update, Sound
<1>2. TypeInv'
  BY <1>1, UpdateTyped DEF SoundInv
<1>3. ASSUME NEW g \in Handles, psbt'[g] # None PROVE Sound(psbt'[g])
  <2>1. psbt'[g] = IF g = h THEN p ELSE psbt[g]
    BY <1>1 DEF SoundInv, TypeInv, TypeOK
  <2>. QED
    BY <1>3, <2>1 DEF SoundInv, Live
<1>. QED
  BY <1>2, <1>3 DEF SoundInv, Live

LEMMA ModifyTxSound ==
    ASSUME PrevoutsKnown, SoundInv, NEW h \in Handles, ModifyTx(h)
    PROVE  SoundInv'
<1>1. ASSUME NEW i, NEW in \in TxIns, AddTxInputAt(h, i, in) PROVE SoundInv'
  BY <1>1, AddInputSound, UpdateSound DEF AddTxInputAt, SoundInv
<1>2. ASSUME NEW i, RemoveInputAt(h, i) PROVE SoundInv'
  BY <1>2, RemoveInputSound, UpdateSound DEF RemoveInputAt, SoundInv
<1>3. ASSUME NEW i, NEW out \in TxOuts, AddTxOutputAt(h, i, out) PROVE SoundInv'
  BY <1>3, PartsAssumption, OutputsSound, UpdateSound DEF AddTxOutputAt, SoundInv
<1>4. ASSUME NEW i, RemoveOutputAt(h, i) PROVE SoundInv'
  BY <1>4, OutputsSound, UpdateSound DEF RemoveOutputAt, SoundInv
<1>. QED
  BY <1>1, <1>2, <1>3, <1>4 DEF ModifyTx

(* The sighashes of a PSBT whose inputs spend known outputs.               *)
LEMMA SighashesForInput ==
    ASSUME PrevoutsKnown, SoundInv, NEW h \in Live, NEW i \in 1..Len(psbt[h].inputs),
           NEW sighash \in SighashesFor(h, i)
    PROVE  /\ sighash \in Sighashes
           /\ NoSingleMoves => ~(sighash.type = "SINGLE" /\ sighash.acp)
<1>. DEFINE in == psbt[h].inputs[i]
            type == Prevouts[Outpoint(in)].script.type
<1>1. /\ psbt[h].version = 2 /\ psbt[h] # None /\ Len(psbt[h].inputs) \in Nat
      /\ Outpoint(in) \in DOMAIN Prevouts
  BY SoundTyped DEF SoundInv, Sound, SpendsKnown, Live
<1>2. type \in {"p2wpkh", "p2wsh"}
  <2>. DEFINE spk == Prevouts[Outpoint(in)].script
  <2>1. spk.type = "p2wpkh" \/ spk = P2wsh(spk.of)
    BY <1>1, Zenon DEF PrevoutsKnown
  <2>2. \A s : P2wsh(s).type = "p2wsh"
    BY DEF P2wsh
  <2>. QED
    BY <2>1, <2>2, Zenon
<1>3. sighash \in UsedSighashes[type]
  <2>1. OutpointOf(psbt[h], i) = Outpoint(in)
    BY <1>1 DEF OutpointOf
  <2>2. i <= Len(psbt[h].inputs)
    BY <1>1
  <2>. QED
    BY <1>1, <2>1, <2>2, Zenon DEF SighashesFor
<1>. HIDE DEF type
<1>4. sighash \in Sighashes /\ type \in DOMAIN UsedSighashes
  BY <1>2, <1>3, SighashesAssumption
<1>5. ASSUME NoSingleMoves, sighash.type = "SINGLE", sighash.acp PROVE FALSE
  <2>1. sighash = Sighash("SINGLE", TRUE)
    BY <1>4, <1>5 DEF Sighashes, Sighash
  <2>. QED
    BY <1>3, <1>4, <1>5, <2>1 DEF NoSingleMoves
<1>. QED
  BY <1>4, <1>5

LEMMA DescribesSound ==
    ASSUME PrevoutsKnown, SoundInv, NEW h \in Handles, Describe(h)
    PROVE  SoundInv'
<1>1. ASSUME NEW i, SetWitnessUtxo(h, i) PROVE SoundInv'
  <2>1. Sound(psbt[h]) /\ i \in 1..Len(psbt[h].inputs)
    BY <1>1 DEF SetWitnessUtxo, SoundInv, Sound, Inputs
  <2>. QED
    BY <1>1, <2>1, DescribeSound, UpdateSound DEF SetWitnessUtxo
<1>2. ASSUME NEW i, NEW script \in WitnessScripts, SetWitnessScript(h, i, script)
      PROVE  SoundInv'
  <2>1. Sound(psbt[h]) /\ i \in 1..Len(psbt[h].inputs)
    BY <1>2 DEF SetWitnessScript, SoundInv, Sound, Inputs
  <2>. QED
    BY <1>2, <2>1, DescribeSound, UpdateSound DEF SetWitnessScript
<1>3. ASSUME NEW i, NEW k \in Keys, AddKeypath(h, i, k) PROVE SoundInv'
  <2>1. Sound(psbt[h]) /\ i \in 1..Len(psbt[h].inputs)
    BY <1>3 DEF AddKeypath, SoundInv, Sound, Inputs
  <2>2. Update(h, [psbt[h] EXCEPT !.inputs[i].keypaths
                                    = psbt[h].inputs[i].keypaths \cup {k}])
    <3>1. psbt[h] \in PsbtSet /\ psbt[h].inputs \in Seq(InputSet)
          /\ psbt[h].inputs[i] \in InputSet
      BY <2>1, SoundTyped
    <3>2. Update(h, [psbt[h] EXCEPT !.inputs[i].keypaths = @ \cup {k}])
      BY <1>3 DEF AddKeypath
    <3>3. [psbt[h] EXCEPT !.inputs[i].keypaths = @ \cup {k}]
            = [psbt[h] EXCEPT !.inputs[i].keypaths = psbt[h].inputs[i].keypaths \cup {k}]
      BY Zenon
    <3>. QED
      BY <3>2, <3>3, Zenon
  <2>. QED
    BY <2>1, <2>2, DescribeSound, UpdateSound
<1>4. ASSUME NEW i, NEW sighash \in SighashesFor(h, i) \cup {None}, SetSighash(h, i, sighash)
      PROVE  SoundInv'
  <2>1. Sound(psbt[h]) /\ i \in 1..Len(psbt[h].inputs) /\ h \in Live
    BY <1>4 DEF SetSighash, SoundInv, Sound, Inputs
  <2>2. sighash \in Sighashes \cup {None}
    BY <2>1, SighashesForInput
  <2>. QED
    BY <1>4, <2>1, <2>2, DescribeSound, UpdateSound DEF SetSighash
<1>. QED
  BY <1>1, <1>2, <1>3, <1>4 DEF Describe

LEMMA SignsSound ==
    ASSUME PrevoutsKnown, NoSingleMoves, SoundInv, NEW h \in Handles, NEW i,
           NEW k \in Keys, NEW sighash \in SighashesFor(h, i),
           SignExternally(h, i, k, sighash)
    PROVE  SoundInv'
<1>1. Sound(psbt[h]) /\ i \in 1..Len(psbt[h].inputs) /\ h \in Live
  BY DEF SignExternally, SoundInv, Sound, Inputs
<1>2. sighash \in Sighashes /\ ~(sighash.type = "SINGLE" /\ sighash.acp)
  BY <1>1, SighashesForInput
<1>. QED
  BY <1>1, <1>2, SignSound, UpdateSound DEF SignExternally

LEMMA ReadySound == PrevoutsKnown /\ Versions = {2} /\ ReadyInit => SoundInv
<1>. SUFFICES ASSUME PrevoutsKnown, Versions = {2}, NEW h \in Handles, NEW tx \in Txs,
                     psbt = [g \in Handles |-> IF g = h THEN Described(FromTx(tx, 2))
                                                        ELSE None]
              PROVE  SoundInv
  BY DEF ReadyInit
<1>1. Sound(Described(FromTx(tx, 2)))
  BY StartsSound
<1>2. Described(FromTx(tx, 2)) \in PsbtSet /\ Typed(Described(FromTx(tx, 2)))
  BY <1>1 DEF Sound, Typed
<1>. QED
  BY <1>1, <1>2 DEF SoundInv, TypeInv, TypeOK, Live

LEMMA NextSound ==
    ASSUME PrevoutsKnown, NoSingleMoves, SoundInv, [SigningNext]_vars
    PROVE  SoundInv'
<1>1. CASE UNCHANGED vars
  BY <1>1 DEF vars, SoundInv, TypeInv, TypeOK, Live
<1>2. ASSUME NEW h \in Handles, ModifyTx(h) PROVE SoundInv'
  BY <1>2, ModifyTxSound
<1>3. ASSUME NEW h \in Handles, Describe(h) PROVE SoundInv'
  BY <1>3, DescribesSound
<1>4. ASSUME NEW h \in Handles, NEW i, NEW k \in Keys, NEW sighash \in SighashesFor(h, i),
             SignExternally(h, i, k, sighash)
      PROVE  SoundInv'
  BY <1>4, SignsSound
<1>. QED
  BY <1>1, <1>2, <1>3, <1>4 DEF SigningNext

LEMMA SoundSignaturesVerify == SoundInv => SignaturesVerify
<1>. SUFFICES ASSUME SoundInv, NEW h \in Live, NEW i \in Inputs(psbt[h]),
                     NEW k \in Signers(psbt[h].inputs[i])
              PROVE  Verifies(psbt[h], i, k)
  BY DEF SignaturesVerify
<1>1. Sound(psbt[h]) /\ i \in 1..Len(psbt[h].inputs)
  BY DEF SoundInv, Sound, Inputs
<1>2. Held(psbt[h], i, k)
  BY <1>1 DEF Sound
<1>3. psbt[h].inputs[i].sigs[k] # None
  BY DEF Signers
<1>. QED
  BY <1>2, <1>3, Zenon DEF Verifies, SigOk, Held, CodeOf

LEMMA SoundFlagsFollow == SoundInv => FlagsFollowSignatures
<1>. SUFFICES ASSUME SoundInv, NEW h \in Live, NEW i \in Inputs(psbt[h]),
                     NEW k \in Signers(psbt[h].inputs[i])
              PROVE  Locks(psbt[h].mods, psbt[h].inputs[i].sigs[k].hash.sighash)
  BY DEF FlagsFollowSignatures, SingleFlagIsSet, Locks
<1>1. Sound(psbt[h]) /\ i \in 1..Len(psbt[h].inputs)
  BY DEF SoundInv, Sound, Inputs
<1>2. Held(psbt[h], i, k)
  BY <1>1 DEF Sound
<1>. QED
  BY <1>2 DEF Held

(* A signature of a version 2 PSBT is one of the transaction as it is,     *)
(* whatever the constructors added and removed before and after it, and in *)
(* whatever order the inputs were described: the flags that                *)
(* wally_psbt_add_input_signature clears keep what it commits to.          *)
THEOREM SignaturesStayGood ==
    ASSUME PrevoutsKnown, NoSingleMoves, Versions = {2}
    PROVE  SigningSpec => []SignaturesVerify
  BY ReadySound, NextSound, SoundSignaturesVerify, PTL DEF SigningSpec

(* What is flagged as modifiable is covered by no signature, and a SINGLE  *)
(* signature is flagged, for any sequence of calls.                        *)
THEOREM FlagsStayTrue ==
    ASSUME PrevoutsKnown, NoSingleMoves, Versions = {2}
    PROVE  SigningSpec => []FlagsFollowSignatures
  BY ReadySound, NextSound, SoundFlagsFollow, PTL DEF SigningSpec

-----------------------------------------------------------------------------
(* The signing cache.                                                      *)

(* What a key of the cache stands for while s is signed.                   *)
Meant(s, annexes, key) ==
    CASE key[1] = "PREVOUTS"             -> ShaPrevouts(s, key[2]).data
      [] key[1] = "SEQUENCES"            -> ShaSequences(s, key[2]).data
      [] key[1] = "OUTPUTS"              -> ShaOutputs(s, key[2]).data
      [] key[1] = "AMOUNTS"              -> ShaAmounts(s).data
      [] key[1] = "SCRIPTPUBKEYS"        -> ShaScriptPubkeys(s).data
      [] key[1] = "ISSUANCES"            -> ShaIssuances(s, key[2]).data
      [] key[1] = "ISSUANCE_RANGEPROOFS" -> ShaIssuanceRangeproofs(s).data
      [] key[1] = "OUTPOINT_FLAGS"       -> ShaOutpointFlags(s).data
      [] key[1] = "OUTPUT_WITNESSES"     -> ShaOutputWitnesses(s, key[2]).data
      [] key[1] = "TAPSIGHASH_CTX"       -> TapSighashCtx(s).data
      [] key[1] = "bytes" -> IF key[2] \in annexes THEN ShaAnnex(key[2]).data
                             ELSE TapleafHash(key[2]).data

Annexes(requests) ==
    {r.annex : r \in {q \in requests : q.type = "SW_V1"}} \ {None}

(* A message all of whose cached pieces are what their keys stand for.     *)
Means(s, annexes, piece) ==
    piece.key = None \/ piece.data = Meant(s, annexes, piece.key)
Meaning(s, annexes, pieces) ==
    \E S : pieces \in Seq(S) /\ \A piece \in S : Means(s, annexes, piece)

-----------------------------------------------------------------------------
(* The pieces.                                                             *)

(* What is not cached.                                                     *)
LEMMA DatumMeans ==
    ASSUME NEW s, NEW annexes
    PROVE  /\ \A name, x : Means(s, annexes, Datum(name, x))
           /\ \A name, d, x : Means(s, annexes, Sha(name, d, x))
           /\ \A name : Means(s, annexes, Zero(name))
  BY DEF Means, Datum, Sha, Zero

(* What is cached under a key of its own.                                  *)
LEMMA SharedMeans ==
    ASSUME NEW s, NEW annexes, NEW d \in BOOLEAN
    PROVE  /\ Means(s, annexes, ShaPrevouts(s, d))
           /\ Means(s, annexes, ShaSequences(s, d))
           /\ Means(s, annexes, ShaOutputs(s, d))
           /\ Means(s, annexes, ShaAmounts(s))
           /\ Means(s, annexes, ShaScriptPubkeys(s))
           /\ Means(s, annexes, ShaIssuances(s, d))
           /\ Means(s, annexes, ShaIssuanceRangeproofs(s))
           /\ Means(s, annexes, ShaOutpointFlags(s))
           /\ ~d => Means(s, annexes, ShaOutputWitnesses(s, d))
           /\ Means(s, annexes, TapSighashCtx(s))
<1>1. Means(s, annexes, ShaPrevouts(s, d))
  <2>1. ShaPrevouts(s, d).key = <<"PREVOUTS", d>>
    BY DEF ShaPrevouts, Shared, Cached
  <2>. QED
    BY <2>1 DEF Means, Meant
<1>2. Means(s, annexes, ShaSequences(s, d))
  <2>1. ShaSequences(s, d).key = <<"SEQUENCES", d>>
    BY DEF ShaSequences, Shared, Cached
  <2>. QED
    BY <2>1 DEF Means, Meant
<1>3. Means(s, annexes, ShaOutputs(s, d))
  <2>1. ShaOutputs(s, d).key = <<"OUTPUTS", d>>
    BY DEF ShaOutputs, Shared, Cached
  <2>. QED
    BY <2>1 DEF Means, Meant
<1>4. Means(s, annexes, ShaAmounts(s))
  <2>1. ShaAmounts(s).key = <<"AMOUNTS", FALSE>>
    BY DEF ShaAmounts, Shared, Cached
  <2>. QED
    BY <2>1 DEF Means, Meant
<1>5. Means(s, annexes, ShaScriptPubkeys(s))
  <2>1. ShaScriptPubkeys(s).key = <<"SCRIPTPUBKEYS", FALSE>>
    BY DEF ShaScriptPubkeys, Shared, Cached
  <2>. QED
    BY <2>1 DEF Means, Meant
<1>6. Means(s, annexes, ShaIssuances(s, d))
  <2>1. ShaIssuances(s, d).key = <<"ISSUANCES", d>>
    BY DEF ShaIssuances, Shared, Cached
  <2>. QED
    BY <2>1 DEF Means, Meant
<1>7. Means(s, annexes, ShaIssuanceRangeproofs(s))
  <2>1. ShaIssuanceRangeproofs(s).key = <<"ISSUANCE_RANGEPROOFS", FALSE>>
    BY DEF ShaIssuanceRangeproofs, Shared, Cached
  <2>. QED
    BY <2>1 DEF Means, Meant
<1>8. Means(s, annexes, ShaOutpointFlags(s))
  <2>1. ShaOutpointFlags(s).key = <<"OUTPOINT_FLAGS", FALSE>>
    BY DEF ShaOutpointFlags, Shared, Cached
  <2>. QED
    BY <2>1 DEF Means, Meant
<1>9. ~d => Means(s, annexes, ShaOutputWitnesses(s, d))
  <2>1. ~d => ShaOutputWitnesses(s, d).key = <<"OUTPUT_WITNESSES", d>>
    BY DEF ShaOutputWitnesses, Cached
  <2>. QED
    BY <2>1 DEF Means, Meant
<1>10. Means(s, annexes, TapSighashCtx(s))
  <2>1. TapSighashCtx(s).key = <<"TAPSIGHASH_CTX", FALSE>>
    BY DEF TapSighashCtx, Cached
  <2>. QED
    BY <2>1 DEF Means, Meant
<1>. QED
  BY <1>1, <1>2, <1>3, <1>4, <1>5, <1>6, <1>7, <1>8, <1>9, <1>10

(* The annex and the leaf script share their keys, which is why no annex   *)
(* may be a leaf script.                                                   *)
LEMMA BytesMean ==
    ASSUME NEW s, NEW annexes, NEW x
    PROVE  /\ x \in annexes => Means(s, annexes, ShaAnnex(x))
           /\ x \notin annexes => Means(s, annexes, TapleafHash(x))
<1>1. ShaAnnex(x).key = <<"bytes", x>> /\ TapleafHash(x).key = <<"bytes", x>>
  BY DEF ShaAnnex, TapleafHash, Cached
<1>. QED
  BY <1>1 DEF Means, Meant

-----------------------------------------------------------------------------
(* The messages.                                                           *)

LEMMA JoinedMean ==
    ASSUME NEW s, NEW annexes, NEW a, NEW b,
           Meaning(s, annexes, a), Meaning(s, annexes, b)
    PROVE  Meaning(s, annexes, a \o b)
<1>1. PICK S : a \in Seq(S) /\ \A piece \in S : Means(s, annexes, piece)
  BY DEF Meaning
<1>2. PICK T : b \in Seq(T) /\ \A piece \in T : Means(s, annexes, piece)
  BY DEF Meaning
<1>3. a \in Seq(S \cup T) /\ b \in Seq(S \cup T)
  BY <1>1, <1>2
<1>4. a \o b \in Seq(S \cup T)
  BY <1>3, ConcatProperties
<1>. QED
  BY <1>1, <1>2, <1>4 DEF Meaning

LEMMA AllMean ==
    ASSUME NEW s, NEW annexes, NEW S, \A piece \in S : Means(s, annexes, piece)
    PROVE  \A pieces \in Seq(S) : Meaning(s, annexes, pieces)
  BY DEF Meaning

LEMMA TuplesMean ==
    ASSUME NEW s, NEW annexes
    PROVE  /\ Meaning(s, annexes, <<>>)
           /\ \A p :
              Means(s, annexes, p)
              => Meaning(s, annexes, <<p>>)
           /\ \A p, q :
              Means(s, annexes, p) /\ Means(s, annexes, q)
              => Meaning(s, annexes, <<p, q>>)
           /\ \A p, q, r :
              Means(s, annexes, p) /\ Means(s, annexes, q) /\ Means(s, annexes, r)
              => Meaning(s, annexes, <<p, q, r>>)
           /\ \A p, q, r, t :
              Means(s, annexes, p) /\ Means(s, annexes, q) /\ Means(s, annexes, r)
              /\ Means(s, annexes, t)
              => Meaning(s, annexes, <<p, q, r, t>>)
           /\ \A p, q, r, t, u :
              Means(s, annexes, p) /\ Means(s, annexes, q) /\ Means(s, annexes, r)
              /\ Means(s, annexes, t) /\ Means(s, annexes, u)
              => Meaning(s, annexes, <<p, q, r, t, u>>)
<1>1. Meaning(s, annexes, <<>>)
  <2>. DEFINE S == {}
  <2>1. <<>> \in Seq(S) /\ \A piece \in S : Means(s, annexes, piece)
    OBVIOUS
  <2>. HIDE DEF S
  <2>. QED
    BY <2>1, AllMean
<1>2. ASSUME NEW p, Means(s, annexes, p)
      PROVE  Meaning(s, annexes, <<p>>)
  <2>. DEFINE S == {p}
  <2>1. <<p>> \in Seq(S) /\ \A piece \in S : Means(s, annexes, piece)
    BY <1>2
  <2>. HIDE DEF S
  <2>. QED
    BY <2>1, AllMean
<1>3. ASSUME NEW p, NEW q, Means(s, annexes, p), Means(s, annexes, q)
      PROVE  Meaning(s, annexes, <<p, q>>)
  <2>. DEFINE S == {p, q}
  <2>1. <<p, q>> \in Seq(S) /\ \A piece \in S : Means(s, annexes, piece)
    BY <1>3
  <2>. HIDE DEF S
  <2>. QED
    BY <2>1, AllMean
<1>4. ASSUME NEW p, NEW q, NEW r, Means(s, annexes, p), Means(s, annexes, q), Means(s, annexes, r)
      PROVE  Meaning(s, annexes, <<p, q, r>>)
  <2>. DEFINE S == {p, q, r}
  <2>1. <<p, q, r>> \in Seq(S) /\ \A piece \in S : Means(s, annexes, piece)
    BY <1>4
  <2>. HIDE DEF S
  <2>. QED
    BY <2>1, AllMean
<1>5. ASSUME NEW p, NEW q, NEW r, NEW t, Means(s, annexes, p), Means(s, annexes, q), Means(s, annexes, r),
              Means(s, annexes, t)
      PROVE  Meaning(s, annexes, <<p, q, r, t>>)
  <2>. DEFINE S == {p, q, r, t}
  <2>1. <<p, q, r, t>> \in Seq(S) /\ \A piece \in S : Means(s, annexes, piece)
    BY <1>5
  <2>. HIDE DEF S
  <2>. QED
    BY <2>1, AllMean
<1>6. ASSUME NEW p, NEW q, NEW r, NEW t, NEW u, Means(s, annexes, p), Means(s, annexes, q), Means(s, annexes, r),
              Means(s, annexes, t), Means(s, annexes, u)
      PROVE  Meaning(s, annexes, <<p, q, r, t, u>>)
  <2>. DEFINE S == {p, q, r, t, u}
  <2>1. <<p, q, r, t, u>> \in Seq(S) /\ \A piece \in S : Means(s, annexes, piece)
    BY <1>6
  <2>. HIDE DEF S
  <2>. QED
    BY <2>1, AllMean
<1>. QED
  BY <1>1, <1>2, <1>3, <1>4, <1>5, <1>6

LEMMA OptionalMean ==
    ASSUME NEW s, NEW annexes, NEW c, NEW a, c => Meaning(s, annexes, a)
    PROVE  Meaning(s, annexes, Opt(c, a))
<1>1. Means(s, annexes, Datum("none", None))
  BY DatumMeans
<1>. QED
  BY <1>1, TuplesMean DEF Opt

LEMMA LegacyMeans ==
    ASSUME NEW s, NEW annexes, NEW r
    PROVE  Meaning(s, annexes, LegacyMessage(s, r))
<1>1. Meaning(s, annexes, <<Datum("hash", 1)>>)
  BY DatumMeans, TuplesMean
<1>2. \A v, inputs, outputs, t, h :
        Meaning(s, annexes, <<Datum("version", v), Datum("inputs", inputs),
            Datum("outputs", outputs), Datum("locktime", t), Datum("sighash", h)>>)
  BY DatumMeans, TuplesMean
<1>. QED
  BY <1>1, <1>2 DEF LegacyMessage, Each

LEMMA Bip143Means ==
    ASSUME NEW s, NEW annexes, NEW r, r.sighash.bit6 => IsNone(r) \/ Singles(r)
    PROVE  Meaning(s, annexes, Bip143Message(s, r))
<1>. DEFINE own == s.tx.inputs[r.i]
            nothing == IsNone(r) \/ (Singles(r) /\ ~InRange(s, r))
            prevouts == IF IsAcp(r) THEN Zero("PREVOUTS") ELSE ShaPrevouts(s, TRUE)
            sequences == IF IsAcp(r) \/ Singles(r) \/ IsNone(r) THEN Zero("SEQUENCES")
                         ELSE ShaSequences(s, TRUE)
            issuances == IF IsAcp(r) THEN Zero("ISSUANCES") ELSE ShaIssuances(s, TRUE)
            outputs == IF nothing THEN Zero("OUTPUTS")
                       ELSE IF Singles(r) THEN SingleOutput(s, r, TRUE)
                       ELSE ShaOutputs(s, TRUE)
            witnesses == IF nothing THEN Zero("OUTPUT_WITNESSES")
                         ELSE IF Singles(r) THEN SingleWitness(s, r, TRUE)
                         ELSE ShaOutputWitnesses(s, TRUE)
            head == <<Datum("version", s.tx.version), prevouts, sequences>>
            middle == <<Datum("outpoint", Outpoint(own)), Datum("script", r.script),
                        Datum("satoshi", s.utxos[r.i].satoshi),
                        Datum("sequence", own.sequence)>>
            issuance == <<Datum("issuance", IssuanceData(s.issuances[r.i]))>>
            tail == <<Datum("locktime", s.tx.locktime), Datum("sighash", r.sighash)>>
<1>1. Bip143Message(s, r) =
        head \o Opt(s.elements, <<issuances>>) \o middle
        \o Opt(s.issuances[r.i] # None, issuance) \o <<outputs>>
        \o Opt(r.sighash.bit6, <<witnesses>>) \o tail
  BY DEF Bip143Message
<1>2. Means(s, annexes, prevouts) /\ Means(s, annexes, sequences)
      /\ Means(s, annexes, issuances) /\ Means(s, annexes, outputs)
  BY DatumMeans, SharedMeans DEF SingleOutput
<1>3. r.sighash.bit6 => Means(s, annexes, witnesses)
  BY DatumMeans DEF SingleWitness
<1>4. Meaning(s, annexes, head)
  BY <1>2, DatumMeans, TuplesMean
<1>5. Meaning(s, annexes, middle)
  BY DatumMeans, TuplesMean
<1>6. Meaning(s, annexes, issuance) /\ Meaning(s, annexes, tail)
  BY DatumMeans, TuplesMean
<1>7. /\ Meaning(s, annexes, <<issuances>>) /\ Meaning(s, annexes, <<outputs>>)
      /\ r.sighash.bit6 => Meaning(s, annexes, <<witnesses>>)
  BY <1>2, <1>3, TuplesMean
<1>. HIDE DEF head, middle, issuance, tail, prevouts, sequences, issuances, outputs,
             witnesses
<1>8. /\ Meaning(s, annexes, Opt(s.elements, <<issuances>>))
      /\ Meaning(s, annexes, Opt(s.issuances[r.i] # None, issuance))
      /\ Meaning(s, annexes, Opt(r.sighash.bit6, <<witnesses>>))
  BY <1>6, <1>7, OptionalMean
<1>. QED
  BY <1>1, <1>4, <1>5, <1>6, <1>7, <1>8, JoinedMean

(* OwnInput is data of one input, which is never cached.                   *)
LEMMA OwnInputMeans ==
    ASSUME NEW s, NEW annexes, NEW r
    PROVE  Meaning(s, annexes, OwnInput(s, r))
<1>. DEFINE in == s.tx.inputs[r.i]
            issuance == s.issuances[r.i]
            flag == Opt(IsAcp(r) /\ s.elements, <<Datum("flag", issuance # None)>>)
            outpoint == Opt(IsAcp(r), <<Datum("outpoint", Outpoint(in))>>)
            output == <<Datum("satoshi", s.utxos[r.i].satoshi),
                        Datum("scriptpubkey", s.utxos[r.i].script),
                        Datum("sequence", in.sequence)>>
            data == Opt(s.elements, <<Datum("issuance", IssuanceData(issuance))>>)
            proof == Opt(issuance # None,
                       <<Sha("ISSUANCE_RANGEPROOFS", FALSE, <<IssuanceProof(issuance)>>)>>)
<1>1. OwnInput(s, r) =
        IF IsApoas(r) THEN <<Datum("sequence", in.sequence)>>
        ELSE IF IsAcp(r) \/ IsApo(r)
        THEN flag \o outpoint \o output \o data \o proof
        ELSE <<Datum("index", r.i)>>
  BY DEF OwnInput
<1>2. /\ Meaning(s, annexes, <<Datum("sequence", in.sequence)>>)
      /\ Meaning(s, annexes, <<Datum("index", r.i)>>)
      /\ Meaning(s, annexes, output)
  BY DatumMeans, TuplesMean
<1>3. /\ Meaning(s, annexes, <<Datum("flag", issuance # None)>>)
      /\ Meaning(s, annexes, <<Datum("outpoint", Outpoint(in))>>)
      /\ Meaning(s, annexes, <<Datum("issuance", IssuanceData(issuance))>>)
      /\ Meaning(s, annexes,
           <<Sha("ISSUANCE_RANGEPROOFS", FALSE, <<IssuanceProof(issuance)>>)>>)
  BY DatumMeans, TuplesMean
<1>4. /\ Meaning(s, annexes, flag) /\ Meaning(s, annexes, outpoint)
      /\ Meaning(s, annexes, data) /\ Meaning(s, annexes, proof)
  BY <1>3, OptionalMean
<1>. HIDE DEF flag, outpoint, output, data, proof
<1>. QED
  BY <1>1, <1>2, <1>4, JoinedMean

LEMMA Bip341Means ==
    ASSUME NEW s, NEW annexes, NEW r,
           r.annex # None => r.annex \in annexes,
           r.script # None => r.script \notin annexes
    PROVE  Meaning(s, annexes, Bip341Message(s, r))
<1>. DEFINE all == ~IsAcp(r) /\ ~IsApo(r)
            allOutputs == ~IsNone(r) /\ ~Singles(r)
            head == <<TapSighashCtx(s), Datum("sighash", r.sighash),
                      Datum("version", s.tx.version), Datum("locktime", s.tx.locktime)>>
            inputs == <<ShaPrevouts(s, FALSE), ShaAmounts(s), ShaScriptPubkeys(s),
                        ShaSequences(s, FALSE)>>
            issuances == <<ShaIssuances(s, FALSE), ShaIssuanceRangeproofs(s)>>
            spend == <<Datum("spend_type", <<r.script # None, r.annex # None>>)>>
            flags == Opt(s.elements /\ ~IsAcp(r), <<ShaOutpointFlags(s)>>)
            outputs == Opt(allOutputs, <<ShaOutputs(s, FALSE)>>)
            witnesses == Opt(allOutputs /\ s.elements, <<ShaOutputWitnesses(s, FALSE)>>)
            annex == Opt(r.annex # None, <<ShaAnnex(r.annex)>>)
            single == Opt(Singles(r), <<SingleOutput(s, r, FALSE)>>)
            witness == Opt(Singles(r) /\ s.elements, <<SingleWitness(s, r, FALSE)>>)
            tapleaf == Opt(r.script # None /\ ~IsApoas(r), <<TapleafHash(r.script)>>)
            version == Opt(r.script # None, <<Datum("key_version", r.keyVersion)>>)
<1>1. Bip341Message(s, r) =
        head \o flags \o Opt(all, inputs) \o Opt(all /\ s.elements, issuances)
        \o outputs \o witnesses \o spend \o OwnInput(s, r) \o annex \o single
        \o witness \o tapleaf \o version
  BY DEF Bip341Message
<1>2. Meaning(s, annexes, head)
  BY DatumMeans, SharedMeans, TuplesMean
<1>3. \A d : d = FALSE => Means(s, annexes, ShaOutputWitnesses(s, d))
  BY SharedMeans
<1>4. Meaning(s, annexes, inputs)
  BY SharedMeans, TuplesMean
<1>5. Meaning(s, annexes, issuances)
  BY SharedMeans, TuplesMean
<1>6. Meaning(s, annexes, spend)
  BY DatumMeans, TuplesMean
<1>7. Meaning(s, annexes, flags) /\ Meaning(s, annexes, outputs)
  BY SharedMeans, TuplesMean, OptionalMean
<1>8. Meaning(s, annexes, witnesses)
  BY <1>3, TuplesMean, OptionalMean
<1>9. Meaning(s, annexes, annex)
  BY BytesMean, TuplesMean, OptionalMean
<1>10. Meaning(s, annexes, tapleaf)
  BY BytesMean, TuplesMean, OptionalMean
<1>11. Meaning(s, annexes, single) /\ Meaning(s, annexes, witness)
  BY DatumMeans, TuplesMean, OptionalMean DEF SingleOutput, SingleWitness
<1>12. Meaning(s, annexes, version)
  BY DatumMeans, TuplesMean, OptionalMean
<1>13. Meaning(s, annexes, Opt(all, inputs))
       /\ Meaning(s, annexes, Opt(all /\ s.elements, issuances))
  BY <1>4, <1>5, OptionalMean
<1>. HIDE DEF all, allOutputs, head, inputs, issuances, spend, flags, outputs, witnesses, annex,
             single, witness, tapleaf, version
<1>. QED
  BY <1>1, <1>2, <1>6, <1>7, <1>8, <1>9, <1>10, <1>11, <1>12, <1>13, OwnInputMeans,
     JoinedMean

-----------------------------------------------------------------------------
(* The invariant.                                                          *)

(* Every message of a request that is made is of such pieces.              *)
LEMMA MessagesMean ==
    ASSUME NEW s, NEW elements \in BOOLEAN, SeparateKeys(Requests[elements]),
           NEW r \in Requests[elements]
    PROVE  Meaning(s, Annexes(Requests[elements]), Message(s, r))
<1>. DEFINE annexes == Annexes(Requests[elements])
<1>1. CASE r.type = "PRE_SW"
  BY <1>1, LegacyMeans DEF Message
<1>2. CASE r.type = "SW_V0"
  <2>1. r.sighash.bit6 => IsNone(r) \/ Singles(r)
    BY <1>2 DEF SeparateKeys
  <2>. QED
    BY <1>2, <2>1, Bip143Means DEF Message
<1>3. CASE r.type = "SW_V1"
  <2>1. r.annex # None => r.annex \in annexes
    BY <1>3 DEF Annexes
  <2>2. r.script # None => r.script \notin annexes
    BY <1>3 DEF Annexes, SeparateKeys
  <2>. QED
    BY <1>3, <2>1, <2>2, Bip341Means DEF Message
<1>. QED
  BY <1>1, <1>2, <1>3, RequestsAssumption

(* What is put in the cache is what the first piece with its key hashes.   *)
LEMMA FirstOfKey ==
    ASSUME NEW s, NEW annexes, NEW pieces, Meaning(s, annexes, pieces),
           NEW n \in 1..Len(pieces), pieces[n].key # None
    PROVE  First(pieces, pieces[n].key).data = Meant(s, annexes, pieces[n].key)
<1>. DEFINE key == pieces[n].key
            T == {m \in 1..Len(pieces) : pieces[m].key = key}
<1>1. PICK S : pieces \in Seq(S) /\ \A piece \in S : Means(s, annexes, piece)
  BY DEF Meaning
<1>2. Len(pieces) \in Nat /\ \A m \in 1..Len(pieces) : Means(s, annexes, pieces[m])
  BY <1>1
<1>3. T \subseteq Nat /\ T # {}
  BY <1>2
<1>4. PICK m \in T : \A k \in T : m <= k
  BY <1>3, Totals!LeastNatural, Zenon
<1>5. \A k \in 1..(m - 1) : pieces[k].key # key
  BY <1>2, <1>4
<1>6. \E k \in 1..Len(pieces) :
        pieces[k].key = key /\ \A j \in 1..(k - 1) : pieces[j].key # key
  BY <1>4, <1>5
<1>7. PICK k \in 1..Len(pieces) : First(pieces, key) = pieces[k] /\ pieces[k].key = key
  BY <1>6 DEF First
<1>. QED
  BY <1>2, <1>7 DEF Means

CacheHoldsMeant ==
    cache # None /\ ~modified => \A key \in DOMAIN cache :
        cache[key] = Meant(subject, Annexes(Requests[subject.elements]), key)

CacheInv ==
    /\ "elements" \in DOMAIN subject /\ subject.elements \in BOOLEAN
    /\ CacheHoldsMeant

LEMMA CacheInvIsTransparent ==
    ASSUME \A elements \in BOOLEAN : SeparateKeys(Requests[elements]), CacheInv
    PROVE  CacheIsTransparent
<1>. SUFFICES ASSUME ~modified, NEW r \in Requests[subject.elements]
              PROVE  Hashed(cache, Message(subject, r)) = Uncached(Message(subject, r))
  BY DEF CacheIsTransparent
<1>. DEFINE annexes == Annexes(Requests[subject.elements])
            pieces == Message(subject, r)
<1>1. Meaning(subject, annexes, pieces)
  BY MessagesMean DEF CacheInv
<1>. HIDE DEF pieces
<1>. SUFFICES ASSUME NEW n \in 1..Len(pieces)
              PROVE  HashedPiece(cache, pieces, n) = pieces[n].data
  BY DEF Hashed, Uncached, pieces
<1>2. Means(subject, annexes, pieces[n])
  BY <1>1 DEF Meaning
<1>. QED
  BY <1>1, <1>2, FirstOfKey DEF HashedPiece, CacheInv, CacheHoldsMeant, Means

LEMMA CacheStarts == Init => CacheInv
  BY SubjectsAssumption DEF Init, CacheInv, CacheHoldsMeant

LEMMA HashingKeepsCache ==
    ASSUME \A elements \in BOOLEAN : SeparateKeys(Requests[elements]), CacheInv,
           NEW r \in Requests[subject.elements], GetHash(r)
    PROVE  CacheInv'
<1>. DEFINE annexes == Annexes(Requests[subject.elements])
            pieces == Message(subject, r)
<1>1. Meaning(subject, annexes, pieces)
  BY MessagesMean DEF CacheInv
<1>2. cache' = Filled(cache, pieces) /\ subject' = subject /\ modified' = modified
      /\ (cache = None \/ ~modified)
  BY DEF GetHash
<1>. HIDE DEF pieces
<1>3. CASE cache = None
  BY <1>2, <1>3 DEF Filled, CacheInv, CacheHoldsMeant
<1>4. CASE cache # None
  <2>. DEFINE keys == {pieces[n].key : n \in 1..Len(pieces)} \ {None}
  <2>1. cache' = [key \in DOMAIN cache \cup keys |->
                    IF key \in DOMAIN cache THEN cache[key] ELSE First(pieces, key).data]
    BY <1>2, <1>4 DEF Filled
  <2>2. \A key \in keys : First(pieces, key).data = Meant(subject, annexes, key)
    BY <1>1, FirstOfKey
  <2>3. \A key \in DOMAIN cache : cache[key] = Meant(subject, annexes, key)
    BY <1>2, <1>4 DEF CacheInv, CacheHoldsMeant
  <2>4. \A key \in DOMAIN cache' : cache'[key] = Meant(subject, annexes, key)
    BY <2>1, <2>2, <2>3
  <2>. QED
    BY <1>2, <2>4 DEF CacheInv, CacheHoldsMeant
<1>. QED
  BY <1>3, <1>4

(* A change leaves Bitcoin and Elements apart, and a cache that callers    *)
(* may not use before they enable it again.                                *)
LEMMA ChangesKeepCache ==
    ASSUME NEW new, Change(new),
           "elements" \in DOMAIN new, new.elements \in BOOLEAN
    PROVE  CacheInv'
  BY DEF Change, CacheInv, CacheHoldsMeant

LEMMA ModifyKeepsCache ==
    ASSUME CacheInv, NEW n, Modify(n)
    PROVE  CacheInv'
<1>. USE DEF CacheInv
<1>1. CASE Change([subject EXCEPT !.tx.locktime = n])
  BY <1>1, ChangesKeepCache
<1>2. ASSUME NEW i, Change([subject EXCEPT !.tx.inputs[i].sequence = n])
      PROVE  CacheInv'
  BY <1>2, ChangesKeepCache
<1>3. ASSUME NEW i, Change([subject EXCEPT !.utxos[i].satoshi = n])
      PROVE  CacheInv'
  BY <1>3, ChangesKeepCache
<1>4. ASSUME NEW i, NEW x, Change([subject EXCEPT !.issuances[i] = x])
      PROVE  CacheInv'
  BY <1>4, ChangesKeepCache
<1>5. ASSUME NEW o, Change([subject EXCEPT !.tx.outputs[o].satoshi = n])
      PROVE  CacheInv'
  BY <1>5, ChangesKeepCache
<1>6. ASSUME NEW o, Change([subject EXCEPT !.proofs[o] = n])
      PROVE  CacheInv'
  BY <1>6, ChangesKeepCache
<1>. QED
  BY <1>1, <1>2, <1>3, <1>4, <1>5, <1>6, Zenon DEF Modify

LEMMA CacheKeeps ==
    ASSUME \A elements \in BOOLEAN : SeparateKeys(Requests[elements]),
           CacheInv, [Next]_cacheVars
    PROVE  CacheInv'
<1>1. CASE Enable
  BY <1>1 DEF Enable, CacheInv, CacheHoldsMeant
<1>2. CASE Disable
  BY <1>2 DEF Disable, CacheInv, CacheHoldsMeant
<1>3. ASSUME NEW r \in Requests[subject.elements], GetHash(r) PROVE CacheInv'
  BY <1>3, HashingKeepsCache
<1>4. ASSUME NEW n \in Numbers, Modify(n) PROVE CacheInv'
  BY <1>4, ModifyKeepsCache
<1>5. CASE SwapInputs
  BY <1>5, ChangesKeepCache DEF SwapInputs, CacheInv
<1>6. CASE UNCHANGED cacheVars
  BY <1>6 DEF cacheVars, CacheInv, CacheHoldsMeant
<1>. QED
  BY <1>1, <1>2, <1>3, <1>4, <1>5, <1>6 DEF Next

(* Whichever inputs of whatever transaction are hashed, for whichever      *)
(* signature versions and sighashes and in whatever order, the hash with   *)
(* the cache of src/tx_io.c is the one without it, provided that the       *)
(* requests give no two different hashes the same key.                     *)
THEOREM CacheTransparent ==
    ASSUME \A elements \in BOOLEAN : SeparateKeys(Requests[elements])
    PROVE  Spec => []CacheIsTransparent
<1>1. CacheInv /\ [Next]_cacheVars => CacheInv'
  BY CacheKeeps
<1>2. CacheInv => CacheIsTransparent
  BY CacheInvIsTransparent
<1>. QED
  BY <1>1, <1>2, CacheStarts, PTL DEF Spec
=============================================================================
