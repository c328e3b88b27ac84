--------------------------- MODULE TxFormatProofs ---------------------------
(***************************************************************************)
(* Proofs about TxFormat, TxParser and TxSerialization: whatever is in a   *)
(* transaction, it is as long as tx_get_lengths says; whatever is in       *)
(* bytes, tx_from_bytes reads what analyze_tx looked at; and what          *)
(* tx_to_bytes writes is read back, but no part of it that lacks the end.  *)
(***************************************************************************)
EXTENDS TxSerialization, SequenceTheorems, FiniteSetTheorems, TLAPS

-----------------------------------------------------------------------------
(* Sum and Joined go over the numbers of the items.                        *)

Item(f, i) == f[i]
After(x, y) == y + x
Behind(x, y) == y \o x
Sums == INSTANCE Folding WITH Op <- After, Base <- 0, Map <- Item, Choose <- Max
Joins == INSTANCE Folding WITH Op <- Behind, Base <- <<>>, Map <- Item, Choose <- Max

LEMMA MaxIsOneOfThem ==
    ASSUME NEW n \in Nat, NEW s \in SUBSET (1..n), s # {}
    PROVE  Max(s) \in s /\ \A i \in s : i <= Max(s)
<1>1. s \subseteq Nat /\ \A i \in s : i <= n
  OBVIOUS
<1>2. \E m \in s : \A i \in s : i <= m
  BY <1>1, Sums!GreatestNatural, Zenon
<1>3. \E m \in s : \A i \in s : m >= i
  BY <1>1, <1>2
<1>4. Max(s) \in s /\ \A i \in s : Max(s) >= i
  BY <1>3, Zenon DEF Max
<1>. QED
  BY <1>1, <1>4

LEMMA Numbers ==
    ASSUME NEW n \in Nat
    PROVE  /\ Sums!IsFiniteSet(1..n) /\ Sums!Chooses(1..n)
           /\ Joins!IsFiniteSet(1..n) /\ Joins!Chooses(1..n)
<1>1. IsFiniteSet(1..n)
  BY FS_Interval
<1>2. Sums!Chooses(1..n) /\ Joins!Chooses(1..n)
  BY MaxIsOneOfThem, Zenon DEF Sums!Chooses, Joins!Chooses
<1>. QED
  BY <1>1, <1>2, Zenon DEF IsFiniteSet, Sums!IsFiniteSet, Joins!IsFiniteSet

LEMMA LastNumber ==
    ASSUME NEW k \in Nat
    PROVE  Max(1..k + 1) = k + 1 /\ (1..k + 1) \ {k + 1} = 1..k /\ 1..k + 1 # {}
<1>1. k + 1 \in Nat /\ 1..k + 1 # {} /\ k + 1 \in 1..k + 1
  OBVIOUS
<1>2. Max(1..k + 1) \in 1..k + 1 /\ k + 1 <= Max(1..k + 1)
  BY <1>1, MaxIsOneOfThem, Zenon
<1>. QED
  BY <1>2

LEMMA SumGrows ==
    ASSUME NEW f, NEW k \in Nat
    PROVE  Sums!Fold(f, 1..k + 1) = Sums!Fold(f, 1..k) + f[k + 1]
<1>1. k + 1 \in Nat
  OBVIOUS
<1>2. Sums!IsFiniteSet(1..k + 1) /\ Sums!Chooses(1..k + 1)
  BY <1>1, Numbers
<1>3. Sums!Fold(f, 1..k + 1)
      = After(Item(f, Max(1..k + 1)), Sums!Fold(f, (1..k + 1) \ {Max(1..k + 1)}))
  BY <1>2, LastNumber, Sums!FoldUnfolds, Zenon
<1>. QED
  BY <1>3, LastNumber, Zenon DEF After, Item

LEMMA JoinedGrows ==
    ASSUME NEW f, NEW k \in Nat
    PROVE  Joins!Fold(f, 1..k + 1) = Joins!Fold(f, 1..k) \o f[k + 1]
<1>1. k + 1 \in Nat
  OBVIOUS
<1>2. Joins!IsFiniteSet(1..k + 1) /\ Joins!Chooses(1..k + 1)
  BY <1>1, Numbers
<1>3. Joins!Fold(f, 1..k + 1)
      = Behind(Item(f, Max(1..k + 1)), Joins!Fold(f, (1..k + 1) \ {Max(1..k + 1)}))
  BY <1>2, LastNumber, Joins!FoldUnfolds, Zenon
<1>. QED
  BY <1>3, LastNumber, Zenon DEF Behind, Item

LEMMA SumIsFold ==
    ASSUME NEW f PROVE Sum(f) = Sums!Fold(f, DOMAIN f)
BY DEF Sum, FoldLeft, MapThenFoldSet, Sums!Fold, Sums!MapThenFoldSet, After, Item

LEMMA JoinedIsFold ==
    ASSUME NEW f PROVE Joined(f) = Joins!Fold(f, DOMAIN f)
BY DEF Joined, FoldLeft, MapThenFoldSet, Joins!Fold, Joins!MapThenFoldSet, Behind, Item

LEMMA NoNumbers ==
    ASSUME NEW f PROVE Sums!Fold(f, 1..0) = 0 /\ Joins!Fold(f, 1..0) = <<>>
<1>1. 1..0 = {}
  OBVIOUS
<1>2. Sums!Fold(f, {}) = 0
  BY Sums!FoldNothing, Zenon
<1>3. Joins!Fold(f, {}) = <<>>
  BY Joins!FoldNothing, Zenon
<1>. QED
  BY <1>1, <1>2, <1>3

LEMMA LengthOfTwo ==
    ASSUME NEW a \in Buffers, NEW b \in Buffers
    PROVE  a \o b \in Buffers /\ Len(a \o b) = Len(a) + Len(b)
BY DEF Buffers

LEMMA SequenceOfLength ==
    ASSUME NEW S, NEW n \in Nat, NEW f \in [1..n -> S]
    PROVE  f \in Seq(S) /\ Len(f) = n /\ DOMAIN f = 1..n
BY SeqDef

LEMMA LengthIsNatural == \A bytes \in Buffers : Len(bytes) \in Nat
BY DEF Buffers

(* Pieces that are as long as was said are, joined, as long as the sum.    *)
LEMMA JoinedIsAsLong ==
    ASSUME NEW pieces, NEW lengths, NEW n \in Nat,
           DOMAIN pieces = 1..n, DOMAIN lengths = 1..n,
           \A i \in 1..n : pieces[i] \in Buffers /\ Len(pieces[i]) = lengths[i]
    PROVE  /\ Joined(pieces) \in Buffers
           /\ Len(Joined(pieces)) = Sum(lengths) /\ Sum(lengths) \in Nat
<1>. DEFINE J(k) == Joins!Fold(pieces, 1..k)
            S(k) == Sums!Fold(lengths, 1..k)
            Right(k) == J(k) \in Buffers /\ Len(J(k)) = S(k) /\ S(k) \in Nat
            N == {k \in Nat : k <= n => Right(k)}
<1>1. 0 \in N
  <2>1. <<>> \in Buffers /\ Len(<<>>) = 0
    BY DEF Buffers
  <2>2. J(0) = <<>> /\ S(0) = 0
    BY NoNumbers, Zenon
  <2>. HIDE DEF J, S
  <2>. QED
    BY <2>1, <2>2
<1>2. ASSUME NEW k \in Nat, k \in N PROVE k + 1 \in N
  <2>. SUFFICES ASSUME k + 1 <= n PROVE Right(k + 1)
    OBVIOUS
  <2>1. J(k + 1) = J(k) \o pieces[k + 1] /\ S(k + 1) = S(k) + lengths[k + 1]
    BY JoinedGrows, SumGrows, Zenon
  <2>2. k + 1 \in 1..n
    OBVIOUS
  <2>3. pieces[k + 1] \in Buffers /\ Len(pieces[k + 1]) = lengths[k + 1]
    BY <2>2
  <2>4. Right(k)
    BY <1>2
  <2>. HIDE DEF J, S
  <2>5. /\ J(k) \o pieces[k + 1] \in Buffers
        /\ Len(J(k) \o pieces[k + 1]) = Len(J(k)) + Len(pieces[k + 1])
    BY <2>3, <2>4, LengthOfTwo, Zenon
  <2>6. Len(pieces[k + 1]) \in Nat
    BY <2>3, LengthIsNatural
  <2>7. J(k + 1) \in Buffers /\ Len(J(k + 1)) = Len(J(k)) + Len(pieces[k + 1])
    BY <2>1, <2>5, Zenon
  <2>8. S(k + 1) = Len(J(k)) + Len(pieces[k + 1]) /\ S(k + 1) \in Nat
    BY <2>1, <2>3, <2>4, <2>6
  <2>. QED
    BY <2>7, <2>8
<1>. HIDE DEF N
<1>3. n \in N
  BY <1>1, <1>2, Sums!NaturalInduction
<1>4. Right(n)
  BY <1>3 DEF N
<1>5. Joined(pieces) = J(n) /\ Sum(lengths) = S(n)
  BY JoinedIsFold, SumIsFold
<1>. HIDE DEF J, S
<1>. QED
  BY <1>4, <1>5

-----------------------------------------------------------------------------
(* The parts of a transaction are as long as they are counted.             *)

LEMMA VarintLengthIsExact ==
    ASSUME NEW n \in Nat
    PROVE  VarintToBytes(n) \in Buffers /\ Len(VarintToBytes(n)) = VarintLength(n)
BY SizesAssumption DEF VarintToBytes, VarintLength, Buffers

LEMMA VarbuffLengthIsExact ==
    ASSUME NEW bytes \in Buffers
    PROVE  /\ VarbuffToBytes(bytes) \in Buffers
           /\ Len(VarbuffToBytes(bytes)) = VarbuffLength(bytes)
<1>1. /\ VarintToBytes(Len(bytes)) \in Buffers
      /\ Len(VarintToBytes(Len(bytes))) = VarintLength(Len(bytes))
  BY LengthIsNatural, VarintLengthIsExact
<1>. QED
  BY <1>1, LengthOfTwo DEF VarbuffToBytes, VarbuffLength

LEMMA CommitmentLengthIsExact ==
    ASSUME NEW explicit, NEW prefixes, NEW bytes \in Commitments(explicit, prefixes)
    PROVE  /\ CommitmentToBytes(bytes) \in Buffers
           /\ Len(CommitmentToBytes(bytes)) = CommitmentLength(bytes, explicit, prefixes)
<1>1. CASE bytes = <<>>
  BY <1>1 DEF CommitmentToBytes, CommitmentLength, EmptyPrefix, Buffers
<1>2. CASE bytes # <<>>
  BY <1>2 DEF CommitmentToBytes, Commitments
<1>. QED
  BY <1>1, <1>2

LEMMA StackLengthIsExact ==
    ASSUME NEW stack \in StackSet
    PROVE  /\ StackToBytes(stack) \in Buffers
           /\ Len(StackToBytes(stack)) = StackLength(stack)
<1>1. CASE stack = None
  BY <1>1 DEF StackToBytes, StackLength, Buffers
<1>2. CASE stack # None
  <2>. DEFINE pieces == Each(VarbuffToBytes, stack)
              lengths == Each(VarbuffLength, stack)
  <2>1. stack \in Seq(Buffers) /\ Len(stack) \in Nat /\ DOMAIN stack = 1..Len(stack)
    BY <1>2 DEF StackSet
  <2>2. DOMAIN pieces = 1..Len(stack) /\ DOMAIN lengths = 1..Len(stack)
    BY <2>1 DEF Each
  <2>3. ASSUME NEW i \in 1..Len(stack)
        PROVE  pieces[i] \in Buffers /\ Len(pieces[i]) = lengths[i]
    <3>1. stack[i] \in Buffers
      BY <2>1, ElementOfSeq
    <3>. QED
      BY <2>1, <3>1, VarbuffLengthIsExact DEF Each
  <2>. HIDE DEF pieces, lengths
  <2>4. Joined(pieces) \in Buffers /\ Len(Joined(pieces)) = Sum(lengths)
    BY <2>1, <2>2, <2>3, JoinedIsAsLong, Zenon
  <2>5. /\ VarintToBytes(Len(stack)) \in Buffers
        /\ Len(VarintToBytes(Len(stack))) = VarintLength(Len(stack))
    BY <2>1, VarintLengthIsExact
  <2>. QED
    BY <1>2, <2>4, <2>5, LengthOfTwo DEF StackToBytes, StackLength, Concat, Total, pieces, lengths
<1>. QED
  BY <1>1, <1>2

(* What tx_to_bytes writes of an input, issuance included, is as long as   *)
(* tx_get_lengths counts for it, in a buffer of that length.               *)
THEOREM InputLengthIsExact ==
    ASSUME NEW in \in InputSet
    PROVE  InputToBytes(in) \in Buffers /\ Len(InputToBytes(in)) = InputLength(in)
<1>. DEFINE script   == VarbuffToBytes(in.script)
            outpoint == <<in.txhash, IndexToByte(in)>>
            plain    == outpoint \o script \o <<in.sequence>>
            amount   == CommitmentToBytes(in.amount)
            keys     == CommitmentToBytes(in.keys)
<1>1. outpoint \in Buffers /\ Len(outpoint) = 2
  BY DEF InputSet, IndexToByte, IssuanceFlag, PeginFlag, Buffers
<1>2. script \in Buffers /\ Len(script) = VarbuffLength(in.script)
  BY VarbuffLengthIsExact DEF InputSet
<1>3. <<in.sequence>> \in Buffers /\ Len(<<in.sequence>>) = 1
  BY DEF InputSet, Buffers
<1>4. plain \in Buffers /\ Len(plain) = 3 + VarbuffLength(in.script)
  <2>1. outpoint \o script \in Buffers
        /\ Len(outpoint \o script) = 2 + VarbuffLength(in.script)
    BY <1>1, <1>2, LengthOfTwo
  <2>2. VarbuffLength(in.script) \in Int
    BY <1>2 DEF Buffers
  <2>. QED
    BY <2>1, <2>2, <1>3, LengthOfTwo
<1>5. /\ amount \in Buffers /\ Len(amount) = ValueLength(in.amount)
      /\ keys \in Buffers /\ Len(keys) = ValueLength(in.keys) /\ in.nonce \in Buffers
  BY CommitmentLengthIsExact DEF InputSet, ValueLength
<1>6. CASE "ISSUANCE" \in in.features
  <2>1. in.nonce \o amount \in Buffers
        /\ Len(in.nonce \o amount) = Len(in.nonce) + ValueLength(in.amount)
    BY <1>5, LengthOfTwo, Zenon
  <2>2. in.nonce \o amount \o keys \in Buffers
        /\ Len(in.nonce \o amount \o keys) = IssuanceLength(in)
    BY <2>1, <1>5, <1>6, LengthOfTwo, Zenon DEF IssuanceLength
  <2>3. plain \o (in.nonce \o amount \o keys) \in Buffers
        /\ Len(plain \o (in.nonce \o amount \o keys)) = InputLength(in)
    BY <2>2, <1>4, LengthOfTwo, Zenon DEF InputLength
  <2>. QED
    BY <2>3, <1>6, Zenon DEF InputToBytes
<1>7. CASE "ISSUANCE" \notin in.features
  <2>1. <<>> \in Buffers /\ Len(<<>>) = 0
    BY DEF Buffers
  <2>2. plain \o <<>> \in Buffers /\ Len(plain \o <<>>) = InputLength(in)
    <3>1. Len(plain) \in Int
      BY <1>4 DEF Buffers
    <3>. QED
      BY <2>1, <3>1, <1>4, <1>7, LengthOfTwo DEF InputLength, IssuanceLength
  <2>. QED
    BY <2>2, <1>7 DEF InputToBytes
<1>. QED
  BY <1>6, <1>7

(* The same of outputs, of Bitcoin and of Elements ...                     *)
THEOREM OutputLengthIsExact ==
    ASSUME NEW el \in BOOLEAN, NEW out \in OutputSet(el)
    PROVE  OutputToBytes(out) \in Buffers /\ Len(OutputToBytes(out)) = OutputLength(out)
<1>. DEFINE asset == CommitmentToBytes(out.asset)
            value == CommitmentToBytes(out.value)
            nonce == CommitmentToBytes(out.nonce)
            script == VarbuffToBytes(out.script)
<1>1. script \in Buffers /\ Len(script) = VarbuffLength(out.script)
  BY VarbuffLengthIsExact DEF OutputSet
<1>2. CASE el
  <2>1. asset \in Buffers /\ Len(asset) = CommitmentLength(out.asset, CtLen, AssetPrefixes)
    BY CommitmentLengthIsExact DEF OutputSet
  <2>2. value \in Buffers /\ Len(value) = ValueLength(out.value)
    BY CommitmentLengthIsExact DEF OutputSet, ValueLength
  <2>3. nonce \in Buffers /\ Len(nonce) = CommitmentLength(out.nonce, CtLen, NoncePrefixes)
    BY CommitmentLengthIsExact DEF OutputSet
  <2>4. /\ asset \o value \in Buffers
        /\ Len(asset \o value) = Len(asset) + Len(value)
    BY <2>1, <2>2, LengthOfTwo
  <2>5. /\ asset \o value \o nonce \in Buffers
        /\ Len(asset \o value \o nonce) = Len(asset) + Len(value) + Len(nonce)
    BY <2>3, <2>4, LengthOfTwo
  <2>6. /\ (asset \o value \o nonce) \o script \in Buffers
        /\ Len((asset \o value \o nonce) \o script)
            = Len(asset) + Len(value) + Len(nonce) + Len(script)
    BY <2>5, <1>1, LengthOfTwo
  <2>7. /\ Len(asset) \in Int /\ Len(value) \in Int
        /\ Len(nonce) \in Int /\ Len(script) \in Int
    BY <1>1, <2>1, <2>2, <2>3, LengthIsNatural
  <2>8. IsElementsPart(out)
    BY <1>2 DEF OutputSet, IsElementsPart, FeatureIf
  <2>9. Len((asset \o value \o nonce) \o script) = OutputLength(out)
    BY <1>1, <2>1, <2>2, <2>3, <2>6, <2>7, <2>8 DEF OutputLength
  <2>. QED
    BY <2>6, <2>8, <2>9 DEF OutputToBytes
<1>3. CASE ~el
  <2>1. <<out.satoshi>> \in Buffers /\ Len(<<out.satoshi>>) = 1
    BY <1>3 DEF OutputSet, Buffers
  <2>2. /\ <<out.satoshi>> \o script \in Buffers
        /\ Len(<<out.satoshi>> \o script) = 1 + Len(script) /\ Len(script) \in Int
    BY <2>1, <1>1, LengthOfTwo, LengthIsNatural
  <2>3. ~IsElementsPart(out)
    BY <1>3 DEF OutputSet, IsElementsPart, FeatureIf
  <2>. QED
    BY <1>1, <2>2, <2>3 DEF OutputToBytes, OutputLength
<1>. QED
  BY <1>2, <1>3

(* ... of an output's proofs in the witness ...                            *)
THEOREM ProofsLengthIsExact ==
    ASSUME NEW el \in BOOLEAN, NEW out \in OutputSet(el)
    PROVE  ProofsToBytes(out) \in Buffers /\ Len(ProofsToBytes(out)) = ProofsLength(out)
BY VarbuffLengthIsExact, LengthOfTwo DEF OutputSet, ProofsToBytes, ProofsLength

(* ... and of what a witness has for an input.                             *)
THEOREM InputWitnessLengthIsExact ==
    ASSUME NEW in \in InputSet
    PROVE  /\ InputWitnessToBytes(in) \in Buffers
           /\ Len(InputWitnessToBytes(in)) = InputWitnessLength(in)
<1>. DEFINE amount == VarbuffToBytes(in.amountproof)
            keys == VarbuffToBytes(in.keysproof)
            witness == StackToBytes(in.witness)
            pegin == StackToBytes(in.pegin)
<1>1. /\ amount \in Buffers /\ Len(amount) = VarbuffLength(in.amountproof)
      /\ keys \in Buffers /\ Len(keys) = VarbuffLength(in.keysproof)
  BY VarbuffLengthIsExact DEF InputSet
<1>2. /\ witness \in Buffers /\ Len(witness) = StackLength(in.witness)
      /\ pegin \in Buffers /\ Len(pegin) = StackLength(in.pegin)
  BY StackLengthIsExact DEF InputSet
<1>3. amount \o keys \in Buffers /\ Len(amount \o keys) = Len(amount) + Len(keys)
  BY <1>1, LengthOfTwo
<1>4. /\ amount \o keys \o witness \in Buffers
      /\ Len(amount \o keys \o witness) = Len(amount) + Len(keys) + Len(witness)
  BY <1>2, <1>3, LengthOfTwo
<1>5. /\ amount \o keys \o witness \o pegin \in Buffers
      /\ Len(amount \o keys \o witness \o pegin)
            = Len(amount) + Len(keys) + Len(witness) + Len(pegin)
  BY <1>2, <1>4, LengthOfTwo
<1>. QED
  BY <1>1, <1>2, <1>5 DEF InputWitnessToBytes, InputWitnessLength

-----------------------------------------------------------------------------
(* So is the whole of it.                                                  *)

Outputs == OutputSet(TRUE) \cup OutputSet(FALSE)

LEMMA InputsLength ==
    ASSUME NEW inputs \in Seq(InputSet)
    PROVE  /\ Concat(InputToBytes, inputs) \in Buffers
           /\ Len(Concat(InputToBytes, inputs)) = Total(InputLength, inputs)
           /\ Concat(InputWitnessToBytes, inputs) \in Buffers
           /\ Len(Concat(InputWitnessToBytes, inputs)) = Total(InputWitnessLength, inputs)
           /\ Concat(LAMBDA in : StackToBytes(in.witness), inputs) \in Buffers
           /\ Len(Concat(LAMBDA in : StackToBytes(in.witness), inputs))
                = Total(LAMBDA in : StackLength(in.witness), inputs)
<1>. DEFINE n == Len(inputs)
            a == Each(InputToBytes, inputs)
            b == Each(InputLength, inputs)
            c == Each(InputWitnessToBytes, inputs)
            d == Each(InputWitnessLength, inputs)
            e == Each(LAMBDA in : StackToBytes(in.witness), inputs)
            f == Each(LAMBDA in : StackLength(in.witness), inputs)
<1>1. n \in Nat /\ DOMAIN inputs = 1..n /\ \A i \in 1..n : inputs[i] \in InputSet
  BY ElementOfSeq
<1>2. /\ DOMAIN a = 1..n /\ DOMAIN b = 1..n /\ DOMAIN c = 1..n
      /\ DOMAIN d = 1..n /\ DOMAIN e = 1..n /\ DOMAIN f = 1..n
  BY <1>1 DEF Each
<1>3. ASSUME NEW i \in 1..n
      PROVE  /\ a[i] \in Buffers /\ Len(a[i]) = b[i]
             /\ c[i] \in Buffers /\ Len(c[i]) = d[i]
             /\ e[i] \in Buffers /\ Len(e[i]) = f[i]
  <2>1. inputs[i] \in InputSet
    BY <1>1
  <2>2. inputs[i].witness \in StackSet
    BY <2>1 DEF InputSet
  <2>3. /\ a[i] = InputToBytes(inputs[i]) /\ b[i] = InputLength(inputs[i])
        /\ c[i] = InputWitnessToBytes(inputs[i]) /\ d[i] = InputWitnessLength(inputs[i])
        /\ e[i] = StackToBytes(inputs[i].witness) /\ f[i] = StackLength(inputs[i].witness)
    BY <1>1 DEF Each
  <2>. HIDE DEF a, b, c, d, e, f
  <2>. QED
    BY <2>1, <2>2, <2>3, InputLengthIsExact, InputWitnessLengthIsExact, StackLengthIsExact
<1>. HIDE DEF n, a, b, c, d, e, f
<1>4. Joined(a) \in Buffers /\ Len(Joined(a)) = Sum(b)
  BY <1>1, <1>2, <1>3, JoinedIsAsLong, Zenon
<1>5. Joined(c) \in Buffers /\ Len(Joined(c)) = Sum(d)
  BY <1>1, <1>2, <1>3, JoinedIsAsLong, Zenon
<1>6. Joined(e) \in Buffers /\ Len(Joined(e)) = Sum(f)
  BY <1>1, <1>2, <1>3, JoinedIsAsLong, Zenon
<1>. QED
  BY <1>4, <1>5, <1>6 DEF Concat, Total, a, b, c, d, e, f

LEMMA OutputsLength ==
    ASSUME NEW outputs \in Seq(Outputs)
    PROVE  /\ Concat(OutputToBytes, outputs) \in Buffers
           /\ Len(Concat(OutputToBytes, outputs)) = Total(OutputLength, outputs)
           /\ Concat(ProofsToBytes, outputs) \in Buffers
           /\ Len(Concat(ProofsToBytes, outputs)) = Total(ProofsLength, outputs)
<1>. DEFINE n == Len(outputs)
            a == Each(OutputToBytes, outputs)
            b == Each(OutputLength, outputs)
            c == Each(ProofsToBytes, outputs)
            d == Each(ProofsLength, outputs)
<1>1. n \in Nat /\ DOMAIN outputs = 1..n /\ \A i \in 1..n : outputs[i] \in Outputs
  BY ElementOfSeq
<1>2. DOMAIN a = 1..n /\ DOMAIN b = 1..n /\ DOMAIN c = 1..n /\ DOMAIN d = 1..n
  BY <1>1 DEF Each
<1>3. ASSUME NEW i \in 1..n
      PROVE  /\ a[i] \in Buffers /\ Len(a[i]) = b[i]
             /\ c[i] \in Buffers /\ Len(c[i]) = d[i]
  <2>1. PICK el \in BOOLEAN : outputs[i] \in OutputSet(el)
    BY <1>1, Zenon DEF Outputs
  <2>2. /\ a[i] = OutputToBytes(outputs[i]) /\ b[i] = OutputLength(outputs[i])
        /\ c[i] = ProofsToBytes(outputs[i]) /\ d[i] = ProofsLength(outputs[i])
    BY <1>1 DEF Each
  <2>. HIDE DEF a, b, c, d
  <2>. QED
    BY <2>1, <2>2, OutputLengthIsExact, ProofsLengthIsExact
<1>. HIDE DEF n, a, b, c, d
<1>4. Joined(a) \in Buffers /\ Len(Joined(a)) = Sum(b)
  BY <1>1, <1>2, <1>3, JoinedIsAsLong, Zenon
<1>5. Joined(c) \in Buffers /\ Len(Joined(c)) = Sum(d)
  BY <1>1, <1>2, <1>3, JoinedIsAsLong, Zenon
<1>. QED
  BY <1>4, <1>5 DEF Concat, Total, a, b, c, d

(* All but the witness.                                                    *)
LEMMA ToBytesLength ==
    ASSUME NEW t \in TxSet, NEW flags
    PROVE  /\ ToBytes(t, flags) \in Buffers
           /\ BaseSize(t) \in Nat /\ WitnessSize(t) \in Nat
           /\ Len(ToBytes(t, flags))
                = BaseSize(t) + IF WritesWitness(t, flags) THEN WitnessSize(t) ELSE 0
<1>. DEFINE el == IsElements(t)
            witness == WritesWitness(t, flags)
            marker == CASE el -> <<IF witness THEN 1 ELSE 0>>
                        [] ~el /\ witness -> <<0, 1>>
                        [] OTHER -> <<>>
            ins == Concat(InputToBytes, t.inputs)
            outs == Concat(OutputToBytes, t.outputs)
            stacks == Concat(LAMBDA in : StackToBytes(in.witness), t.inputs)
            witnesses == Concat(InputWitnessToBytes, t.inputs)
            proofs == Concat(ProofsToBytes, t.outputs)
            before == IF witness /\ ~el THEN stacks ELSE <<>>
            behind == IF witness /\ el THEN witnesses \o proofs ELSE <<>>
            inCount == VarintToBytes(Len(t.inputs))
            outCount == VarintToBytes(Len(t.outputs))
<1>1. /\ t.inputs \in Seq(InputSet) /\ t.outputs \in Seq(Outputs)
      /\ t.version \in Nat /\ t.locktime \in Nat
  BY DEF TxSet, Outputs
<1>2. /\ ins \in Buffers /\ Len(ins) = Total(InputLength, t.inputs)
      /\ witnesses \in Buffers /\ Len(witnesses) = Total(InputWitnessLength, t.inputs)
      /\ stacks \in Buffers
      /\ Len(stacks) = Total(LAMBDA in : StackLength(in.witness), t.inputs)
  BY <1>1, InputsLength, Zenon
<1>3. /\ outs \in Buffers /\ Len(outs) = Total(OutputLength, t.outputs)
      /\ proofs \in Buffers /\ Len(proofs) = Total(ProofsLength, t.outputs)
  BY <1>1, OutputsLength
<1>4. /\ inCount \in Buffers /\ Len(inCount) = VarintLength(Len(t.inputs))
      /\ outCount \in Buffers /\ Len(outCount) = VarintLength(Len(t.outputs))
  <2>1. Len(t.inputs) \in Nat /\ Len(t.outputs) \in Nat
    BY <1>1
  <2>. QED
    BY <2>1, VarintLengthIsExact
<1>5. /\ <<t.version>> \in Buffers /\ Len(<<t.version>>) = 1
      /\ <<t.locktime>> \in Buffers /\ Len(<<t.locktime>>) = 1
      /\ <<>> \in Buffers /\ Len(<<>>) = 0
  BY <1>1 DEF Buffers
<1>6. /\ marker \in Buffers
      /\ Len(marker) = IF el THEN 1 ELSE IF witness THEN 2 ELSE 0
  BY DEF Buffers
<1>7. ToBytes(t, flags)
      = <<t.version>> \o marker \o inCount \o ins \o outCount \o outs \o before
        \o <<t.locktime>> \o behind
  BY DEF ToBytes
<1>8. /\ before \in Buffers
      /\ Len(before) = IF witness /\ ~el THEN Len(stacks) ELSE 0
  BY <1>2, <1>5
<1>9. /\ behind \in Buffers
      /\ Len(behind) = IF witness /\ el THEN Len(witnesses) + Len(proofs) ELSE 0
  <2>1. /\ witnesses \o proofs \in Buffers
        /\ Len(witnesses \o proofs) = Len(witnesses) + Len(proofs)
    BY <1>2, <1>3, LengthOfTwo, Zenon
  <2>. HIDE DEF witnesses, proofs, el, witness
  <2>. QED
    BY <1>5, <2>1
<1>10. witness => HasWitness(t)
  BY DEF WritesWitness
<1>11. /\ BaseSize(t) = 2 + (IF el THEN 1 ELSE 0) + Len(inCount) + Len(ins)
                        + Len(outCount) + Len(outs)
       /\ WitnessSize(t) = IF ~HasWitness(t) THEN 0
                           ELSE IF el THEN Len(witnesses) + Len(proofs)
                           ELSE 2 + Len(stacks)
  BY <1>2, <1>3, <1>4 DEF BaseSize, WitnessSize
<1>. HIDE DEF el, witness, marker, ins, outs, stacks, witnesses, proofs, before,
              behind, inCount, outCount
<1>12. /\ <<t.version>> \o marker \in Buffers
       /\ Len(<<t.version>> \o marker) = 1 + Len(marker)
  BY <1>5, <1>6, LengthOfTwo, Zenon
<1>13. /\ <<t.version>> \o marker \o inCount \in Buffers
       /\ Len(<<t.version>> \o marker \o inCount) = 1 + Len(marker) + Len(inCount)
  BY <1>4, <1>12, LengthOfTwo
<1>14. /\ <<t.version>> \o marker \o inCount \o ins \in Buffers
       /\ Len(<<t.version>> \o marker \o inCount \o ins)
            = 1 + Len(marker) + Len(inCount) + Len(ins)
  BY <1>2, <1>13, LengthOfTwo
<1>15. /\ <<t.version>> \o marker \o inCount \o ins \o outCount \in Buffers
       /\ Len(<<t.version>> \o marker \o inCount \o ins \o outCount)
            = 1 + Len(marker) + Len(inCount) + Len(ins) + Len(outCount)
  BY <1>4, <1>14, LengthOfTwo
<1>16. /\ <<t.version>> \o marker \o inCount \o ins \o outCount \o outs \in Buffers
       /\ Len(<<t.version>> \o marker \o inCount \o ins \o outCount \o outs)
            = 1 + Len(marker) + Len(inCount) + Len(ins) + Len(outCount) + Len(outs)
  BY <1>3, <1>15, LengthOfTwo
<1>17. /\ <<t.version>> \o marker \o inCount \o ins \o outCount \o outs \o before \in Buffers
       /\ Len(<<t.version>> \o marker \o inCount \o ins \o outCount \o outs \o before)
            = 1 + Len(marker) + Len(inCount) + Len(ins) + Len(outCount) + Len(outs)
              + Len(before)
  BY <1>8, <1>16, LengthOfTwo, Zenon
<1>18. /\ <<t.version>> \o marker \o inCount \o ins \o outCount \o outs \o before
          \o <<t.locktime>> \in Buffers
       /\ Len(<<t.version>> \o marker \o inCount \o ins \o outCount \o outs \o before
              \o <<t.locktime>>)
            = 1 + Len(marker) + Len(inCount) + Len(ins) + Len(outCount) + Len(outs)
              + Len(before) + 1
  BY <1>5, <1>17, LengthOfTwo
<1>19. /\ ToBytes(t, flags) \in Buffers
       /\ Len(ToBytes(t, flags))
            = 1 + Len(marker) + Len(inCount) + Len(ins) + Len(outCount) + Len(outs)
              + Len(before) + 1 + Len(behind)
  BY <1>7, <1>9, <1>18, LengthOfTwo, Zenon
<1>20. /\ Len(marker) \in Nat /\ Len(inCount) \in Nat /\ Len(ins) \in Nat
       /\ Len(outCount) \in Nat /\ Len(outs) \in Nat /\ Len(stacks) \in Nat
       /\ Len(witnesses) \in Nat /\ Len(proofs) \in Nat
  BY <1>2, <1>3, <1>4, <1>6, LengthIsNatural
<1>21. BaseSize(t) \in Nat /\ WitnessSize(t) \in Nat
  BY <1>11, <1>20
<1>22. Len(ToBytes(t, flags)) = BaseSize(t) + IF witness THEN WitnessSize(t) ELSE 0
  <2>1. CASE ~witness
    BY <1>6, <1>8, <1>9, <1>11, <1>19, <1>20, <1>21, <2>1
  <2>2. CASE witness /\ el
    BY <1>6, <1>8, <1>9, <1>10, <1>11, <1>19, <1>20, <2>2
  <2>3. CASE witness /\ ~el
    BY <1>6, <1>8, <1>9, <1>10, <1>11, <1>19, <1>20, <2>3
  <2>. QED
    BY <2>1, <2>2, <2>3
<1>. QED
  BY <1>19, <1>21, <1>22 DEF witness

-----------------------------------------------------------------------------
(* The discount, output by output and in all.                              *)

ExplicitOutput(out) ==
    [out EXCEPT !.value = IF Len(@) = CtLen THEN [n \in 1..ExplicitLen |-> ExplicitPrefix] ELSE @,
                !.nonce = <<>>, !.surjectionproof = <<>>, !.rangeproof = <<>>]

LEMMA ExplicitIsTyped ==
    ASSUME NEW out \in OutputSet(TRUE)
    PROVE  ExplicitOutput(out) \in OutputSet(TRUE)
<1>. DEFINE value == [n \in 1..ExplicitLen |-> ExplicitPrefix]
<1>1. ExplicitLen \in Nat /\ ExplicitLen >= 2
  BY SizesAssumption
<1>2. value \in Buffers /\ Len(value) = ExplicitLen /\ value[1] = ExplicitPrefix
      /\ value # <<>>
  BY <1>1 DEF Buffers, ExplicitPrefix
<1>3. value \in Commitments(ExplicitLen, ValuePrefixes)
  <2>. HIDE DEF value
  <2>1. CommitmentLength(value, ExplicitLen, ValuePrefixes) = ExplicitLen
    BY <1>2 DEF CommitmentLength, EmptyPrefix, ExplicitPrefix
  <2>. QED
    BY <1>2, <2>1 DEF Commitments
<1>4. /\ <<>> \in Buffers
      /\ <<>> \in Commitments(CtLen, NoncePrefixes)
  BY DEF Commitments, Buffers
<1>5. ExplicitOutput(out)
      = [satoshi |-> out.satoshi, script |-> out.script, features |-> out.features,
         asset |-> out.asset, value |-> IF Len(out.value) = CtLen THEN value ELSE out.value,
         nonce |-> <<>>, surjectionproof |-> <<>>, rangeproof |-> <<>>]
  <2>1. ExplicitOutput(out)
        = [out EXCEPT !.value = IF Len(out.value) = CtLen THEN value ELSE out.value,
                      !.nonce = <<>>, !.surjectionproof = <<>>, !.rangeproof = <<>>]
    BY DEF ExplicitOutput
  <2>. HIDE DEF value
  <2>. QED
    BY <2>1, Zenon DEF OutputSet
<1>. HIDE DEF value
<1>6. (IF Len(out.value) = CtLen THEN value ELSE out.value)
        \in Commitments(ExplicitLen, ValuePrefixes)
  BY <1>3 DEF OutputSet
<1>. DEFINE kept == IF Len(out.value) = CtLen THEN value ELSE out.value
            e == [satoshi |-> out.satoshi, script |-> out.script,
                  features |-> out.features, asset |-> out.asset, value |-> kept,
                  nonce |-> <<>>, surjectionproof |-> <<>>, rangeproof |-> <<>>]
<1>. HIDE DEF kept
<1>7. e \in OutputSet(TRUE)
  BY <1>4, <1>6, Zenon DEF OutputSet, kept
<1>. QED
  BY <1>5, <1>7, Zenon DEF kept

LEMMA DiscountAddsUp ==
    ASSUME NEW script \in Int, NEW asset \in Int, NEW value \in Int, NEW nonce \in Int,
           NEW proofs \in Int, NEW explicit \in Int,
           NEW ofValue \in Int, NEW ofNonce \in Int,
           4 * value - ofValue = 4 * explicit, 4 * nonce - ofNonce = 4
    PROVE  4 * (script + asset + value + nonce) + proofs
                - ((proofs - 2) + ofValue + ofNonce)
           = 4 * (script + asset + explicit + 1) + 2
  OBVIOUS

LEMMA DiscountOfOutput ==
    ASSUME NEW out \in OutputSet(TRUE)
    PROVE  /\ OutputLength(out) \in Int /\ ProofsLength(out) \in Int
           /\ OutputDiscount(out) \in Int
           /\ OutputLength(ExplicitOutput(out)) \in Int
           /\ ProofsLength(ExplicitOutput(out)) \in Int
           /\ 4 * OutputLength(out) + ProofsLength(out) - OutputDiscount(out)
                = 4 * OutputLength(ExplicitOutput(out)) + ProofsLength(ExplicitOutput(out))
<1>. DEFINE e == ExplicitOutput(out)
            value == CommitmentLength(out.value, ExplicitLen, ValuePrefixes)
            nonce == CommitmentLength(out.nonce, CtLen, NoncePrefixes)
            asset == CommitmentLength(out.asset, CtLen, AssetPrefixes)
            script == VarbuffLength(out.script)
            explicit == [n \in 1..ExplicitLen |-> ExplicitPrefix]
            explicitValue == CommitmentLength(e.value, ExplicitLen, ValuePrefixes)
            valueDiscount == IF Len(out.value) = CtLen THEN 4 * CtLen - 4 * ExplicitLen ELSE 0
            nonceDiscount == IF Len(out.nonce) = CtLen THEN 4 * CtLen - 4 ELSE 0
<1>1. /\ CtLen \in Nat /\ ExplicitLen \in Nat /\ 2 <= ExplicitLen /\ ExplicitLen < CtLen
  BY SizesAssumption
<1>2. /\ OutputLength(out) \in Int /\ ProofsLength(out) \in Int
      /\ OutputLength(e) \in Int /\ ProofsLength(e) \in Int
  <2>1. e \in OutputSet(TRUE)
    BY ExplicitIsTyped, Zenon
  <2>2. \A o \in OutputSet(TRUE) : OutputLength(o) \in Int /\ ProofsLength(o) \in Int
    <3>. SUFFICES ASSUME NEW o \in OutputSet(TRUE)
                  PROVE  OutputLength(o) \in Int /\ ProofsLength(o) \in Int
      BY Zenon
    <3>1. /\ OutputToBytes(o) \in Buffers /\ Len(OutputToBytes(o)) = OutputLength(o)
          /\ ProofsToBytes(o) \in Buffers /\ Len(ProofsToBytes(o)) = ProofsLength(o)
      BY OutputLengthIsExact, ProofsLengthIsExact, Zenon
    <3>2. Len(OutputToBytes(o)) \in Nat /\ Len(ProofsToBytes(o)) \in Nat
      BY <3>1, LengthIsNatural
    <3>. QED
      BY <3>1, <3>2
  <2>. QED
    BY <2>1, <2>2, Zenon
<1>3. IsElementsPart(out) /\ IsElementsPart(e)
  BY ExplicitIsTyped DEF OutputSet, IsElementsPart, FeatureIf
<1>4. /\ e.script = out.script /\ e.asset = out.asset /\ e.nonce = <<>>
      /\ e.surjectionproof = <<>> /\ e.rangeproof = <<>>
      /\ e.value = IF Len(out.value) = CtLen THEN explicit ELSE out.value
  BY DEF ExplicitOutput, OutputSet
<1>5. /\ script \in Int /\ value \in Int /\ nonce \in Int /\ asset \in Int
      /\ Len(out.value) \in Nat /\ Len(out.nonce) \in Nat
  <2>1. /\ Len(VarbuffToBytes(out.script)) = script /\ VarbuffToBytes(out.script) \in Buffers
    BY VarbuffLengthIsExact DEF OutputSet
  <2>2. /\ script \in Int
    BY <2>1, LengthIsNatural
  <2>3. /\ Len(out.value) \in Nat /\ Len(out.nonce) \in Nat
    BY LengthIsNatural DEF OutputSet, Commitments
  <2>. QED
    BY <1>1, <2>2, <2>3 DEF CommitmentLength
<1>6. 4 * value - valueDiscount
      = 4 * explicitValue
  <2>1. CASE Len(out.value) = CtLen
    <3>1. out.value # <<>> /\ value = CtLen
      BY <1>1, <2>1 DEF OutputSet, Commitments
    <3>2. explicit # <<>> /\ explicit[1] = ExplicitPrefix
      BY <1>1
    <3>3. CommitmentLength(explicit, ExplicitLen, ValuePrefixes) = ExplicitLen
      BY <3>2 DEF CommitmentLength, EmptyPrefix, ExplicitPrefix
    <3>. HIDE DEF explicit, e, value
    <3>. QED
      BY <1>1, <1>4, <2>1, <3>1, <3>3
  <2>2. CASE Len(out.value) # CtLen
    BY <1>4, <1>5, <2>2
  <2>. QED
    BY <2>1, <2>2
<1>7. 4 * nonce - nonceDiscount = 4
  <2>1. out.nonce \in Commitments(CtLen, NoncePrefixes)
    BY DEF OutputSet
  <2>2. out.nonce = <<>> \/ nonce = Len(out.nonce)
    BY <2>1 DEF Commitments
  <2>3. out.nonce # <<>> => Len(out.nonce) # 0
    BY <2>1 DEF Commitments, Buffers
  <2>4. Len(<<>>) = 0
    OBVIOUS
  <2>. QED
    BY <1>1, <1>5, <2>2, <2>3, <2>4 DEF CommitmentLength
<1>8. /\ OutputLength(out) = script + asset + value + nonce
      /\ OutputLength(e)
            = script + asset + explicitValue + 1
  <2>1. CommitmentLength(<<>>, CtLen, NoncePrefixes) = 1
    BY DEF CommitmentLength
  <2>2. /\ OutputLength(out) = script + (asset + value + nonce)
        /\ OutputLength(e) = script
            + (asset + explicitValue + 1)
    BY <1>3, <1>4, <2>1 DEF OutputLength, ValueLength
  <2>3. explicitValue \in Int
    BY <1>1 DEF CommitmentLength
  <2>. HIDE DEF script, asset, value, nonce, e, explicitValue
  <2>. QED
    BY <1>5, <2>2, <2>3
<1>9. ProofsLength(e) = 2
  BY <1>4, SizesAssumption DEF ProofsLength, VarbuffLength, VarintLength
<1>10. OutputDiscount(out)
       = (ProofsLength(out) - 2) + valueDiscount + nonceDiscount
  BY DEF OutputDiscount
<1>11. explicitValue \in Int
  BY <1>1 DEF CommitmentLength
<1>12. valueDiscount \in Int /\ nonceDiscount \in Int
  BY <1>1
<1>. HIDE DEF e, script, asset, value, nonce, explicit, explicitValue, valueDiscount, nonceDiscount
<1>14. OutputDiscount(out) \in Int
  BY <1>2, <1>10, <1>12
<1>13. 4 * OutputLength(out) + ProofsLength(out) - OutputDiscount(out)
       = 4 * OutputLength(e) + ProofsLength(e)
  <2>1. /\ ProofsLength(out) \in Int
        /\ script \in Int /\ asset \in Int /\ value \in Int /\ nonce \in Int
    BY <1>2, <1>5
  <2>2. 4 * (script + asset + value + nonce) + ProofsLength(out)
            - ((ProofsLength(out) - 2) + valueDiscount + nonceDiscount)
        = 4 * (script + asset + explicitValue + 1) + 2
    BY <2>1, <1>6, <1>7, <1>11, <1>12, DiscountAddsUp
  <2>. QED
    BY <2>2, <1>8, <1>9, <1>10, Zenon
<1>. QED
  BY <1>2, <1>13, <1>14 DEF e

Vector(a, n) == DOMAIN a = 1..n /\ \A i \in 1..n : a[i] \in Int
Both(a, b, n) == [i \in 1..n |-> a[i] + b[i]]

LEMMA SumOfBoth ==
    ASSUME NEW n \in Nat, NEW a, NEW b, Vector(a, n), Vector(b, n)
    PROVE  /\ Vector(Both(a, b, n), n) /\ Sum(a) \in Int /\ Sum(b) \in Int
           /\ Sum(Both(a, b, n)) = Sum(a) + Sum(b)
<1>. DEFINE A(k) == Sums!Fold(a, 1..k)
            B(k) == Sums!Fold(b, 1..k)
            C(k) == Sums!Fold(Both(a, b, n), 1..k)
            Right(k) == A(k) \in Int /\ B(k) \in Int /\ C(k) = A(k) + B(k)
            N == {k \in Nat : k <= n => Right(k)}
<1>1. 0 \in N
  <2>1. A(0) = 0 /\ B(0) = 0 /\ C(0) = 0
    BY NoNumbers, Zenon
  <2>. HIDE DEF A, B, C
  <2>. QED
    BY <2>1
<1>2. ASSUME NEW k \in Nat, k \in N PROVE k + 1 \in N
  <2>. SUFFICES ASSUME k + 1 <= n PROVE Right(k + 1)
    OBVIOUS
  <2>1. A(k) \in Int /\ B(k) \in Int /\ C(k) = A(k) + B(k)
    BY <1>2
  <2>2. /\ A(k + 1) = A(k) + a[k + 1] /\ B(k + 1) = B(k) + b[k + 1]
        /\ C(k + 1) = C(k) + Both(a, b, n)[k + 1]
    BY SumGrows
  <2>3. k + 1 \in 1..n
    OBVIOUS
  <2>4. /\ a[k + 1] \in Int /\ b[k + 1] \in Int
        /\ Both(a, b, n)[k + 1] = a[k + 1] + b[k + 1]
    BY <2>3 DEF Vector, Both
  <2>. HIDE DEF A, B, C, N, Right
  <2>5. A(k) + a[k + 1] \in Int /\ B(k) + b[k + 1] \in Int
    BY <2>1, <2>4
  <2>6. C(k + 1) = (A(k) + a[k + 1]) + (B(k) + b[k + 1])
    BY <2>1, <2>2, <2>4
  <2>. QED
    BY <2>2, <2>5, <2>6, Zenon DEF Right
<1>. HIDE DEF N
<1>3. n \in N
  BY <1>1, <1>2, Sums!NaturalInduction
<1>4. Right(n)
  BY <1>3 DEF N
<1>5. Sum(a) = A(n) /\ Sum(b) = B(n) /\ Sum(Both(a, b, n)) = C(n)
  BY SumIsFold DEF Vector, Both
<1>6. Vector(Both(a, b, n), n)
  BY DEF Vector, Both
<1>. HIDE DEF A, B, C
<1>. QED
  BY <1>4, <1>5, <1>6

LEMMA SumOfFour ==
    ASSUME NEW n \in Nat, NEW a, Vector(a, n)
    PROVE  \E f : /\ Vector(f, n) /\ Sum(f) = 4 * Sum(a) /\ Sum(a) \in Int
                  /\ \A i \in 1..n : f[i] = 4 * a[i]
<1>. DEFINE two == Both(a, a, n)
            four == Both(two, two, n)
<1>1. Vector(two, n) /\ Sum(two) = Sum(a) + Sum(a) /\ Sum(a) \in Int
  BY SumOfBoth
<1>2. Vector(four, n) /\ Sum(four) = Sum(two) + Sum(two)
  BY <1>1, SumOfBoth
<1>3. \A i \in 1..n : four[i] = 4 * a[i]
  BY DEF Both, Vector
<1>. HIDE DEF two, four
<1>4. Sum(four) = 4 * Sum(a)
  BY <1>1, <1>2
<1>. QED
  BY <1>1, <1>2, <1>3, <1>4, Zenon

LEMMA SumsAreLinear ==
    ASSUME NEW n \in Nat, NEW a, NEW b, NEW c, NEW d, NEW e,
           Vector(a, n), Vector(b, n), Vector(c, n), Vector(d, n), Vector(e, n),
           \A i \in 1..n : 4 * a[i] + b[i] - c[i] = 4 * d[i] + e[i]
    PROVE  /\ Sum(a) \in Int /\ Sum(b) \in Int /\ Sum(c) \in Int
           /\ Sum(d) \in Int /\ Sum(e) \in Int
           /\ 4 * Sum(a) + Sum(b) - Sum(c) = 4 * Sum(d) + Sum(e)
<1>1. PICK f : /\ Vector(f, n) /\ Sum(f) = 4 * Sum(a) /\ Sum(a) \in Int
               /\ \A i \in 1..n : f[i] = 4 * a[i]
  BY SumOfFour
<1>2. PICK g : /\ Vector(g, n) /\ Sum(g) = 4 * Sum(d) /\ Sum(d) \in Int
               /\ \A i \in 1..n : g[i] = 4 * d[i]
  BY SumOfFour
<1>. DEFINE ge == Both(g, e, n)
            gec == Both(ge, c, n)
            fb == Both(f, b, n)
<1>3. /\ Sum(fb) = Sum(f) + Sum(b) /\ Sum(f) \in Int /\ Sum(b) \in Int
  BY <1>1, SumOfBoth
<1>4. /\ Vector(ge, n) /\ Sum(ge) = Sum(g) + Sum(e) /\ Sum(g) \in Int /\ Sum(e) \in Int
  BY <1>2, SumOfBoth
<1>5. Sum(gec) = Sum(ge) + Sum(c) /\ Sum(c) \in Int
  BY <1>4, SumOfBoth
<1>6. fb = gec
  <2>1. ASSUME NEW i \in 1..n PROVE f[i] + b[i] = g[i] + e[i] + c[i]
    <3>1. /\ f[i] \in Int /\ b[i] \in Int /\ g[i] \in Int /\ e[i] \in Int /\ c[i] \in Int
      BY <1>1, <1>2 DEF Vector
    <3>2. f[i] + b[i] - c[i] = g[i] + e[i]
      BY <1>1, <1>2
    <3>. QED
      BY <3>1, <3>2
  <2>. QED
    BY <2>1 DEF Both
<1>. HIDE DEF fb, gec, ge
<1>7. Sum(f) + Sum(b) = Sum(g) + Sum(e) + Sum(c)
  BY <1>3, <1>4, <1>5, <1>6
<1>8. Sum(f) + Sum(b) - Sum(c) = Sum(g) + Sum(e)
  BY <1>3, <1>4, <1>5, <1>7
<1>. QED
  BY <1>1, <1>2, <1>3, <1>4, <1>5, <1>8

(* A transaction of Elements and the same with explicit outputs.           *)
LEMMA ExplicitTx ==
    ASSUME NEW t \in TxSet, IsElements(t)
    PROVE  /\ Explicit(t) \in TxSet /\ IsElements(Explicit(t))
           /\ Explicit(t).inputs = t.inputs
           /\ Explicit(t).outputs
                = [i \in DOMAIN t.outputs |-> ExplicitOutput(t.outputs[i])]
           /\ Len(Explicit(t).outputs) = Len(t.outputs)
           /\ \A i \in DOMAIN t.outputs : t.outputs[i] \in OutputSet(TRUE)
           /\ HasWitness(Explicit(t)) => HasWitness(t)
<1>. DEFINE outs == [i \in DOMAIN t.outputs |-> ExplicitOutput(t.outputs[i])]
            e == [version |-> t.version, locktime |-> t.locktime,
                  inputs |-> t.inputs, outputs |-> outs]
<1>1. /\ t.outputs \in Seq(Outputs) /\ Len(t.outputs) \in Nat
      /\ DOMAIN t.outputs = 1..Len(t.outputs)
  BY DEF TxSet, Outputs
<1>2. \A i \in DOMAIN t.outputs : t.outputs[i] \in OutputSet(TRUE)
  <2>. SUFFICES ASSUME NEW i \in DOMAIN t.outputs PROVE t.outputs[i] \in OutputSet(TRUE)
    BY Zenon
  <2>1. t.outputs[i] \in OutputSet(TRUE) \cup OutputSet(FALSE)
    BY <1>1, ElementOfSeq, Zenon DEF Outputs
  <2>2. "ELEMENTS" \in t.outputs[i].features
    BY DEF IsElements, IsElementsPart
  <2>3. t.outputs[i] \notin OutputSet(FALSE)
    BY <2>2 DEF OutputSet, FeatureIf
  <2>. QED
    BY <2>1, <2>3, Zenon
<1>3. \A i \in DOMAIN t.outputs : ExplicitOutput(t.outputs[i]) \in OutputSet(TRUE)
  BY <1>2, ExplicitIsTyped, Zenon
<1>4. outs \in Seq(OutputSet(TRUE) \cup OutputSet(FALSE)) /\ Len(outs) = Len(t.outputs)
      /\ DOMAIN outs = DOMAIN t.outputs
  <2>1. outs \in [1..Len(t.outputs) -> OutputSet(TRUE) \cup OutputSet(FALSE)]
    BY <1>1, <1>3, Zenon
  <2>2. DOMAIN outs = DOMAIN t.outputs
    OBVIOUS
  <2>. HIDE DEF outs
  <2>. QED
    BY <1>1, <2>1, <2>2, SequenceOfLength, Zenon
<1>5. Explicit(t) = e
  <2>1. Explicit(t) = [t EXCEPT !.outputs = outs]
    BY DEF Explicit, ExplicitOutput
  <2>. HIDE DEF outs
  <2>. QED
    BY <2>1 DEF TxSet
<1>. HIDE DEF outs
<1>6. e \in TxSet
  BY <1>4 DEF TxSet
<1>7. IsElements(e)
  <2>1. \A i \in DOMAIN outs : IsElementsPart(outs[i])
    BY <1>3, <1>4 DEF outs, OutputSet, IsElementsPart, FeatureIf
  <2>2. e.outputs = <<>> => t.outputs = <<>>
    BY <1>1, <1>4
  <2>. QED
    BY <2>1, <2>2 DEF IsElements
<1>8. HasWitness(e) => HasWitness(t)
  <2>1. \A i \in DOMAIN outs :
            outs[i].surjectionproof = <<>> /\ outs[i].rangeproof = <<>>
    <3>. SUFFICES ASSUME NEW i \in DOMAIN outs
                  PROVE  outs[i].surjectionproof = <<>> /\ outs[i].rangeproof = <<>>
      OBVIOUS
    <3>1. outs[i] = ExplicitOutput(t.outputs[i]) /\ t.outputs[i] \in OutputSet(TRUE)
      BY <1>2, <1>4, Zenon DEF outs
    <3>. QED
      BY <3>1 DEF ExplicitOutput, OutputSet
  <2>. QED
    BY <2>1 DEF HasWitness
<1>9. e.inputs = t.inputs /\ e.outputs = outs
  OBVIOUS
<1>. HIDE DEF e
<1>. QED
  BY <1>2, <1>4, <1>5, <1>6, <1>7, <1>8, <1>9, Zenon DEF outs

LEMMA DiscountIsExact ==
    ASSUME NEW t \in TxSet, IsElements(t), HasWitness(Explicit(t))
    PROVE  Weight(t) - WeightDiscount(t) = Weight(Explicit(t))
<1>. DEFINE n == Len(t.outputs)
            outs == Explicit(t).outputs
            a == Each(OutputLength, t.outputs)
            b == Each(ProofsLength, t.outputs)
            c == Each(OutputDiscount, t.outputs)
            d == Each(OutputLength, outs)
            e == Each(ProofsLength, outs)
            ins == Total(InputLength, t.inputs)
            witnesses == Total(InputWitnessLength, t.inputs)
            inCount == VarintLength(Len(t.inputs))
            outCount == VarintLength(n)
<1>1. /\ t.inputs \in Seq(InputSet) /\ t.outputs \in Seq(Outputs) /\ n \in Nat
      /\ DOMAIN t.outputs = 1..n
  BY DEF TxSet, Outputs
<1>2. /\ outs = [i \in 1..n |-> ExplicitOutput(t.outputs[i])] /\ Len(outs) = n
      /\ \A i \in 1..n : t.outputs[i] \in OutputSet(TRUE)
  BY <1>1, ExplicitTx, Zenon
<1>3. \A i \in 1..n : outs[i] = ExplicitOutput(t.outputs[i])
  BY <1>2
<1>4. DOMAIN outs = 1..n
  BY <1>2
<1>. HIDE DEF outs, n
<1>5. /\ DOMAIN a = 1..n /\ DOMAIN b = 1..n /\ DOMAIN c = 1..n
      /\ DOMAIN d = 1..n /\ DOMAIN e = 1..n
  BY <1>1, <1>4 DEF Each
<1>6. ASSUME NEW i \in 1..n
      PROVE  /\ a[i] \in Int /\ b[i] \in Int /\ c[i] \in Int /\ d[i] \in Int /\ e[i] \in Int
             /\ 4 * a[i] + b[i] - c[i] = 4 * d[i] + e[i]
  <2>. DEFINE out == t.outputs[i]
  <2>1. /\ a[i] = OutputLength(out) /\ b[i] = ProofsLength(out) /\ c[i] = OutputDiscount(out)
        /\ d[i] = OutputLength(ExplicitOutput(out))
        /\ e[i] = ProofsLength(ExplicitOutput(out))
    BY <1>1, <1>3, <1>4 DEF Each
  <2>2. out \in OutputSet(TRUE)
    BY <1>2, Zenon
  <2>. HIDE DEF a, b, c, d, e, out
  <2>3. /\ OutputLength(out) \in Int /\ ProofsLength(out) \in Int
        /\ OutputDiscount(out) \in Int
        /\ OutputLength(ExplicitOutput(out)) \in Int
        /\ ProofsLength(ExplicitOutput(out)) \in Int
        /\ 4 * OutputLength(out) + ProofsLength(out) - OutputDiscount(out)
             = 4 * OutputLength(ExplicitOutput(out)) + ProofsLength(ExplicitOutput(out))
    BY <2>2, DiscountOfOutput, Zenon
  <2>. QED
    BY <2>1, <2>3, Zenon
<1>. HIDE DEF a, b, c, d, e
<1>7. Vector(a, n) /\ Vector(b, n) /\ Vector(c, n) /\ Vector(d, n) /\ Vector(e, n)
  BY <1>5, <1>6 DEF Vector
<1>8. \A i \in 1..n : 4 * a[i] + b[i] - c[i] = 4 * d[i] + e[i]
  BY <1>6
<1>9. n \in Nat
  BY <1>1
<1>10. /\ Sum(a) \in Int /\ Sum(b) \in Int /\ Sum(c) \in Int
       /\ Sum(d) \in Int /\ Sum(e) \in Int
       /\ 4 * Sum(a) + Sum(b) - Sum(c) = 4 * Sum(d) + Sum(e)
  BY <1>7, <1>8, <1>9, SumsAreLinear
<1>11. /\ HasWitness(t) /\ IsElements(Explicit(t)) /\ Explicit(t).inputs = t.inputs
  BY ExplicitTx, Zenon
<1>12. /\ WeightDiscount(t) = Sum(c)
       /\ BaseSize(t) = 2 + 1 + inCount + ins + outCount + Sum(a)
       /\ WitnessSize(t) = witnesses + Sum(b)
  BY <1>11 DEF WeightDiscount, BaseSize, WitnessSize, Total, a, b, c, n
<1>13. /\ BaseSize(Explicit(t)) = 2 + 1 + inCount + ins + outCount + Sum(d)
       /\ WitnessSize(Explicit(t)) = witnesses + Sum(e)
  BY <1>2, <1>11, Zenon DEF BaseSize, WitnessSize, Total, d, e, outs
<1>14. ins \in Int /\ witnesses \in Int /\ inCount \in Int /\ outCount \in Int
  <2>1. /\ Concat(InputToBytes, t.inputs) \in Buffers
        /\ Len(Concat(InputToBytes, t.inputs)) = ins
        /\ Concat(InputWitnessToBytes, t.inputs) \in Buffers
        /\ Len(Concat(InputWitnessToBytes, t.inputs)) = witnesses
    BY <1>1, InputsLength, Zenon
  <2>. QED
    BY <2>1, LengthIsNatural DEF VarintLength
<1>. HIDE DEF ins, witnesses, inCount, outCount
<1>. DEFINE base == 2 + 1 + inCount + ins + outCount
<1>15. base \in Int
  BY <1>14
<1>16. Weight(t) = 4 * (base + Sum(a)) + (witnesses + Sum(b))
  BY <1>12 DEF Weight
<1>17. Weight(Explicit(t)) = 4 * (base + Sum(d)) + (witnesses + Sum(e))
  BY <1>13 DEF Weight
<1>. HIDE DEF base
<1>18. /\ 4 * (base + Sum(a)) = 4 * base + 4 * Sum(a)
       /\ 4 * (base + Sum(d)) = 4 * base + 4 * Sum(d)
  BY <1>10, <1>15
<1>19. 4 * Sum(a) + Sum(b) - Sum(c) = 4 * Sum(d) + Sum(e)
  BY <1>10
<1>. QED
  BY <1>10, <1>12, <1>14, <1>15, <1>16, <1>17, <1>18, <1>19

(* Whatever the transaction is, its length is the one computed before it   *)
(* is written, and so are its weight and what the discount takes off.      *)
LEMMA AnyLengthIsExact == ASSUME tx \in TxSet PROVE LengthIsExact
<1>1. ASSUME NEW flags \in WriteFlags, tx.inputs # <<>> \/ "USE_WITNESS" \notin flags
      PROVE  Len(ToBytes(tx, flags)) = GetLength(tx, flags)
  <2>1. /\ BaseSize(tx) \in Nat
        /\ Len(ToBytes(tx, flags))
             = BaseSize(tx) + IF WritesWitness(tx, flags) THEN WitnessSize(tx) ELSE 0
    BY ToBytesLength
  <2>2. CASE WritesWitness(tx, flags)
    BY <2>1, <2>2 DEF GetLength, WritesWitness
  <2>3. CASE ~WritesWitness(tx, flags)
    <3>1. "USE_WITNESS" \notin flags \/ WitnessSize(tx) = 0
      BY <1>1, <2>3 DEF WritesWitness, WitnessSize
    <3>. QED
      BY <2>1, <2>3, <3>1 DEF GetLength
  <2>. QED
    BY <2>2, <2>3
<1>2. ASSUME tx.inputs # <<>>
      PROVE  LET long == Len(ToBytes(tx, {"USE_WITNESS"}))
             IN /\ Weight(tx) = 3 * Len(ToBytes(tx, {})) + long
                /\ Vsize(tx) <= long
  <2>. DEFINE long == Len(ToBytes(tx, {"USE_WITNESS"}))
              short == Len(ToBytes(tx, {}))
  <2>1. BaseSize(tx) \in Nat /\ WitnessSize(tx) \in Nat
    BY ToBytesLength
  <2>2. short = BaseSize(tx)
    <3>1. ~WritesWitness(tx, {})
      BY DEF WritesWitness
    <3>2. short = BaseSize(tx) + IF WritesWitness(tx, {}) THEN WitnessSize(tx) ELSE 0
      BY ToBytesLength
    <3>. HIDE DEF short
    <3>. QED
      BY <2>1, <3>1, <3>2
  <2>3. long = BaseSize(tx) + WitnessSize(tx)
    <3>1. WritesWitness(tx, {"USE_WITNESS"}) <=> HasWitness(tx)
      BY <1>2 DEF WritesWitness
    <3>2. long = BaseSize(tx) + IF WritesWitness(tx, {"USE_WITNESS"})
                                THEN WitnessSize(tx) ELSE 0
      BY ToBytesLength
    <3>3. ~HasWitness(tx) => WitnessSize(tx) = 0
      BY DEF WitnessSize
    <3>. HIDE DEF long
    <3>. QED
      BY <2>1, <3>1, <3>2, <3>3
  <2>. HIDE DEF long, short
  <2>4. Weight(tx) = 3 * short + long
    BY <2>1, <2>2, <2>3 DEF Weight
  <2>5. Vsize(tx) <= long
    BY <2>1, <2>3 DEF Weight, Vsize
  <2>. QED
    BY <2>4, <2>5 DEF long, short
<1>. QED
  BY <1>1, <1>2, DiscountIsExact DEF LengthIsExact

-----------------------------------------------------------------------------
(* What is read is what was looked at.                                     *)

Positions(bytes) == {Refused} \cup 0..Len(bytes)

(* An item at p ends at `end`, which is inside, or is refused; if it is    *)
(* not, what is read at p ends there too and is of the values.             *)
Reads(bytes, p, end, read, values) ==
    /\ end \in Positions(bytes)
    /\ end # Refused => /\ p # Refused /\ p <= end
                        /\ read.end = end /\ read.value \in values

LEMMA SkipStays ==
    ASSUME NEW bytes \in Buffers, NEW p \in Positions(bytes), NEW n \in Nat
    PROVE  /\ Skip(bytes, p, n) \in Positions(bytes)
           /\ Skip(bytes, p, n) # Refused =>
                /\ p \in Nat /\ Skip(bytes, p, n) = p + n /\ p + n <= Len(bytes)
BY LengthIsNatural DEF Skip, Positions, Refused

LEMMA ByteAt ==
    ASSUME NEW bytes \in Buffers
    PROVE  /\ \A p \in Nat : At(bytes, p) \in Nat
           /\ \A p \in 1..Len(bytes) : bytes[p] = At(bytes, p - 1) /\ bytes[p] \in Nat
<1>1. Len(bytes) \in Nat /\ \A p \in 1..Len(bytes) : bytes[p] \in Nat
  BY ElementOfSeq DEF Buffers
<1>2. ASSUME NEW p \in Nat PROVE At(bytes, p) \in Nat
  <2>1. p < Len(bytes) => p + 1 \in 1..Len(bytes)
    BY <1>1
  <2>. QED
    BY <1>1, <2>1 DEF At
<1>3. ASSUME NEW p \in 1..Len(bytes) PROVE bytes[p] = At(bytes, p - 1)
  BY <1>1 DEF At
<1>. QED
  BY <1>1, <1>2, <1>3

LEMMA SliceIsTyped ==
    ASSUME NEW bytes \in Buffers, NEW p \in Nat, NEW n \in Nat
    PROVE  /\ Slice(bytes, p, n) \in Buffers /\ Len(Slice(bytes, p, n)) = n
           /\ n > 0 => Slice(bytes, p, n)[1] = At(bytes, p)
<1>1. \A i \in 1..n : At(bytes, p + i - 1) \in Nat
  <2>1. \A i \in 1..n : p + i - 1 \in Nat
    OBVIOUS
  <2>. QED
    BY <2>1, ByteAt
<1>2. Slice(bytes, p, n) \in [1..n -> Nat]
  BY <1>1, Zenon DEF Slice
<1>3. n > 0 => Slice(bytes, p, n)[1] = At(bytes, p)
  <2>1. n > 0 => 1 \in 1..n
    OBVIOUS
  <2>2. p + 1 - 1 = p
    OBVIOUS
  <2>. QED
    BY <2>1, <2>2 DEF Slice
<1>. QED
  BY <1>2, <1>3, SequenceOfLength DEF Buffers

(* A number.                                                               *)
LEMMA VarintReads ==
    ASSUME NEW bytes \in Buffers, NEW p \in Positions(bytes)
    PROVE  /\ Reads(bytes, p, EnsureVarint(bytes, p).end, ReadVarint(bytes, p), Nat)
           /\ EnsureVarint(bytes, p).value \in Nat
           /\ EnsureVarint(bytes, p).end # Refused =>
                ReadVarint(bytes, p) = EnsureVarint(bytes, p)
<1>. DEFINE one == Skip(bytes, p, 1)
            two == Skip(bytes, p, 2)
            v == EnsureVarint(bytes, p)
<1>1. /\ one \in Positions(bytes) /\ two \in Positions(bytes)
      /\ one # Refused => p \in Nat /\ one = p + 1 /\ one \in 1..Len(bytes)
      /\ two # Refused => p \in Nat /\ two = p + 2 /\ two \in 1..Len(bytes)
  BY SkipStays, LengthIsNatural
<1>2. one # Refused => bytes[one] = At(bytes, p) /\ bytes[one] \in Nat
  <2>1. one # Refused => one - 1 = p
    BY <1>1
  <2>. QED
    BY <1>1, <2>1, ByteAt, Zenon
<1>3. two # Refused => bytes[two] = At(bytes, p + 1) /\ bytes[two] \in Nat
  <2>1. two # Refused => two - 1 = p + 1
    BY <1>1
  <2>. QED
    BY <1>1, <2>1, ByteAt, Zenon
<1>4. v = CASE one # Refused /\ bytes[one] # VarintTag -> [value |-> bytes[one], end |-> one]
            [] one # Refused /\ bytes[one] = VarintTag /\ two # Refused ->
                   [value |-> bytes[two], end |-> two]
            [] OTHER -> [value |-> 0, end |-> Refused]
  BY DEF EnsureVarint
<1>. HIDE DEF one, two, v
<1>5. CASE one # Refused /\ bytes[one] # VarintTag
  <2>1. v = [value |-> bytes[one], end |-> one] /\ ReadVarint(bytes, p) = v
    BY <1>1, <1>2, <1>4, <1>5 DEF ReadVarint
  <2>. QED
    BY <1>1, <1>2, <1>5, <2>1 DEF Reads, v, Refused
<1>6. CASE one # Refused /\ bytes[one] = VarintTag /\ two # Refused
  <2>1. v = [value |-> bytes[two], end |-> two] /\ ReadVarint(bytes, p) = v
    BY <1>1, <1>2, <1>3, <1>4, <1>6 DEF ReadVarint
  <2>. QED
    BY <1>1, <1>3, <1>6, <2>1 DEF Reads, v, Refused
<1>7. CASE one = Refused \/ (bytes[one] = VarintTag /\ two = Refused)
  <2>1. v = [value |-> 0, end |-> Refused]
    BY <1>4, <1>7
  <2>. QED
    BY <2>1 DEF Reads, v, Positions
<1>. QED
  BY <1>5, <1>6, <1>7

(* Bytes of which the number is before them.                               *)
LEMMA VarbuffReads ==
    ASSUME NEW bytes \in Buffers, NEW p \in Positions(bytes)
    PROVE  Reads(bytes, p, EnsureVarbuff(bytes, p), ReadVarbuff(bytes, p), Buffers)
<1>. DEFINE v == EnsureVarint(bytes, p)
            end == EnsureVarbuff(bytes, p)
<1>1. /\ Reads(bytes, p, v.end, ReadVarint(bytes, p), Nat) /\ v.value \in Nat
      /\ v.end # Refused => ReadVarint(bytes, p) = v
  BY VarintReads
<1>2. v.end \in Positions(bytes) /\ (v.end # Refused => p # Refused /\ p <= v.end)
  BY <1>1 DEF Reads
<1>. HIDE DEF v
<1>3. end = Skip(bytes, v.end, v.value)
  BY DEF EnsureVarbuff, v
<1>4. /\ end \in Positions(bytes)
      /\ end # Refused => v.end \in Nat /\ end = v.end + v.value
  BY <1>1, <1>2, <1>3, SkipStays
<1>. HIDE DEF end
<1>. SUFFICES ASSUME end # Refused
              PROVE  /\ p # Refused /\ p <= end /\ ReadVarbuff(bytes, p).end = end
                     /\ ReadVarbuff(bytes, p).value \in Buffers
  BY <1>4 DEF Reads, end
<1>5. v.end \in Nat /\ end = v.end + v.value /\ v.end # Refused
  BY <1>4 DEF Refused
<1>6. ReadVarbuff(bytes, p) = [value |-> Slice(bytes, v.end, v.value), end |-> end]
  BY <1>1, <1>5 DEF ReadVarbuff
<1>7. Slice(bytes, v.end, v.value) \in Buffers
  BY <1>1, <1>5, SliceIsTyped
<1>8. p <= end
  <2>1. p \in Int
    BY DEF Positions, Refused
  <2>. QED
    BY <1>1, <1>2, <1>5, <2>1
<1>. QED
  BY <1>2, <1>5, <1>6, <1>7, <1>8

(* A commitment.                                                           *)
LEMMA CommitmentReads ==
    ASSUME NEW bytes \in Buffers, NEW p \in Positions(bytes),
           NEW explicit \in {ExplicitLen, CtLen},
           NEW prefixes \in {ValuePrefixes, AssetPrefixes, NoncePrefixes}
    PROVE  Reads(bytes, p, EnsureCommitment(bytes, p, explicit, prefixes),
                 ReadCommitment(bytes, p, explicit), Commitments(explicit, prefixes))
<1>. DEFINE prefix == Skip(bytes, p, 1)
            end == EnsureCommitment(bytes, p, explicit, prefixes)
            read == ReadCommitment(bytes, p, explicit)
<1>1. /\ prefix \in Positions(bytes)
      /\ prefix # Refused => p \in Nat /\ prefix = p + 1 /\ prefix \in 1..Len(bytes)
  BY SkipStays, LengthIsNatural
<1>2. prefix # Refused => bytes[prefix] = At(bytes, p)
  <2>1. prefix # Refused => prefix - 1 = p
    BY <1>1
  <2>. QED
    BY <1>1, <2>1, ByteAt
<1>3. explicit \in Nat /\ explicit > 0 /\ CtLen \in Nat /\ CtLen > 0
  BY SizesAssumption
<1>4. end = IF prefix = Refused THEN Refused
            ELSE IF bytes[prefix] = EmptyPrefix THEN prefix
            ELSE IF bytes[prefix] = ExplicitPrefix THEN Skip(bytes, p, explicit)
            ELSE IF bytes[prefix] \in prefixes THEN Skip(bytes, p, CtLen) ELSE Refused
  BY DEF EnsureCommitment
<1>. HIDE DEF prefix, end
<1>5. CASE prefix = Refused \/ end = Refused
  <2>1. end = Refused
    BY <1>4, <1>5
  <2>. QED
    BY <2>1 DEF Reads, Positions, end
<1>. SUFFICES ASSUME prefix # Refused, end # Refused
              PROVE  Reads(bytes, p, end, read, Commitments(explicit, prefixes))
  BY <1>5 DEF end
<1>6. p \in Nat /\ prefix = p + 1 /\ p <= prefix /\ p # Refused
  BY <1>1 DEF Refused
<1>7. CASE At(bytes, p) = EmptyPrefix
  <2>1. end = p + 1 /\ end \in Positions(bytes)
    BY <1>1, <1>2, <1>4, <1>6, <1>7
  <2>2. At(bytes, p) # ExplicitPrefix
        /\ At(bytes, p) \notin ValuePrefixes \cup AssetPrefixes \cup NoncePrefixes
    BY <1>7 DEF EmptyPrefix, ExplicitPrefix, ValuePrefixes, AssetPrefixes, NoncePrefixes
  <2>3. read = [value |-> Slice(bytes, p, 0), end |-> p + 1]
    BY <2>2 DEF ReadCommitment
  <2>4. Slice(bytes, p, 0) = <<>>
    BY DEF Slice
  <2>5. <<>> \in Commitments(explicit, prefixes)
    BY DEF Commitments, Buffers
  <2>. QED
    BY <1>6, <2>1, <2>3, <2>4, <2>5 DEF Reads
<1>8. CASE At(bytes, p) # EmptyPrefix
  <2>. DEFINE n == IF At(bytes, p) = ExplicitPrefix THEN explicit ELSE CtLen
  <2>1. /\ end = Skip(bytes, p, n)
        /\ At(bytes, p) # ExplicitPrefix => At(bytes, p) \in prefixes
    BY <1>2, <1>4, <1>8
  <2>2. n \in Nat /\ n > 0
    BY <1>3
  <2>3. end \in Positions(bytes) /\ end = p + n
    BY <2>1, <2>2, SkipStays
  <2>4. read = [value |-> Slice(bytes, p, n), end |-> p + n]
    BY <1>3, <2>1 DEF ReadCommitment
  <2>5. /\ Slice(bytes, p, n) \in Buffers /\ Len(Slice(bytes, p, n)) = n
        /\ Slice(bytes, p, n)[1] = At(bytes, p)
    BY <1>6, <2>2, SliceIsTyped, Zenon
  <2>. HIDE DEF n
  <2>6. Slice(bytes, p, n) # <<>>
    BY <2>2, <2>5
  <2>7. CommitmentLength(Slice(bytes, p, n), explicit, prefixes) = n
    BY <1>8, <2>1, <2>5, <2>6 DEF CommitmentLength, n
  <2>8. Slice(bytes, p, n) \in Commitments(explicit, prefixes)
    BY <2>5, <2>7 DEF Commitments
  <2>9. p <= p + n
    BY <1>6, <2>2
  <2>. QED
    BY <1>6, <2>3, <2>4, <2>8, <2>9 DEF Reads
<1>. QED
  BY <1>7, <1>8

-----------------------------------------------------------------------------
(* Items one behind the other.                                             *)

Several(values, n) == {items \in Seq(values) : Len(items) = n}

LEMMA SeveralRead ==
    ASSUME NEW bytes, NEW values, NEW n \in Nat, NEW p \in Positions(bytes),
           NEW g, NEW r, g[0] = p, r[0] = Start(p),
           \A k \in 0..n - 1 : \E read :
              /\ g[k] \in Positions(bytes) => Reads(bytes, g[k], g[k + 1], read, values)
              /\ r[k].end = g[k] => r[k + 1] = With(r[k], read)
    PROVE  Reads(bytes, p, g[n], r[n], Several(values, n))
<1>. DEFINE N == {k \in Nat : k <= n => Reads(bytes, p, g[k], r[k], Several(values, k))}
<1>1. 0 \in N
  <2>1. p \in Int
    BY DEF Positions, Refused
  <2>2. r[0].end = p /\ r[0].value = <<>>
    BY DEF Start
  <2>3. <<>> \in Several(values, 0)
    BY DEF Several
  <2>. QED
    BY <2>1, <2>2, <2>3 DEF Reads
<1>2. ASSUME NEW k \in Nat, k \in N PROVE k + 1 \in N
  <2>. SUFFICES ASSUME k + 1 <= n
                PROVE  Reads(bytes, p, g[k + 1], r[k + 1], Several(values, k + 1))
    OBVIOUS
  <2>1. Reads(bytes, p, g[k], r[k], Several(values, k))
    BY <1>2
  <2>. HIDE DEF N
  <2>2. k \in 0..n - 1
    OBVIOUS
  <2>3. PICK read :
          /\ g[k] \in Positions(bytes) => Reads(bytes, g[k], g[k + 1], read, values)
          /\ r[k].end = g[k] => r[k + 1] = With(r[k], read)
    BY <2>2
  <2>4. g[k] \in Positions(bytes) /\ Reads(bytes, g[k], g[k + 1], read, values)
    BY <2>1, <2>3 DEF Reads
  <2>. SUFFICES ASSUME g[k + 1] # Refused
                PROVE  /\ p # Refused /\ p <= g[k + 1] /\ r[k + 1].end = g[k + 1]
                       /\ r[k + 1].value \in Several(values, k + 1)
    BY <2>4 DEF Reads
  <2>5. /\ g[k] # Refused /\ g[k] <= g[k + 1] /\ g[k + 1] \in Positions(bytes)
        /\ read.end = g[k + 1] /\ read.value \in values
    BY <2>4 DEF Reads
  <2>6. /\ p # Refused /\ p <= g[k] /\ r[k].end = g[k]
        /\ r[k].value \in Several(values, k)
    BY <2>1, <2>5 DEF Reads
  <2>7. r[k + 1] = With(r[k], read)
    BY <2>3, <2>6
  <2>8. r[k + 1].value = Append(r[k].value, read.value) /\ r[k + 1].end = read.end
    BY <2>7 DEF With
  <2>9. Append(r[k].value, read.value) \in Several(values, k + 1)
    BY <2>5, <2>6, AppendProperties DEF Several
  <2>10. p <= g[k + 1]
    <3>1. p \in Int /\ g[k] \in Int /\ g[k + 1] \in Int
      BY <2>4, <2>5 DEF Positions, Refused
    <3>. QED
      BY <2>5, <2>6, <3>1
  <2>. QED
    BY <2>5, <2>6, <2>8, <2>9, <2>10
<1>. HIDE DEF N
<1>3. n \in N
  BY <1>1, <1>2, Sums!NaturalInduction
<1>. QED
  BY <1>3 DEF N

(* What is repeated, and what a reader puts at the end.                    *)
Ensured(loop, q) ==
    CASE loop.of = "varbuff" -> EnsureVarbuff(loop.bytes, q)
      [] loop.of = "stack"   -> EnsureStack(loop.bytes, q)
      [] loop.of = "input"   -> EnsureInput(loop.bytes, q, loop.elements)
      [] loop.of = "output"  -> EnsureOutput(loop.bytes, q, loop.elements)
      [] loop.of = "witness" -> EnsureInputWitness(loop.bytes, q)
      [] loop.of = "proofs"  -> EnsureProofs(loop.bytes, q)
Got(loop, q) ==
    CASE loop.of = "varbuff" -> ReadVarbuff(loop.bytes, q)
      [] loop.of = "stack"   -> ReadStack(loop.bytes, q)
      [] loop.of = "input"   -> ReadInput(loop.bytes, q, loop.elements)
      [] loop.of = "output"  -> ReadOutput(loop.bytes, q, loop.elements)
      [] loop.of = "witness" -> ReadInputWitness(loop.bytes, q)
      [] loop.of = "proofs"  -> ReadProofs(loop.bytes, q)
Did(loop, x) == IF loop.reads THEN With(x, Got(loop, x.end)) ELSE Ensured(loop, x)

Ensuring(what, bytes, el) ==
    [of |-> what, bytes |-> bytes, elements |-> el, reads |-> FALSE]
Reading(what, bytes, el) ==
    [of |-> what, bytes |-> bytes, elements |-> el, reads |-> TRUE]

Loops == INSTANCE Folding WITH Op <- Did, Base <- 0, Map <- Item, Choose <- Max

(* Both loops, from p on: where they end and what was read.                *)
Looped(what, bytes, p, n, el, end, read) ==
    \E g, r : /\ Loops!IsLoop(Ensuring(what, bytes, el), p, g, n) /\ end = g[n]
             /\ Loops!IsLoop(Reading(what, bytes, el), Start(p), r, n) /\ read = r[n]

LEMMA LoopReads ==
    ASSUME NEW bytes, NEW values, NEW n \in Nat, NEW p \in Positions(bytes),
           NEW what, NEW el, NEW end, NEW read, Looped(what, bytes, p, n, el, end, read),
           \A q \in Positions(bytes) :
              Reads(bytes, q, Ensured(Ensuring(what, bytes, el), q),
                    Got(Ensuring(what, bytes, el), q), values)
    PROVE  Reads(bytes, p, end, read, Several(values, n))
<1>. PICK g, r : /\ Loops!IsLoop(Ensuring(what, bytes, el), p, g, n) /\ end = g[n]
                 /\ Loops!IsLoop(Reading(what, bytes, el), Start(p), r, n) /\ read = r[n]
  BY DEF Looped
<1>. DEFINE ensuring == Ensuring(what, bytes, el)
            reading == Reading(what, bytes, el)
<1>1. \A q : Got(reading, q) = Got(ensuring, q)
  BY Zenon DEF Got, Ensuring, Reading
<1>2. /\ \A q : Did(ensuring, q) = Ensured(ensuring, q)
      /\ \A x : Did(reading, x) = With(x, Got(ensuring, x.end))
  <2>1. ensuring.reads = FALSE /\ reading.reads = TRUE
    BY DEF Ensuring, Reading
  <2>. HIDE DEF ensuring, reading
  <2>. QED
    BY <1>1, <2>1 DEF Did
<1>. HIDE DEF ensuring, reading
<1>3. /\ g = [k \in 0..n |-> IF k = 0 THEN p ELSE Did(ensuring, g[k - 1])]
      /\ r = [k \in 0..n |-> IF k = 0 THEN Start(p) ELSE Did(reading, r[k - 1])]
  BY DEF Loops!IsLoop, ensuring, reading
<1>4. g[0] = p /\ r[0] = Start(p)
  BY <1>3
<1>5. ASSUME NEW k \in 0..n - 1
      PROVE  /\ g[k] \in Positions(bytes)
                => Reads(bytes, g[k], g[k + 1], Got(ensuring, g[k]), values)
             /\ r[k].end = g[k] => r[k + 1] = With(r[k], Got(ensuring, g[k]))
  <2>1. k + 1 \in 0..n /\ k + 1 # 0 /\ k + 1 - 1 = k
    OBVIOUS
  <2>2. g[k + 1] = Ensured(ensuring, g[k])
    BY <1>2, <1>3, <2>1
  <2>3. r[k + 1] = With(r[k], Got(ensuring, r[k].end))
    BY <1>2, <1>3, <2>1
  <2>. QED
    BY <2>2, <2>3 DEF ensuring
<1>. QED
  BY <1>4, <1>5, SeveralRead

(* Every loop is one of these.                                             *)
LEMMA ItemsLoop ==
    ASSUME NEW bytes, NEW p, NEW n \in Nat
    PROVE  Looped("varbuff", bytes, p, n, FALSE,
                  EnsureItems(bytes, p, n), ReadItems(bytes, p, n))
<1>. DEFINE ensuring == Ensuring("varbuff", bytes, FALSE)
            reading == Reading("varbuff", bytes, FALSE)
            P(g) == g = [k \in 0..n |->
                            IF k = 0 THEN p ELSE EnsureVarbuff(bytes, g[k - 1])]
            Q(r) == r = [k \in 0..n |->
                            IF k = 0 THEN Start(p)
                            ELSE With(r[k - 1], ReadVarbuff(bytes, r[k - 1].end))]
            ensured == CHOOSE g : P(g)
            got == CHOOSE r : Q(r)
<1>1. \A x : /\ Did(ensuring, x) = EnsureVarbuff(bytes, x)
             /\ Did(reading, x) = With(x, ReadVarbuff(bytes, x.end))
  BY DEF Did, Ensured, Got, Ensuring, Reading
<1>. HIDE DEF ensuring, reading
<1>2. /\ \A g : Loops!IsLoop(ensuring, p, g, n) <=> P(g)
      /\ \A r : Loops!IsLoop(reading, Start(p), r, n) <=> Q(r)
  BY <1>1 DEF Loops!IsLoop
<1>3. (\E g : Loops!IsLoop(ensuring, p, g, n))
      /\ (\E r : Loops!IsLoop(reading, Start(p), r, n))
  BY Loops!LoopExists
<1>4. P(ensured) /\ Q(got)
  BY <1>2, <1>3, Zenon
<1>5. EnsureItems(bytes, p, n) = ensured[n] /\ ReadItems(bytes, p, n) = got[n]
  BY DEF EnsureItems, ReadItems, Repeat
<1>6. Loops!IsLoop(ensuring, p, ensured, n) /\ Loops!IsLoop(reading, Start(p), got, n)
  BY <1>2, <1>4, Zenon
<1>. HIDE DEF ensured, got, P, Q
<1>. QED
  BY <1>5, <1>6, Zenon DEF Looped, ensuring, reading

LEMMA ItemsRead ==
    ASSUME NEW bytes \in Buffers, NEW p \in Positions(bytes), NEW n \in Nat
    PROVE  Reads(bytes, p, EnsureItems(bytes, p, n), ReadItems(bytes, p, n),
                 Several(Buffers, n))
<1>1. Looped("varbuff", bytes, p, n, FALSE,
             EnsureItems(bytes, p, n), ReadItems(bytes, p, n))
  BY ItemsLoop, Zenon
<1>2. \A q : /\ Ensured(Ensuring("varbuff", bytes, FALSE), q) = EnsureVarbuff(bytes, q)
             /\ Got(Ensuring("varbuff", bytes, FALSE), q) = ReadVarbuff(bytes, q)
  BY DEF Ensured, Got, Ensuring
<1>. QED
  BY <1>1, <1>2, VarbuffReads, LoopReads, Zenon

-----------------------------------------------------------------------------
(* The parts of a transaction, in one piece each.                          *)

Follows(bytes, p, end) ==
    end \in Positions(bytes) /\ (end # Refused => p # Refused /\ p <= end)

LEMMA FollowsOn ==
    ASSUME NEW bytes, NEW p \in Positions(bytes), NEW mid, NEW end,
           Follows(bytes, p, mid), Follows(bytes, mid, end)
    PROVE  Follows(bytes, p, end)
BY DEF Follows, Positions, Refused

LEMMA SkipFollows ==
    ASSUME NEW bytes \in Buffers, NEW p \in Positions(bytes), NEW n \in Nat
    PROVE  Follows(bytes, p, Skip(bytes, p, n))
BY SkipStays DEF Follows, Refused

(* A stack without items is none.                                          *)
LEMMA StackReads ==
    ASSUME NEW bytes \in Buffers, NEW p \in Positions(bytes)
    PROVE  Reads(bytes, p, EnsureStack(bytes, p), ReadStack(bytes, p), StackSet)
<1>. DEFINE v == EnsureVarint(bytes, p)
            end == EnsureStack(bytes, p)
            items == ReadItems(bytes, v.end, v.value)
<1>1. /\ Reads(bytes, p, v.end, ReadVarint(bytes, p), Nat) /\ v.value \in Nat
      /\ v.end # Refused => ReadVarint(bytes, p) = v
  BY VarintReads
<1>2. Follows(bytes, p, v.end) /\ v.end \in Positions(bytes)
  BY <1>1 DEF Follows, Reads
<1>. HIDE DEF v
<1>3. Reads(bytes, v.end, end, items, Several(Buffers, v.value))
  BY <1>1, <1>2, ItemsRead DEF EnsureStack, v
<1>4. Follows(bytes, p, end)
  <2>1. Follows(bytes, v.end, end)
    BY <1>3 DEF Follows, Reads
  <2>. QED
    BY <1>2, <2>1, FollowsOn
<1>5. ASSUME end # Refused
      PROVE  ReadStack(bytes, p).end = end /\ ReadStack(bytes, p).value \in StackSet
  <2>1. /\ v.end # Refused /\ items.end = end
        /\ items.value \in Seq(Buffers)
    BY <1>3, <1>5 DEF Reads, Several
  <2>2. ReadStack(bytes, p)
        = [value |-> IF v.value = 0 THEN None ELSE items.value, end |-> items.end]
    BY <1>1, <2>1 DEF ReadStack
  <2>. QED
    BY <2>1, <2>2 DEF StackSet
<1>. HIDE DEF end
<1>. QED
  BY <1>4, <1>5 DEF Follows, Reads, end

(* What the calls and the parser of a network make, and nobody else: the   *)
(* features say which network it is, and no index is left with a flag.     *)
InputShape(in, el) ==
    /\ Len(in.nonce) = 2
    /\ "ELEMENTS" \in in.features <=> el
    /\ "COINBASE" \in in.features <=> IsCoinbase(in.txhash, in.index)
    /\ el /\ "COINBASE" \notin in.features => in.index \in {0, 1}
    /\ el /\ "COINBASE" \in in.features => "PEGIN" \notin in.features
    /\ ~el => in.features \cap {"ISSUANCE", "PEGIN"} = {}
ShapedInputs(el) == {in \in InputSet : InputShape(in, el)}

LEMMA ShapesAreInputs == ASSUME NEW el PROVE ShapedInputs(el) \subseteq InputSet
BY DEF ShapedInputs

LEMMA InputMade ==
    ASSUME NEW a \in InputArgSet, NEW el \in BOOLEAN
    PROVE  InitInput(a, el) \in ShapedInputs(el) /\ RawInput(a, el) \in ShapedInputs(el)
<1>1. ASSUME NEW issuance \in BOOLEAN, ~el => ~issuance
      PROVE  MakeInput(a, el, issuance) \in ShapedInputs(el)
  <2>. DEFINE coinbase == IsCoinbase(a.txhash, a.index)
              index == IF el /\ ~coinbase THEN a.index % IndexMask ELSE a.index
              features == FeatureIf("ELEMENTS", el) \cup FeatureIf("COINBASE", coinbase)
                          \cup FeatureIf("ISSUANCE", issuance)
                          \cup FeatureIf("PEGIN",
                                   (el /\ ~coinbase) /\ Flagged(a.index, PeginFlag))
              nonce == Cleared(a.nonce)
              in == [txhash |-> a.txhash, sequence |-> a.sequence, script |-> a.script,
                     index |-> index, features |-> features, nonce |-> nonce,
                     amount |-> a.amount, keys |-> a.keys, amountproof |-> a.amountproof,
                     keysproof |-> a.keysproof, witness |-> a.witness, pegin |-> a.pegin]
  <2>1. index \in Nat
    BY DEF InputArgSet, IndexMask
  <2>2. features \in SUBSET {"ELEMENTS", "COINBASE", "ISSUANCE", "PEGIN"}
    BY DEF FeatureIf
  <2>3. nonce \in Buffers /\ Len(nonce) = 2
    <3>1. CASE a.nonce = <<>>
      BY <3>1 DEF Cleared, Buffers
    <3>2. CASE a.nonce # <<>>
      <4>1. a.nonce \in [1..2 -> Nat] /\ nonce = a.nonce
        BY <3>2 DEF InputArgSet, Cleared
      <4>. QED
        BY <4>1, SequenceOfLength, Zenon DEF Buffers
    <3>. QED
      BY <3>1, <3>2
  <2>4. MakeInput(a, el, issuance) = in
    BY DEF MakeInput
  <2>5. /\ "ELEMENTS" \in features <=> el
        /\ "COINBASE" \in features <=> coinbase
        /\ "PEGIN" \in features => el /\ ~coinbase
        /\ "ISSUANCE" \in features => issuance
    BY DEF FeatureIf
  <2>6. /\ el /\ ~coinbase => index \in {0, 1}
        /\ IsCoinbase(a.txhash, index) <=> coinbase
    <3>1. a.index \in Nat
      BY DEF InputArgSet
    <3>2. a.index % IndexMask \in {0, 1}
      BY <3>1 DEF IndexMask
    <3>. QED
      BY <3>2 DEF IsCoinbase, CoinbaseIndex
  <2>. HIDE DEF index, features, nonce, coinbase
  <2>7. in \in InputSet
    BY <2>1, <2>2, <2>3 DEF InputArgSet, InputSet
  <2>8. InputShape(in, el)
    BY <1>1, <2>3, <2>5, <2>6 DEF InputShape
  <2>. QED
    BY <2>4, <2>7, <2>8 DEF ShapedInputs
<1>2. (el /\ a.nonce # <<>>) \in BOOLEAN
  OBVIOUS
<1>3. (/\ el /\ ~IsCoinbase(a.txhash, a.index) /\ Flagged(a.index, IssuanceFlag)) \in BOOLEAN
  OBVIOUS
<1>. QED
  BY <1>1, <1>2, <1>3, Zenon DEF InitInput, RawInput

LEMMA InputReads ==
    ASSUME NEW bytes \in Buffers, NEW p \in Positions(bytes), NEW el \in BOOLEAN
    PROVE  Reads(bytes, p, EnsureInput(bytes, p, el), ReadInput(bytes, p, el),
                 ShapedInputs(el))
<1>. DEFINE outpoint == Skip(bytes, p, 2)
            script == EnsureVarbuff(bytes, outpoint)
            sequence == Skip(bytes, script, 1)
            after == Skip(bytes, sequence, 2)
            amount == EnsureValue(bytes, after)
            keys == EnsureValue(bytes, amount)
            end == EnsureInput(bytes, p, el)
            issuance == /\ el /\ Flagged(At(bytes, p + 1), IssuanceFlag)
                        /\ ~IsCoinbase(At(bytes, p), At(bytes, p + 1))
            readScript == ReadVarbuff(bytes, p + 2)
            readAmount == ReadCommitment(bytes, readScript.end + 1 + 2, ExplicitLen)
            readKeys == ReadCommitment(bytes, readAmount.end, ExplicitLen)
            nonce == IF issuance THEN Slice(bytes, readScript.end + 1, 2) ELSE <<>>
            amountValue == IF issuance THEN readAmount.value ELSE <<>>
            keysValue == IF issuance THEN readKeys.value ELSE <<>>
            in == [txhash |-> At(bytes, p), index |-> At(bytes, p + 1),
                   script |-> readScript.value, sequence |-> At(bytes, readScript.end),
                   nonce |-> nonce, amount |-> amountValue, keys |-> keysValue,
                   amountproof |-> <<>>, keysproof |-> <<>>, witness |-> None, pegin |-> None]
            ValueSet == Commitments(ExplicitLen, ValuePrefixes)
<1>1. outpoint \in Positions(bytes) /\ Follows(bytes, p, outpoint)
  BY SkipStays, SkipFollows
<1>. HIDE DEF outpoint
<1>2. Reads(bytes, outpoint, script, ReadVarbuff(bytes, outpoint), Buffers)
  BY <1>1, VarbuffReads
<1>3. script \in Positions(bytes) /\ Follows(bytes, outpoint, script)
  BY <1>2 DEF Reads, Follows
<1>. HIDE DEF script
<1>4. sequence \in Positions(bytes) /\ Follows(bytes, script, sequence)
  BY <1>3, SkipStays, SkipFollows
<1>. HIDE DEF sequence
<1>5. after \in Positions(bytes) /\ Follows(bytes, sequence, after)
  BY <1>4, SkipStays, SkipFollows
<1>. HIDE DEF after
<1>6. Reads(bytes, after, amount, ReadCommitment(bytes, after, ExplicitLen), ValueSet)
  BY <1>5, CommitmentReads DEF EnsureValue
<1>7. amount \in Positions(bytes) /\ Follows(bytes, after, amount)
  BY <1>6 DEF Reads, Follows
<1>. HIDE DEF amount
<1>8. Reads(bytes, amount, keys, ReadCommitment(bytes, amount, ExplicitLen), ValueSet)
  BY <1>7, CommitmentReads DEF EnsureValue
<1>9. keys \in Positions(bytes) /\ Follows(bytes, amount, keys)
  BY <1>8 DEF Reads, Follows
<1>. HIDE DEF keys
<1>10. Follows(bytes, p, sequence) /\ Follows(bytes, p, keys)
  BY <1>1, <1>3, <1>4, <1>5, <1>7, <1>9, FollowsOn
<1>11. outpoint # Refused =>
         /\ p \in Nat /\ p + 1 \in Nat /\ outpoint = p + 2
         /\ bytes[p + 1] = At(bytes, p) /\ bytes[outpoint] = At(bytes, p + 1)
  <2>. SUFFICES ASSUME outpoint # Refused
                PROVE  /\ p \in Nat /\ p + 1 \in Nat /\ outpoint = p + 2
                       /\ bytes[p + 1] = At(bytes, p) /\ bytes[outpoint] = At(bytes, p + 1)
    OBVIOUS
  <2>1. p \in Nat /\ outpoint = p + 2 /\ p + 2 <= Len(bytes) /\ Len(bytes) \in Nat
    BY SkipStays, LengthIsNatural DEF outpoint
  <2>2. /\ p + 1 \in 1..Len(bytes) /\ p + 2 \in 1..Len(bytes)
        /\ p + 1 - 1 = p /\ p + 2 - 1 = p + 1
    BY <2>1
  <2>. DEFINE q == p + 1
              r == p + 2
  <2>3. q \in 1..Len(bytes) /\ r \in 1..Len(bytes) /\ q - 1 = p /\ r - 1 = p + 1 /\ outpoint = r
    BY <2>1, <2>2
  <2>4. q \in Nat /\ p \in Nat
    BY <2>1
  <2>. HIDE DEF q, r
  <2>5. bytes[q] = At(bytes, p) /\ bytes[r] = At(bytes, p + 1)
    BY <2>3, ByteAt, Zenon
  <2>6. bytes[p + 1] = At(bytes, p)
    BY <2>5 DEF q
  <2>. QED
    BY <2>1, <2>3, <2>4, <2>5, <2>6, Zenon DEF q
<1>12. outpoint # Refused => end = IF issuance THEN keys ELSE sequence
  <2>1. end = IF outpoint = Refused THEN Refused
              ELSE IF /\ el /\ Flagged(bytes[outpoint], IssuanceFlag)
                      /\ ~IsCoinbase(bytes[p + 1], bytes[outpoint])
              THEN keys ELSE sequence
    BY DEF EnsureInput, keys, amount, after, sequence, script, outpoint
  <2>. QED
    BY <1>11, <2>1
<1>13. outpoint = Refused => end = Refused
  BY DEF EnsureInput, outpoint
<1>. HIDE DEF end
<1>14. Follows(bytes, p, end)
  BY <1>10, <1>12, <1>13 DEF Follows, Positions
<1>15. ASSUME end # Refused
       PROVE  /\ ReadInput(bytes, p, el).end = end
              /\ ReadInput(bytes, p, el).value \in ShapedInputs(el)
  <2>1. sequence # Refused /\ (issuance => keys # Refused)
    BY <1>4, <1>5, <1>7, <1>9, <1>12, <1>13, <1>15 DEF Follows
  <2>2. script # Refused /\ outpoint # Refused
    BY <1>3, <1>4, <2>1 DEF Follows
  <2>3. /\ readScript.end = script /\ readScript.value \in Buffers
    BY <1>2, <1>11, <2>2 DEF Reads
  <2>4. sequence = readScript.end + 1 /\ readScript.end \in Nat
    <3>1. script \in Nat /\ sequence = script + 1
      BY <1>3, <2>1, SkipStays DEF sequence
    <3>. QED
      BY <2>3, <3>1
  <2>5. issuance => /\ readAmount.end = amount /\ readAmount.value \in ValueSet
                    /\ readKeys.end = keys /\ readKeys.value \in ValueSet
    <3>. SUFFICES ASSUME issuance
                  PROVE  /\ readAmount.end = amount /\ readAmount.value \in ValueSet
                         /\ readKeys.end = keys /\ readKeys.value \in ValueSet
      OBVIOUS
    <3>1. amount # Refused /\ after # Refused
      BY <1>7, <1>9, <2>1 DEF Follows
    <3>2. after = readScript.end + 1 + 2
      BY <1>4, <2>4, <3>1, SkipStays DEF after
    <3>3. readAmount.end = amount /\ readAmount.value \in ValueSet
      BY <1>6, <3>1, <3>2 DEF Reads
    <3>. HIDE DEF readAmount
    <3>4. readKeys.end = keys /\ readKeys.value \in ValueSet
      BY <1>8, <2>1, <3>3 DEF Reads
    <3>. QED
      BY <3>3, <3>4
  <2>6. ReadInput(bytes, p, el)
        = [value |-> InitInput(in, el),
           end |-> IF issuance THEN readKeys.end ELSE readScript.end + 1]
    BY DEF ReadInput
  <2>. HIDE DEF readScript, readAmount, readKeys, issuance, ValueSet
  <2>7. nonce \in {<<>>} \cup [1..2 -> Nat]
    <3>1. readScript.end + 1 \in Nat /\ 2 \in Nat
      BY <2>4
    <3>2. /\ Slice(bytes, readScript.end + 1, 2) \in Seq(Nat)
          /\ Len(Slice(bytes, readScript.end + 1, 2)) = 2
      BY <3>1, SliceIsTyped, Zenon DEF Buffers
    <3>3. Slice(bytes, readScript.end + 1, 2) \in [1..2 -> Nat]
      BY <3>2, SMTT(30)
    <3>. QED
      BY <3>3
  <2>8. <<>> \in ValueSet /\ <<>> \in Buffers /\ None \in StackSet
    BY DEF ValueSet, Commitments, Buffers, StackSet
  <2>9. amountValue \in ValueSet /\ keysValue \in ValueSet
    BY <2>5, <2>8
  <2>10. At(bytes, p) \in Nat /\ At(bytes, p + 1) \in Nat /\ At(bytes, readScript.end) \in Nat
    BY <1>11, <2>2, <2>4, ByteAt, Zenon
  <2>. HIDE DEF nonce, amountValue, keysValue
  <2>11. in \in InputArgSet
    BY <2>3, <2>7, <2>8, <2>9, <2>10 DEF InputArgSet, ValueSet
  <2>. HIDE DEF in
  <2>12. InitInput(in, el) \in ShapedInputs(el)
    BY <2>11, InputMade
  <2>13. end = IF issuance THEN readKeys.end ELSE readScript.end + 1
    BY <1>12, <2>2, <2>4, <2>5
  <2>. QED
    BY <2>6, <2>12, <2>13
<1>. QED
  BY <1>14, <1>15 DEF Follows, Reads, end

(* In a row.                                                               *)
LEMMA ReadsInARow ==
    ASSUME NEW bytes, NEW p \in Positions(bytes), NEW mid, NEW end,
           NEW first, NEW second, NEW ones, NEW others,
           Reads(bytes, p, mid, first, ones), Reads(bytes, mid, end, second, others)
    PROVE  /\ Follows(bytes, p, end) /\ end \in Positions(bytes)
           /\ end # Refused => /\ mid # Refused
                               /\ first.end = mid /\ first.value \in ones
                               /\ second.end = end /\ second.value \in others
<1>1. Follows(bytes, p, mid) /\ Follows(bytes, mid, end)
  BY DEF Reads, Follows
<1>2. Follows(bytes, p, end)
  BY <1>1, FollowsOn
<1>. QED
  BY <1>2 DEF Reads, Follows

ProofsSet == [surjectionproof : Buffers, rangeproof : Buffers]
InputWitnessSet ==
    [amountproof : Buffers, keysproof : Buffers, witness : StackSet, pegin : StackSet]

LEMMA ProofsReads ==
    ASSUME NEW bytes \in Buffers, NEW p \in Positions(bytes)
    PROVE  Reads(bytes, p, EnsureProofs(bytes, p), ReadProofs(bytes, p),
                 ProofsSet)
<1>. DEFINE mid == EnsureVarbuff(bytes, p)
            end == EnsureProofs(bytes, p)
            surjection == ReadVarbuff(bytes, p)
            range == ReadVarbuff(bytes, mid)
<1>1. Reads(bytes, p, mid, surjection, Buffers) /\ mid \in Positions(bytes)
  BY VarbuffReads DEF Reads
<1>. HIDE DEF mid
<1>2. Reads(bytes, mid, end, range, Buffers)
  BY <1>1, VarbuffReads DEF EnsureProofs, mid
<1>. HIDE DEF end
<1>3. /\ Follows(bytes, p, end)
      /\ end # Refused => /\ surjection.end = mid /\ surjection.value \in Buffers
                          /\ range.end = end /\ range.value \in Buffers
  BY <1>1, <1>2, ReadsInARow
<1>4. surjection.end = mid
      => ReadProofs(bytes, p) = [value |-> [surjectionproof |-> surjection.value,
                                            rangeproof |-> range.value],
                                 end |-> range.end]
  BY DEF ReadProofs
<1>. HIDE DEF surjection, range
<1>. QED
  BY <1>3, <1>4 DEF Follows, Reads, end, ProofsSet

LEMMA InputWitnessReads ==
    ASSUME NEW bytes \in Buffers, NEW p \in Positions(bytes)
    PROVE  Reads(bytes, p, EnsureInputWitness(bytes, p), ReadInputWitness(bytes, p),
                 InputWitnessSet)
<1>. DEFINE one == EnsureVarbuff(bytes, p)
            two == EnsureVarbuff(bytes, one)
            three == EnsureStack(bytes, two)
            end == EnsureInputWitness(bytes, p)
            amount == ReadVarbuff(bytes, p)
            keys == ReadVarbuff(bytes, one)
            witness == ReadStack(bytes, two)
            pegin == ReadStack(bytes, three)
<1>1. Reads(bytes, p, one, amount, Buffers) /\ one \in Positions(bytes)
  BY VarbuffReads DEF Reads
<1>. HIDE DEF one
<1>2. Reads(bytes, one, two, keys, Buffers) /\ two \in Positions(bytes)
  BY <1>1, VarbuffReads DEF Reads
<1>. HIDE DEF two
<1>3. Reads(bytes, two, three, witness, StackSet) /\ three \in Positions(bytes)
  BY <1>2, StackReads DEF Reads
<1>. HIDE DEF three
<1>4. Reads(bytes, three, end, pegin, StackSet)
  BY <1>3, StackReads DEF EnsureInputWitness, one, two, three
<1>. HIDE DEF end
<1>5. /\ Follows(bytes, p, two)
      /\ two # Refused => /\ amount.end = one /\ amount.value \in Buffers
                          /\ keys.end = two /\ keys.value \in Buffers
  BY <1>1, <1>2, ReadsInARow
<1>6. /\ Follows(bytes, two, end)
      /\ end # Refused => /\ witness.end = three /\ witness.value \in StackSet
                          /\ pegin.end = end /\ pegin.value \in StackSet
  BY <1>2, <1>3, <1>4, ReadsInARow
<1>7. Follows(bytes, p, end)
  BY <1>5, <1>6, FollowsOn
<1>8. amount.end = one /\ keys.end = two /\ witness.end = three
      => ReadInputWitness(bytes, p)
         = [value |-> [amountproof |-> amount.value, keysproof |-> keys.value,
                       witness |-> witness.value, pegin |-> pegin.value],
            end |-> pegin.end]
  BY DEF ReadInputWitness
<1>. HIDE DEF amount, keys, witness, pegin
<1>9. end # Refused => two # Refused
  BY <1>6 DEF Follows
<1>. QED
  BY <1>5, <1>6, <1>7, <1>8, <1>9 DEF Follows, Reads, end, InputWitnessSet

(* An output as its arguments: one of Bitcoin has no commitments.          *)
LEMMA OutputReads ==
    ASSUME NEW bytes \in Buffers, NEW p \in Positions(bytes), NEW el \in BOOLEAN
    PROVE  Reads(bytes, p, EnsureOutput(bytes, p, el), ReadOutput(bytes, p, el),
                 OutputArgSet(el))
<1>. DEFINE end == EnsureOutput(bytes, p, el)
            read == ReadOutput(bytes, p, el)
<1>1. CASE el
  <2>. DEFINE one == EnsureCommitment(bytes, p, CtLen, AssetPrefixes)
              two == EnsureValue(bytes, one)
              three == EnsureCommitment(bytes, two, CtLen, NoncePrefixes)
              asset == ReadCommitment(bytes, p, CtLen)
              value == ReadCommitment(bytes, one, ExplicitLen)
              nonce == ReadCommitment(bytes, two, CtLen)
              script == ReadVarbuff(bytes, three)
              Assets == Commitments(CtLen, AssetPrefixes)
              Values == Commitments(ExplicitLen, ValuePrefixes)
              Nonces == Commitments(CtLen, NoncePrefixes)
  <2>1. Reads(bytes, p, one, asset, Assets) /\ one \in Positions(bytes)
    BY CommitmentReads DEF Reads
  <2>. HIDE DEF one
  <2>2. Reads(bytes, one, two, value, Values) /\ two \in Positions(bytes)
    BY <2>1, CommitmentReads DEF Reads, EnsureValue
  <2>. HIDE DEF two
  <2>3. Reads(bytes, two, three, nonce, Nonces) /\ three \in Positions(bytes)
    BY <2>2, CommitmentReads DEF Reads
  <2>. HIDE DEF three
  <2>4. Reads(bytes, three, end, script, Buffers)
    BY <1>1, <2>3, VarbuffReads DEF EnsureOutput, one, two, three
  <2>. HIDE DEF end
  <2>5. /\ Follows(bytes, p, two)
        /\ two # Refused => /\ asset.end = one /\ asset.value \in Assets
                            /\ value.end = two /\ value.value \in Values
    BY <2>1, <2>2, ReadsInARow
  <2>6. /\ Follows(bytes, two, end)
        /\ end # Refused => /\ nonce.end = three /\ nonce.value \in Nonces
                            /\ script.end = end /\ script.value \in Buffers
    BY <2>2, <2>3, <2>4, ReadsInARow
  <2>7. Follows(bytes, p, end)
    BY <2>5, <2>6, FollowsOn
  <2>. DEFINE a == [satoshi |-> -1, script |-> script.value, asset |-> asset.value,
                    value |-> value.value, nonce |-> nonce.value,
                    surjectionproof |-> <<>>, rangeproof |-> <<>>]
  <2>8. asset.end = one /\ value.end = two /\ nonce.end = three
        => read = [value |-> a, end |-> script.end]
    BY <1>1 DEF ReadOutput
  <2>. HIDE DEF asset, value, nonce, script, Assets, Values, Nonces, read
  <2>9. end # Refused => two # Refused
    BY <2>6 DEF Follows
  <2>10. end # Refused => a \in OutputArgSet(el)
    <3>1. <<>> \in Buffers
      BY DEF Buffers
    <3>. QED
      BY <1>1, <2>5, <2>6, <2>9, <3>1 DEF OutputArgSet, Assets, Values, Nonces
  <2>. HIDE DEF a
  <2>. QED
    BY <2>5, <2>6, <2>7, <2>8, <2>9, <2>10 DEF Follows, Reads, end, read
<1>2. CASE ~el
  <2>. DEFINE one == Skip(bytes, p, 1)
              script == ReadVarbuff(bytes, one)
  <2>1. one \in Positions(bytes) /\ Follows(bytes, p, one)
    BY SkipStays, SkipFollows
  <2>2. one # Refused => p \in Nat /\ one = p + 1
    BY SkipStays
  <2>. HIDE DEF one
  <2>3. Reads(bytes, one, end, script, Buffers)
    BY <1>2, <2>1, VarbuffReads DEF EnsureOutput, one
  <2>. HIDE DEF end
  <2>4. Follows(bytes, p, end)
    <3>1. Follows(bytes, one, end)
      BY <2>3 DEF Follows, Reads
    <3>. QED
      BY <2>1, <3>1, FollowsOn
  <2>. DEFINE a == [satoshi |-> At(bytes, p), script |-> script.value, asset |-> <<>>,
                    value |-> <<>>, nonce |-> <<>>,
                    surjectionproof |-> <<>>, rangeproof |-> <<>>]
  <2>5. one = p + 1 => read = [value |-> a, end |-> script.end]
    BY <1>2 DEF ReadOutput
  <2>. HIDE DEF script, read
  <2>6. end # Refused => /\ one # Refused /\ script.end = end /\ script.value \in Buffers
    BY <2>3 DEF Reads
  <2>7. end # Refused => a \in OutputArgSet(el)
    <3>1. end # Refused => At(bytes, p) \in Nat
      BY <2>2, <2>6, ByteAt
    <3>2. <<>> \in Buffers
      BY DEF Buffers
    <3>. QED
      BY <1>2, <2>6, <3>1, <3>2 DEF OutputArgSet
  <2>. HIDE DEF a
  <2>. QED
    BY <2>2, <2>4, <2>5, <2>6, <2>7 DEF Follows, Reads, end, read
<1>. QED
  BY <1>1, <1>2

(* Each loop is one of those above ...                                     *)
LEMMA InputsLoop ==
    ASSUME NEW bytes, NEW p, NEW n \in Nat, NEW el
    PROVE  Looped("input", bytes, p, n, el,
                  EnsureInputs(bytes, p, n, el), ReadInputs(bytes, p, n, el))
<1>. DEFINE ensuring == Ensuring("input", bytes, el)
            reading == Reading("input", bytes, el)
            P(g) == g = [k \in 0..n |->
                            IF k = 0 THEN p ELSE EnsureInput(bytes, g[k - 1], el)]
            Q(r) == r = [k \in 0..n |->
                            IF k = 0 THEN Start(p)
                            ELSE With(r[k - 1], ReadInput(bytes, r[k - 1].end, el))]
            ensured == CHOOSE g : P(g)
            got == CHOOSE r : Q(r)
<1>1. \A x : /\ Did(ensuring, x) = EnsureInput(bytes, x, el)
             /\ Did(reading, x) = With(x, ReadInput(bytes, x.end, el))
  BY DEF Did, Ensured, Got, Ensuring, Reading
<1>. HIDE DEF ensuring, reading
<1>2. /\ \A g : Loops!IsLoop(ensuring, p, g, n) <=> P(g)
      /\ \A r : Loops!IsLoop(reading, Start(p), r, n) <=> Q(r)
  BY <1>1 DEF Loops!IsLoop
<1>3. (\E g : Loops!IsLoop(ensuring, p, g, n))
      /\ (\E r : Loops!IsLoop(reading, Start(p), r, n))
  BY Loops!LoopExists
<1>4. P(ensured) /\ Q(got)
  BY <1>2, <1>3, Zenon
<1>5. EnsureInputs(bytes, p, n, el) = ensured[n] /\ ReadInputs(bytes, p, n, el) = got[n]
  BY DEF EnsureInputs, ReadInputs, Repeat
<1>6. Loops!IsLoop(ensuring, p, ensured, n) /\ Loops!IsLoop(reading, Start(p), got, n)
  BY <1>2, <1>4, Zenon
<1>. HIDE DEF ensured, got, P, Q
<1>. QED
  BY <1>5, <1>6 DEF Looped, ensuring, reading

LEMMA OutputsLoop ==
    ASSUME NEW bytes, NEW p, NEW n \in Nat, NEW el
    PROVE  Looped("output", bytes, p, n, el,
                  EnsureOutputs(bytes, p, n, el), ReadOutputs(bytes, p, n, el))
<1>. DEFINE ensuring == Ensuring("output", bytes, el)
            reading == Reading("output", bytes, el)
            P(g) == g = [k \in 0..n |->
                            IF k = 0 THEN p ELSE EnsureOutput(bytes, g[k - 1], el)]
            Q(r) == r = [k \in 0..n |->
                            IF k = 0 THEN Start(p)
                            ELSE With(r[k - 1], ReadOutput(bytes, r[k - 1].end, el))]
            ensured == CHOOSE g : P(g)
            got == CHOOSE r : Q(r)
<1>1. \A x : /\ Did(ensuring, x) = EnsureOutput(bytes, x, el)
             /\ Did(reading, x) = With(x, ReadOutput(bytes, x.end, el))
  BY DEF Did, Ensured, Got, Ensuring, Reading
<1>. HIDE DEF ensuring, reading
<1>2. /\ \A g : Loops!IsLoop(ensuring, p, g, n) <=> P(g)
      /\ \A r : Loops!IsLoop(reading, Start(p), r, n) <=> Q(r)
  BY <1>1 DEF Loops!IsLoop
<1>3. (\E g : Loops!IsLoop(ensuring, p, g, n))
      /\ (\E r : Loops!IsLoop(reading, Start(p), r, n))
  BY Loops!LoopExists
<1>4. P(ensured) /\ Q(got)
  BY <1>2, <1>3, Zenon
<1>5. EnsureOutputs(bytes, p, n, el) = ensured[n] /\ ReadOutputs(bytes, p, n, el) = got[n]
  BY DEF EnsureOutputs, ReadOutputs, Repeat
<1>6. Loops!IsLoop(ensuring, p, ensured, n) /\ Loops!IsLoop(reading, Start(p), got, n)
  BY <1>2, <1>4, Zenon
<1>. HIDE DEF ensured, got, P, Q
<1>. QED
  BY <1>5, <1>6 DEF Looped, ensuring, reading

LEMMA StacksLoop ==
    ASSUME NEW bytes, NEW p, NEW n \in Nat
    PROVE  Looped("stack", bytes, p, n, FALSE,
                  EnsureStacks(bytes, p, n), ReadStacks(bytes, p, n))
<1>. DEFINE ensuring == Ensuring("stack", bytes, FALSE)
            reading == Reading("stack", bytes, FALSE)
            P(g) == g = [k \in 0..n |->
                            IF k = 0 THEN p ELSE EnsureStack(bytes, g[k - 1])]
            Q(r) == r = [k \in 0..n |->
                            IF k = 0 THEN Start(p)
                            ELSE With(r[k - 1], ReadStack(bytes, r[k - 1].end))]
            ensured == CHOOSE g : P(g)
            got == CHOOSE r : Q(r)
<1>1. \A x : /\ Did(ensuring, x) = EnsureStack(bytes, x)
             /\ Did(reading, x) = With(x, ReadStack(bytes, x.end))
  BY DEF Did, Ensured, Got, Ensuring, Reading
<1>. HIDE DEF ensuring, reading
<1>2. /\ \A g : Loops!IsLoop(ensuring, p, g, n) <=> P(g)
      /\ \A r : Loops!IsLoop(reading, Start(p), r, n) <=> Q(r)
  BY <1>1 DEF Loops!IsLoop
<1>3. (\E g : Loops!IsLoop(ensuring, p, g, n))
      /\ (\E r : Loops!IsLoop(reading, Start(p), r, n))
  BY Loops!LoopExists
<1>4. P(ensured) /\ Q(got)
  BY <1>2, <1>3
<1>5. EnsureStacks(bytes, p, n) = ensured[n] /\ ReadStacks(bytes, p, n) = got[n]
  BY DEF EnsureStacks, ReadStacks, Repeat
<1>6. Loops!IsLoop(ensuring, p, ensured, n) /\ Loops!IsLoop(reading, Start(p), got, n)
  BY <1>2, <1>4, Zenon
<1>. HIDE DEF ensured, got, P, Q
<1>. QED
  BY <1>5, <1>6, Zenon DEF Looped, ensuring, reading

LEMMA InputWitnessesLoop ==
    ASSUME NEW bytes, NEW p, NEW n \in Nat
    PROVE  Looped("witness", bytes, p, n, FALSE,
                  EnsureInputWitnesses(bytes, p, n), ReadInputWitnesses(bytes, p, n))
<1>. DEFINE ensuring == Ensuring("witness", bytes, FALSE)
            reading == Reading("witness", bytes, FALSE)
            P(g) == g = [k \in 0..n |->
                            IF k = 0 THEN p ELSE EnsureInputWitness(bytes, g[k - 1])]
            Q(r) == r = [k \in 0..n |->
                            IF k = 0 THEN Start(p)
                            ELSE With(r[k - 1], ReadInputWitness(bytes, r[k - 1].end))]
            ensured == CHOOSE g : P(g)
            got == CHOOSE r : Q(r)
<1>1. \A x : /\ Did(ensuring, x) = EnsureInputWitness(bytes, x)
             /\ Did(reading, x) = With(x, ReadInputWitness(bytes, x.end))
  BY DEF Did, Ensured, Got, Ensuring, Reading
<1>. HIDE DEF ensuring, reading
<1>2. /\ \A g : Loops!IsLoop(ensuring, p, g, n) <=> P(g)
      /\ \A r : Loops!IsLoop(reading, Start(p), r, n) <=> Q(r)
  BY <1>1 DEF Loops!IsLoop
<1>3. (\E g : Loops!IsLoop(ensuring, p, g, n))
      /\ (\E r : Loops!IsLoop(reading, Start(p), r, n))
  BY Loops!LoopExists
<1>4. P(ensured) /\ Q(got)
  BY <1>2, <1>3, Zenon
<1>5. EnsureInputWitnesses(bytes, p, n) = ensured[n] /\ ReadInputWitnesses(bytes, p, n) = got[n]
  BY DEF EnsureInputWitnesses, ReadInputWitnesses, Repeat
<1>6. Loops!IsLoop(ensuring, p, ensured, n) /\ Loops!IsLoop(reading, Start(p), got, n)
  BY <1>2, <1>4, Zenon
<1>. HIDE DEF ensured, got, P, Q
<1>. QED
  BY <1>5, <1>6, Zenon DEF Looped, ensuring, reading

LEMMA AllProofsLoop ==
    ASSUME NEW bytes, NEW p, NEW n \in Nat
    PROVE  Looped("proofs", bytes, p, n, FALSE,
                  EnsureAllProofs(bytes, p, n), ReadAllProofs(bytes, p, n))
<1>. DEFINE ensuring == Ensuring("proofs", bytes, FALSE)
            reading == Reading("proofs", bytes, FALSE)
            P(g) == g = [k \in 0..n |->
                            IF k = 0 THEN p ELSE EnsureProofs(bytes, g[k - 1])]
            Q(r) == r = [k \in 0..n |->
                            IF k = 0 THEN Start(p)
                            ELSE With(r[k - 1], ReadProofs(bytes, r[k - 1].end))]
            ensured == CHOOSE g : P(g)
            got == CHOOSE r : Q(r)
<1>1. \A x : /\ Did(ensuring, x) = EnsureProofs(bytes, x)
             /\ Did(reading, x) = With(x, ReadProofs(bytes, x.end))
  BY DEF Did, Ensured, Got, Ensuring, Reading
<1>. HIDE DEF ensuring, reading
<1>2. /\ \A g : Loops!IsLoop(ensuring, p, g, n) <=> P(g)
      /\ \A r : Loops!IsLoop(reading, Start(p), r, n) <=> Q(r)
  BY <1>1 DEF Loops!IsLoop
<1>3. (\E g : Loops!IsLoop(ensuring, p, g, n))
      /\ (\E r : Loops!IsLoop(reading, Start(p), r, n))
  BY Loops!LoopExists
<1>4. P(ensured) /\ Q(got)
  BY <1>2, <1>3
<1>5. EnsureAllProofs(bytes, p, n) = ensured[n] /\ ReadAllProofs(bytes, p, n) = got[n]
  BY DEF EnsureAllProofs, ReadAllProofs, Repeat
<1>6. Loops!IsLoop(ensuring, p, ensured, n) /\ Loops!IsLoop(reading, Start(p), got, n)
  BY <1>2, <1>4, Zenon
<1>. HIDE DEF ensured, got, P, Q
<1>. QED
  BY <1>5, <1>6, Zenon DEF Looped, ensuring, reading

(* ... and all of them are read.                                           *)
LEMMA InputsRead ==
    ASSUME NEW bytes \in Buffers, NEW p \in Positions(bytes), NEW n \in Nat,
           NEW el \in BOOLEAN
    PROVE  Reads(bytes, p, EnsureInputs(bytes, p, n, el), ReadInputs(bytes, p, n, el),
                 Several(ShapedInputs(el), n))
<1>1. Looped("input", bytes, p, n, el,
             EnsureInputs(bytes, p, n, el), ReadInputs(bytes, p, n, el))
  BY InputsLoop
<1>2. \A q : /\ Ensured(Ensuring("input", bytes, el), q) = EnsureInput(bytes, q, el)
             /\ Got(Ensuring("input", bytes, el), q) = ReadInput(bytes, q, el)
  BY DEF Ensured, Got, Ensuring
<1>. QED
  BY <1>1, <1>2, InputReads, LoopReads

LEMMA OutputsRead ==
    ASSUME NEW bytes \in Buffers, NEW p \in Positions(bytes), NEW n \in Nat,
           NEW el \in BOOLEAN
    PROVE  Reads(bytes, p, EnsureOutputs(bytes, p, n, el), ReadOutputs(bytes, p, n, el),
                 Several(OutputArgSet(el), n))
<1>1. Looped("output", bytes, p, n, el,
             EnsureOutputs(bytes, p, n, el), ReadOutputs(bytes, p, n, el))
  BY OutputsLoop
<1>2. \A q : /\ Ensured(Ensuring("output", bytes, el), q) = EnsureOutput(bytes, q, el)
             /\ Got(Ensuring("output", bytes, el), q) = ReadOutput(bytes, q, el)
  BY DEF Ensured, Got, Ensuring
<1>. QED
  BY <1>1, <1>2, OutputReads, LoopReads

LEMMA StacksRead ==
    ASSUME NEW bytes \in Buffers, NEW p \in Positions(bytes), NEW n \in Nat
    PROVE  Reads(bytes, p, EnsureStacks(bytes, p, n), ReadStacks(bytes, p, n),
                 Several(StackSet, n))
<1>1. Looped("stack", bytes, p, n, FALSE,
             EnsureStacks(bytes, p, n), ReadStacks(bytes, p, n))
  BY StacksLoop, Zenon
<1>2. \A q : /\ Ensured(Ensuring("stack", bytes, FALSE), q) = EnsureStack(bytes, q)
             /\ Got(Ensuring("stack", bytes, FALSE), q) = ReadStack(bytes, q)
  BY DEF Ensured, Got, Ensuring
<1>. QED
  BY <1>1, <1>2, StackReads, LoopReads, Zenon

LEMMA InputWitnessesRead ==
    ASSUME NEW bytes \in Buffers, NEW p \in Positions(bytes), NEW n \in Nat
    PROVE  Reads(bytes, p, EnsureInputWitnesses(bytes, p, n), ReadInputWitnesses(bytes, p, n),
                 Several(InputWitnessSet, n))
<1>1. Looped("witness", bytes, p, n, FALSE,
             EnsureInputWitnesses(bytes, p, n), ReadInputWitnesses(bytes, p, n))
  BY InputWitnessesLoop, Zenon
<1>2. \A q : /\ Ensured(Ensuring("witness", bytes, FALSE), q) = EnsureInputWitness(bytes, q)
             /\ Got(Ensuring("witness", bytes, FALSE), q) = ReadInputWitness(bytes, q)
  BY DEF Ensured, Got, Ensuring
<1>. QED
  BY <1>1, <1>2, InputWitnessReads, LoopReads, Zenon

LEMMA AllProofsRead ==
    ASSUME NEW bytes \in Buffers, NEW p \in Positions(bytes), NEW n \in Nat
    PROVE  Reads(bytes, p, EnsureAllProofs(bytes, p, n), ReadAllProofs(bytes, p, n),
                 Several(ProofsSet, n))
<1>1. Looped("proofs", bytes, p, n, FALSE,
             EnsureAllProofs(bytes, p, n), ReadAllProofs(bytes, p, n))
  BY AllProofsLoop, Zenon
<1>2. \A q : /\ Ensured(Ensuring("proofs", bytes, FALSE), q) = EnsureProofs(bytes, q)
             /\ Got(Ensuring("proofs", bytes, FALSE), q) = ReadProofs(bytes, q)
  BY DEF Ensured, Got, Ensuring
<1>. QED
  BY <1>1, <1>2, ProofsReads, LoopReads, Zenon

-----------------------------------------------------------------------------
(* The witnesses and the rest.                                             *)

ShapedOutputs(el) ==
    {out \in OutputSet(el) :
        ~el => /\ out.satoshi <= SatoshiMax
               /\ out.asset = <<>> /\ out.value = <<>> /\ out.nonce = <<>>}
ShapedTxs(el) ==
    [version : Nat, locktime : Nat, inputs : Seq(ShapedInputs(el)),
     outputs : Seq(ShapedOutputs(el))]

LEMMA ShapesAreTxs ==
    ASSUME NEW el \in BOOLEAN
    PROVE  ShapedOutputs(el) \subseteq Outputs /\ ShapedTxs(el) \subseteq TxSet
<1>1. ShapedOutputs(el) \subseteq Outputs
  BY Zenon DEF ShapedOutputs, Outputs
<1>2. Seq(ShapedInputs(el)) \subseteq Seq(InputSet) /\ Seq(ShapedOutputs(el)) \subseteq Seq(Outputs)
  BY <1>1, ShapesAreInputs
<1>. QED
  BY <1>1, <1>2, Zenon DEF ShapedTxs, TxSet, Outputs

LEMMA OutputMade ==
    ASSUME NEW el \in BOOLEAN, NEW a \in OutputArgSet(el), CanMakeOutput(a, el)
    PROVE  MakeOutput(a, el) \in ShapedOutputs(el)
<1>1. CASE el
  <2>1. MakeOutput(a, el) \in OutputSet(el)
    BY <1>1 DEF MakeOutput, OutputArgSet, OutputSet
  <2>. QED
    BY <1>1, <2>1, Zenon DEF ShapedOutputs
<1>2. CASE ~el
  <2>1. /\ a.asset = <<>> /\ a.value = <<>> /\ a.nonce = <<>> /\ a.satoshi \in Nat
        /\ a.satoshi <= SatoshiMax
    BY <1>2 DEF OutputArgSet, CanMakeOutput
  <2>2. <<>> \in Commitments(CtLen, AssetPrefixes) /\ <<>> \in Commitments(CtLen, NoncePrefixes)
        /\ <<>> \in Commitments(ExplicitLen, ValuePrefixes)
    BY DEF Commitments, Buffers
  <2>3. MakeOutput(a, el) \in OutputSet(el)
    BY <1>2, <2>1, <2>2 DEF MakeOutput, OutputArgSet, OutputSet
  <2>. QED
    BY <1>2, <2>1, <2>3 DEF ShapedOutputs, MakeOutput
<1>. QED
  BY <1>1, <1>2

(* What is read of the inputs' witnesses is set in inputs ...              *)
LEMMA InputsKeepTheirType ==
    ASSUME NEW el \in BOOLEAN, NEW ins \in Seq(ShapedInputs(el))
    PROVE  /\ \A stacks \in Several(StackSet, Len(ins)) :
                [n \in 1..Len(ins) |-> WithWitness(ins[n], stacks[n])] \in Seq(ShapedInputs(el))
           /\ \A ws \in Several(InputWitnessSet, Len(ins)) :
                [n \in 1..Len(ins) |-> WithInputWitness(ins[n], ws[n])] \in Seq(ShapedInputs(el))
<1>1. Len(ins) \in Nat /\ \A n \in 1..Len(ins) : ins[n] \in ShapedInputs(el)
  BY ElementOfSeq
<1>2. ASSUME NEW stacks \in Several(StackSet, Len(ins))
      PROVE  [n \in 1..Len(ins) |-> WithWitness(ins[n], stacks[n])] \in Seq(ShapedInputs(el))
  <2>1. \A n \in 1..Len(ins) : stacks[n] \in StackSet
    BY ElementOfSeq DEF Several
  <2>2. \A in \in ShapedInputs(el), stack \in StackSet : WithWitness(in, stack) \in ShapedInputs(el)
    BY Zenon DEF WithWitness, ShapedInputs, InputShape, InputSet
  <2>. DEFINE made == [n \in 1..Len(ins) |-> WithWitness(ins[n], stacks[n])]
  <2>3. made \in [1..Len(ins) -> ShapedInputs(el)]
    BY <1>1, <2>1, <2>2, Zenon
  <2>. HIDE DEF made
  <2>4. made \in Seq(ShapedInputs(el))
    BY <1>1, <2>3, SequenceOfLength
  <2>. QED
    BY <2>4 DEF made
<1>3. ASSUME NEW ws \in Several(InputWitnessSet, Len(ins))
      PROVE  [n \in 1..Len(ins) |-> WithInputWitness(ins[n], ws[n])] \in Seq(ShapedInputs(el))
  <2>1. \A n \in 1..Len(ins) : ws[n] \in InputWitnessSet
    BY ElementOfSeq DEF Several
  <2>2. \A in \in ShapedInputs(el), w \in InputWitnessSet :
          WithInputWitness(in, w) \in ShapedInputs(el)
    BY Zenon DEF WithInputWitness, ShapedInputs, InputShape, InputSet, InputWitnessSet
  <2>. DEFINE made == [n \in 1..Len(ins) |-> WithInputWitness(ins[n], ws[n])]
  <2>3. made \in [1..Len(ins) -> ShapedInputs(el)]
    BY <1>1, <2>1, <2>2, Zenon
  <2>. HIDE DEF made
  <2>4. made \in Seq(ShapedInputs(el))
    BY <1>1, <2>3, SequenceOfLength
  <2>. QED
    BY <2>4 DEF made
<1>. QED
  BY <1>2, <1>3

(* ... and the proofs in outputs.                                          *)
LEMMA OutputsKeepTheirType ==
    ASSUME NEW el \in BOOLEAN, NEW outs \in Seq(ShapedOutputs(el)),
           NEW proofs \in Several(ProofsSet, Len(outs))
    PROVE  [n \in 1..Len(outs) |-> WithProofs(outs[n], proofs[n])] \in Seq(ShapedOutputs(el))
<1>1. /\ Len(outs) \in Nat /\ \A n \in 1..Len(outs) : outs[n] \in ShapedOutputs(el)
      /\ \A n \in 1..Len(outs) : proofs[n] \in ProofsSet
  BY ElementOfSeq DEF Several
<1>3. \A out \in ShapedOutputs(el), ps \in ProofsSet : WithProofs(out, ps) \in ShapedOutputs(el)
  BY Zenon DEF WithProofs, ShapedOutputs, OutputSet, ProofsSet
<1>. DEFINE made == [n \in 1..Len(outs) |-> WithProofs(outs[n], proofs[n])]
<1>4. made \in [1..Len(outs) -> ShapedOutputs(el)]
  BY <1>1, <1>3, Zenon
<1>. HIDE DEF made
<1>5. made \in Seq(ShapedOutputs(el))
  BY <1>1, <1>4, SequenceOfLength
<1>. QED
  BY <1>5 DEF made

(* The witnesses and the locktime end inside, whatever is made of them.    *)
LEMMA RestFollows ==
    ASSUME NEW bytes \in Buffers, NEW p \in Positions(bytes), NEW ins \in Nat,
           NEW outs \in Nat, NEW el \in BOOLEAN, NEW witness \in BOOLEAN
    PROVE  Follows(bytes, p, EnsureRest(bytes, p, ins, outs, el, witness))
<1>1. CASE ~witness
  BY <1>1, SkipFollows DEF EnsureRest
<1>2. CASE witness /\ ~el
  <2>. DEFINE mid == EnsureStacks(bytes, p, ins)
  <2>1. Follows(bytes, p, mid) /\ mid \in Positions(bytes)
    BY StacksRead DEF Reads, Follows
  <2>2. Follows(bytes, mid, Skip(bytes, mid, 1))
    BY <2>1, SkipFollows
  <2>. QED
    BY <1>2, <2>1, <2>2, FollowsOn DEF EnsureRest
<1>3. CASE witness /\ el
  <2>. DEFINE one == Skip(bytes, p, 1)
              two == EnsureInputWitnesses(bytes, one, ins)
              three == EnsureAllProofs(bytes, two, outs)
  <2>1. Follows(bytes, p, one) /\ one \in Positions(bytes)
    BY SkipFollows DEF Follows
  <2>. HIDE DEF one
  <2>2. Follows(bytes, one, two) /\ two \in Positions(bytes)
    BY <2>1, InputWitnessesRead DEF Reads, Follows
  <2>. HIDE DEF two
  <2>3. Follows(bytes, two, three)
    BY <2>2, AllProofsRead DEF Reads, Follows
  <2>4. EnsureRest(bytes, p, ins, outs, el, witness) = three
    BY <1>3 DEF EnsureRest, one, two
  <2>. HIDE DEF three
  <2>5. Follows(bytes, p, three)
    BY <2>1, <2>2, <2>3, FollowsOn
  <2>. QED
    BY <2>4, <2>5
<1>. QED
  BY <1>1, <1>2, <1>3

LEMMA RestIsRead ==
    ASSUME NEW bytes \in Buffers, NEW p \in Positions(bytes), NEW el \in BOOLEAN,
           NEW t \in ShapedTxs(el), NEW witness \in BOOLEAN,
           EnsureRest(bytes, p, Len(t.inputs), Len(t.outputs), el, witness) # Refused
    PROVE  /\ ReadRest(t, bytes, p, el, witness).end
                = EnsureRest(bytes, p, Len(t.inputs), Len(t.outputs), el, witness)
           /\ ReadRest(t, bytes, p, el, witness).tx \in ShapedTxs(el)
<1>. DEFINE ins == Len(t.inputs)
            outs == Len(t.outputs)
            end == EnsureRest(bytes, p, ins, outs, el, witness)
            rest == ReadRest(t, bytes, p, el, witness)
<1>1. /\ t.inputs \in Seq(ShapedInputs(el)) /\ t.outputs \in Seq(ShapedOutputs(el))
      /\ ins \in Nat /\ outs \in Nat
  BY DEF ShapedTxs
<1>2. ASSUME NEW locktime \in Nat, NEW inputs \in Seq(ShapedInputs(el)),
             NEW outputs \in Seq(ShapedOutputs(el))
      PROVE  /\ [t EXCEPT !.locktime = locktime] \in ShapedTxs(el)
             /\ [t EXCEPT !.locktime = locktime, !.inputs = inputs] \in ShapedTxs(el)
             /\ [t EXCEPT !.locktime = locktime, !.inputs = inputs, !.outputs = outputs]
                  \in ShapedTxs(el)
  BY Zenon DEF ShapedTxs
<1>3. CASE ~witness
  <2>1. end = Skip(bytes, p, 1)
    BY <1>3 DEF EnsureRest
  <2>2. p \in Nat /\ end = p + 1
    BY <2>1, SkipStays
  <2>3. rest = [tx |-> [t EXCEPT !.locktime = At(bytes, p)], end |-> p + 1]
    BY <1>3 DEF ReadRest
  <2>4. At(bytes, p) \in Nat
    BY <2>2, ByteAt
  <2>5. [t EXCEPT !.locktime = At(bytes, p)] \in ShapedTxs(el)
    BY <1>1, <1>2, <2>4, Zenon
  <2>. QED
    BY <2>2, <2>3, <2>5
<1>4. CASE witness /\ ~el
  <2>. DEFINE mid == EnsureStacks(bytes, p, ins)
              stacks == ReadStacks(bytes, p, ins)
              inputs == [n \in 1..ins |-> WithWitness(t.inputs[n], stacks.value[n])]
  <2>1. mid \in Positions(bytes) /\ Reads(bytes, p, mid, stacks, Several(StackSet, ins))
    BY <1>1, StacksRead DEF Reads
  <2>2. end = Skip(bytes, mid, 1)
    BY <1>4 DEF EnsureRest
  <2>. HIDE DEF mid
  <2>3. mid \in Nat /\ mid # Refused /\ end = mid + 1
    BY <2>1, <2>2, SkipStays DEF Refused
  <2>4. stacks.end = mid /\ stacks.value \in Several(StackSet, ins)
    BY <2>1, <2>3 DEF Reads
  <2>5. rest = [tx |-> [t EXCEPT !.locktime = At(bytes, stacks.end), !.inputs = inputs],
                end |-> stacks.end + 1]
    BY <1>4, Zenon DEF ReadRest, WithStacks
  <2>. HIDE DEF stacks
  <2>6. inputs \in Seq(ShapedInputs(el))
    BY <1>1, <2>4, InputsKeepTheirType
  <2>. HIDE DEF inputs
  <2>7. At(bytes, stacks.end) \in Nat
    BY <2>3, <2>4, ByteAt
  <2>8. [t EXCEPT !.locktime = At(bytes, stacks.end), !.inputs = inputs] \in ShapedTxs(el)
    BY <1>1, <1>2, <2>6, <2>7, Zenon
  <2>. QED
    BY <2>3, <2>4, <2>5, <2>8
<1>5. CASE witness /\ el
  <2>. DEFINE one == Skip(bytes, p, 1)
              two == EnsureInputWitnesses(bytes, one, ins)
              witnesses == ReadInputWitnesses(bytes, one, ins)
              proofs == ReadAllProofs(bytes, two, outs)
              inputs == [n \in 1..ins |-> WithInputWitness(t.inputs[n], witnesses.value[n])]
              outputs == [n \in 1..outs |-> WithProofs(t.outputs[n], proofs.value[n])]
  <2>1. Follows(bytes, p, one) /\ one \in Positions(bytes)
    BY SkipFollows DEF Follows
  <2>2. one # Refused => p \in Nat /\ one = p + 1
    BY SkipStays
  <2>. HIDE DEF one
  <2>3. Reads(bytes, one, two, witnesses, Several(InputWitnessSet, ins))
        /\ two \in Positions(bytes)
    BY <1>1, <2>1, InputWitnessesRead DEF Reads
  <2>. HIDE DEF two
  <2>4. Reads(bytes, two, end, proofs, Several(ProofsSet, outs))
    BY <1>1, <1>5, <2>3, AllProofsRead DEF EnsureRest, one, two
  <2>. HIDE DEF end
  <2>5. end # Refused
    BY DEF end
  <2>6. /\ two # Refused /\ one # Refused
        /\ witnesses.end = two /\ witnesses.value \in Several(InputWitnessSet, ins)
        /\ proofs.end = end /\ proofs.value \in Several(ProofsSet, outs)
    BY <2>3, <2>4, <2>5 DEF Reads
  <2>7. p \in Nat /\ one = p + 1
    BY <2>2, <2>6
  <2>8. rest = [tx |-> [t EXCEPT !.locktime = At(bytes, p), !.inputs = inputs,
                                 !.outputs = outputs],
                end |-> proofs.end]
    <3>1. ReadInputWitnesses(bytes, p + 1, ins) = witnesses
      BY <2>7, Zenon
    <3>2. ReadAllProofs(bytes, witnesses.end, outs) = proofs
      BY <2>6, Zenon
    <3>3. rest = WithWitnesses(t, bytes, p)
      BY <1>5 DEF ReadRest
    <3>. HIDE DEF witnesses, proofs, rest
    <3>. QED
      BY <3>1, <3>2, <3>3, Zenon DEF WithWitnesses
  <2>. HIDE DEF witnesses, proofs
  <2>9. inputs \in Seq(ShapedInputs(el))
    BY <1>1, <2>6, InputsKeepTheirType
  <2>10. outputs \in Seq(ShapedOutputs(el))
    BY <1>1, <2>6, OutputsKeepTheirType
  <2>. HIDE DEF inputs, outputs
  <2>11. At(bytes, p) \in Nat
    BY <2>7, ByteAt
  <2>12. [t EXCEPT !.locktime = At(bytes, p), !.inputs = inputs, !.outputs = outputs]
         \in ShapedTxs(el)
    BY <1>2, <2>9, <2>10, <2>11, Zenon
  <2>. QED
    BY <2>6, <2>8, <2>12 DEF end
<1>. QED
  BY <1>3, <1>4, <1>5

(* Where the inputs begin.                                                 *)
LEMMA HeaderEnds ==
    ASSUME NEW bytes \in Buffers, NEW flags \in AllReadFlags
    PROVE  LET header == Header(bytes, flags)
           IN /\ header.end \in Positions(bytes) /\ header.witness \in BOOLEAN
              /\ header.end # Refused =>
                   /\ bytes[1] \in Nat
                   /\ header.end = BehindHeader("USE_ELEMENTS" \in flags, header.witness)
<1>. DEFINE el == "USE_ELEMENTS" \in flags
            header == Header(bytes, flags)
<1>. SUFFICES /\ header.end \in Positions(bytes) /\ header.witness \in BOOLEAN
              /\ header.end # Refused =>
                   bytes[1] \in Nat /\ header.end = BehindHeader(el, header.witness)
  OBVIOUS
<1>1. Len(bytes) \in Nat
  BY LengthIsNatural
<1>2. CASE Len(bytes) < 3 \/ {"USE_ELEMENTS", "PRE_BIP144"} \subseteq flags
  <2>1. header = [end |-> Refused, witness |-> FALSE]
    BY <1>2 DEF Header
  <2>. QED
    BY <2>1 DEF Positions
<1>3. CASE ~(Len(bytes) < 3 \/ {"USE_ELEMENTS", "PRE_BIP144"} \subseteq flags)
  <2>1. 1 \in Positions(bytes) /\ 2 \in Positions(bytes) /\ 3 \in Positions(bytes)
    BY <1>1, <1>3 DEF Positions
  <2>2. bytes[1] \in Nat
    BY <1>1, <1>3, ByteAt
  <2>3. Refused \in Positions(bytes)
    BY DEF Positions
  <2>4. CASE el
    <3>1. header = [end |-> 2, witness |-> bytes[2] # 0]
      BY <1>3, <2>4 DEF Header
    <3>2. BehindHeader(el, header.witness) = 2
      BY <2>4 DEF BehindHeader
    <3>. QED
      BY <2>1, <2>2, <3>1, <3>2
  <2>5. CASE ~el /\ ("PRE_BIP144" \in flags \/ bytes[2] # 0)
    <3>1. header.end = 1 /\ header.witness = FALSE
      BY <1>3, <2>5 DEF Header
    <3>2. BehindHeader(el, header.witness) = 1
      BY <2>5, <3>1 DEF BehindHeader
    <3>. HIDE DEF header
    <3>. QED
      BY <2>1, <2>2, <3>1, <3>2, Zenon
  <2>6. CASE ~el /\ ~("PRE_BIP144" \in flags \/ bytes[2] # 0)
    <3>1. header.end = (IF bytes[3] = 1 THEN 3 ELSE Refused) /\ header.witness = TRUE
      BY <1>3, <2>6 DEF Header
    <3>2. BehindHeader(el, header.witness) = 3
      BY <2>6, <3>1 DEF BehindHeader
    <3>. HIDE DEF header
    <3>. QED
      BY <2>1, <2>2, <2>3, <3>1, <3>2, Zenon
  <2>. QED
    BY <2>4, <2>5, <2>6
<1>. QED
  BY <1>2, <1>3

(* What the outputs that were read make, if their amounts are allowed.     *)
LEMMA OutputsMade ==
    ASSUME NEW el \in BOOLEAN, NEW n \in Nat, NEW args \in Several(OutputArgSet(el), n),
           \A i \in DOMAIN args : CanMakeOutput(args[i], el)
    PROVE  LET made == [i \in DOMAIN args |-> MakeOutput(args[i], el)]
           IN made \in Seq(ShapedOutputs(el)) /\ Len(made) = n
<1>. DEFINE made == [i \in DOMAIN args |-> MakeOutput(args[i], el)]
<1>1. DOMAIN args = 1..n /\ \A i \in 1..n : /\ args[i] \in OutputArgSet(el)
                                            /\ CanMakeOutput(args[i], el)
  BY ElementOfSeq DEF Several
<1>2. made \in [1..n -> ShapedOutputs(el)]
  BY <1>1, OutputMade, Zenon
<1>. HIDE DEF made
<1>3. made \in Seq(ShapedOutputs(el)) /\ Len(made) = n
  BY <1>2, SequenceOfLength
<1>. QED
  BY <1>3 DEF made

(* A transaction that is read is one, and ends where the analysis ends.    *)
IsParsed(bytes, el, read, end) ==
    /\ end \in Positions(bytes)
    /\ end # Refused =>
          \/ read.tx = None /\ read.end <= end
          \/ read.tx \in ShapedTxs(el) /\ read.end = end

LEMMA Parsed ==
    ASSUME NEW bytes \in Buffers, NEW flags \in AllReadFlags
    PROVE  IsParsed(bytes, "USE_ELEMENTS" \in flags, FromBytes(bytes, flags),
                    Analyze(bytes, flags).end)
<1>. DEFINE el == "USE_ELEMENTS" \in flags
            h == Header(bytes, flags)
            v == EnsureVarint(bytes, h.end)
            i == EnsureInputs(bytes, v.end, v.value, el)
            w == EnsureVarint(bytes, i)
            o == EnsureOutputs(bytes, w.end, w.value, el)
            end == EnsureRest(bytes, o, v.value, w.value, el, h.witness)
            analyzed == Analyze(bytes, flags)
            inputs == ReadInputs(bytes, v.end, v.value, el)
            outputs == ReadOutputs(bytes, w.end, w.value, el)
<1>1. /\ el \in BOOLEAN /\ h.end \in Positions(bytes) /\ h.witness \in BOOLEAN
      /\ h.end # Refused => bytes[1] \in Nat /\ h.end = BehindHeader(el, h.witness)
  BY HeaderEnds
<1>2. analyzed = [inputs |-> v.value, outputs |-> w.value, witness |-> h.witness, end |-> end]
  BY DEF Analyze, AnalyzeInputs, AnalyzeOutputs
<1>3. FromBytes(bytes, flags) = FromAnalyzed(bytes, el, analyzed)
  BY DEF FromBytes
<1>. HIDE DEF analyzed, h, el
<1>4. /\ Follows(bytes, h.end, v.end) /\ v.end \in Positions(bytes) /\ v.value \in Nat
      /\ v.end # Refused => ReadVarint(bytes, h.end) = v
  BY <1>1, VarintReads DEF Reads, Follows
<1>. HIDE DEF v
<1>5. /\ Reads(bytes, v.end, i, inputs, Several(ShapedInputs(el), v.value))
      /\ i \in Positions(bytes) /\ Follows(bytes, v.end, i)
  BY <1>1, <1>4, InputsRead DEF Reads, Follows
<1>. HIDE DEF i
<1>6. /\ Follows(bytes, i, w.end) /\ w.end \in Positions(bytes) /\ w.value \in Nat
      /\ w.end # Refused => ReadVarint(bytes, i) = w
  BY <1>5, VarintReads DEF Reads, Follows
<1>. HIDE DEF w
<1>7. /\ Reads(bytes, w.end, o, outputs, Several(OutputArgSet(el), w.value))
      /\ o \in Positions(bytes) /\ Follows(bytes, w.end, o)
  BY <1>1, <1>6, OutputsRead DEF Reads, Follows
<1>. HIDE DEF o
<1>8. Follows(bytes, o, end)
  BY <1>1, <1>4, <1>6, <1>7, RestFollows
<1>9. ASSUME end # Refused
      PROVE  \/ /\ FromAnalyzed(bytes, el, analyzed).tx = None
                /\ FromAnalyzed(bytes, el, analyzed).end <= end
             \/ /\ FromAnalyzed(bytes, el, analyzed).tx \in ShapedTxs(el)
                /\ FromAnalyzed(bytes, el, analyzed).end = end
  <2>1. /\ o # Refused /\ w.end # Refused /\ i # Refused /\ v.end # Refused
        /\ h.end # Refused /\ o <= end
    BY <1>4, <1>5, <1>6, <1>7, <1>8, <1>9 DEF Follows
  <2>2. /\ inputs.end = i /\ inputs.value \in Several(ShapedInputs(el), v.value)
        /\ outputs.end = o /\ outputs.value \in Several(OutputArgSet(el), w.value)
    BY <1>5, <1>7, <2>1 DEF Reads
  <2>3. FromAnalyzed(bytes, el, analyzed) = FromInputs(bytes, el, analyzed, inputs)
    <3>1. analyzed.inputs = v.value /\ analyzed.witness = h.witness
      BY <1>2
    <3>2. ReadVarint(bytes, BehindHeader(el, analyzed.witness)) = v
      BY <1>1, <1>4, <2>1, <3>1
    <3>. QED
      BY <3>1, <3>2, Zenon DEF FromAnalyzed
  <2>4. FromInputs(bytes, el, analyzed, inputs)
        = Made(bytes, el, analyzed, inputs.value, outputs)
    <3>1. analyzed.outputs = w.value
      BY <1>2
    <3>2. ReadVarint(bytes, inputs.end) = w
      BY <1>6, <2>1, <2>2
    <3>. QED
      BY <3>1, <3>2, Zenon DEF FromInputs
  <2>5. CASE \A k \in DOMAIN outputs.value : CanMakeOutput(outputs.value[k], el)
    <3>. DEFINE made == [k \in DOMAIN outputs.value |-> MakeOutput(outputs.value[k], el)]
                t == [version |-> bytes[1], locktime |-> 0, inputs |-> inputs.value,
                      outputs |-> made]
    <3>1. made \in Seq(ShapedOutputs(el)) /\ Len(made) = w.value
      BY <1>1, <1>6, <2>2, <2>5, OutputsMade
    <3>2. Made(bytes, el, analyzed, inputs.value, outputs)
          = ReadRest(t, bytes, o, el, h.witness)
      BY <1>2, <2>2, <2>5 DEF Made
    <3>. HIDE DEF made
    <3>3. inputs.value \in Seq(ShapedInputs(el)) /\ Len(inputs.value) = v.value /\ bytes[1] \in Nat
      BY <1>1, <2>1, <2>2 DEF Several
    <3>4. t \in ShapedTxs(el)
      BY <3>1, <3>3 DEF ShapedTxs
    <3>5. Len(t.inputs) = v.value /\ Len(t.outputs) = w.value
      BY <3>1, <3>3
    <3>. HIDE DEF t
    <3>6. EnsureRest(bytes, o, Len(t.inputs), Len(t.outputs), el, h.witness) = end
      BY <3>5
    <3>7. end # Refused
      BY <1>9
    <3>. HIDE DEF end
    <3>8. /\ ReadRest(t, bytes, o, el, h.witness).end = end
          /\ ReadRest(t, bytes, o, el, h.witness).tx \in ShapedTxs(el)
      BY <1>1, <1>7, <3>4, <3>6, <3>7, RestIsRead
    <3>. QED
      BY <2>3, <2>4, <3>2, <3>8
  <2>6. CASE ~\A k \in DOMAIN outputs.value : CanMakeOutput(outputs.value[k], el)
    <3>1. Made(bytes, el, analyzed, inputs.value, outputs) = [tx |-> None, end |-> outputs.end]
      BY <2>6 DEF Made
    <3>. QED
      BY <2>1, <2>2, <2>3, <2>4, <3>1
  <2>. QED
    BY <2>5, <2>6
<1>10. analyzed.end = end
  BY <1>2
<1>11. end \in Positions(bytes)
  BY <1>8 DEF Follows
<1>. HIDE DEF end
<1>. QED
  BY <1>3, <1>9, <1>10, <1>11 DEF IsParsed, analyzed, el

-----------------------------------------------------------------------------
(* What was written is read.                                               *)

(* The piece is at p.                                                      *)
Holds(bytes, p, piece) ==
    /\ p \in Nat /\ p + Len(piece) <= Len(bytes)
    /\ \A i \in 1..Len(piece) : bytes[p + i] = piece[i]

(* Where the piece is, analysis and parser end behind it, and read this.   *)
Back(p, piece, end, read, value) ==
    end = p + Len(piece) /\ read.end = end /\ read.value = value

LEMMA HoldsParts ==
    ASSUME NEW bytes \in Buffers, NEW p, NEW a \in Buffers, NEW b \in Buffers,
           Holds(bytes, p, a \o b)
    PROVE  /\ Holds(bytes, p, a) /\ Holds(bytes, p + Len(a), b)
           /\ p + Len(a) + Len(b) = p + Len(a \o b)
<1>1. /\ Len(a) \in Nat /\ Len(b) \in Nat /\ Len(bytes) \in Nat /\ p \in Nat
      /\ Len(a \o b) = Len(a) + Len(b)
  BY LengthIsNatural, LengthOfTwo DEF Holds
<1>2. /\ \A i \in 1..Len(a) : (a \o b)[i] = a[i]
      /\ \A i \in 1..Len(b) : (a \o b)[Len(a) + i] = b[i]
  BY <1>1 DEF Buffers
<1>. DEFINE c == a \o b
<1>3. /\ p + Len(c) <= Len(bytes) /\ \A i \in 1..Len(c) : bytes[p + i] = c[i]
      /\ Len(c) = Len(a) + Len(b)
  BY <1>1 DEF Holds
<1>4. /\ \A i \in 1..Len(a) : c[i] = a[i]
      /\ \A i \in 1..Len(b) : c[Len(a) + i] = b[i]
  BY <1>2
<1>. HIDE DEF c
<1>5. Holds(bytes, p, a)
  <2>1. \A i \in 1..Len(a) : i \in 1..Len(c)
    BY <1>1, <1>3
  <2>. QED
    BY <1>1, <1>3, <1>4, <2>1 DEF Holds
<1>6. Holds(bytes, p + Len(a), b)
  <2>1. ASSUME NEW i \in 1..Len(b) PROVE bytes[(p + Len(a)) + i] = b[i]
    <3>1. Len(a) + i \in 1..Len(c) /\ p + (Len(a) + i) = (p + Len(a)) + i
      BY <1>1, <1>3
    <3>. QED
      BY <1>3, <1>4, <3>1
  <2>2. p + Len(a) \in Nat /\ p + Len(a) + Len(b) <= Len(bytes)
    BY <1>1, <1>3
  <2>. QED
    BY <2>1, <2>2 DEF Holds
<1>7. p + Len(a) + Len(b) = p + Len(a \o b)
  BY <1>1
<1>. QED
  BY <1>5, <1>6, <1>7

LEMMA HoldsAll == ASSUME NEW bytes \in Buffers PROVE Holds(bytes, 0, bytes)
BY LengthIsNatural DEF Holds

LEMMA HoldsAt ==
    ASSUME NEW bytes \in Buffers, NEW p, NEW piece \in Buffers, Holds(bytes, p, piece)
    PROVE  /\ p \in Positions(bytes) /\ p # Refused
           /\ p + Len(piece) \in Positions(bytes) /\ p + Len(piece) # Refused
           /\ \A n \in 0..Len(piece) : Skip(bytes, p, n) = p + n
           /\ \A i \in 1..Len(piece) : bytes[p + i] = piece[i] /\ At(bytes, p + i - 1) = piece[i]
<1>1. Len(piece) \in Nat /\ Len(bytes) \in Nat /\ p \in Nat /\ p + Len(piece) <= Len(bytes)
  BY LengthIsNatural DEF Holds
<1>2. /\ p \in Positions(bytes) /\ p # Refused
      /\ p + Len(piece) \in Positions(bytes) /\ p + Len(piece) # Refused
  BY <1>1 DEF Positions, Refused
<1>3. ASSUME NEW n \in 0..Len(piece) PROVE Skip(bytes, p, n) = p + n
  <2>1. n <= Len(bytes) - p
    BY <1>1
  <2>. QED
    BY <1>2, <2>1 DEF Skip
<1>4. ASSUME NEW i \in 1..Len(piece)
      PROVE  bytes[p + i] = piece[i] /\ At(bytes, p + i - 1) = piece[i]
  <2>1. bytes[p + i] = piece[i]
    BY DEF Holds
  <2>2. p + i - 1 < Len(bytes) /\ p + i - 1 + 1 = p + i
    BY <1>1
  <2>. QED
    BY <2>1, <2>2 DEF At
<1>. QED
  BY <1>2, <1>3, <1>4

LEMMA ByteHolds ==
    ASSUME NEW bytes \in Buffers, NEW p, NEW b \in Nat, Holds(bytes, p, <<b>>)
    PROVE  /\ Skip(bytes, p, 1) = p + 1 /\ bytes[p + 1] = b /\ At(bytes, p) = b
           /\ p \in Nat /\ p + 1 # Refused
<1>. DEFINE piece == <<b>>
<1>1. Len(piece) = 1 /\ piece[1] = b
  OBVIOUS
<1>2. p \in Nat /\ p + 1 - 1 = p /\ p + 1 # Refused
  BY DEF Holds, Refused
<1>3. 1 \in 0..1 /\ 1 \in 1..1
  OBVIOUS
<1>4. piece \in Buffers /\ Holds(bytes, p, piece)
  BY DEF Buffers
<1>. HIDE DEF piece
<1>5. /\ \A n \in 0..Len(piece) : Skip(bytes, p, n) = p + n
      /\ \A i \in 1..Len(piece) : bytes[p + i] = piece[i] /\ At(bytes, p + i - 1) = piece[i]
  BY <1>4, HoldsAt
<1>6. bytes[p + 1] = b /\ At(bytes, p + 1 - 1) = b /\ Skip(bytes, p, 1) = p + 1
  BY <1>1, <1>3, <1>5, Zenon
<1>. QED
  BY <1>2, <1>6

(* Numbers.                                                                *)
LEMMA VarintBack ==
    ASSUME NEW bytes \in Buffers, NEW p, NEW n \in Nat, Holds(bytes, p, VarintToBytes(n))
    PROVE  /\ EnsureVarint(bytes, p) = [value |-> n, end |-> p + Len(VarintToBytes(n))]
           /\ ReadVarint(bytes, p) = [value |-> n, end |-> p + Len(VarintToBytes(n))]
<1>1. /\ VarintToBytes(n) \in Buffers /\ Len(VarintToBytes(n)) = VarintLength(n)
      /\ p \in Nat /\ p # Refused
  BY VarintLengthIsExact DEF Holds, Refused
<1>2. CASE n < VarintTag
  <2>1. VarintToBytes(n) = <<n>> /\ Len(VarintToBytes(n)) = 1
    BY <1>2 DEF VarintToBytes
  <2>2. /\ Skip(bytes, p, 1) = p + 1 /\ bytes[p + 1] = n /\ At(bytes, p) = n /\ p + 1 # Refused
    BY <2>1, ByteHolds
  <2>3. n # VarintTag
    BY <1>2, SizesAssumption
  <2>. QED
    BY <2>1, <2>2, <2>3 DEF EnsureVarint, ReadVarint
<1>3. CASE ~(n < VarintTag)
  <2>. DEFINE w == VarintToBytes(n)
  <2>1. w = <<VarintTag, n>> /\ Len(w) = 2 /\ w[1] = VarintTag /\ w[2] = n
    BY <1>3 DEF VarintToBytes
  <2>2. 1 \in 0..2 /\ 2 \in 0..2 /\ 1 \in 1..2 /\ 2 \in 1..2
    OBVIOUS
  <2>3. w \in Buffers /\ Holds(bytes, p, w)
    BY <1>1
  <2>. HIDE DEF w
  <2>4. /\ \A k \in 0..Len(w) : Skip(bytes, p, k) = p + k
        /\ \A i \in 1..Len(w) : bytes[p + i] = w[i] /\ At(bytes, p + i - 1) = w[i]
    BY <2>3, HoldsAt
  <2>5. /\ Skip(bytes, p, 1) = p + 1 /\ Skip(bytes, p, 2) = p + 2
        /\ bytes[p + 1] = VarintTag /\ bytes[p + 2] = n
        /\ At(bytes, p + 1 - 1) = VarintTag /\ At(bytes, p + 2 - 1) = n
    BY <2>1, <2>2, <2>4
  <2>6. p + 1 - 1 = p /\ p + 2 - 1 = p + 1 /\ p + 1 # Refused /\ p + 2 # Refused
    BY <1>1 DEF Refused
  <2>. QED
    BY <2>1, <2>5, <2>6 DEF EnsureVarint, ReadVarint, w
<1>. QED
  BY <1>2, <1>3

LEMMA SliceBack ==
    ASSUME NEW bytes \in Buffers, NEW p, NEW piece \in Buffers, Holds(bytes, p, piece)
    PROVE  /\ Slice(bytes, p, Len(piece)) = piece
           /\ Skip(bytes, p, Len(piece)) = p + Len(piece)
<1>1. Len(piece) \in Nat /\ piece \in [1..Len(piece) -> Nat]
  BY LengthIsNatural DEF Buffers
<1>2. \A i \in 1..Len(piece) : At(bytes, p + i - 1) = piece[i]
  BY HoldsAt
<1>3. Skip(bytes, p, Len(piece)) = p + Len(piece)
  <2>1. Len(piece) \in 0..Len(piece)
    BY <1>1
  <2>. QED
    BY <2>1, HoldsAt
<1>. QED
  BY <1>1, <1>2, <1>3 DEF Slice

LEMMA VarbuffBack ==
    ASSUME NEW bytes \in Buffers, NEW p, NEW b \in Buffers,
           Holds(bytes, p, VarbuffToBytes(b))
    PROVE  Back(p, VarbuffToBytes(b), EnsureVarbuff(bytes, p), ReadVarbuff(bytes, p), b)
<1>. DEFINE count == VarintToBytes(Len(b))
            q == p + Len(count)
<1>1. /\ Len(b) \in Nat /\ count \in Buffers /\ Len(count) \in Nat
      /\ VarbuffToBytes(b) = count \o b
  BY LengthIsNatural, VarintLengthIsExact DEF VarbuffToBytes
<1>2. Holds(bytes, p, count) /\ Holds(bytes, q, b)
  BY <1>1, HoldsParts
<1>3. Len(VarbuffToBytes(b)) = Len(count) + Len(b) /\ p \in Nat
  BY <1>1, LengthOfTwo DEF Holds
<1>4. EnsureVarint(bytes, p) = [value |-> Len(b), end |-> q]
      /\ ReadVarint(bytes, p) = [value |-> Len(b), end |-> q]
  BY <1>1, <1>2, VarintBack
<1>5. Skip(bytes, q, Len(b)) = q + Len(b) /\ Slice(bytes, q, Len(b)) = b
  <2>1. Len(b) \in 0..Len(b)
    BY <1>1
  <2>. QED
    BY <1>2, <2>1, HoldsAt, SliceBack
<1>6. q + Len(b) = p + Len(VarbuffToBytes(b))
  BY <1>1, <1>3
<1>. HIDE DEF q
<1>. QED
  BY <1>4, <1>5, <1>6 DEF Back, EnsureVarbuff, ReadVarbuff

(* Commitments, if they are not taken for missing ones.                    *)
LEMMA CommitmentBack ==
    ASSUME NEW bytes \in Buffers, NEW p, NEW explicit \in {ExplicitLen, CtLen},
           NEW prefixes \in {ValuePrefixes, AssetPrefixes, NoncePrefixes},
           NEW c \in Commitments(explicit, prefixes), Shows(c),
           Holds(bytes, p, CommitmentToBytes(c))
    PROVE  Back(p, CommitmentToBytes(c), EnsureCommitment(bytes, p, explicit, prefixes),
                ReadCommitment(bytes, p, explicit), c)
<1>1. explicit \in Nat /\ explicit > 0 /\ CtLen \in Nat /\ CtLen > 0 /\ p \in Nat
  BY SizesAssumption DEF Holds
<1>2. CASE c = <<>>
  <2>1. CommitmentToBytes(c) = <<EmptyPrefix>> /\ EmptyPrefix \in Nat
    BY <1>2 DEF CommitmentToBytes, EmptyPrefix
  <2>2. /\ Skip(bytes, p, 1) = p + 1 /\ bytes[p + 1] = EmptyPrefix
        /\ At(bytes, p) = EmptyPrefix /\ p + 1 # Refused
    BY <2>1, ByteHolds
  <2>3. At(bytes, p) # ExplicitPrefix
        /\ At(bytes, p) \notin ValuePrefixes \cup AssetPrefixes \cup NoncePrefixes
    BY <2>2 DEF EmptyPrefix, ExplicitPrefix, ValuePrefixes, AssetPrefixes, NoncePrefixes
  <2>4. EnsureCommitment(bytes, p, explicit, prefixes) = p + 1
    BY <2>2 DEF EnsureCommitment
  <2>5. ReadCommitment(bytes, p, explicit) = [value |-> Slice(bytes, p, 0), end |-> p + 1]
    BY <2>3 DEF ReadCommitment
  <2>6. Slice(bytes, p, 0) = <<>>
    BY DEF Slice
  <2>7. Len(CommitmentToBytes(c)) = 1
    BY <2>1
  <2>. DEFINE read == ReadCommitment(bytes, p, explicit)
  <2>8. read.end = p + 1 /\ read.value = c
    BY <1>2, <2>5, <2>6
  <2>. HIDE DEF read
  <2>. QED
    BY <2>4, <2>7, <2>8 DEF Back, read
<1>3. CASE c # <<>>
  <2>1. /\ CommitmentToBytes(c) = c /\ c \in Buffers /\ c[1] # EmptyPrefix
        /\ CommitmentLength(c, explicit, prefixes) = Len(c) /\ Len(c) \in Nat /\ Len(c) > 0
    BY <1>3, LengthIsNatural DEF CommitmentToBytes, Commitments, Shows, Buffers
  <2>2. \/ c[1] = ExplicitPrefix /\ Len(c) = explicit
        \/ c[1] # ExplicitPrefix /\ c[1] \in prefixes /\ Len(c) = CtLen
    BY <1>3, <2>1 DEF CommitmentLength
  <2>3. 1 \in 1..Len(c) /\ 1 \in 0..Len(c) /\ Len(c) \in 0..Len(c) /\ p + 1 - 1 = p
        /\ p + 1 # Refused
    BY <1>1, <2>1 DEF Refused
  <2>4. /\ Skip(bytes, p, 1) = p + 1 /\ bytes[p + 1] = c[1] /\ At(bytes, p) = c[1]
        /\ Skip(bytes, p, Len(c)) = p + Len(c) /\ Slice(bytes, p, Len(c)) = c
    BY <2>1, <2>3, HoldsAt, SliceBack
  <2>5. EnsureCommitment(bytes, p, explicit, prefixes) = p + Len(c)
    BY <2>1, <2>2, <2>3, <2>4 DEF EnsureCommitment
  <2>6. ReadCommitment(bytes, p, explicit) = [value |-> c, end |-> p + Len(c)]
    BY <1>1, <2>1, <2>2, <2>4 DEF ReadCommitment
  <2>. QED
    BY <2>1, <2>5, <2>6 DEF Back
<1>. QED
  BY <1>2, <1>3

(* Loops go over pieces that are one behind the other.                     *)
LEMMA PiecesHold ==
    ASSUME NEW bytes \in Buffers, NEW p, NEW n \in Nat, NEW pieces,
           \A i \in 1..n : pieces[i] \in Buffers,
           Holds(bytes, p, Joins!Fold(pieces, 1..n))
    PROVE  /\ \A k \in 0..n : /\ Joins!Fold(pieces, 1..k) \in Buffers
                              /\ Holds(bytes, p, Joins!Fold(pieces, 1..k))
           /\ \A k \in 0..n - 1 :
                /\ Joins!Fold(pieces, 1..k + 1) = Joins!Fold(pieces, 1..k) \o pieces[k + 1]
                /\ Holds(bytes, p + Len(Joins!Fold(pieces, 1..k)), pieces[k + 1])
<1>. DEFINE J(k) == Joins!Fold(pieces, 1..k)
<1>1. \A k \in Nat : J(k + 1) = J(k) \o pieces[k + 1]
  BY JoinedGrows, Zenon
<1>2. J(0) \in Buffers
  <2>1. J(0) = <<>>
    BY NoNumbers
  <2>2. <<>> \in Buffers
    BY DEF Buffers
  <2>. HIDE DEF J
  <2>. QED
    BY <2>1, <2>2
<1>. HIDE DEF J
<1>3. ASSUME NEW k \in 0..n PROVE J(k) \in Buffers
  <2>. DEFINE N == {m \in Nat : m <= n => J(m) \in Buffers}
  <2>1. 0 \in N
    BY <1>2
  <2>2. ASSUME NEW m \in Nat, m \in N PROVE m + 1 \in N
    <3>. SUFFICES ASSUME m + 1 <= n PROVE J(m + 1) \in Buffers
      OBVIOUS
    <3>1. m + 1 \in 1..n /\ J(m) \in Buffers
      BY <2>2
    <3>. QED
      BY <1>1, <3>1, LengthOfTwo, Zenon
  <2>. HIDE DEF N
  <2>3. k \in N
    BY <2>1, <2>2, Sums!NaturalInduction
  <2>. QED
    BY <2>3 DEF N
<1>4. ASSUME NEW k \in 0..n - 1, Holds(bytes, p, J(k + 1))
      PROVE  Holds(bytes, p, J(k)) /\ Holds(bytes, p + Len(J(k)), pieces[k + 1])
  <2>1. k \in Nat /\ k + 1 \in 1..n /\ k \in 0..n
    OBVIOUS
  <2>2. J(k) \in Buffers /\ pieces[k + 1] \in Buffers /\ J(k + 1) = J(k) \o pieces[k + 1]
    BY <1>1, <1>3, <2>1, Zenon
  <2>3. Holds(bytes, p, J(k) \o pieces[k + 1])
    BY <1>4, <2>2, Zenon
  <2>. QED
    BY <2>2, <2>3, HoldsParts
<1>5. ASSUME NEW k \in 0..n PROVE Holds(bytes, p, J(k))
  <2>. DEFINE N == {d \in Nat : d <= n => Holds(bytes, p, J(n - d))}
  <2>1. 0 \in N
    <3>1. Holds(bytes, p, J(n)) /\ n - 0 = n
      BY DEF J
    <3>. QED
      BY <3>1
  <2>2. ASSUME NEW d \in Nat, d \in N PROVE d + 1 \in N
    <3>. SUFFICES ASSUME d + 1 <= n PROVE Holds(bytes, p, J(n - (d + 1)))
      OBVIOUS
    <3>1. n - (d + 1) \in 0..n - 1 /\ n - (d + 1) + 1 = n - d /\ Holds(bytes, p, J(n - d))
      BY <2>2
    <3>. QED
      BY <1>4, <3>1
  <2>. HIDE DEF N
  <2>3. n - k \in N
    BY <2>1, <2>2, Sums!NaturalInduction
  <2>4. n - k <= n /\ n - (n - k) = k
    OBVIOUS
  <2>. QED
    BY <2>3, <2>4 DEF N
<1>6. ASSUME NEW k \in 0..n - 1
      PROVE  J(k + 1) = J(k) \o pieces[k + 1] /\ Holds(bytes, p + Len(J(k)), pieces[k + 1])
  <2>1. k + 1 \in 0..n /\ k \in Nat
    OBVIOUS
  <2>. QED
    BY <1>1, <1>4, <1>5, <2>1, Zenon
<1>. QED
  BY <1>3, <1>5, <1>6, Zenon DEF J

LEMMA LoopBack ==
    ASSUME NEW bytes \in Buffers, NEW p, NEW n \in Nat, NEW what, NEW el, NEW end, NEW read,
           Looped(what, bytes, p, n, el, end, read),
           NEW pieces, DOMAIN pieces = 1..n, \A i \in 1..n : pieces[i] \in Buffers,
           NEW S, NEW values \in Seq(S), Len(values) = n,
           \A i \in 1..n : \A q : Holds(bytes, q, pieces[i]) =>
              Back(q, pieces[i], Ensured(Ensuring(what, bytes, el), q),
                   Got(Ensuring(what, bytes, el), q), values[i]),
           Holds(bytes, p, Joined(pieces))
    PROVE  Back(p, Joined(pieces), end, read, values)
<1>. PICK g, r : /\ Loops!IsLoop(Ensuring(what, bytes, el), p, g, n) /\ end = g[n]
                 /\ Loops!IsLoop(Reading(what, bytes, el), Start(p), r, n) /\ read = r[n]
  BY DEF Looped
<1>. DEFINE ensuring == Ensuring(what, bytes, el)
            reading == Reading(what, bytes, el)
            J(k) == Joins!Fold(pieces, 1..k)
            V(k) == [i \in 1..k |-> values[i]]
            Right(k) == Back(p, J(k), g[k], r[k], V(k))
            N == {k \in Nat : k <= n => Right(k)}
<1>1. \A q : Got(reading, q) = Got(ensuring, q)
  BY Zenon DEF Got, Ensuring, Reading
<1>2. /\ \A q : Did(ensuring, q) = Ensured(ensuring, q)
      /\ \A x : Did(reading, x) = With(x, Got(ensuring, x.end))
  <2>1. ensuring.reads = FALSE /\ reading.reads = TRUE
    BY DEF Ensuring, Reading
  <2>. HIDE DEF ensuring, reading
  <2>. QED
    BY <1>1, <2>1 DEF Did
<1>. HIDE DEF ensuring, reading
<1>3. /\ g = [k \in 0..n |-> IF k = 0 THEN p ELSE Did(ensuring, g[k - 1])]
      /\ r = [k \in 0..n |-> IF k = 0 THEN Start(p) ELSE Did(reading, r[k - 1])]
  BY DEF Loops!IsLoop, ensuring, reading
<1>4. Joined(pieces) = J(n)
  BY JoinedIsFold
<1>5. /\ \A k \in 0..n : J(k) \in Buffers
      /\ \A k \in 0..n - 1 : /\ J(k + 1) = J(k) \o pieces[k + 1]
                             /\ Holds(bytes, p + Len(J(k)), pieces[k + 1])
  BY <1>4, PiecesHold, Zenon
<1>6. p \in Nat
  BY DEF Holds
<1>7. J(0) = <<>> /\ V(0) = <<>>
  BY NoNumbers
<1>. HIDE DEF J
<1>8. 0 \in N
  <2>1. g[0] = p /\ r[0] = Start(p)
    BY <1>3
  <2>2. r[0].value = <<>> /\ r[0].end = p
    BY <2>1 DEF Start
  <2>3. p + Len(J(0)) = p
    BY <1>6, <1>7
  <2>. HIDE DEF V
  <2>. QED
    BY <1>7, <2>1, <2>2, <2>3 DEF Back
<1>9. ASSUME NEW k \in Nat, k \in N PROVE k + 1 \in N
  <2>. SUFFICES ASSUME k + 1 <= n PROVE Right(k + 1)
    OBVIOUS
  <2>1. Right(k)
    BY <1>9
  <2>. HIDE DEF N
  <2>2. /\ k \in 0..n - 1 /\ k \in 0..n /\ k + 1 \in 0..n /\ k + 1 \in 1..n
        /\ k + 1 - 1 = k /\ k + 1 # 0
    OBVIOUS
  <2>. DEFINE q == p + Len(J(k))
  <2>3. g[k] = q /\ r[k].end = q /\ r[k].value = V(k)
    BY <2>1 DEF Back
  <2>4. g[k + 1] = Ensured(ensuring, q) /\ r[k + 1] = With(r[k], Got(ensuring, q))
    BY <1>2, <1>3, <2>2, <2>3
  <2>5. Back(q, pieces[k + 1], Ensured(ensuring, q), Got(ensuring, q), values[k + 1])
    BY <1>5, <2>2 DEF ensuring
  <2>6. Len(J(k + 1)) = Len(J(k)) + Len(pieces[k + 1])
    BY <1>5, <2>2, LengthOfTwo
  <2>7. Len(J(k)) \in Nat /\ Len(pieces[k + 1]) \in Nat
    BY <1>5, <2>2, LengthIsNatural
  <2>8. q + Len(pieces[k + 1]) = p + Len(J(k + 1))
    <3>. DEFINE a == Len(J(k))
                b == Len(pieces[k + 1])
                c == Len(J(k + 1))
    <3>1. p \in Nat /\ a \in Nat /\ b \in Nat /\ c = a + b
      BY <1>6, <2>6, <2>7
    <3>. HIDE DEF a, b, c
    <3>2. (p + a) + b = p + c
      BY <3>1
    <3>. QED
      BY <3>2 DEF a, b, c
  <2>9. Append(V(k), values[k + 1]) = V(k + 1)
    <3>1. V(k) \in [1..k -> S] /\ values[k + 1] \in S
      <4>1. \A i \in 1..n : values[i] \in S
        BY ElementOfSeq
      <4>2. \A i \in 1..k : i \in 1..n
        BY <2>2
      <4>. QED
        BY <2>2, <4>1, <4>2
    <3>2. V(k) \in Seq(S) /\ Len(V(k)) = k
      BY <3>1, SequenceOfLength
    <3>. DEFINE a == Append(V(k), values[k + 1])
    <3>3. /\ a \in Seq(S) /\ Len(a) = k + 1
          /\ \A i \in 1..k : a[i] = V(k)[i]
          /\ a[k + 1] = values[k + 1]
      BY <3>1, <3>2, AppendProperties
    <3>. HIDE DEF a
    <3>4. a = [i \in 1..k + 1 |-> a[i]]
      BY <3>3
    <3>5. \A i \in 1..k + 1 : a[i] = values[i]
      BY <3>3
    <3>. QED
      BY <3>4, <3>5 DEF a
  <2>. HIDE DEF q, V
  <2>10. r[k + 1].value = Append(V(k), values[k + 1]) /\ r[k + 1].end = Got(ensuring, q).end
    BY <2>3, <2>4, <2>5 DEF With, Back
  <2>. QED
    BY <2>4, <2>5, <2>8, <2>9, <2>10 DEF Back
<1>. HIDE DEF N
<1>10. n \in N
  BY <1>8, <1>9, Sums!NaturalInduction
<1>11. Right(n)
  BY <1>10 DEF N
<1>12. V(n) = values
  OBVIOUS
<1>. HIDE DEF V
<1>. QED
  BY <1>4, <1>11, <1>12

(* A stack, of which the number of items is before them.                   *)
LEMMA ItemsAreBytes ==
    ASSUME NEW items \in Seq(Buffers) PROVE Concat(VarbuffToBytes, items) \in Buffers
<1>. DEFINE n == Len(items)
            pieces == Each(VarbuffToBytes, items)
            lengths == Each(VarbuffLength, items)
<1>1. n \in Nat /\ DOMAIN items = 1..n /\ \A i \in 1..n : items[i] \in Buffers
  BY ElementOfSeq
<1>2. /\ DOMAIN pieces = 1..n /\ \A i \in 1..n : pieces[i] = VarbuffToBytes(items[i])
      /\ DOMAIN lengths = 1..n /\ \A i \in 1..n : lengths[i] = VarbuffLength(items[i])
  BY <1>1 DEF Each
<1>. HIDE DEF n, pieces, lengths
<1>3. \A i \in 1..n : pieces[i] \in Buffers /\ Len(pieces[i]) = lengths[i]
  BY <1>1, <1>2, VarbuffLengthIsExact
<1>4. Joined(pieces) \in Buffers
  BY <1>1, <1>2, <1>3, JoinedIsAsLong
<1>. QED
  BY <1>4 DEF Concat, pieces

LEMMA ItemsBack ==
    ASSUME NEW bytes \in Buffers, NEW p, NEW items \in Seq(Buffers),
           Holds(bytes, p, Concat(VarbuffToBytes, items))
    PROVE  Back(p, Concat(VarbuffToBytes, items), EnsureItems(bytes, p, Len(items)),
                ReadItems(bytes, p, Len(items)), items)
<1>. DEFINE n == Len(items)
            pieces == Each(VarbuffToBytes, items)
<1>1. n \in Nat /\ DOMAIN items = 1..n /\ Len(items) = n
  OBVIOUS
<1>2. \A i \in 1..n : items[i] \in Buffers
  BY ElementOfSeq
<1>3. DOMAIN pieces = 1..n /\ \A i \in 1..n : pieces[i] = VarbuffToBytes(items[i])
  BY <1>1 DEF Each
<1>4. \A i \in 1..n : pieces[i] \in Buffers
  BY <1>2, <1>3, VarbuffLengthIsExact, Zenon
<1>5. Joined(pieces) = Concat(VarbuffToBytes, items) /\ Holds(bytes, p, Joined(pieces))
  BY DEF Concat
<1>6. Looped("varbuff", bytes, p, n, FALSE, EnsureItems(bytes, p, n), ReadItems(bytes, p, n))
  BY <1>1, ItemsLoop, Zenon
<1>7. \A q : /\ Ensured(Ensuring("varbuff", bytes, FALSE), q) = EnsureVarbuff(bytes, q)
             /\ Got(Ensuring("varbuff", bytes, FALSE), q) = ReadVarbuff(bytes, q)
  BY DEF Ensured, Got, Ensuring
<1>. HIDE DEF n, pieces
<1>8. ASSUME NEW i \in 1..n, NEW q, Holds(bytes, q, pieces[i])
      PROVE  Back(q, pieces[i], Ensured(Ensuring("varbuff", bytes, FALSE), q),
                  Got(Ensuring("varbuff", bytes, FALSE), q), items[i])
  BY <1>2, <1>3, <1>7, <1>8, VarbuffBack, Zenon
<1>9. Back(p, Joined(pieces), EnsureItems(bytes, p, n), ReadItems(bytes, p, n), items)
  BY <1>1, <1>3, <1>4, <1>5, <1>6, <1>8, LoopBack, Zenon
<1>. QED
  BY <1>1, <1>5, <1>9 DEF n

LEMMA StackBack ==
    ASSUME NEW bytes \in Buffers, NEW p, NEW stack \in StackSet,
           Holds(bytes, p, StackToBytes(stack))
    PROVE  Back(p, StackToBytes(stack), EnsureStack(bytes, p), ReadStack(bytes, p),
                Stack(stack))
<1>. DEFINE items == IF stack = None THEN <<>> ELSE stack
            n == Len(items)
            count == VarintToBytes(n)
            all == Concat(VarbuffToBytes, items)
            q == p + Len(count)
            read == ReadItems(bytes, q, n)
<1>1. items \in Seq(Buffers)
  BY DEF StackSet
<1>2. n \in Nat /\ (n = 0 <=> items = <<>>)
  BY <1>1
<1>3. StackToBytes(stack) = count \o all
  <2>1. CASE stack = None
    <3>1. count = <<0>>
      BY <2>1, SizesAssumption DEF VarintToBytes
    <3>2. all = <<>>
      <4>1. DOMAIN Each(VarbuffToBytes, <<>>) = 1..0
        BY DEF Each
      <4>2. Joined(Each(VarbuffToBytes, <<>>)) = <<>>
        BY <4>1, JoinedIsFold, NoNumbers
      <4>3. items = <<>>
        BY <2>1
      <4>. HIDE DEF items
      <4>4. Concat(VarbuffToBytes, items) = Joined(Each(VarbuffToBytes, <<>>))
        BY <4>3, Zenon DEF Concat
      <4>. QED
        BY <4>2, <4>4
    <3>3. StackToBytes(stack) = <<0>>
      BY <2>1 DEF StackToBytes
    <3>4. <<0>> \o <<>> = <<0>>
      OBVIOUS
    <3>. HIDE DEF count, all
    <3>. QED
      BY <3>1, <3>2, <3>3, <3>4
  <2>2. CASE stack # None
    BY <2>2 DEF StackToBytes
  <2>. QED
    BY <2>1, <2>2
<1>4. Stack(stack) = IF n = 0 THEN None ELSE items
  BY <1>2 DEF Stack
<1>5. count \in Buffers /\ all \in Buffers
  <2>1. count \in Buffers
    BY <1>2, VarintLengthIsExact
  <2>. QED
    BY <1>1, <2>1, ItemsAreBytes, Zenon
<1>. HIDE DEF items, n, count, all
<1>6. Holds(bytes, p, count) /\ Holds(bytes, q, all)
  BY <1>3, <1>5, HoldsParts
<1>7. /\ EnsureVarint(bytes, p) = [value |-> n, end |-> q]
      /\ ReadVarint(bytes, p) = [value |-> n, end |-> q]
  BY <1>2, <1>6, VarintBack DEF count
<1>8. Back(q, all, EnsureItems(bytes, q, n), read, items)
  BY <1>1, <1>6, ItemsBack DEF all, n
<1>9. q + Len(all) = p + Len(StackToBytes(stack))
  <2>1. p \in Nat /\ Len(count) \in Nat /\ Len(all) \in Nat
        /\ Len(count \o all) = Len(count) + Len(all)
    BY <1>5, <1>6, LengthIsNatural, LengthOfTwo DEF Holds
  <2>. QED
    BY <1>3, <2>1
<1>10. EnsureStack(bytes, p) = EnsureItems(bytes, q, n)
  BY <1>7 DEF EnsureStack
<1>11. ReadStack(bytes, p) = [value |-> IF n = 0 THEN None ELSE read.value, end |-> read.end]
  BY <1>7 DEF ReadStack
<1>. HIDE DEF q, read
<1>. QED
  BY <1>4, <1>8, <1>9, <1>10, <1>11 DEF Back

(* An input without its witness.                                           *)
ClearInput(in) ==
    "ISSUANCE" \in in.features =>
        {"PEGIN", "COINBASE"} \cap in.features = {} /\ Shows(in.amount) /\ Shows(in.keys)
Remade(in, nonce, amount, keys, amountproof, keysproof, witness, pegin) ==
    [txhash |-> in.txhash, sequence |-> in.sequence, script |-> in.script,
     index |-> in.index, features |-> in.features, nonce |-> nonce,
     amount |-> amount, keys |-> keys, amountproof |-> amountproof,
     keysproof |-> keysproof, witness |-> witness, pegin |-> pegin]
KeptInput(in, amountproof, keysproof, witness, pegin) ==
    LET issuance == "ISSUANCE" \in in.features
    IN Remade(in, IF issuance THEN in.nonce ELSE Cleared(<<>>),
              IF issuance THEN in.amount ELSE <<>>, IF issuance THEN in.keys ELSE <<>>,
              amountproof, keysproof, witness, pegin)
BareInput(in) == KeptInput(in, <<>>, <<>>, None, None)

LEMMA OutpointHolds ==
    ASSUME NEW bytes \in Buffers, NEW p, NEW a \in Nat, NEW b \in Nat,
           Holds(bytes, p, <<a, b>>)
    PROVE  /\ p \in Nat /\ Skip(bytes, p, 2) = p + 2 /\ p + 2 # Refused
           /\ bytes[p + 1] = a /\ bytes[p + 2] = b
           /\ At(bytes, p) = a /\ At(bytes, p + 1) = b
<1>. DEFINE w == <<a, b>>
<1>1. Len(w) = 2 /\ w[1] = a /\ w[2] = b
  OBVIOUS
<1>6. w \in Buffers /\ Holds(bytes, p, w)
  BY DEF Buffers
<1>2. p \in Nat
  BY DEF Holds
<1>3. 2 \in 0..2 /\ 1 \in 1..2 /\ 2 \in 1..2 /\ p + 1 - 1 = p /\ p + 2 - 1 = p + 1
      /\ p + 2 # Refused
  BY <1>2 DEF Refused
<1>. HIDE DEF w
<1>4. /\ \A k \in 0..Len(w) : Skip(bytes, p, k) = p + k
      /\ \A i \in 1..Len(w) : bytes[p + i] = w[i] /\ At(bytes, p + i - 1) = w[i]
  BY <1>6, HoldsAt
<1>5. /\ Skip(bytes, p, 2) = p + 2 /\ bytes[p + 1] = a /\ bytes[p + 2] = b
      /\ At(bytes, p + 1 - 1) = a /\ At(bytes, p + 2 - 1) = b
  BY <1>1, <1>3, <1>4
<1>. QED
  BY <1>2, <1>3, <1>5

(* Its index has the flags of what it is.                                  *)
LEMMA IndexBack ==
    ASSUME NEW el \in BOOLEAN, NEW in \in ShapedInputs(el), ClearInput(in)
    PROVE  LET w == IndexToByte(in)
               coinbase == "COINBASE" \in in.features
           IN /\ w \in Nat
              /\ IsCoinbase(in.txhash, w) <=> coinbase
              /\ "ISSUANCE" \in in.features
                    <=> el /\ Flagged(w, IssuanceFlag) /\ ~IsCoinbase(in.txhash, w)
              /\ "PEGIN" \in in.features <=> (el /\ ~coinbase) /\ Flagged(w, PeginFlag)
              /\ in.index = IF el /\ ~coinbase THEN w % IndexMask ELSE w
<1>. DEFINE w == IndexToByte(in)
            coinbase == "COINBASE" \in in.features
            issuance == "ISSUANCE" \in in.features
            pegin == "PEGIN" \in in.features
<1>1. /\ in \in InputSet /\ in.index \in Nat /\ in.txhash \in Nat
      /\ coinbase <=> IsCoinbase(in.txhash, in.index)
      /\ el /\ ~coinbase => in.index \in {0, 1}
      /\ el /\ coinbase => ~pegin
      /\ ~el => ~issuance /\ ~pegin
      /\ issuance => ~pegin /\ ~coinbase
  BY DEF ShapedInputs, InputShape, InputSet, ClearInput
<1>2. w = IF issuance THEN in.index + 4 ELSE IF pegin THEN in.index + 2 ELSE in.index
  BY DEF IndexToByte, IssuanceFlag, PeginFlag
<1>3. /\ \A n : Flagged(n, IssuanceFlag) <=> (n \div 4) % 2 = 1
      /\ \A n : Flagged(n, PeginFlag) <=> (n \div 2) % 2 = 1
      /\ \A n : IsCoinbase(in.txhash, n) <=> in.txhash = 0 /\ n = 7
      /\ IndexMask = 2
  BY DEF Flagged, IssuanceFlag, PeginFlag, IsCoinbase, CoinbaseIndex, IndexMask
<1>. HIDE DEF w, coinbase, issuance, pegin
<1>4. CASE el /\ ~coinbase
  <2>1. in.index = 0 \/ in.index = 1
    BY <1>1, <1>4
  <2>2. CASE issuance
    <3>1. w = 4 \/ w = 5
      BY <1>2, <2>1, <2>2
    <3>2. w % 2 = in.index /\ w # 7
      BY <1>2, <2>1, <2>2
    <3>3. (w \div 4) % 2 = 1 /\ (w \div 2) % 2 = 0
      BY <3>1
    <3>. QED
      BY <1>1, <1>3, <1>4, <2>2, <3>1, <3>2, <3>3 DEF w, coinbase, issuance, pegin
  <2>3. CASE ~issuance /\ pegin
    <3>1. w = 2 \/ w = 3
      BY <1>2, <2>1, <2>3
    <3>2. w % 2 = in.index /\ w # 7
      BY <1>2, <2>1, <2>3
    <3>3. (w \div 4) % 2 = 0 /\ (w \div 2) % 2 = 1
      BY <3>1
    <3>. QED
      BY <1>1, <1>3, <1>4, <2>3, <3>1, <3>2, <3>3 DEF w, coinbase, issuance, pegin
  <2>4. CASE ~issuance /\ ~pegin
    <3>1. w = in.index /\ (w = 0 \/ w = 1)
      BY <1>2, <2>1, <2>4
    <3>2. w % 2 = in.index /\ w # 7
      BY <3>1
    <3>3. (w \div 4) % 2 = 0 /\ (w \div 2) % 2 = 0
      BY <3>1
    <3>. QED
      BY <1>1, <1>3, <1>4, <2>4, <3>1, <3>2, <3>3 DEF w, coinbase, issuance, pegin
  <2>. QED
    BY <2>2, <2>3, <2>4
<1>5. CASE ~(el /\ ~coinbase)
  <2>1. ~issuance /\ ~pegin
    BY <1>1, <1>5
  <2>2. w = in.index
    BY <1>2, <2>1
  <2>3. el => coinbase
    BY <1>5
  <2>. QED
    BY <1>1, <1>5, <2>1, <2>2, <2>3 DEF w, coinbase, issuance, pegin
<1>. QED
  BY <1>4, <1>5

LEMMA InputMadeBack ==
    ASSUME NEW el \in BOOLEAN, NEW in \in ShapedInputs(el), ClearInput(in)
    PROVE  LET issuance == "ISSUANCE" \in in.features
           IN BareInput(in)
              = InitInput([txhash |-> in.txhash, index |-> IndexToByte(in),
                           script |-> in.script, sequence |-> in.sequence,
                           nonce |-> IF issuance THEN in.nonce ELSE <<>>,
                           amount |-> IF issuance THEN in.amount ELSE <<>>,
                           keys |-> IF issuance THEN in.keys ELSE <<>>,
                           amountproof |-> <<>>, keysproof |-> <<>>,
                           witness |-> None, pegin |-> None], el)
<1>. DEFINE w == IndexToByte(in)
            coinbase == "COINBASE" \in in.features
            issuance == "ISSUANCE" \in in.features
            pegin == "PEGIN" \in in.features
            a == [txhash |-> in.txhash, index |-> w, script |-> in.script,
                  sequence |-> in.sequence,
                  nonce |-> IF issuance THEN in.nonce ELSE <<>>,
                  amount |-> IF issuance THEN in.amount ELSE <<>>,
                  keys |-> IF issuance THEN in.keys ELSE <<>>,
                  amountproof |-> <<>>, keysproof |-> <<>>,
                  witness |-> None, pegin |-> None]
            features == FeatureIf("ELEMENTS", el) \cup FeatureIf("COINBASE", coinbase)
                        \cup FeatureIf("ISSUANCE", issuance) \cup FeatureIf("PEGIN", pegin)
<1>1. /\ IsCoinbase(in.txhash, w) <=> coinbase
      /\ issuance <=> el /\ Flagged(w, IssuanceFlag) /\ ~IsCoinbase(in.txhash, w)
      /\ pegin <=> (el /\ ~coinbase) /\ Flagged(w, PeginFlag)
      /\ in.index = IF el /\ ~coinbase THEN w % IndexMask ELSE w
  BY IndexBack
<1>2. /\ in \in InputSet /\ Len(in.nonce) = 2 /\ ("ELEMENTS" \in in.features <=> el)
      /\ in.features \in SUBSET {"ELEMENTS", "COINBASE", "ISSUANCE", "PEGIN"}
  BY DEF ShapedInputs, InputShape, InputSet
<1>3. in.features = features
  BY <1>2 DEF FeatureIf
<1>4. in.nonce # <<>>
  BY <1>2, SMTT(30)
<1>5. (el /\ a.nonce # <<>>) <=> issuance
  BY <1>1, <1>4
<1>6. Cleared(a.nonce) = IF issuance THEN in.nonce ELSE Cleared(<<>>)
  BY <1>4 DEF Cleared
<1>7. InitInput(a, el)
      = [txhash |-> in.txhash, sequence |-> in.sequence, script |-> in.script,
         index |-> in.index, features |-> in.features,
         nonce |-> IF issuance THEN in.nonce ELSE Cleared(<<>>),
         amount |-> IF issuance THEN in.amount ELSE <<>>,
         keys |-> IF issuance THEN in.keys ELSE <<>>,
         amountproof |-> <<>>, keysproof |-> <<>>, witness |-> None, pegin |-> None]
  <2>. DEFINE flags == el /\ ~IsCoinbase(a.txhash, a.index)
              made(set) == [txhash |-> a.txhash, sequence |-> a.sequence, script |-> a.script,
                  index |-> IF flags THEN a.index % IndexMask ELSE a.index,
                  features |-> set, nonce |-> Cleared(a.nonce), amount |-> a.amount,
                  keys |-> a.keys, amountproof |-> a.amountproof, keysproof |-> a.keysproof,
                  witness |-> a.witness, pegin |-> a.pegin]
              set == FeatureIf("ELEMENTS", el)
                     \cup FeatureIf("COINBASE", IsCoinbase(a.txhash, a.index))
                     \cup FeatureIf("ISSUANCE", el /\ a.nonce # <<>>)
                     \cup FeatureIf("PEGIN", flags /\ Flagged(a.index, PeginFlag))
  <2>1. InitInput(a, el) = made(set)
    BY DEF InitInput, MakeInput
  <2>2. set = in.features
    <3>1. a.index = w /\ a.txhash = in.txhash
      OBVIOUS
    <3>. HIDE DEF a, w, issuance, pegin, coinbase
    <3>. QED
      BY <1>1, <1>3, <1>5, <3>1 DEF FeatureIf
  <2>3. in.index = IF flags THEN w % IndexMask ELSE w
    BY <1>1
  <2>. HIDE DEF w, set, issuance
  <2>. QED
    BY <1>6, <2>1, <2>2, <2>3
<1>. HIDE DEF issuance
<1>. QED
  BY <1>7 DEF BareInput, KeptInput, Remade, issuance

LEMMA InputBack ==
    ASSUME NEW bytes \in Buffers, NEW p, NEW el \in BOOLEAN,
           NEW in \in ShapedInputs(el), ClearInput(in),
           Holds(bytes, p, InputToBytes(in))
    PROVE  Back(p, InputToBytes(in), EnsureInput(bytes, p, el), ReadInput(bytes, p, el),
                BareInput(in))
<1>. DEFINE w == IndexToByte(in)
            issuance == "ISSUANCE" \in in.features
            outpoint == <<in.txhash, w>>
            script == VarbuffToBytes(in.script)
            sequence == <<in.sequence>>
            amount == CommitmentToBytes(in.amount)
            keys == CommitmentToBytes(in.keys)
            first == outpoint \o script
            front == first \o sequence
            tail == IF issuance THEN in.nonce \o amount \o keys ELSE <<>>
            s == p + 2 + Len(script)
            plain == s + 1
            k == plain + 2 + Len(amount)
            ValueSet == Commitments(ExplicitLen, ValuePrefixes)
<1>1. /\ in \in InputSet /\ in.txhash \in Nat /\ in.sequence \in Nat /\ in.script \in Buffers
      /\ in.nonce \in Buffers /\ Len(in.nonce) = 2
      /\ in.amount \in ValueSet /\ in.keys \in ValueSet
  BY DEF ShapedInputs, InputShape, InputSet
<1>2. /\ w \in Nat
      /\ issuance <=> el /\ Flagged(w, IssuanceFlag) /\ ~IsCoinbase(in.txhash, w)
  BY IndexBack
<1>3. issuance => Shows(in.amount) /\ Shows(in.keys)
  BY DEF ClearInput
<1>. HIDE DEF w, issuance
<1>4. /\ outpoint \in Buffers /\ Len(outpoint) = 2
      /\ sequence \in Buffers /\ Len(sequence) = 1
  BY <1>1, <1>2 DEF Buffers
<1>5. script \in Buffers /\ Len(script) \in Nat
  BY <1>1, VarbuffLengthIsExact, LengthIsNatural
<1>6. amount \in Buffers /\ keys \in Buffers /\ Len(amount) \in Nat /\ Len(keys) \in Nat
  BY <1>1, CommitmentLengthIsExact, LengthIsNatural
<1>7. tail \in Buffers
  <2>1. in.nonce \o amount \in Buffers
    BY <1>1, <1>6, LengthOfTwo
  <2>2. in.nonce \o amount \o keys \in Buffers
    BY <1>6, <2>1, LengthOfTwo
  <2>3. <<>> \in Buffers
    BY DEF Buffers
  <2>. QED
    BY <2>2, <2>3
<1>8. InputToBytes(in) = front \o tail
  BY DEF InputToBytes, w, issuance
<1>. HIDE DEF outpoint, script, sequence, amount, keys, tail, ValueSet
<1>9. first \in Buffers /\ Len(first) = 2 + Len(script)
  BY <1>4, <1>5, LengthOfTwo, Zenon
<1>. HIDE DEF first
<1>10. front \in Buffers /\ Len(front) = 2 + Len(script) + 1
  BY <1>4, <1>9, LengthOfTwo, Zenon
<1>. HIDE DEF front
<1>11. Len(InputToBytes(in)) = 3 + Len(script) + Len(tail) /\ Len(tail) \in Nat
  <2>1. Len(front \o tail) = Len(front) + Len(tail) /\ Len(tail) \in Nat
    BY <1>7, <1>10, LengthOfTwo, LengthIsNatural
  <2>. QED
    BY <1>5, <1>8, <1>10, <2>1
<1>12. p \in Nat /\ s \in Nat /\ plain \in Nat /\ k \in Nat
  BY <1>5, <1>6 DEF Holds
<1>13. /\ Holds(bytes, p, outpoint) /\ Holds(bytes, p + 2, script)
       /\ Holds(bytes, s, sequence) /\ Holds(bytes, plain, tail)
  <2>1. Holds(bytes, p, front) /\ Holds(bytes, p + Len(front), tail)
    BY <1>7, <1>8, <1>10, HoldsParts
  <2>2. Holds(bytes, p, first) /\ Holds(bytes, p + Len(first), sequence)
    BY <1>4, <1>9, <2>1, HoldsParts DEF front
  <2>3. Holds(bytes, p, outpoint) /\ Holds(bytes, p + Len(outpoint), script)
    BY <1>4, <1>5, <2>2, HoldsParts, Zenon DEF first
  <2>4. p + Len(front) = plain /\ p + Len(first) = s /\ p + Len(outpoint) = p + 2
    BY <1>4, <1>5, <1>9, <1>10, <1>12
  <2>. QED
    BY <2>1, <2>2, <2>3, <2>4
<1>14. /\ Skip(bytes, p, 2) = p + 2 /\ p + 2 # Refused
       /\ bytes[p + 1] = in.txhash /\ bytes[p + 2] = w
       /\ At(bytes, p) = in.txhash /\ At(bytes, p + 1) = w
  <2>1. Holds(bytes, p, <<in.txhash, w>>)
    BY <1>13 DEF outpoint
  <2>. QED
    BY <1>1, <1>2, <2>1, OutpointHolds
<1>15. /\ EnsureVarbuff(bytes, p + 2) = s /\ ReadVarbuff(bytes, p + 2).end = s
       /\ ReadVarbuff(bytes, p + 2).value = in.script
  BY <1>1, <1>13, VarbuffBack DEF Back, script
<1>16. Skip(bytes, s, 1) = plain /\ At(bytes, s) = in.sequence
  BY <1>1, <1>13, ByteHolds DEF sequence
<1>17. CASE issuance
  <2>1. tail = (in.nonce \o amount) \o keys
    BY <1>17 DEF tail
  <2>2. in.nonce \o amount \in Buffers /\ Len(in.nonce \o amount) = 2 + Len(amount)
    BY <1>1, <1>6, LengthOfTwo, Zenon
  <2>3. Len(tail) = 2 + Len(amount) + Len(keys)
    BY <1>6, <2>1, <2>2, LengthOfTwo, Zenon
  <2>4. Holds(bytes, plain, in.nonce \o amount)
        /\ Holds(bytes, plain + Len(in.nonce \o amount), keys)
    BY <1>6, <1>13, <2>1, <2>2, HoldsParts, Zenon
  <2>5. Holds(bytes, plain, in.nonce) /\ Holds(bytes, plain + Len(in.nonce), amount)
    BY <1>1, <1>6, <2>4, HoldsParts, Zenon
  <2>6. Holds(bytes, plain + 2, amount) /\ Holds(bytes, k, keys)
    <3>1. plain + Len(in.nonce \o amount) = k /\ plain + Len(in.nonce) = plain + 2
      BY <1>1, <1>6, <1>12, <2>2
    <3>. QED
      BY <2>4, <2>5, <3>1
  <2>7. Slice(bytes, plain, 2) = in.nonce /\ Skip(bytes, plain, 2) = plain + 2
    <3>1. /\ Slice(bytes, plain, Len(in.nonce)) = in.nonce
          /\ Skip(bytes, plain, Len(in.nonce)) = plain + Len(in.nonce)
      BY <1>1, <2>5, SliceBack, Zenon
    <3>. QED
      BY <1>1, <3>1
  <2>8. Back(plain + 2, amount, EnsureValue(bytes, plain + 2),
             ReadCommitment(bytes, plain + 2, ExplicitLen), in.amount)
    BY <1>1, <1>3, <1>17, <2>6, CommitmentBack DEF EnsureValue, ValueSet, amount
  <2>9. Back(k, keys, EnsureValue(bytes, k), ReadCommitment(bytes, k, ExplicitLen), in.keys)
    BY <1>1, <1>3, <1>17, <2>6, CommitmentBack DEF EnsureValue, ValueSet, keys
  <2>. DEFINE readAmount == ReadCommitment(bytes, plain + 2, ExplicitLen)
              readKeys == ReadCommitment(bytes, k, ExplicitLen)
              end == k + Len(keys)
  <2>10. /\ EnsureValue(bytes, plain + 2) = k /\ readAmount.end = k
         /\ readAmount.value = in.amount
    BY <2>8 DEF Back
  <2>11. /\ EnsureValue(bytes, k) = end /\ readKeys.end = end /\ readKeys.value = in.keys
    BY <2>9 DEF Back
  <2>12. end = p + Len(InputToBytes(in))
    BY <1>5, <1>6, <1>11, <1>12, <2>3
  <2>13. EnsureInput(bytes, p, el) = end
    BY <1>2, <1>14, <1>15, <1>16, <1>17, <2>7, <2>10, <2>11 DEF EnsureInput
  <2>. DEFINE read == ReadInput(bytes, p, el)
  <2>14. read.end = end /\ read.value = BareInput(in)
    <3>. DEFINE a == [txhash |-> in.txhash, index |-> w, script |-> in.script,
                      sequence |-> in.sequence, nonce |-> in.nonce,
                      amount |-> in.amount, keys |-> in.keys,
                      amountproof |-> <<>>, keysproof |-> <<>>,
                      witness |-> None, pegin |-> None]
    <3>1. BareInput(in) = InitInput(a, el)
      BY <1>17, InputMadeBack DEF issuance, w
    <3>2. read = [value |-> InitInput(a, el), end |-> end]
      BY <1>2, <1>14, <1>15, <1>16, <1>17, <2>7, <2>10, <2>11, Zenon DEF ReadInput
    <3>. HIDE DEF a, end, read
    <3>. QED
      BY <3>1, <3>2
  <2>. HIDE DEF end, read
  <2>. QED
    BY <2>12, <2>13, <2>14 DEF Back, read
<1>18. CASE ~issuance
  <2>1. Len(tail) = 0
    BY <1>18 DEF tail
  <2>2. plain = p + Len(InputToBytes(in))
    BY <1>5, <1>11, <1>12, <2>1
  <2>3. EnsureInput(bytes, p, el) = plain
    BY <1>2, <1>14, <1>15, <1>16, <1>18 DEF EnsureInput
  <2>. DEFINE read == ReadInput(bytes, p, el)
  <2>4. read.end = plain /\ read.value = BareInput(in)
    <3>. DEFINE a == [txhash |-> in.txhash, index |-> w, script |-> in.script,
                      sequence |-> in.sequence, nonce |-> <<>>,
                      amount |-> <<>>, keys |-> <<>>,
                      amountproof |-> <<>>, keysproof |-> <<>>,
                      witness |-> None, pegin |-> None]
    <3>1. BareInput(in) = InitInput(a, el)
      BY <1>18, InputMadeBack DEF issuance, w
    <3>2. read = [value |-> InitInput(a, el), end |-> plain]
      BY <1>2, <1>14, <1>15, <1>16, <1>18 DEF ReadInput
    <3>. HIDE DEF a, plain, read
    <3>. QED
      BY <3>1, <3>2
  <2>. HIDE DEF plain, read
  <2>. QED
    BY <2>2, <2>3, <2>4 DEF Back, read
<1>. QED
  BY <1>17, <1>18

(* What a witness has for an input, and an output's proofs.                *)
Proofs(out) == [surjectionproof |-> out.surjectionproof, rangeproof |-> out.rangeproof]

LEMMA ProofsBack ==
    ASSUME NEW bytes \in Buffers, NEW p, NEW out \in Outputs,
           Holds(bytes, p, ProofsToBytes(out))
    PROVE  Back(p, ProofsToBytes(out), EnsureProofs(bytes, p), ReadProofs(bytes, p),
                Proofs(out))
<1>. DEFINE a == VarbuffToBytes(out.surjectionproof)
            b == VarbuffToBytes(out.rangeproof)
            q == p + Len(a)
            read == ReadProofs(bytes, p)
<1>1. out.surjectionproof \in Buffers /\ out.rangeproof \in Buffers
  BY Zenon DEF Outputs, OutputSet
<1>2. a \in Buffers /\ b \in Buffers
  BY <1>1, VarbuffLengthIsExact
<1>3. ProofsToBytes(out) = a \o b
  BY DEF ProofsToBytes
<1>. HIDE DEF a, b
<1>4. /\ Holds(bytes, p, a) /\ Holds(bytes, q, b)
      /\ q + Len(b) = p + Len(ProofsToBytes(out))
  BY <1>2, <1>3, HoldsParts
<1>5. Back(p, a, EnsureVarbuff(bytes, p), ReadVarbuff(bytes, p), out.surjectionproof)
  BY <1>1, <1>4, VarbuffBack DEF a
<1>6. Back(q, b, EnsureVarbuff(bytes, q), ReadVarbuff(bytes, q), out.rangeproof)
  BY <1>1, <1>4, VarbuffBack DEF b
<1>. HIDE DEF q
<1>7. EnsureProofs(bytes, p) = q + Len(b)
  BY <1>5, <1>6 DEF EnsureProofs, Back, q
<1>8. read = [value |-> Proofs(out), end |-> q + Len(b)]
  BY <1>5, <1>6 DEF ReadProofs, Proofs, Back, q
<1>. HIDE DEF read
<1>9. read.value = Proofs(out) /\ read.end = q + Len(b)
  BY <1>8
<1>. QED
  BY <1>4, <1>7, <1>9 DEF Back, read

InputWitness(in) ==
    [amountproof |-> in.amountproof, keysproof |-> in.keysproof,
     witness |-> Stack(in.witness), pegin |-> Stack(in.pegin)]

LEMMA InputWitnessBack ==
    ASSUME NEW bytes \in Buffers, NEW p, NEW in \in InputSet,
           Holds(bytes, p, InputWitnessToBytes(in))
    PROVE  Back(p, InputWitnessToBytes(in), EnsureInputWitness(bytes, p),
                ReadInputWitness(bytes, p), InputWitness(in))
<1>. DEFINE a == VarbuffToBytes(in.amountproof)
            b == VarbuffToBytes(in.keysproof)
            c == StackToBytes(in.witness)
            d == StackToBytes(in.pegin)
            ab == a \o b
            abc == ab \o c
            q == p + Len(a)
            r == p + Len(ab)
            s == p + Len(abc)
            end == p + Len(abc \o d)
            read == ReadInputWitness(bytes, p)
<1>1. /\ in.amountproof \in Buffers /\ in.keysproof \in Buffers
      /\ in.witness \in StackSet /\ in.pegin \in StackSet
  BY DEF InputSet
<1>2. a \in Buffers /\ b \in Buffers /\ c \in Buffers /\ d \in Buffers
  BY <1>1, VarbuffLengthIsExact, StackLengthIsExact
<1>3. InputWitnessToBytes(in) = abc \o d
  BY DEF InputWitnessToBytes
<1>. HIDE DEF a, b, c, d
<1>4. ab \in Buffers
  BY <1>2, LengthOfTwo
<1>. HIDE DEF ab
<1>5. abc \in Buffers
  BY <1>2, <1>4, LengthOfTwo
<1>. HIDE DEF abc
<1>6. Holds(bytes, p, abc) /\ Holds(bytes, s, d) /\ s + Len(d) = end
  BY <1>2, <1>3, <1>5, HoldsParts
<1>7. Holds(bytes, p, ab) /\ Holds(bytes, r, c) /\ r + Len(c) = s
  BY <1>2, <1>4, <1>6, HoldsParts DEF abc
<1>8. Holds(bytes, p, a) /\ Holds(bytes, q, b) /\ q + Len(b) = r
  BY <1>2, <1>7, HoldsParts DEF ab
<1>. HIDE DEF q, r, s, end
<1>9. Back(p, a, EnsureVarbuff(bytes, p), ReadVarbuff(bytes, p), in.amountproof)
  BY <1>1, <1>8, VarbuffBack DEF a
<1>10. Back(q, b, EnsureVarbuff(bytes, q), ReadVarbuff(bytes, q), in.keysproof)
  BY <1>1, <1>8, VarbuffBack DEF b
<1>11. Back(r, c, EnsureStack(bytes, r), ReadStack(bytes, r), Stack(in.witness))
  BY <1>1, <1>7, StackBack DEF c
<1>12. Back(s, d, EnsureStack(bytes, s), ReadStack(bytes, s), Stack(in.pegin))
  BY <1>1, <1>6, StackBack DEF d
<1>13. /\ EnsureVarbuff(bytes, p) = q /\ ReadVarbuff(bytes, p).end = q
       /\ ReadVarbuff(bytes, p).value = in.amountproof
       /\ EnsureVarbuff(bytes, q) = r /\ ReadVarbuff(bytes, q).end = r
       /\ ReadVarbuff(bytes, q).value = in.keysproof
       /\ EnsureStack(bytes, r) = s /\ ReadStack(bytes, r).end = s
       /\ ReadStack(bytes, r).value = Stack(in.witness)
       /\ EnsureStack(bytes, s) = end /\ ReadStack(bytes, s).end = end
       /\ ReadStack(bytes, s).value = Stack(in.pegin)
  BY <1>6, <1>7, <1>8, <1>9, <1>10, <1>11, <1>12 DEF Back, q
<1>14. EnsureInputWitness(bytes, p) = end
  BY <1>13 DEF EnsureInputWitness
<1>15. read = [value |-> InputWitness(in), end |-> end]
  BY <1>13 DEF ReadInputWitness, InputWitness
<1>. HIDE DEF read
<1>16. read.value = InputWitness(in) /\ read.end = end
  BY <1>15
<1>. QED
  BY <1>3, <1>14, <1>16 DEF Back, read, end

(* An output without its proofs, of what was read.                         *)
ClearOutput(out) == Shows(out.asset) /\ Shows(out.value) /\ Shows(out.nonce)
OutputArg(out) ==
    [satoshi |-> out.satoshi, script |-> out.script, asset |-> out.asset,
     value |-> out.value, nonce |-> out.nonce, surjectionproof |-> <<>>, rangeproof |-> <<>>]

LEMMA OutputBack ==
    ASSUME NEW bytes \in Buffers, NEW p, NEW el \in BOOLEAN,
           NEW out \in ShapedOutputs(el), ClearOutput(out),
           Holds(bytes, p, OutputToBytes(out))
    PROVE  Back(p, OutputToBytes(out), EnsureOutput(bytes, p, el), ReadOutput(bytes, p, el),
                OutputArg(out))
<1>. DEFINE read == ReadOutput(bytes, p, el)
            script == VarbuffToBytes(out.script)
<1>1. /\ out \in OutputSet(el) /\ out.script \in Buffers
      /\ out.asset \in Commitments(CtLen, AssetPrefixes)
      /\ out.value \in Commitments(ExplicitLen, ValuePrefixes)
      /\ out.nonce \in Commitments(CtLen, NoncePrefixes)
  BY DEF ShapedOutputs, OutputSet
<1>2. script \in Buffers
  BY <1>1, VarbuffLengthIsExact
<1>3. CASE el
  <2>. DEFINE a == CommitmentToBytes(out.asset)
              b == CommitmentToBytes(out.value)
              c == CommitmentToBytes(out.nonce)
              ab == a \o b
              abc == ab \o c
              q == p + Len(a)
              r == p + Len(ab)
              s == p + Len(abc)
              end == p + Len(abc \o script)
  <2>1. a \in Buffers /\ b \in Buffers /\ c \in Buffers
    BY <1>1, CommitmentLengthIsExact
  <2>2. IsElementsPart(out) /\ out.satoshi = -1
    BY <1>1, <1>3 DEF OutputSet, IsElementsPart, FeatureIf
  <2>3. OutputToBytes(out) = abc \o script
    BY <2>2 DEF OutputToBytes
  <2>. HIDE DEF a, b, c, script
  <2>4. ab \in Buffers
    BY <2>1, LengthOfTwo
  <2>. HIDE DEF ab
  <2>5. abc \in Buffers
    BY <2>1, <2>4, LengthOfTwo
  <2>. HIDE DEF abc
  <2>6. Holds(bytes, p, abc) /\ Holds(bytes, s, script) /\ s + Len(script) = end
    BY <1>2, <2>3, <2>5, HoldsParts
  <2>7. Holds(bytes, p, ab) /\ Holds(bytes, r, c) /\ r + Len(c) = s
    BY <2>1, <2>4, <2>6, HoldsParts DEF abc
  <2>8. Holds(bytes, p, a) /\ Holds(bytes, q, b) /\ q + Len(b) = r
    BY <2>1, <2>7, HoldsParts DEF ab
  <2>. HIDE DEF q, r, s, end
  <2>9. Back(p, a, EnsureCommitment(bytes, p, CtLen, AssetPrefixes),
             ReadCommitment(bytes, p, CtLen), out.asset)
    BY <1>1, <2>8, CommitmentBack DEF a, ClearOutput
  <2>10. Back(q, b, EnsureValue(bytes, q), ReadCommitment(bytes, q, ExplicitLen), out.value)
    BY <1>1, <2>8, CommitmentBack DEF b, EnsureValue, ClearOutput
  <2>11. Back(r, c, EnsureCommitment(bytes, r, CtLen, NoncePrefixes),
              ReadCommitment(bytes, r, CtLen), out.nonce)
    BY <1>1, <2>7, CommitmentBack DEF c, ClearOutput
  <2>12. Back(s, script, EnsureVarbuff(bytes, s), ReadVarbuff(bytes, s), out.script)
    BY <1>1, <2>6, VarbuffBack DEF script
  <2>13. /\ EnsureCommitment(bytes, p, CtLen, AssetPrefixes) = q
         /\ ReadCommitment(bytes, p, CtLen).end = q
         /\ ReadCommitment(bytes, p, CtLen).value = out.asset
         /\ EnsureValue(bytes, q) = r /\ ReadCommitment(bytes, q, ExplicitLen).end = r
         /\ ReadCommitment(bytes, q, ExplicitLen).value = out.value
         /\ EnsureCommitment(bytes, r, CtLen, NoncePrefixes) = s
         /\ ReadCommitment(bytes, r, CtLen).end = s
         /\ ReadCommitment(bytes, r, CtLen).value = out.nonce
         /\ EnsureVarbuff(bytes, s) = end /\ ReadVarbuff(bytes, s).end = end
         /\ ReadVarbuff(bytes, s).value = out.script
    BY <2>6, <2>7, <2>8, <2>9, <2>10, <2>11, <2>12 DEF Back, q
  <2>14. EnsureOutput(bytes, p, el) = end
    BY <1>3, <2>13 DEF EnsureOutput
  <2>15. read = [value |-> OutputArg(out), end |-> end]
    BY <1>3, <2>2, <2>13 DEF ReadOutput, OutputArg
  <2>. HIDE DEF read
  <2>16. read.value = OutputArg(out) /\ read.end = end
    BY <2>15
  <2>. QED
    BY <2>3, <2>14, <2>16 DEF Back, read, end
<1>4. CASE ~el
  <2>. DEFINE a == <<out.satoshi>>
              q == p + 1
              end == p + Len(a \o script)
  <2>1. /\ out.satoshi \in Nat /\ out.asset = <<>> /\ out.value = <<>> /\ out.nonce = <<>>
        /\ ~IsElementsPart(out)
    BY <1>1, <1>4 DEF ShapedOutputs, OutputSet, IsElementsPart, FeatureIf
  <2>2. a \in Buffers /\ Len(a) = 1
    BY <2>1 DEF Buffers
  <2>3. OutputToBytes(out) = a \o script
    BY <2>1 DEF OutputToBytes
  <2>. HIDE DEF a, script
  <2>4. Holds(bytes, p, a) /\ Holds(bytes, q, script) /\ q + Len(script) = end
    <3>1. /\ Holds(bytes, p, a) /\ Holds(bytes, p + Len(a), script)
          /\ p + Len(a) + Len(script) = end
      <4>1. Holds(bytes, p, a \o script)
        BY <2>3
      <4>2. a \in Buffers
        BY <2>2
      <4>. QED
        BY <1>2, <4>1, <4>2, HoldsParts
    <3>. QED
      BY <2>2, <3>1
  <2>5. Skip(bytes, p, 1) = q /\ At(bytes, p) = out.satoshi
    BY <2>1, <2>4, ByteHolds DEF a
  <2>. HIDE DEF end
  <2>6. Back(q, script, EnsureVarbuff(bytes, q), ReadVarbuff(bytes, q), out.script)
    BY <1>1, <2>4, VarbuffBack DEF script
  <2>7. /\ EnsureVarbuff(bytes, q) = end /\ ReadVarbuff(bytes, q).end = end
        /\ ReadVarbuff(bytes, q).value = out.script
    BY <2>4, <2>6 DEF Back
  <2>8. EnsureOutput(bytes, p, el) = end
    BY <1>4, <2>5, <2>7 DEF EnsureOutput
  <2>9. read = [value |-> OutputArg(out), end |-> end]
    BY <1>4, <2>1, <2>5, <2>7 DEF ReadOutput, OutputArg
  <2>. HIDE DEF read
  <2>10. read.value = OutputArg(out) /\ read.end = end
    BY <2>9
  <2>. QED
    BY <2>3, <2>8, <2>10 DEF Back, read, end
<1>. QED
  BY <1>3, <1>4

(* One behind the other.                                                   *)
LEMMA InputsBack ==
    ASSUME NEW bytes \in Buffers, NEW p, NEW el \in BOOLEAN,
           NEW parts \in Seq(ShapedInputs(el)), \A i \in DOMAIN parts : ClearInput(parts[i]),
           Holds(bytes, p, Concat(InputToBytes, parts))
    PROVE  Back(p, Concat(InputToBytes, parts), EnsureInputs(bytes, p, Len(parts), el),
                ReadInputs(bytes, p, Len(parts), el),
                [i \in 1..Len(parts) |-> BareInput(parts[i])])
<1>. DEFINE n == Len(parts)
            pieces == Each(InputToBytes, parts)
            values == [i \in 1..n |-> BareInput(parts[i])]
            S == {BareInput(parts[i]) : i \in 1..n}
<1>1. n \in Nat /\ DOMAIN parts = 1..n /\ \A i \in 1..n : parts[i] \in ShapedInputs(el)
  BY ElementOfSeq
<1>2. DOMAIN pieces = 1..n /\ \A i \in 1..n : pieces[i] = InputToBytes(parts[i])
  BY <1>1 DEF Each
<1>3. \A i \in 1..n : pieces[i] \in Buffers
  BY <1>1, <1>2, InputLengthIsExact, ShapesAreInputs, Zenon
<1>4. Joined(pieces) = Concat(InputToBytes, parts) /\ Holds(bytes, p, Joined(pieces))
  BY DEF Concat
<1>5. Looped("input", bytes, p, n, el, EnsureInputs(bytes, p, n, el), ReadInputs(bytes, p, n, el))
  BY <1>1, InputsLoop
<1>6. \A q : /\ Ensured(Ensuring("input", bytes, el), q) = EnsureInput(bytes, q, el)
             /\ Got(Ensuring("input", bytes, el), q) = ReadInput(bytes, q, el)
  BY DEF Ensured, Got, Ensuring
<1>7. values \in Seq(S) /\ Len(values) = n /\ \A i \in 1..n : values[i] = BareInput(parts[i])
  <2>1. values \in [1..n -> S]
    OBVIOUS
  <2>. HIDE DEF S
  <2>. QED
    BY <1>1, <2>1, SequenceOfLength
<1>. HIDE DEF n, pieces, values, S
<1>8. ASSUME NEW i \in 1..n, NEW q, Holds(bytes, q, pieces[i])
      PROVE  Back(q, pieces[i], Ensured(Ensuring("input", bytes, el), q),
                  Got(Ensuring("input", bytes, el), q), values[i])
  BY <1>1, <1>2, <1>6, <1>7, <1>8, InputBack
<1>9. Back(p, Joined(pieces), EnsureInputs(bytes, p, n, el), ReadInputs(bytes, p, n, el), values)
  BY <1>1, <1>2, <1>3, <1>4, <1>5, <1>7, <1>8, LoopBack
<1>. QED
  BY <1>4, <1>9 DEF n, values

LEMMA OutputsBack ==
    ASSUME NEW bytes \in Buffers, NEW p, NEW el \in BOOLEAN,
           NEW parts \in Seq(ShapedOutputs(el)), \A i \in DOMAIN parts : ClearOutput(parts[i]),
           Holds(bytes, p, Concat(OutputToBytes, parts))
    PROVE  Back(p, Concat(OutputToBytes, parts), EnsureOutputs(bytes, p, Len(parts), el),
                ReadOutputs(bytes, p, Len(parts), el),
                [i \in 1..Len(parts) |-> OutputArg(parts[i])])
<1>. DEFINE n == Len(parts)
            pieces == Each(OutputToBytes, parts)
            values == [i \in 1..n |-> OutputArg(parts[i])]
            S == {OutputArg(parts[i]) : i \in 1..n}
<1>1. n \in Nat /\ DOMAIN parts = 1..n /\ \A i \in 1..n : parts[i] \in ShapedOutputs(el)
  BY ElementOfSeq
<1>2. DOMAIN pieces = 1..n /\ \A i \in 1..n : pieces[i] = OutputToBytes(parts[i])
  BY <1>1 DEF Each
<1>3. \A i \in 1..n : pieces[i] \in Buffers
  BY <1>1, <1>2, OutputLengthIsExact, Zenon DEF ShapedOutputs
<1>4. Joined(pieces) = Concat(OutputToBytes, parts) /\ Holds(bytes, p, Joined(pieces))
  BY DEF Concat
<1>5. Looped("output", bytes, p, n, el, EnsureOutputs(bytes, p, n, el),
             ReadOutputs(bytes, p, n, el))
  BY <1>1, OutputsLoop
<1>6. \A q : /\ Ensured(Ensuring("output", bytes, el), q) = EnsureOutput(bytes, q, el)
             /\ Got(Ensuring("output", bytes, el), q) = ReadOutput(bytes, q, el)
  BY DEF Ensured, Got, Ensuring
<1>7. values \in Seq(S) /\ Len(values) = n /\ \A i \in 1..n : values[i] = OutputArg(parts[i])
  <2>1. values \in [1..n -> S]
    OBVIOUS
  <2>. HIDE DEF S
  <2>. QED
    BY <1>1, <2>1, SequenceOfLength
<1>. HIDE DEF n, pieces, values, S
<1>8. ASSUME NEW i \in 1..n, NEW q, Holds(bytes, q, pieces[i])
      PROVE  Back(q, pieces[i], Ensured(Ensuring("output", bytes, el), q),
                  Got(Ensuring("output", bytes, el), q), values[i])
  BY <1>1, <1>2, <1>6, <1>7, <1>8, OutputBack
<1>9. Back(p, Joined(pieces), EnsureOutputs(bytes, p, n, el), ReadOutputs(bytes, p, n, el), values)
  BY <1>1, <1>2, <1>3, <1>4, <1>5, <1>7, <1>8, LoopBack
<1>. QED
  BY <1>4, <1>9 DEF n, values

LEMMA StacksBack ==
    ASSUME NEW bytes \in Buffers, NEW p, NEW parts \in Seq(InputSet),
           Holds(bytes, p, Concat(LAMBDA in : StackToBytes(in.witness), parts))
    PROVE  Back(p, Concat(LAMBDA in : StackToBytes(in.witness), parts),
                EnsureStacks(bytes, p, Len(parts)),
                ReadStacks(bytes, p, Len(parts)),
                [i \in 1..Len(parts) |-> Stack(parts[i].witness)])
<1>. DEFINE n == Len(parts)
            pieces == Each(LAMBDA in : StackToBytes(in.witness), parts)
            values == [i \in 1..n |-> Stack(parts[i].witness)]
            S == {Stack(parts[i].witness) : i \in 1..n}
<1>1. n \in Nat /\ DOMAIN parts = 1..n /\ \A i \in 1..n : parts[i] \in InputSet
  BY ElementOfSeq
<1>2. DOMAIN pieces = 1..n /\ \A i \in 1..n : pieces[i] = StackToBytes(parts[i].witness)
  BY <1>1 DEF Each
<1>3. \A i \in 1..n : pieces[i] \in Buffers
  BY <1>1, <1>2, StackLengthIsExact, Zenon DEF InputSet
<1>4. /\ Joined(pieces) = Concat(LAMBDA in : StackToBytes(in.witness), parts)
      /\ Holds(bytes, p, Joined(pieces))
  BY DEF Concat
<1>5. Looped("stack", bytes, p, n, FALSE, EnsureStacks(bytes, p, n), ReadStacks(bytes, p, n))
  BY <1>1, StacksLoop, Zenon
<1>6. \A q : /\ Ensured(Ensuring("stack", bytes, FALSE), q) = EnsureStack(bytes, q)
             /\ Got(Ensuring("stack", bytes, FALSE), q) = ReadStack(bytes, q)
  BY DEF Ensured, Got, Ensuring
<1>7. values \in Seq(S) /\ Len(values) = n /\ \A i \in 1..n : values[i] = Stack(parts[i].witness)
  <2>1. values \in [1..n -> S]
    OBVIOUS
  <2>. HIDE DEF S
  <2>. QED
    BY <1>1, <2>1, SequenceOfLength
<1>. HIDE DEF n, pieces, values, S
<1>8. ASSUME NEW i \in 1..n, NEW q, Holds(bytes, q, pieces[i])
      PROVE  Back(q, pieces[i], Ensured(Ensuring("stack", bytes, FALSE), q),
                  Got(Ensuring("stack", bytes, FALSE), q), values[i])
  <2>1. parts[i].witness \in StackSet
    BY <1>1 DEF InputSet
  <2>. QED
    BY <1>1, <1>2, <1>6, <1>7, <1>8, <2>1, StackBack, Zenon
<1>9. Back(p, Joined(pieces), EnsureStacks(bytes, p, n), ReadStacks(bytes, p, n), values)
  BY <1>1, <1>2, <1>3, <1>4, <1>5, <1>7, <1>8, LoopBack, Zenon
<1>. QED
  BY <1>4, <1>9 DEF n, values

LEMMA InputWitnessesBack ==
    ASSUME NEW bytes \in Buffers, NEW p, NEW parts \in Seq(InputSet),
           Holds(bytes, p, Concat(InputWitnessToBytes, parts))
    PROVE  Back(p, Concat(InputWitnessToBytes, parts), EnsureInputWitnesses(bytes, p, Len(parts)),
                ReadInputWitnesses(bytes, p, Len(parts)),
                [i \in 1..Len(parts) |-> InputWitness(parts[i])])
<1>. DEFINE n == Len(parts)
            pieces == Each(InputWitnessToBytes, parts)
            values == [i \in 1..n |-> InputWitness(parts[i])]
            S == {InputWitness(parts[i]) : i \in 1..n}
<1>1. n \in Nat /\ DOMAIN parts = 1..n /\ \A i \in 1..n : parts[i] \in InputSet
  BY ElementOfSeq
<1>2. DOMAIN pieces = 1..n /\ \A i \in 1..n : pieces[i] = InputWitnessToBytes(parts[i])
  BY <1>1 DEF Each
<1>3. \A i \in 1..n : pieces[i] \in Buffers
  BY <1>1, <1>2, InputWitnessLengthIsExact, Zenon
<1>4. Joined(pieces) = Concat(InputWitnessToBytes, parts) /\ Holds(bytes, p, Joined(pieces))
  BY DEF Concat
<1>5. Looped("witness", bytes, p, n, FALSE, EnsureInputWitnesses(bytes, p, n),
             ReadInputWitnesses(bytes, p, n))
  BY <1>1, InputWitnessesLoop, Zenon
<1>6. \A q : /\ Ensured(Ensuring("witness", bytes, FALSE), q) = EnsureInputWitness(bytes, q)
             /\ Got(Ensuring("witness", bytes, FALSE), q) = ReadInputWitness(bytes, q)
  BY DEF Ensured, Got, Ensuring
<1>7. values \in Seq(S) /\ Len(values) = n /\ \A i \in 1..n : values[i] = InputWitness(parts[i])
  <2>1. values \in [1..n -> S]
    OBVIOUS
  <2>. HIDE DEF S
  <2>. QED
    BY <1>1, <2>1, SequenceOfLength
<1>. HIDE DEF n, pieces, values, S
<1>8. ASSUME NEW i \in 1..n, NEW q, Holds(bytes, q, pieces[i])
      PROVE  Back(q, pieces[i], Ensured(Ensuring("witness", bytes, FALSE), q),
                  Got(Ensuring("witness", bytes, FALSE), q), values[i])
  BY <1>1, <1>2, <1>6, <1>7, <1>8, InputWitnessBack, Zenon
<1>9. Back(p, Joined(pieces), EnsureInputWitnesses(bytes, p, n),
           ReadInputWitnesses(bytes, p, n), values)
  BY <1>1, <1>2, <1>3, <1>4, <1>5, <1>7, <1>8, LoopBack, Zenon
<1>. QED
  BY <1>4, <1>9 DEF n, values

LEMMA AllProofsBack ==
    ASSUME NEW bytes \in Buffers, NEW p, NEW parts \in Seq(Outputs),
           Holds(bytes, p, Concat(ProofsToBytes, parts))
    PROVE  Back(p, Concat(ProofsToBytes, parts), EnsureAllProofs(bytes, p, Len(parts)),
                ReadAllProofs(bytes, p, Len(parts)),
                [i \in 1..Len(parts) |-> Proofs(parts[i])])
<1>. DEFINE n == Len(parts)
            pieces == Each(ProofsToBytes, parts)
            values == [i \in 1..n |-> Proofs(parts[i])]
            S == {Proofs(parts[i]) : i \in 1..n}
<1>1. n \in Nat /\ DOMAIN parts = 1..n /\ \A i \in 1..n : parts[i] \in Outputs
  BY ElementOfSeq
<1>2. DOMAIN pieces = 1..n /\ \A i \in 1..n : pieces[i] = ProofsToBytes(parts[i])
  BY <1>1 DEF Each
<1>3. \A i \in 1..n : pieces[i] \in Buffers
  BY <1>1, <1>2, ProofsLengthIsExact, Zenon DEF Outputs
<1>4. Joined(pieces) = Concat(ProofsToBytes, parts) /\ Holds(bytes, p, Joined(pieces))
  BY DEF Concat
<1>5. Looped("proofs", bytes, p, n, FALSE, EnsureAllProofs(bytes, p, n), ReadAllProofs(bytes, p, n))
  BY <1>1, AllProofsLoop, Zenon
<1>6. \A q : /\ Ensured(Ensuring("proofs", bytes, FALSE), q) = EnsureProofs(bytes, q)
             /\ Got(Ensuring("proofs", bytes, FALSE), q) = ReadProofs(bytes, q)
  BY DEF Ensured, Got, Ensuring
<1>7. values \in Seq(S) /\ Len(values) = n /\ \A i \in 1..n : values[i] = Proofs(parts[i])
  <2>1. values \in [1..n -> S]
    OBVIOUS
  <2>. HIDE DEF S
  <2>. QED
    BY <1>1, <2>1, SequenceOfLength
<1>. HIDE DEF n, pieces, values, S
<1>8. ASSUME NEW i \in 1..n, NEW q, Holds(bytes, q, pieces[i])
      PROVE  Back(q, pieces[i], Ensured(Ensuring("proofs", bytes, FALSE), q),
                  Got(Ensuring("proofs", bytes, FALSE), q), values[i])
  BY <1>1, <1>2, <1>6, <1>7, <1>8, ProofsBack, Zenon
<1>9. Back(p, Joined(pieces), EnsureAllProofs(bytes, p, n), ReadAllProofs(bytes, p, n), values)
  BY <1>1, <1>2, <1>3, <1>4, <1>5, <1>7, <1>8, LoopBack, Zenon
<1>. QED
  BY <1>4, <1>9 DEF n, values

(* What is kept, by what was written.                                      *)
KeptOutput(out, surjectionproof, rangeproof) ==
    [satoshi |-> out.satoshi, script |-> out.script, features |-> out.features,
     asset |-> out.asset, value |-> out.value, nonce |-> out.nonce,
     surjectionproof |-> surjectionproof, rangeproof |-> rangeproof]
KeptTx(t, inputs, outputs) ==
    [version |-> t.version, locktime |-> t.locktime, inputs |-> inputs, outputs |-> outputs]

(* The same, as Kept has it.                                               *)
InputExcept(in, amountproof, keysproof, witness, pegin) ==
    LET issuance == "ISSUANCE" \in in.features
    IN [in EXCEPT !.nonce = IF issuance THEN @ ELSE Cleared(<<>>),
                  !.amount = IF issuance THEN @ ELSE <<>>,
                  !.keys = IF issuance THEN @ ELSE <<>>,
                  !.amountproof = amountproof, !.keysproof = keysproof,
                  !.witness = witness, !.pegin = pegin]
OutputExcept(out, a, b) == [out EXCEPT !.surjectionproof = a, !.rangeproof = b]

LEMMA KeptInputIs ==
    ASSUME NEW in \in InputSet, NEW amountproof, NEW keysproof, NEW witness, NEW pegin
    PROVE  InputExcept(in, amountproof, keysproof, witness, pegin)
              = KeptInput(in, amountproof, keysproof, witness, pegin)
<1>. DEFINE issuance == "ISSUANCE" \in in.features
            nonce == IF issuance THEN in.nonce ELSE Cleared(<<>>)
            amount == IF issuance THEN in.amount ELSE <<>>
            keys == IF issuance THEN in.keys ELSE <<>>
            e == [in EXCEPT !.nonce = nonce, !.amount = amount, !.keys = keys,
                            !.amountproof = amountproof, !.keysproof = keysproof,
                            !.witness = witness, !.pegin = pegin]
<1>1. KeptInput(in, amountproof, keysproof, witness, pegin)
      = Remade(in, nonce, amount, keys, amountproof, keysproof, witness, pegin)
  BY DEF KeptInput
<1>. HIDE DEF nonce, amount, keys
<1>2. DOMAIN in = {"txhash", "index", "sequence", "script", "nonce", "features", "amount",
                   "keys", "amountproof", "keysproof", "witness", "pegin"}
  BY DEF InputSet
<1>3. /\ e.txhash = in.txhash /\ e.sequence = in.sequence /\ e.script = in.script
      /\ e.index = in.index /\ e.features = in.features
      /\ e.nonce = nonce /\ e.amount = amount /\ e.keys = keys
      /\ e.amountproof = amountproof /\ e.keysproof = keysproof
      /\ e.witness = witness /\ e.pegin = pegin
  BY <1>2
<1>4. DOMAIN e = DOMAIN in /\ e = [f \in DOMAIN e |-> e[f]]
  BY Zenon
<1>. HIDE DEF e
<1>5. e = Remade(in, nonce, amount, keys, amountproof, keysproof, witness, pegin)
  BY <1>2, <1>3, <1>4 DEF Remade
<1>6. InputExcept(in, amountproof, keysproof, witness, pegin) = e
  BY DEF InputExcept, e, nonce, amount, keys
<1>. QED
  BY <1>1, <1>5, <1>6

LEMMA KeptOutputIs ==
    ASSUME NEW out \in Outputs, NEW a, NEW b
    PROVE  OutputExcept(out, a, b) = KeptOutput(out, a, b)
<1>. DEFINE e == OutputExcept(out, a, b)
<1>1. DOMAIN out = {"satoshi", "script", "features", "asset", "value", "nonce",
                    "surjectionproof", "rangeproof"}
  BY Zenon DEF Outputs, OutputSet
<1>2. /\ e.satoshi = out.satoshi /\ e.script = out.script /\ e.features = out.features
      /\ e.asset = out.asset /\ e.value = out.value /\ e.nonce = out.nonce
      /\ e.surjectionproof = a /\ e.rangeproof = b
  BY <1>1 DEF OutputExcept
<1>3. DOMAIN e = DOMAIN out /\ e = [f \in DOMAIN e |-> e[f]]
  BY Zenon DEF OutputExcept
<1>. HIDE DEF e
<1>4. e = KeptOutput(out, a, b)
  BY <1>1, <1>2, <1>3 DEF KeptOutput
<1>. QED
  BY <1>4 DEF e

LEMMA KeptTxIs ==
    ASSUME NEW t \in TxSet, NEW inputs, NEW outputs
    PROVE  [t EXCEPT !.inputs = inputs, !.outputs = outputs] = KeptTx(t, inputs, outputs)
<1>. DEFINE e == [t EXCEPT !.inputs = inputs, !.outputs = outputs]
<1>1. DOMAIN t = {"version", "locktime", "inputs", "outputs"}
  BY DEF TxSet
<1>2. /\ e.version = t.version /\ e.locktime = t.locktime
      /\ e.inputs = inputs /\ e.outputs = outputs
  BY <1>1
<1>3. DOMAIN e = DOMAIN t /\ e = [f \in DOMAIN e |-> e[f]]
  BY Zenon
<1>. HIDE DEF e
<1>4. e = KeptTx(t, inputs, outputs)
  BY <1>1, <1>2, <1>3 DEF KeptTx
<1>. QED
  BY <1>4 DEF e

LEMMA KeptIs ==
    ASSUME NEW t \in TxSet, NEW flags
    PROVE  LET witness == WritesWitness(t, flags)
               proofs == witness /\ IsElements(t)
           IN Kept(t, flags)
              = KeptTx(t, [i \in 1..Len(t.inputs) |->
                             KeptInput(t.inputs[i],
                                IF proofs THEN t.inputs[i].amountproof ELSE <<>>,
                                IF proofs THEN t.inputs[i].keysproof ELSE <<>>,
                                IF witness THEN Stack(t.inputs[i].witness) ELSE None,
                                IF proofs THEN Stack(t.inputs[i].pegin) ELSE None)],
                          [i \in 1..Len(t.outputs) |->
                             KeptOutput(t.outputs[i],
                                IF proofs THEN t.outputs[i].surjectionproof ELSE <<>>,
                                IF proofs THEN t.outputs[i].rangeproof ELSE <<>>)])
<1>. DEFINE witness == WritesWitness(t, flags)
            proofs == witness /\ IsElements(t)
            ap(i) == IF proofs THEN t.inputs[i].amountproof ELSE <<>>
            kp(i) == IF proofs THEN t.inputs[i].keysproof ELSE <<>>
            wi(i) == IF witness THEN Stack(t.inputs[i].witness) ELSE None
            pe(i) == IF proofs THEN Stack(t.inputs[i].pegin) ELSE None
            sp(i) == IF proofs THEN t.outputs[i].surjectionproof ELSE <<>>
            rp(i) == IF proofs THEN t.outputs[i].rangeproof ELSE <<>>
            in(i) == InputExcept(t.inputs[i], ap(i), kp(i), wi(i), pe(i))
            out(i) == OutputExcept(t.outputs[i], sp(i), rp(i))
            inputs == [i \in DOMAIN t.inputs |-> in(i)]
            outputs == [i \in DOMAIN t.outputs |-> out(i)]
<1>1. Kept(t, flags) = [t EXCEPT !.inputs = inputs, !.outputs = outputs]
  BY DEF Kept, InputExcept, OutputExcept
<1>2. /\ DOMAIN t.inputs = 1..Len(t.inputs)
      /\ \A i \in 1..Len(t.inputs) : t.inputs[i] \in InputSet
      /\ DOMAIN t.outputs = 1..Len(t.outputs)
      /\ \A i \in 1..Len(t.outputs) : t.outputs[i] \in Outputs
  <2>1. t.inputs \in Seq(InputSet) /\ t.outputs \in Seq(Outputs)
    BY DEF TxSet, Outputs
  <2>. QED
    BY <2>1, ElementOfSeq
<1>3. ASSUME NEW i \in 1..Len(t.inputs)
      PROVE  in(i) = KeptInput(t.inputs[i], ap(i), kp(i), wi(i), pe(i))
  <2>1. t.inputs[i] \in InputSet
    BY <1>2
  <2>. HIDE DEF ap, kp, wi, pe
  <2>. QED
    BY <2>1, KeptInputIs
<1>4. ASSUME NEW i \in 1..Len(t.outputs) PROVE out(i) = KeptOutput(t.outputs[i], sp(i), rp(i))
  <2>1. t.outputs[i] \in Outputs
    BY <1>2
  <2>. HIDE DEF sp, rp
  <2>. QED
    BY <2>1, KeptOutputIs
<1>. HIDE DEF in, out
<1>5. /\ inputs = [i \in 1..Len(t.inputs) |->
                     KeptInput(t.inputs[i], ap(i), kp(i), wi(i), pe(i))]
      /\ outputs = [i \in 1..Len(t.outputs) |-> KeptOutput(t.outputs[i], sp(i), rp(i))]
  <2>. HIDE DEF ap, kp, wi, pe, sp, rp
  <2>. QED
    BY <1>2, <1>3, <1>4
<1>. HIDE DEF inputs, outputs
<1>6. [t EXCEPT !.inputs = inputs, !.outputs = outputs] = KeptTx(t, inputs, outputs)
  BY KeptTxIs, Zenon
<1>. QED
  BY <1>1, <1>5, <1>6

(* Witnesses and proofs are set in what was read without them.             *)
LEMMA WitnessIsKept ==
    ASSUME NEW in, NEW w
    PROVE  WithWitness(BareInput(in), w) = KeptInput(in, <<>>, <<>>, w, None)
<1>. DEFINE a == BareInput(in)
            e == WithWitness(a, w)
            b == KeptInput(in, <<>>, <<>>, w, None)
<1>1. /\ DOMAIN a = {"txhash", "index", "sequence", "script", "nonce", "features", "amount",
                     "keys", "amountproof", "keysproof", "witness", "pegin"}
      /\ a.amountproof = <<>> /\ a.keysproof = <<>> /\ a.witness = None /\ a.pegin = None
  BY DEF BareInput, KeptInput, Remade
<1>2. /\ a.txhash = b.txhash /\ a.sequence = b.sequence /\ a.script = b.script
      /\ a.index = b.index /\ a.features = b.features
      /\ a.nonce = b.nonce /\ a.amount = b.amount /\ a.keys = b.keys
  BY DEF BareInput, KeptInput, Remade
<1>. HIDE DEF a
<1>3. /\ e.txhash = a.txhash /\ e.sequence = a.sequence /\ e.script = a.script
      /\ e.index = a.index /\ e.features = a.features
      /\ e.nonce = a.nonce /\ e.amount = a.amount /\ e.keys = a.keys
      /\ e.amountproof = a.amountproof /\ e.keysproof = a.keysproof
      /\ e.witness = w /\ e.pegin = a.pegin
  BY <1>1 DEF WithWitness
<1>4. DOMAIN e = DOMAIN a /\ e = [f \in DOMAIN e |-> e[f]]
  BY DEF WithWitness
<1>5. b = Remade(b, b.nonce, b.amount, b.keys, <<>>, <<>>, w, None)
  BY DEF KeptInput, Remade
<1>. HIDE DEF e, b
<1>6. e = Remade(b, b.nonce, b.amount, b.keys, <<>>, <<>>, w, None)
  BY <1>1, <1>2, <1>3, <1>4 DEF Remade
<1>. QED
  BY <1>5, <1>6 DEF a, e, b

LEMMA InputWitnessIsKept ==
    ASSUME NEW in, NEW w
    PROVE  WithInputWitness(BareInput(in), w)
           = KeptInput(in, w.amountproof, w.keysproof, w.witness, w.pegin)
<1>. DEFINE a == BareInput(in)
            e == WithInputWitness(a, w)
            b == KeptInput(in, w.amountproof, w.keysproof, w.witness, w.pegin)
<1>1. /\ DOMAIN a = {"txhash", "index", "sequence", "script", "nonce", "features", "amount",
                     "keys", "amountproof", "keysproof", "witness", "pegin"}
      /\ a.amountproof = <<>> /\ a.keysproof = <<>> /\ a.witness = None /\ a.pegin = None
  BY DEF BareInput, KeptInput, Remade
<1>2. /\ a.txhash = b.txhash /\ a.sequence = b.sequence /\ a.script = b.script
      /\ a.index = b.index /\ a.features = b.features
      /\ a.nonce = b.nonce /\ a.amount = b.amount /\ a.keys = b.keys
  BY DEF BareInput, KeptInput, Remade
<1>. HIDE DEF a
<1>3. /\ e.txhash = a.txhash /\ e.sequence = a.sequence /\ e.script = a.script
      /\ e.index = a.index /\ e.features = a.features
      /\ e.nonce = a.nonce /\ e.amount = a.amount /\ e.keys = a.keys
      /\ e.amountproof = w.amountproof /\ e.keysproof = w.keysproof
      /\ e.witness = w.witness /\ e.pegin = w.pegin
  BY <1>1 DEF WithInputWitness
<1>4. DOMAIN e = DOMAIN a /\ e = [f \in DOMAIN e |-> e[f]]
  BY Zenon DEF WithInputWitness
<1>5. b = Remade(b, b.nonce, b.amount, b.keys, w.amountproof, w.keysproof, w.witness, w.pegin)
  BY DEF KeptInput, Remade
<1>. HIDE DEF e, b
<1>6. e = Remade(b, b.nonce, b.amount, b.keys, w.amountproof, w.keysproof, w.witness, w.pegin)
  BY <1>1, <1>2, <1>3, <1>4 DEF Remade
<1>. QED
  BY <1>5, <1>6 DEF a, e, b

LEMMA ProofsAreKept ==
    ASSUME NEW out, NEW proofs
    PROVE  WithProofs(KeptOutput(out, <<>>, <<>>), proofs)
           = KeptOutput(out, proofs.surjectionproof, proofs.rangeproof)
<1>. DEFINE a == KeptOutput(out, <<>>, <<>>)
            e == WithProofs(a, proofs)
<1>1. /\ DOMAIN a = {"satoshi", "script", "features", "asset", "value", "nonce",
                     "surjectionproof", "rangeproof"}
      /\ a.satoshi = out.satoshi /\ a.script = out.script /\ a.features = out.features
      /\ a.asset = out.asset /\ a.value = out.value /\ a.nonce = out.nonce
  BY DEF KeptOutput
<1>. HIDE DEF a
<1>2. /\ e.satoshi = a.satoshi /\ e.script = a.script /\ e.features = a.features
      /\ e.asset = a.asset /\ e.value = a.value /\ e.nonce = a.nonce
      /\ e.surjectionproof = proofs.surjectionproof /\ e.rangeproof = proofs.rangeproof
  BY <1>1 DEF WithProofs
<1>3. DOMAIN e = DOMAIN a /\ e = [f \in DOMAIN e |-> e[f]]
  BY Zenon DEF WithProofs
<1>. HIDE DEF e
<1>4. e = KeptOutput(out, proofs.surjectionproof, proofs.rangeproof)
  BY <1>1, <1>2, <1>3 DEF KeptOutput
<1>. QED
  BY <1>4 DEF a, e

LEMMA OutputMadeBack ==
    ASSUME NEW el \in BOOLEAN, NEW out \in ShapedOutputs(el)
    PROVE  /\ CanMakeOutput(OutputArg(out), el)
           /\ MakeOutput(OutputArg(out), el) = KeptOutput(out, <<>>, <<>>)
<1>1. CASE el = TRUE
  <2>1. out.features = {"ELEMENTS"} /\ out.satoshi = -1
    BY <1>1 DEF ShapedOutputs, OutputSet, FeatureIf
  <2>. QED
    BY <1>1, <2>1 DEF CanMakeOutput, OutputArg, MakeOutput, KeptOutput, FeatureIf
<1>2. CASE el = FALSE
  <2>1. out.features = {} /\ out.satoshi <= SatoshiMax
    BY <1>2 DEF ShapedOutputs, OutputSet, FeatureIf
  <2>. QED
    BY <1>2, <2>1 DEF CanMakeOutput, OutputArg, MakeOutput, KeptOutput, FeatureIf
<1>. QED
  BY <1>1, <1>2, Zenon

(* What is read before the rest.                                           *)
BareTx(t) ==
    [version |-> t.version, locktime |-> 0,
     inputs |-> [i \in 1..Len(t.inputs) |-> BareInput(t.inputs[i])],
     outputs |-> [i \in 1..Len(t.outputs) |-> KeptOutput(t.outputs[i], <<>>, <<>>)]]

LEMMA LengthOfEach ==
    ASSUME NEW f, NEW n \in Nat, f = [i \in 1..n |-> f[i]]
    PROVE  Len(f) = n
<1>. DEFINE S == {f[i] : i \in 1..n}
<1>1. f \in [1..n -> S]
  OBVIOUS
<1>. HIDE DEF S
<1>. QED
  BY <1>1, SequenceOfLength

LEMMA BareTxIs ==
    ASSUME NEW el \in BOOLEAN, NEW t \in ShapedTxs(el)
    PROVE  /\ Len(t.inputs) \in Nat /\ Len(t.outputs) \in Nat
           /\ Len(BareTx(t).inputs) = Len(t.inputs)
           /\ Len(BareTx(t).outputs) = Len(t.outputs)
           /\ \A i \in 1..Len(t.inputs) : t.inputs[i] \in ShapedInputs(el)
           /\ \A i \in 1..Len(t.outputs) : t.outputs[i] \in ShapedOutputs(el)
           /\ t.inputs \in Seq(InputSet) /\ t.outputs \in Seq(Outputs) /\ t.locktime \in Nat
<1>1. t.inputs \in Seq(ShapedInputs(el)) /\ t.outputs \in Seq(ShapedOutputs(el))
  BY DEF ShapedTxs
<1>2. t \in TxSet
  BY ShapesAreTxs
<1>3. /\ Len(t.inputs) \in Nat /\ Len(t.outputs) \in Nat
      /\ \A i \in 1..Len(t.inputs) : t.inputs[i] \in ShapedInputs(el)
      /\ \A i \in 1..Len(t.outputs) : t.outputs[i] \in ShapedOutputs(el)
  BY <1>1, ElementOfSeq
<1>. DEFINE ins == [i \in 1..Len(t.inputs) |-> BareInput(t.inputs[i])]
            outs == [i \in 1..Len(t.outputs) |-> KeptOutput(t.outputs[i], <<>>, <<>>)]
<1>4. ins = [i \in 1..Len(t.inputs) |-> ins[i]] /\ outs = [i \in 1..Len(t.outputs) |-> outs[i]]
  OBVIOUS
<1>5. BareTx(t).inputs = ins /\ BareTx(t).outputs = outs
  BY DEF BareTx
<1>. HIDE DEF ins, outs
<1>6. Len(ins) = Len(t.inputs)
  BY <1>3, <1>4, LengthOfEach
<1>7. Len(outs) = Len(t.outputs)
  BY <1>3, <1>4, LengthOfEach
<1>8. t.inputs \in Seq(InputSet) /\ t.outputs \in Seq(Outputs) /\ t.locktime \in Nat
  BY <1>2 DEF TxSet, Outputs
<1>. QED
  BY <1>3, <1>5, <1>6, <1>7, <1>8

LEMMA LocktimeIsSet ==
    ASSUME NEW t, NEW ins
    PROVE  /\ [BareTx(t) EXCEPT !.locktime = t.locktime]
              = KeptTx(t, BareTx(t).inputs, BareTx(t).outputs)
           /\ [BareTx(t) EXCEPT !.locktime = t.locktime, !.inputs = ins]
              = KeptTx(t, ins, BareTx(t).outputs)
<1>. DEFINE a == BareTx(t)
            b == [a EXCEPT !.locktime = t.locktime]
            c == [b EXCEPT !.inputs = ins]
<1>1. DOMAIN a = {"version", "locktime", "inputs", "outputs"} /\ a.version = t.version
  BY DEF BareTx
<1>. HIDE DEF a
<1>2. /\ b.version = t.version /\ b.locktime = t.locktime
      /\ b.inputs = a.inputs /\ b.outputs = a.outputs
      /\ DOMAIN b = DOMAIN a /\ b = [f \in DOMAIN b |-> b[f]]
  BY <1>1
<1>. HIDE DEF b
<1>3. /\ c.version = t.version /\ c.locktime = t.locktime
      /\ c.inputs = ins /\ c.outputs = a.outputs
      /\ DOMAIN c = DOMAIN a /\ c = [f \in DOMAIN c |-> c[f]]
  BY <1>1, <1>2
<1>. HIDE DEF c
<1>4. /\ b = KeptTx(t, a.inputs, a.outputs)
      /\ c = KeptTx(t, ins, a.outputs)
  BY <1>1, <1>2, <1>3 DEF KeptTx
<1>5. c = [a EXCEPT !.locktime = t.locktime, !.inputs = ins]
  BY DEF b, c
<1>6. b = [a EXCEPT !.locktime = t.locktime]
  BY DEF b
<1>. QED
  BY <1>4, <1>5, <1>6 DEF a

BareWith(t, ins, outs) ==
    [BareTx(t) EXCEPT !.locktime = t.locktime, !.inputs = ins, !.outputs = outs]

LEMMA AllIsSet ==
    ASSUME NEW t, NEW ins, NEW outs PROVE BareWith(t, ins, outs) = KeptTx(t, ins, outs)
<1>. DEFINE a == BareTx(t)
            b == [a EXCEPT !.locktime = t.locktime]
            c == [b EXCEPT !.inputs = ins]
            d == [c EXCEPT !.outputs = outs]
<1>1. DOMAIN a = {"version", "locktime", "inputs", "outputs"} /\ a.version = t.version
  BY DEF BareTx
<1>. HIDE DEF a
<1>2. /\ b.version = t.version /\ b.locktime = t.locktime
      /\ b.inputs = a.inputs /\ b.outputs = a.outputs
      /\ DOMAIN b = DOMAIN a /\ b = [f \in DOMAIN b |-> b[f]]
  BY <1>1
<1>. HIDE DEF b
<1>3. /\ c.version = t.version /\ c.locktime = t.locktime
      /\ c.inputs = ins /\ c.outputs = a.outputs
      /\ DOMAIN c = DOMAIN a /\ c = [f \in DOMAIN c |-> c[f]]
  BY <1>1, <1>2
<1>. HIDE DEF c
<1>4. /\ d.version = t.version /\ d.locktime = t.locktime
      /\ d.inputs = ins /\ d.outputs = outs
      /\ DOMAIN d = DOMAIN a /\ d = [f \in DOMAIN d |-> d[f]]
  BY <1>1, <1>3
<1>. HIDE DEF d
<1>5. d = KeptTx(t, ins, outs)
  BY <1>1, <1>4 DEF KeptTx
<1>6. d = BareWith(t, ins, outs)
  BY DEF a, b, c, d, BareWith
<1>. QED
  BY <1>5, <1>6

(* The rest: without a witness, ...                                        *)
LEMMA PlainRestBack ==
    ASSUME NEW bytes \in Buffers, NEW p, NEW el \in BOOLEAN, NEW t \in ShapedTxs(el),
           Holds(bytes, p, <<t.locktime>>)
    PROVE  /\ EnsureRest(bytes, p, Len(t.inputs), Len(t.outputs), el, FALSE)
                = p + Len(<<t.locktime>>)
           /\ ReadRest(BareTx(t), bytes, p, el, FALSE).tx
                = KeptTx(t, [i \in 1..Len(t.inputs) |-> BareInput(t.inputs[i])],
                     [i \in 1..Len(t.outputs) |-> KeptOutput(t.outputs[i], <<>>, <<>>)])
<1>1. t.locktime \in Nat
  BY BareTxIs
<1>2. Skip(bytes, p, 1) = p + 1 /\ At(bytes, p) = t.locktime
  BY <1>1, ByteHolds
<1>3. Len(<<t.locktime>>) = 1
  OBVIOUS
<1>4. EnsureRest(bytes, p, Len(t.inputs), Len(t.outputs), el, FALSE) = Skip(bytes, p, 1)
  BY DEF EnsureRest
<1>5. ReadRest(BareTx(t), bytes, p, el, FALSE).tx = [BareTx(t) EXCEPT !.locktime = At(bytes, p)]
  BY DEF ReadRest
<1>6. [BareTx(t) EXCEPT !.locktime = t.locktime]
      = KeptTx(t, BareTx(t).inputs, BareTx(t).outputs)
  BY LocktimeIsSet, Zenon
<1>7. /\ BareTx(t).inputs = [i \in 1..Len(t.inputs) |-> BareInput(t.inputs[i])]
      /\ BareTx(t).outputs = [i \in 1..Len(t.outputs) |-> KeptOutput(t.outputs[i], <<>>, <<>>)]
  BY DEF BareTx
<1>. QED
  BY <1>2, <1>3, <1>4, <1>5, <1>6, <1>7, Zenon

(* ... with a witness of Bitcoin ...                                       *)
LEMMA StacksRestBack ==
    ASSUME NEW bytes \in Buffers, NEW p, NEW t \in ShapedTxs(FALSE),
           Holds(bytes, p, Concat(LAMBDA in : StackToBytes(in.witness), t.inputs)
                           \o <<t.locktime>>)
    PROVE  /\ EnsureRest(bytes, p, Len(t.inputs), Len(t.outputs), FALSE, TRUE)
                = p + Len(Concat(LAMBDA in : StackToBytes(in.witness), t.inputs)
                          \o <<t.locktime>>)
           /\ ReadRest(BareTx(t), bytes, p, FALSE, TRUE).tx
                = KeptTx(t, [i \in 1..Len(t.inputs) |->
                                KeptInput(t.inputs[i], <<>>, <<>>,
                                          Stack(t.inputs[i].witness), None)],
                     [i \in 1..Len(t.outputs) |-> KeptOutput(t.outputs[i], <<>>, <<>>)])
<1>. DEFINE n == Len(t.inputs)
            stacks == Concat(LAMBDA in : StackToBytes(in.witness), t.inputs)
            read == ReadStacks(bytes, p, n)
            ins == [i \in 1..n |-> WithWitness(BareTx(t).inputs[i], read.value[i])]
<1>1. /\ n \in Nat /\ t.inputs \in Seq(InputSet) /\ t.locktime \in Nat
      /\ Len(BareTx(t).inputs) = n
  BY BareTxIs, Zenon
<1>2. stacks \in Buffers
  BY <1>1, InputsLength, Zenon
<1>3. <<t.locktime>> \in Buffers /\ Len(<<t.locktime>>) = 1
  BY <1>1 DEF Buffers
<1>. HIDE DEF stacks
<1>4. /\ Holds(bytes, p, stacks) /\ Holds(bytes, p + Len(stacks), <<t.locktime>>)
      /\ p + Len(stacks) + Len(<<t.locktime>>) = p + Len(stacks \o <<t.locktime>>)
  <2>1. Holds(bytes, p, stacks \o <<t.locktime>>)
    BY DEF stacks
  <2>. DEFINE last == <<t.locktime>>
  <2>2. last \in Buffers /\ Holds(bytes, p, stacks \o last)
    BY <1>3, <2>1
  <2>. HIDE DEF last
  <2>3. /\ Holds(bytes, p, stacks) /\ Holds(bytes, p + Len(stacks), last)
        /\ p + Len(stacks) + Len(last) = p + Len(stacks \o last)
    BY <1>2, <2>2, HoldsParts
  <2>. QED
    BY <2>3 DEF last
<1>5. Back(p, stacks, EnsureStacks(bytes, p, n), read,
           [i \in 1..n |-> Stack(t.inputs[i].witness)])
  BY <1>1, <1>4, StacksBack, Zenon DEF stacks
<1>6. /\ Skip(bytes, p + Len(stacks), 1) = p + Len(stacks) + 1
      /\ At(bytes, p + Len(stacks)) = t.locktime
  BY <1>1, <1>4, ByteHolds
<1>7. EnsureRest(bytes, p, n, Len(t.outputs), FALSE, TRUE)
      = Skip(bytes, EnsureStacks(bytes, p, n), 1)
  BY DEF EnsureRest
<1>8. ReadRest(BareTx(t), bytes, p, FALSE, TRUE).tx
      = [BareTx(t) EXCEPT !.locktime = At(bytes, read.end), !.inputs = ins]
  BY <1>1 DEF ReadRest, WithStacks
<1>9. ASSUME NEW i \in 1..n
      PROVE  ins[i] = KeptInput(t.inputs[i], <<>>, <<>>, Stack(t.inputs[i].witness), None)
  <2>1. BareTx(t).inputs[i] = BareInput(t.inputs[i])
    BY DEF BareTx
  <2>2. read.value[i] = Stack(t.inputs[i].witness)
    BY <1>5 DEF Back
  <2>3. ins[i] = WithWitness(BareTx(t).inputs[i], read.value[i])
    OBVIOUS
  <2>. QED
    BY <2>1, <2>2, <2>3, WitnessIsKept
<1>10. ins = [i \in 1..n |->
                KeptInput(t.inputs[i], <<>>, <<>>, Stack(t.inputs[i].witness), None)]
  BY <1>9, Zenon
<1>11. BareTx(t).outputs = [i \in 1..Len(t.outputs) |-> KeptOutput(t.outputs[i], <<>>, <<>>)]
  BY DEF BareTx
<1>12. read.end = p + Len(stacks) /\ EnsureStacks(bytes, p, n) = p + Len(stacks)
  BY <1>5 DEF Back
<1>. HIDE DEF ins, read
<1>13. ReadRest(BareTx(t), bytes, p, FALSE, TRUE).tx = KeptTx(t, ins, BareTx(t).outputs)
  BY <1>6, <1>8, <1>12, LocktimeIsSet, ZenonT(60)
<1>14. EnsureRest(bytes, p, n, Len(t.outputs), FALSE, TRUE) = p + Len(stacks \o <<t.locktime>>)
  BY <1>3, <1>4, <1>6, <1>7, <1>12, Zenon
<1>. QED
  BY <1>10, <1>11, <1>13, <1>14, Zenon DEF stacks

(* ... and with one of Elements.                                           *)
LEMMA WitnessesRestBack ==
    ASSUME NEW bytes \in Buffers, NEW p, NEW t \in ShapedTxs(TRUE),
           Holds(bytes, p, <<t.locktime>> \o (Concat(InputWitnessToBytes, t.inputs)
                                               \o Concat(ProofsToBytes, t.outputs)))
    PROVE  /\ EnsureRest(bytes, p, Len(t.inputs), Len(t.outputs), TRUE, TRUE)
                = p + Len(<<t.locktime>> \o (Concat(InputWitnessToBytes, t.inputs)
                                              \o Concat(ProofsToBytes, t.outputs)))
           /\ ReadRest(BareTx(t), bytes, p, TRUE, TRUE).tx
                = KeptTx(t, [i \in 1..Len(t.inputs) |->
                                KeptInput(t.inputs[i], t.inputs[i].amountproof,
                                          t.inputs[i].keysproof, Stack(t.inputs[i].witness),
                                          Stack(t.inputs[i].pegin))],
                     [i \in 1..Len(t.outputs) |->
                        KeptOutput(t.outputs[i], t.outputs[i].surjectionproof,
                                   t.outputs[i].rangeproof)])
<1>. DEFINE n == Len(t.inputs)
            m == Len(t.outputs)
            last == <<t.locktime>>
            ws == Concat(InputWitnessToBytes, t.inputs)
            ps == Concat(ProofsToBytes, t.outputs)
            q == p + 1 + Len(ws)
            witnesses == ReadInputWitnesses(bytes, p + 1, n)
            proofs == ReadAllProofs(bytes, witnesses.end, m)
            ins == [i \in 1..n |-> WithInputWitness(BareTx(t).inputs[i], witnesses.value[i])]
            outs == [i \in 1..m |-> WithProofs(BareTx(t).outputs[i], proofs.value[i])]
<1>1. /\ n \in Nat /\ m \in Nat /\ t.inputs \in Seq(InputSet) /\ t.outputs \in Seq(Outputs)
      /\ t.locktime \in Nat /\ Len(BareTx(t).inputs) = n /\ Len(BareTx(t).outputs) = m
  BY BareTxIs, Zenon
<1>2. ws \in Buffers /\ ps \in Buffers
  BY <1>1, InputsLength, OutputsLength, Zenon
<1>3. last \in Buffers /\ Len(last) = 1
  BY <1>1 DEF Buffers
<1>4. Holds(bytes, p, last \o (ws \o ps))
  OBVIOUS
<1>. HIDE DEF ws, ps, last
<1>5. ws \o ps \in Buffers
  BY <1>2, LengthOfTwo
<1>6. /\ Holds(bytes, p, last) /\ Holds(bytes, p + 1, ws \o ps)
      /\ p + 1 + Len(ws \o ps) = p + Len(last \o (ws \o ps))
  <2>. DEFINE both == ws \o ps
  <2>1. both \in Buffers /\ last \in Buffers /\ Holds(bytes, p, last \o both)
    BY <1>3, <1>4, <1>5
  <2>. HIDE DEF both
  <2>2. /\ Holds(bytes, p, last) /\ Holds(bytes, p + Len(last), both)
        /\ p + Len(last) + Len(both) = p + Len(last \o both)
    BY <2>1, HoldsParts
  <2>. QED
    BY <1>3, <2>2 DEF both
<1>7. /\ Holds(bytes, p + 1, ws) /\ Holds(bytes, q, ps)
      /\ q + Len(ps) = p + 1 + Len(ws \o ps)
  <2>. DEFINE next == p + 1
  <2>1. Holds(bytes, next, ws \o ps)
    BY <1>6
  <2>. HIDE DEF next
  <2>2. /\ Holds(bytes, next, ws) /\ Holds(bytes, next + Len(ws), ps)
        /\ next + Len(ws) + Len(ps) = next + Len(ws \o ps)
    BY <1>2, <2>1, HoldsParts
  <2>. QED
    BY <2>2 DEF next
<1>8. Skip(bytes, p, 1) = p + 1 /\ At(bytes, p) = t.locktime
  BY <1>1, <1>6, ByteHolds DEF last
<1>9. Back(p + 1, ws, EnsureInputWitnesses(bytes, p + 1, n), witnesses,
           [i \in 1..n |-> InputWitness(t.inputs[i])])
  BY <1>1, <1>7, InputWitnessesBack DEF ws
<1>10. EnsureInputWitnesses(bytes, p + 1, n) = q /\ witnesses.end = q
  BY <1>9 DEF Back
<1>11. Back(q, ps, EnsureAllProofs(bytes, q, m), ReadAllProofs(bytes, q, m),
            [i \in 1..m |-> Proofs(t.outputs[i])])
  <2>. HIDE DEF q
  <2>. QED
    BY <1>1, <1>7, AllProofsBack DEF ps
<1>12. /\ EnsureAllProofs(bytes, q, m) = q + Len(ps)
       /\ proofs.value = [i \in 1..m |-> Proofs(t.outputs[i])]
  BY <1>10, <1>11 DEF Back
<1>13. EnsureRest(bytes, p, n, m, TRUE, TRUE)
       = EnsureAllProofs(bytes, EnsureInputWitnesses(bytes, Skip(bytes, p, 1), n), m)
  BY DEF EnsureRest
<1>14. ReadRest(BareTx(t), bytes, p, TRUE, TRUE).tx
       = [BareTx(t) EXCEPT !.locktime = At(bytes, p), !.inputs = ins, !.outputs = outs]
  BY <1>1 DEF ReadRest, WithWitnesses
<1>15. ASSUME NEW i \in 1..n
       PROVE  ins[i] = KeptInput(t.inputs[i], t.inputs[i].amountproof, t.inputs[i].keysproof,
                                 Stack(t.inputs[i].witness), Stack(t.inputs[i].pegin))
  <2>1. BareTx(t).inputs[i] = BareInput(t.inputs[i])
    BY DEF BareTx
  <2>2. witnesses.value[i] = InputWitness(t.inputs[i])
    BY <1>9 DEF Back
  <2>3. ins[i] = WithInputWitness(BareInput(t.inputs[i]), InputWitness(t.inputs[i]))
    BY <2>1, <2>2
  <2>. DEFINE w == InputWitness(t.inputs[i])
  <2>4. /\ w.amountproof = t.inputs[i].amountproof /\ w.keysproof = t.inputs[i].keysproof
        /\ w.witness = Stack(t.inputs[i].witness) /\ w.pegin = Stack(t.inputs[i].pegin)
    BY DEF InputWitness
  <2>. HIDE DEF w
  <2>5. WithInputWitness(BareInput(t.inputs[i]), w)
        = KeptInput(t.inputs[i], w.amountproof, w.keysproof, w.witness, w.pegin)
    BY InputWitnessIsKept
  <2>. QED
    BY <2>3, <2>4, <2>5 DEF w
<1>16. ASSUME NEW i \in 1..m
       PROVE  outs[i] = KeptOutput(t.outputs[i], t.outputs[i].surjectionproof,
                                   t.outputs[i].rangeproof)
  <2>1. BareTx(t).outputs[i] = KeptOutput(t.outputs[i], <<>>, <<>>)
    BY DEF BareTx
  <2>2. proofs.value[i] = Proofs(t.outputs[i])
    BY <1>12
  <2>3. outs[i] = WithProofs(KeptOutput(t.outputs[i], <<>>, <<>>), Proofs(t.outputs[i]))
    BY <2>1, <2>2
  <2>. DEFINE w == Proofs(t.outputs[i])
  <2>4. /\ w.surjectionproof = t.outputs[i].surjectionproof
        /\ w.rangeproof = t.outputs[i].rangeproof
    BY DEF Proofs
  <2>. HIDE DEF w
  <2>5. WithProofs(KeptOutput(t.outputs[i], <<>>, <<>>), w)
        = KeptOutput(t.outputs[i], w.surjectionproof, w.rangeproof)
    BY ProofsAreKept
  <2>. QED
    BY <2>3, <2>4, <2>5 DEF w
<1>17. ins = [i \in 1..n |->
                KeptInput(t.inputs[i], t.inputs[i].amountproof, t.inputs[i].keysproof,
                          Stack(t.inputs[i].witness), Stack(t.inputs[i].pegin))]
  BY <1>15, Zenon
<1>18. outs = [i \in 1..m |-> KeptOutput(t.outputs[i], t.outputs[i].surjectionproof,
                                         t.outputs[i].rangeproof)]
  BY <1>16, Zenon
<1>. HIDE DEF ins, outs, proofs, witnesses
<1>19. ReadRest(BareTx(t), bytes, p, TRUE, TRUE).tx = KeptTx(t, ins, outs)
  <2>1. BareWith(t, ins, outs) = KeptTx(t, ins, outs)
    BY AllIsSet
  <2>2. BareWith(t, ins, outs)
        = [BareTx(t) EXCEPT !.locktime = t.locktime, !.inputs = ins, !.outputs = outs]
    BY DEF BareWith
  <2>. QED
    BY <1>8, <1>14, <2>1, <2>2, Zenon
<1>20. EnsureRest(bytes, p, n, m, TRUE, TRUE) = p + Len(last \o (ws \o ps))
  BY <1>6, <1>7, <1>8, <1>10, <1>12, <1>13, Zenon
<1>. QED
  BY <1>17, <1>18, <1>19, <1>20, Zenon DEF ws, ps, last

(* All between the header and the rest.                                    *)
LEMMA HoldsBoth ==
    ASSUME NEW bytes \in Buffers, NEW p, NEW a \in Buffers, NEW b \in Buffers,
           Holds(bytes, p, a), Holds(bytes, p + Len(a), b)
    PROVE  Holds(bytes, p, a \o b)
<1>1. p \in Nat /\ Len(bytes) \in Nat /\ Len(a) \in Nat /\ Len(b) \in Nat
  BY LengthIsNatural DEF Holds
<1>2. Len(a \o b) = Len(a) + Len(b)
  BY LengthOfTwo
<1>3. p + Len(a \o b) <= Len(bytes)
  BY <1>1, <1>2 DEF Holds
<1>4. ASSUME NEW i \in 1..Len(a \o b) PROVE bytes[p + i] = (a \o b)[i]
  <2>1. CASE i <= Len(a)
    <3>1. i \in 1..Len(a) /\ (a \o b)[i] = a[i]
      BY <1>1, <1>2, <2>1 DEF Buffers
    <3>. QED
      BY <3>1 DEF Holds
  <2>2. CASE ~(i <= Len(a))
    <3>1. i - Len(a) \in 1..Len(b) /\ (a \o b)[i] = b[i - Len(a)]
      BY <1>1, <1>2, <2>2 DEF Buffers
    <3>2. bytes[p + Len(a) + (i - Len(a))] = b[i - Len(a)]
      BY <3>1 DEF Holds
    <3>3. p + Len(a) + (i - Len(a)) = p + i
      BY <1>1, <1>2
    <3>. QED
      BY <3>1, <3>2, <3>3
  <2>. QED
    BY <2>1, <2>2
<1>. QED
  BY <1>1, <1>3, <1>4 DEF Holds

Clear(t) ==
    /\ \A i \in DOMAIN t.inputs : ClearInput(t.inputs[i])
    /\ \A i \in DOMAIN t.outputs : ClearOutput(t.outputs[i])

LEMMA UnambiguousIsClear == ASSUME NEW t, Unambiguous(t) PROVE Clear(t)
BY DEF Unambiguous, Clear, ClearInput, ClearOutput

(* Where they end, from p on.                                              *)
BehindCount(t, p) == p + Len(VarintToBytes(Len(t.inputs)))
BehindInputs(t, p) == BehindCount(t, p) + Len(Concat(InputToBytes, t.inputs))
BehindOutputCount(t, p) == BehindInputs(t, p) + Len(VarintToBytes(Len(t.outputs)))
BehindOutputs(t, p) == BehindOutputCount(t, p) + Len(Concat(OutputToBytes, t.outputs))
HoldsBody(bytes, t, p) ==
    /\ Holds(bytes, p, VarintToBytes(Len(t.inputs)))
    /\ Holds(bytes, BehindCount(t, p), Concat(InputToBytes, t.inputs))
    /\ Holds(bytes, BehindInputs(t, p), VarintToBytes(Len(t.outputs)))
    /\ Holds(bytes, BehindOutputCount(t, p), Concat(OutputToBytes, t.outputs))

Args(t) == [i \in 1..Len(t.outputs) |-> OutputArg(t.outputs[i])]
Analyzed(bytes, t, p, el, w) ==
    [inputs |-> Len(t.inputs), outputs |-> Len(t.outputs), witness |-> w,
     end |-> EnsureRest(bytes, BehindOutputs(t, p), Len(t.inputs), Len(t.outputs), el, w)]

LEMMA PartsBack ==
    ASSUME NEW bytes \in Buffers, NEW el \in BOOLEAN, NEW t \in ShapedTxs(el), Clear(t),
           NEW p, HoldsBody(bytes, t, p), NEW w \in BOOLEAN
    PROVE  /\ AnalyzeInputs(bytes, el, w, EnsureVarint(bytes, p))
                = Analyzed(bytes, t, p, el, w)
           /\ ReadInputs(bytes, ReadVarint(bytes, p).end, Len(t.inputs), el).value
                = BareTx(t).inputs
           /\ ReadInputs(bytes, ReadVarint(bytes, p).end, Len(t.inputs), el).end
                = BehindInputs(t, p)
           /\ ReadOutputs(bytes, ReadVarint(bytes, BehindInputs(t, p)).end,
                          Len(t.outputs), el).value
                = Args(t)
           /\ ReadOutputs(bytes, ReadVarint(bytes, BehindInputs(t, p)).end,
                          Len(t.outputs), el).end
                = BehindOutputs(t, p)
<1>. DEFINE p1 == BehindCount(t, p)
            p2 == BehindInputs(t, p)
            p3 == BehindOutputCount(t, p)
            p4 == BehindOutputs(t, p)
<1>0. /\ Holds(bytes, p, VarintToBytes(Len(t.inputs)))
      /\ p1 = p + Len(VarintToBytes(Len(t.inputs)))
      /\ Holds(bytes, p1, Concat(InputToBytes, t.inputs))
      /\ p2 = p1 + Len(Concat(InputToBytes, t.inputs))
      /\ Holds(bytes, p2, VarintToBytes(Len(t.outputs)))
      /\ p3 = p2 + Len(VarintToBytes(Len(t.outputs)))
      /\ Holds(bytes, p3, Concat(OutputToBytes, t.outputs))
      /\ p4 = p3 + Len(Concat(OutputToBytes, t.outputs))
  BY DEF HoldsBody, BehindCount, BehindInputs, BehindOutputCount, BehindOutputs
<1>. HIDE DEF p1, p2, p3, p4
<1>. DEFINE n == Len(t.inputs)
            m == Len(t.outputs)
<1>1. /\ n \in Nat /\ m \in Nat
      /\ t.inputs \in Seq(ShapedInputs(el)) /\ t.outputs \in Seq(ShapedOutputs(el))
  BY BareTxIs DEF ShapedTxs
<1>2. EnsureVarint(bytes, p) = [value |-> n, end |-> p1] /\ ReadVarint(bytes, p).end = p1
  BY <1>0, <1>1, VarintBack
<1>3. EnsureVarint(bytes, p2) = [value |-> m, end |-> p3] /\ ReadVarint(bytes, p2).end = p3
  BY <1>0, <1>1, VarintBack, SMTT(30)
<1>4. Back(p1, Concat(InputToBytes, t.inputs), EnsureInputs(bytes, p1, n, el),
           ReadInputs(bytes, p1, n, el), [i \in 1..n |-> BareInput(t.inputs[i])])
  BY <1>0, <1>1, InputsBack, Zenon DEF Clear
<1>5. Back(p3, Concat(OutputToBytes, t.outputs), EnsureOutputs(bytes, p3, m, el),
           ReadOutputs(bytes, p3, m, el), [i \in 1..m |-> OutputArg(t.outputs[i])])
  BY <1>0, <1>1, OutputsBack, Zenon DEF Clear
<1>6. EnsureInputs(bytes, p1, n, el) = p2 /\ EnsureOutputs(bytes, p3, m, el) = p4
  BY <1>0, <1>4, <1>5 DEF Back
<1>7. AnalyzeInputs(bytes, el, w, EnsureVarint(bytes, p))
      = AnalyzeOutputs(bytes, el, w, n, EnsureVarint(bytes, p2))
  BY <1>2, <1>6 DEF AnalyzeInputs
<1>8. AnalyzeOutputs(bytes, el, w, n, EnsureVarint(bytes, p2))
      = [inputs |-> n, outputs |-> m, witness |-> w,
         end |-> EnsureRest(bytes, p4, n, m, el, w)]
  BY <1>3, <1>6 DEF AnalyzeOutputs
<1>9. /\ ReadInputs(bytes, p1, n, el).end = p2
      /\ ReadInputs(bytes, p1, n, el).value = BareTx(t).inputs
  BY <1>0, <1>4 DEF Back, BareTx
<1>. QED
  BY <1>0, <1>2, <1>3, <1>5, <1>7, <1>8, <1>9 DEF Back, p1, p2, p3, p4, Args, Analyzed

(* The outputs that are made of what was read.                             *)
LEMMA OutputsMadeBack ==
    ASSUME NEW el \in BOOLEAN, NEW t \in ShapedTxs(el)
    PROVE  /\ \A i \in DOMAIN Args(t) : CanMakeOutput(Args(t)[i], el)
           /\ [i \in DOMAIN Args(t) |-> MakeOutput(Args(t)[i], el)] = BareTx(t).outputs
<1>. DEFINE args == Args(t)
<1>1. ASSUME NEW i \in 1..Len(t.outputs)
      PROVE  /\ CanMakeOutput(args[i], el)
             /\ MakeOutput(args[i], el) = KeptOutput(t.outputs[i], <<>>, <<>>)
  <2>1. t.outputs[i] \in ShapedOutputs(el) /\ args[i] = OutputArg(t.outputs[i])
    BY BareTxIs DEF Args
  <2>2. /\ CanMakeOutput(OutputArg(t.outputs[i]), el)
        /\ MakeOutput(OutputArg(t.outputs[i]), el) = KeptOutput(t.outputs[i], <<>>, <<>>)
    BY <2>1, OutputMadeBack
  <2>. QED
    BY <2>1, <2>2
<1>2. DOMAIN args = 1..Len(t.outputs)
  BY DEF Args
<1>3. BareTx(t).outputs = [i \in 1..Len(t.outputs) |-> KeptOutput(t.outputs[i], <<>>, <<>>)]
  BY DEF BareTx
<1>. HIDE DEF args
<1>4. [i \in DOMAIN args |-> MakeOutput(args[i], el)]
      = [i \in 1..Len(t.outputs) |-> KeptOutput(t.outputs[i], <<>>, <<>>)]
  BY <1>1, <1>2
<1>. QED
  BY <1>1, <1>2, <1>3, <1>4 DEF args

LEMMA WholeBack ==
    ASSUME NEW bytes \in Buffers, NEW el \in BOOLEAN, NEW t \in ShapedTxs(el), Clear(t),
           NEW f, NEW w \in BOOLEAN, ("USE_ELEMENTS" \in f) = el, NEW p,
           BehindHeader(el, w) = p, Header(bytes, f) = [end |-> p, witness |-> w],
           bytes[1] = t.version, HoldsBody(bytes, t, p)
    PROVE  /\ Analyze(bytes, f).end
                = EnsureRest(bytes, BehindOutputs(t, p), Len(t.inputs), Len(t.outputs), el, w)
           /\ FromBytes(bytes, f).tx
                = ReadRest(BareTx(t), bytes, BehindOutputs(t, p), el, w).tx
<1>. DEFINE n == Len(t.inputs)
            m == Len(t.outputs)
            p2 == BehindInputs(t, p)
            p4 == BehindOutputs(t, p)
            a == Analyzed(bytes, t, p, el, w)
            ins == ReadInputs(bytes, ReadVarint(bytes, p).end, n, el)
            outs == ReadOutputs(bytes, ReadVarint(bytes, p2).end, m, el)
<1>1. /\ AnalyzeInputs(bytes, el, w, EnsureVarint(bytes, p)) = a
      /\ ins.value = BareTx(t).inputs /\ ins.end = p2
      /\ outs.value = Args(t)
      /\ outs.end = p4
  <2>1. AnalyzeInputs(bytes, el, w, EnsureVarint(bytes, p)) = a
    BY PartsBack
  <2>2. ins.value = BareTx(t).inputs /\ ins.end = p2
    BY PartsBack
  <2>3. outs.value = Args(t)
    BY PartsBack
  <2>4. outs.end = p4
    BY PartsBack
  <2>. QED
    BY <2>1, <2>2, <2>3, <2>4
<1>2. Analyze(bytes, f) = a
  <2>. HIDE DEF a
  <2>1. Analyze(bytes, f) = AnalyzeInputs(bytes, "USE_ELEMENTS" \in f, w, EnsureVarint(bytes, p))
    BY DEF Analyze
  <2>2. CASE el = TRUE
    BY <1>1, <2>1, <2>2, Zenon
  <2>3. CASE el = FALSE
    BY <1>1, <2>1, <2>3
  <2>. QED
    BY <2>2, <2>3, Zenon
<1>3. /\ a.inputs = n /\ a.outputs = m /\ a.witness = w
      /\ a.end = EnsureRest(bytes, p4, n, m, el, w)
  BY DEF Analyzed
<1>. HIDE DEF a
<1>4. FromBytes(bytes, f) = FromAnalyzed(bytes, el, a)
  <2>1. FromBytes(bytes, f) = FromAnalyzed(bytes, "USE_ELEMENTS" \in f, a)
    BY <1>2 DEF FromBytes
  <2>2. CASE el = TRUE
    BY <2>1, <2>2, Zenon
  <2>3. CASE el = FALSE
    BY <2>1, <2>3
  <2>. QED
    BY <2>2, <2>3, Zenon
<1>5. FromAnalyzed(bytes, el, a) = FromInputs(bytes, el, a, ins)
  BY <1>3 DEF FromAnalyzed
<1>6. FromInputs(bytes, el, a, ins) = Made(bytes, el, a, BareTx(t).inputs, outs)
  <2>. HIDE DEF ins
  <2>. QED
    BY <1>1, <1>3 DEF FromInputs
<1>7. Made(bytes, el, a, BareTx(t).inputs, outs)
      = ReadRest([version |-> t.version, locktime |-> 0, inputs |-> BareTx(t).inputs,
                  outputs |-> BareTx(t).outputs], bytes, p4, el, w)
  <2>1. /\ \A i \in DOMAIN outs.value : CanMakeOutput(outs.value[i], el)
        /\ [i \in DOMAIN outs.value |-> MakeOutput(outs.value[i], el)] = BareTx(t).outputs
    BY <1>1, OutputsMadeBack
  <2>. HIDE DEF outs
  <2>. QED
    BY <1>1, <1>3, <2>1 DEF Made
<1>8. [version |-> t.version, locktime |-> 0, inputs |-> BareTx(t).inputs,
       outputs |-> BareTx(t).outputs] = BareTx(t)
  BY DEF BareTx
<1>. QED
  BY <1>2, <1>3, <1>4, <1>5, <1>6, <1>7, <1>8

(* The pieces of what is written, one behind the other.                    *)
LEMMA PieceAndRest ==
    ASSUME NEW bytes \in Buffers, NEW a \in Buffers, NEW b \in Buffers,
           Holds(bytes, 0, a \o b)
    PROVE  /\ Holds(bytes, 0, a) /\ Holds(bytes, Len(a), b) /\ a \o b \in Buffers
           /\ Len(a \o b) = Len(a) + Len(b)
<1>1. /\ Holds(bytes, 0, a) /\ Holds(bytes, 0 + Len(a), b)
  BY HoldsParts
<1>2. 0 + Len(a) = Len(a)
  BY LengthIsNatural
<1>3. a \o b \in Buffers /\ Len(a \o b) = Len(a) + Len(b)
  BY LengthOfTwo
<1>. QED
  BY <1>1, <1>2, <1>3

Nine(v, m, a, b, c, d, s, l, w) == v \o m \o a \o b \o c \o d \o s \o l \o w
NinePositions(bytes, v, m, a, b, c, d, s, l, w) ==
    LET p0 == Len(v) + Len(m)
        p1 == p0 + Len(a)
        p2 == p1 + Len(b)
        p3 == p2 + Len(c)
        p4 == p3 + Len(d)
    IN /\ Holds(bytes, 0, v) /\ Holds(bytes, Len(v), m) /\ Holds(bytes, p0, a)
       /\ Holds(bytes, p1, b) /\ Holds(bytes, p2, c) /\ Holds(bytes, p3, d)
       /\ Holds(bytes, p4, s) /\ Holds(bytes, p4 + Len(s), l)
       /\ Holds(bytes, p4 + Len(s) + Len(l), w)
       /\ Len(bytes) = p4 + Len(s) + Len(l) + Len(w)

LEMMA NinePieces ==
    ASSUME NEW v \in Buffers, NEW m \in Buffers, NEW a \in Buffers, NEW b \in Buffers,
           NEW c \in Buffers, NEW d \in Buffers, NEW s \in Buffers, NEW l \in Buffers,
           NEW w \in Buffers,
           Nine(v, m, a, b, c, d, s, l, w) \in Buffers
    PROVE  NinePositions(Nine(v, m, a, b, c, d, s, l, w), v, m, a, b, c, d, s, l, w)
<1>. DEFINE bytes == Nine(v, m, a, b, c, d, s, l, w)
            x1 == v \o m
            x2 == x1 \o a
            x3 == x2 \o b
            x4 == x3 \o c
            x5 == x4 \o d
            x6 == x5 \o s
            x7 == x6 \o l
<1>1. x1 \in Buffers /\ Len(x1) = Len(v) + Len(m)
  BY LengthOfTwo
<1>2. x2 \in Buffers /\ Len(x2) = Len(x1) + Len(a)
  <2>. HIDE DEF x1
  <2>. QED
    BY <1>1, LengthOfTwo
<1>3. x3 \in Buffers /\ Len(x3) = Len(x2) + Len(b)
  <2>. HIDE DEF x2
  <2>. QED
    BY <1>2, LengthOfTwo
<1>4. x4 \in Buffers /\ Len(x4) = Len(x3) + Len(c)
  <2>. HIDE DEF x3
  <2>. QED
    BY <1>3, LengthOfTwo
<1>5. x5 \in Buffers /\ Len(x5) = Len(x4) + Len(d)
  <2>. HIDE DEF x4
  <2>. QED
    BY <1>4, LengthOfTwo
<1>6. x6 \in Buffers /\ Len(x6) = Len(x5) + Len(s)
  <2>. HIDE DEF x5
  <2>. QED
    BY <1>5, LengthOfTwo
<1>7. x7 \in Buffers /\ Len(x7) = Len(x6) + Len(l)
  <2>. HIDE DEF x6
  <2>. QED
    BY <1>6, LengthOfTwo
<1>8. Len(bytes) = Len(x7) + Len(w) /\ bytes = x7 \o w
  <2>1. bytes = x7 \o w
    BY DEF Nine
  <2>. HIDE DEF x7, bytes
  <2>. QED
    BY <1>7, <2>1, LengthOfTwo
<1>. HIDE DEF bytes
<1>9. bytes \in Buffers
  BY DEF bytes
<1>10. Holds(bytes, 0, x7) /\ Holds(bytes, Len(x7), w)
  <2>. HIDE DEF x7
  <2>1. Holds(bytes, 0, x7 \o w)
    BY <1>8, <1>9, HoldsAll
  <2>. QED
    BY <1>7, <2>1, <1>9, PieceAndRest
<1>11. Holds(bytes, 0, x6) /\ Holds(bytes, Len(x6), l)
  <2>1. Holds(bytes, 0, x6 \o l)
    BY <1>10
  <2>. HIDE DEF x6
  <2>. QED
    BY <1>6, <2>1, <1>9, PieceAndRest
<1>12. Holds(bytes, 0, x5) /\ Holds(bytes, Len(x5), s)
  <2>1. Holds(bytes, 0, x5 \o s)
    BY <1>11
  <2>. HIDE DEF x5
  <2>. QED
    BY <1>5, <2>1, <1>9, PieceAndRest
<1>13. Holds(bytes, 0, x4) /\ Holds(bytes, Len(x4), d)
  <2>1. Holds(bytes, 0, x4 \o d)
    BY <1>12
  <2>. HIDE DEF x4
  <2>. QED
    BY <1>4, <2>1, <1>9, PieceAndRest
<1>14. Holds(bytes, 0, x3) /\ Holds(bytes, Len(x3), c)
  <2>1. Holds(bytes, 0, x3 \o c)
    BY <1>13
  <2>. HIDE DEF x3
  <2>. QED
    BY <1>3, <2>1, <1>9, PieceAndRest
<1>15. Holds(bytes, 0, x2) /\ Holds(bytes, Len(x2), b)
  <2>1. Holds(bytes, 0, x2 \o b)
    BY <1>14
  <2>. HIDE DEF x2
  <2>. QED
    BY <1>2, <2>1, <1>9, PieceAndRest
<1>16. Holds(bytes, 0, x1) /\ Holds(bytes, Len(x1), a)
  <2>1. Holds(bytes, 0, x1 \o a)
    BY <1>15
  <2>. HIDE DEF x1
  <2>. QED
    BY <1>1, <2>1, <1>9, PieceAndRest
<1>17. Holds(bytes, 0, v) /\ Holds(bytes, Len(v), m)
  BY <1>16, <1>9, PieceAndRest
<1>. HIDE DEF x1, x2, x3, x4, x5, x6, x7
<1>. QED
  BY <1>1, <1>2, <1>3, <1>4, <1>5, <1>6, <1>7, <1>8, <1>10, <1>11, <1>12, <1>13, <1>14,
     <1>15, <1>16, <1>17 DEF NinePositions, bytes

Marker(t, flags) ==
    CASE IsElements(t) -> <<IF WritesWitness(t, flags) THEN 1 ELSE 0>>
      [] ~IsElements(t) /\ WritesWitness(t, flags) -> <<0, 1>>
      [] OTHER -> <<>>
StacksToBytes(t, flags) ==
    IF WritesWitness(t, flags) /\ ~IsElements(t)
    THEN Concat(LAMBDA in : StackToBytes(in.witness), t.inputs) ELSE <<>>
WitnessesToBytes(t, flags) ==
    IF WritesWitness(t, flags) /\ IsElements(t)
    THEN Concat(InputWitnessToBytes, t.inputs) \o Concat(ProofsToBytes, t.outputs) ELSE <<>>
(* Where the inputs begin, and where the rest does.                        *)
BodyAt(t, flags) == 1 + Len(Marker(t, flags))
RestAt(t, flags) == BehindOutputs(t, BodyAt(t, flags))

LEMMA WrittenPieces ==
    ASSUME NEW t \in TxSet, NEW flags, NEW bytes, bytes = ToBytes(t, flags)
    PROVE  /\ bytes \in Buffers
           /\ Holds(bytes, 0, <<t.version>>) /\ Holds(bytes, 1, Marker(t, flags))
           /\ Marker(t, flags) \in Buffers /\ StacksToBytes(t, flags) \in Buffers
           /\ WitnessesToBytes(t, flags) \in Buffers
           /\ HoldsBody(bytes, t, BodyAt(t, flags))
           /\ Holds(bytes, RestAt(t, flags), StacksToBytes(t, flags))
           /\ Holds(bytes, RestAt(t, flags) + Len(StacksToBytes(t, flags)), <<t.locktime>>)
           /\ Holds(bytes, RestAt(t, flags) + Len(StacksToBytes(t, flags)) + 1,
                    WitnessesToBytes(t, flags))
           /\ Len(bytes) = RestAt(t, flags) + Len(StacksToBytes(t, flags)) + 1
                             + Len(WitnessesToBytes(t, flags))
<1>. DEFINE v == <<t.version>>
            m == Marker(t, flags)
            a == VarintToBytes(Len(t.inputs))
            b == Concat(InputToBytes, t.inputs)
            c == VarintToBytes(Len(t.outputs))
            d == Concat(OutputToBytes, t.outputs)
            s == StacksToBytes(t, flags)
            l == <<t.locktime>>
            w == WitnessesToBytes(t, flags)
<1>1. /\ t.inputs \in Seq(InputSet) /\ t.outputs \in Seq(Outputs)
      /\ t.version \in Nat /\ t.locktime \in Nat
  BY DEF TxSet, Outputs
<1>2. /\ v \in Buffers /\ Len(v) = 1 /\ l \in Buffers /\ Len(l) = 1
      /\ <<>> \in Buffers /\ <<0>> \in Buffers /\ <<1>> \in Buffers /\ <<0, 1>> \in Buffers
  BY <1>1 DEF Buffers
<1>3. m \in Buffers
  BY <1>2 DEF Marker
<1>4. a \in Buffers /\ c \in Buffers
  <2>1. Len(t.inputs) \in Nat /\ Len(t.outputs) \in Nat
    BY <1>1, ElementOfSeq
  <2>. QED
    BY <2>1, VarintLengthIsExact
<1>5. b \in Buffers /\ Concat(InputWitnessToBytes, t.inputs) \in Buffers
      /\ Concat(LAMBDA in : StackToBytes(in.witness), t.inputs) \in Buffers
  BY <1>1, InputsLength, Zenon
<1>6. d \in Buffers /\ Concat(ProofsToBytes, t.outputs) \in Buffers
  BY <1>1, OutputsLength
<1>7. s \in Buffers
  BY <1>2, <1>5 DEF StacksToBytes
<1>8. w \in Buffers
  <2>1. Concat(InputWitnessToBytes, t.inputs) \o Concat(ProofsToBytes, t.outputs) \in Buffers
    BY <1>5, <1>6, LengthOfTwo
  <2>. QED
    BY <1>2, <2>1 DEF WitnessesToBytes
<1>9. bytes = v \o m \o a \o b \o c \o d \o s \o l \o w
  BY DEF ToBytes, Marker, StacksToBytes, WitnessesToBytes
<1>10. bytes \in Buffers
  BY ToBytesLength
<1>. HIDE DEF v, m, a, b, c, d, s, l, w
<1>11. NinePositions(bytes, v, m, a, b, c, d, s, l, w)
  <2>1. bytes = Nine(v, m, a, b, c, d, s, l, w)
    BY <1>9 DEF Nine
  <2>2. Nine(v, m, a, b, c, d, s, l, w) \in Buffers
    BY <1>10, <2>1
  <2>3. NinePositions(Nine(v, m, a, b, c, d, s, l, w), v, m, a, b, c, d, s, l, w)
    BY <1>2, <1>3, <1>4, <1>5, <1>6, <1>7, <1>8, <2>2, NinePieces, Zenon
  <2>. QED
    BY <2>1, <2>3
<1>12. BodyAt(t, flags) = Len(v) + Len(m)
  BY <1>2 DEF BodyAt, m
<1>13. LET p0 == Len(v) + Len(m)
       IN HoldsBody(bytes, t, p0)
  BY <1>11 DEF NinePositions, HoldsBody, BehindCount, BehindInputs, BehindOutputCount, a, b, c, d
<1>14. RestAt(t, flags) = Len(v) + Len(m) + Len(a) + Len(b) + Len(c) + Len(d)
  BY <1>12 DEF RestAt, BehindCount, BehindInputs, BehindOutputCount, BehindOutputs, a, b, c, d
<1>15. /\ Holds(bytes, 0, v) /\ Holds(bytes, 1, m)
       /\ HoldsBody(bytes, t, BodyAt(t, flags))
  BY <1>2, <1>11, <1>12, <1>13 DEF NinePositions
<1>16. /\ Holds(bytes, RestAt(t, flags), s) /\ Holds(bytes, RestAt(t, flags) + Len(s), l)
       /\ Holds(bytes, RestAt(t, flags) + Len(s) + 1, w)
       /\ Len(bytes) = RestAt(t, flags) + Len(s) + 1 + Len(w)
  BY <1>2, <1>11, <1>14 DEF NinePositions
<1>. QED
  BY <1>3, <1>7, <1>8, <1>10, <1>15, <1>16 DEF v, m, s, l, w

(* What the header of written bytes says of them.                          *)
LEMMA FirstOfVarint ==
    ASSUME NEW n \in Nat
    PROVE  /\ Len(VarintToBytes(n)) >= 1 /\ Len(VarintToBytes(n)) \in Nat
           /\ n # 0 => VarintToBytes(n)[1] # 0
BY SizesAssumption DEF VarintToBytes

LEMMA HeaderBack ==
    ASSUME NEW t \in TxSet, NEW flags, NEW f \in ReadFlags(t, flags),
           NEW bytes, bytes = ToBytes(t, flags),
           NEW el \in BOOLEAN, IsElements(t) = el,
           NEW w \in BOOLEAN, WritesWitness(t, flags) = w
    PROVE  /\ Header(bytes, f) = [end |-> BodyAt(t, flags), witness |-> w]
           /\ BehindHeader(el, w) = BodyAt(t, flags)
           /\ bytes[1] = t.version
           /\ ("USE_ELEMENTS" \in f) = el
<1>. DEFINE m == Marker(t, flags)
            a == VarintToBytes(Len(t.inputs))
            p == BodyAt(t, flags)
<1>1. /\ bytes \in Buffers /\ Holds(bytes, 0, <<t.version>>) /\ Holds(bytes, 1, m)
      /\ m \in Buffers /\ StacksToBytes(t, flags) \in Buffers
      /\ WitnessesToBytes(t, flags) \in Buffers
      /\ HoldsBody(bytes, t, p)
  BY WrittenPieces, Zenon
<1>2. Len(t.inputs) \in Nat /\ Len(t.outputs) \in Nat /\ t.version \in Nat
  <2>1. t.inputs \in Seq(InputSet) /\ t.version \in Nat
        /\ t.outputs \in Seq(OutputSet(TRUE) \cup OutputSet(FALSE))
    BY DEF TxSet
  <2>. QED
    BY <2>1, ElementOfSeq
<1>3. bytes[1] = t.version
  BY <1>1, <1>2, ByteHolds
<1>4. p = 1 + Len(m) /\ Len(m) \in Nat /\ Len(bytes) \in Nat
  BY <1>1, LengthIsNatural DEF BodyAt
<1>5. \A i \in 1..Len(a) : bytes[p + i] = a[i]
  BY <1>1 DEF HoldsBody, Holds
<1>6. Len(bytes) >= p + 2
  <2>. DEFINE b == Concat(InputToBytes, t.inputs)
              c == VarintToBytes(Len(t.outputs))
  <2>1. t.inputs \in Seq(InputSet)
    BY DEF TxSet
  <2>2. Len(b) \in Nat
    BY <2>1, InputsLength, LengthIsNatural
  <2>3. Len(a) >= 1 /\ Len(a) \in Nat /\ Len(c) >= 1 /\ Len(c) \in Nat
    BY <1>2, FirstOfVarint, Zenon
  <2>. HIDE DEF b, c, a
  <2>4. p + Len(a) + Len(b) + Len(c) <= Len(bytes)
    <3>1. BehindInputs(t, p) = p + Len(a) + Len(b)
      BY DEF BehindInputs, BehindCount, a, b
    <3>. QED
      BY <1>1, <3>1 DEF HoldsBody, Holds, c
  <2>. QED
    BY <1>4, <2>2, <2>3, <2>4
<1>7. t.inputs # <<>> => Len(t.inputs) # 0
  <2>1. t.inputs \in Seq(InputSet)
    BY DEF TxSet
  <2>. QED
    BY <2>1, EmptySeq
<1>8. t.inputs # <<>> => bytes[p + 1] # 0
  <2>1. Len(a) >= 1 /\ Len(a) \in Nat /\ (t.inputs # <<>> => a[1] # 0)
    BY <1>2, <1>7, FirstOfVarint, Zenon
  <2>. HIDE DEF a
  <2>2. 1 \in 1..Len(a)
    BY <2>1
  <2>3. bytes[p + 1] = a[1]
    BY <1>5, <2>2
  <2>. QED
    BY <2>1, <2>3
<1>9. w => t.inputs # <<>>
  BY Zenon DEF WritesWitness
<1>10. CASE el = TRUE
  <2>1. f = {"USE_ELEMENTS"}
    BY <1>10 DEF ReadFlags
  <2>2. m = <<IF w THEN 1 ELSE 0>>
    BY <1>10 DEF Marker
  <2>3. Len(m) = 1 /\ m[1] = (IF w THEN 1 ELSE 0)
    BY <2>2
  <2>4. p = 2 /\ bytes[2] = (IF w THEN 1 ELSE 0)
    BY <1>1, <1>4, <2>3 DEF Holds
  <2>5. Len(bytes) >= 3
    BY <1>4, <1>6, <2>4
  <2>6. BehindHeader(el, w) = 2
    BY <1>10 DEF BehindHeader
  <2>7. ("USE_ELEMENTS" \in f) = el
    BY <1>10, <2>1, Zenon
  <2>8. CASE w = TRUE
    <3>1. bytes[2] # 0
      BY <2>4, <2>8
    <3>2. Header(bytes, f) = [end |-> 2, witness |-> TRUE]
      <4>. DEFINE marked == bytes[2] # 0
      <4>1. Header(bytes, f) = [end |-> 2, witness |-> marked]
        BY <1>4, <2>1, <2>5 DEF Header
      <4>2. marked = TRUE
        BY <3>1
      <4>. HIDE DEF marked
      <4>. QED
        BY <4>1, <4>2
    <3>3. Header(bytes, f) = [end |-> p, witness |-> w]
      BY <2>4, <2>8, <3>2
    <3>. QED
      BY <1>3, <2>4, <2>6, <2>7, <3>3
  <2>9. CASE w = FALSE
    <3>1. bytes[2] = 0
      BY <2>4, <2>9
    <3>2. Header(bytes, f) = [end |-> 2, witness |-> FALSE]
      <4>. DEFINE marked == bytes[2] # 0
      <4>1. Header(bytes, f) = [end |-> 2, witness |-> marked]
        BY <1>4, <2>1, <2>5 DEF Header
      <4>2. marked = FALSE
        BY <3>1
      <4>. HIDE DEF marked
      <4>. QED
        BY <4>1, <4>2, Zenon
    <3>3. Header(bytes, f) = [end |-> p, witness |-> w]
      BY <2>4, <2>9, <3>2, Zenon
    <3>. QED
      BY <1>3, <2>4, <2>6, <2>7, <3>3
  <2>. QED
    BY <2>8, <2>9, Zenon
<1>11. CASE el = FALSE /\ w = TRUE
  <2>1. f = {}
    BY <1>9, <1>11 DEF ReadFlags
  <2>2. m = <<0, 1>>
    BY <1>11 DEF Marker
  <2>3. Len(m) = 2 /\ m[1] = 0 /\ m[2] = 1
    BY <2>2
  <2>4. p = 3 /\ bytes[2] = 0 /\ bytes[3] = 1
    BY <1>1, <1>4, <2>3 DEF Holds
  <2>5. Len(bytes) >= 3
    BY <1>4, <1>6, <2>4
  <2>6. BehindHeader(el, w) = 3
    BY <1>11 DEF BehindHeader
  <2>7. Header(bytes, f) = [end |-> 3, witness |-> TRUE]
    BY <1>4, <2>1, <2>4, <2>5 DEF Header
  <2>8. ("USE_ELEMENTS" \in f) = el
    BY <1>11, <2>1
  <2>9. Header(bytes, f) = [end |-> p, witness |-> w]
    BY <1>11, <2>4, <2>7
  <2>. QED
    BY <1>3, <2>4, <2>6, <2>8, <2>9
<1>12. CASE el = FALSE /\ w = FALSE
  <2>1. f = {"PRE_BIP144"} \/ (f = {} /\ t.inputs # <<>>)
    <3>1. ~IsElements(t) /\ ~WritesWitness(t, flags)
      BY <1>12
    <3>2. CASE t.inputs = <<>>
      BY <3>1, <3>2 DEF ReadFlags
    <3>3. CASE t.inputs # <<>>
      BY <3>1, <3>3 DEF ReadFlags
    <3>. QED
      BY <3>2, <3>3
  <2>2. m = <<>>
    BY <1>12 DEF Marker
  <2>3. p = 1
    BY <1>4, <2>2
  <2>4. Len(bytes) >= 3
    BY <1>4, <1>6, <2>3
  <2>5. BehindHeader(el, w) = 1
    BY <1>12 DEF BehindHeader
  <2>6. Header(bytes, f) = [end |-> 1, witness |-> FALSE]
    BY <1>4, <1>8, <2>1, <2>3, <2>4 DEF Header
  <2>7. ("USE_ELEMENTS" \in f) = el
    BY <1>12, <2>1
  <2>8. Header(bytes, f) = [end |-> p, witness |-> w]
    BY <1>12, <2>3, <2>6, Zenon
  <2>. QED
    BY <1>3, <2>3, <2>5, <2>7, <2>8
<1>. QED
  BY <1>10, <1>11, <1>12, Zenon

(* A transaction that calls or the parser made, all that is written of it. *)
LEMMA WrittenIsRead ==
    ASSUME NEW el \in BOOLEAN, NEW t \in ShapedTxs(el), IsElements(t) = el, Clear(t),
           NEW flags, NEW f \in ReadFlags(t, flags)
    PROVE  ReadBack(ToBytes(t, flags), f, Kept(t, flags))
<1>. DEFINE bytes == ToBytes(t, flags)
            w == WritesWitness(t, flags)
            p == BodyAt(t, flags)
            q == RestAt(t, flags)
            n == Len(t.inputs)
            m == Len(t.outputs)
            s == StacksToBytes(t, flags)
            l == <<t.locktime>>
            x == WitnessesToBytes(t, flags)
<1>1. t \in TxSet
  BY ShapesAreTxs
<1>2. w \in BOOLEAN
  BY DEF WritesWitness
<1>3. /\ bytes \in Buffers /\ HoldsBody(bytes, t, p) /\ s \in Buffers /\ x \in Buffers
      /\ Holds(bytes, q, s) /\ Holds(bytes, q + Len(s), l) /\ Holds(bytes, q + Len(s) + 1, x)
      /\ Len(bytes) = q + Len(s) + 1 + Len(x)
  BY <1>1, WrittenPieces, Zenon
<1>. HIDE DEF bytes
<1>4. /\ Header(bytes, f) = [end |-> p, witness |-> w] /\ BehindHeader(el, w) = p
      /\ bytes[1] = t.version /\ ("USE_ELEMENTS" \in f) = el
  <2>. DEFINE v == w
  <2>1. v \in BOOLEAN /\ WritesWitness(t, flags) = v
    BY <1>2
  <2>. HIDE DEF v
  <2>2. /\ Header(bytes, f) = [end |-> p, witness |-> v] /\ BehindHeader(el, v) = p
        /\ bytes[1] = t.version /\ ("USE_ELEMENTS" \in f) = el
    BY <1>1, <2>1, HeaderBack DEF bytes
  <2>. QED
    BY <2>2 DEF v
<1>5. /\ Analyze(bytes, f).end = EnsureRest(bytes, q, n, m, el, w)
      /\ FromBytes(bytes, f).tx = ReadRest(BareTx(t), bytes, q, el, w).tx
  <2>. HIDE DEF w
  <2>. QED
    BY <1>2, <1>3, <1>4, WholeBack DEF RestAt
<1>. DEFINE plain == [i \in 1..n |-> BareInput(t.inputs[i])]
            stacked == [i \in 1..n |-> KeptInput(t.inputs[i], <<>>, <<>>,
                                                 Stack(t.inputs[i].witness), None)]
            outs == [i \in 1..m |-> KeptOutput(t.outputs[i], <<>>, <<>>)]
            all == [i \in 1..n |->
                      KeptInput(t.inputs[i], t.inputs[i].amountproof, t.inputs[i].keysproof,
                                Stack(t.inputs[i].witness), Stack(t.inputs[i].pegin))]
            proven == [i \in 1..m |-> KeptOutput(t.outputs[i], t.outputs[i].surjectionproof,
                                                 t.outputs[i].rangeproof)]
<1>6. t.locktime \in Nat /\ l \in Buffers /\ Len(l) = 1 /\ q \in Nat /\ Len(bytes) \in Nat
  <2>1. t.locktime \in Nat
    BY BareTxIs
  <2>2. q \in Nat
    BY <1>3 DEF Holds
  <2>. QED
    BY <1>3, <2>1, <2>2, LengthIsNatural DEF Buffers
<1>7. CASE w = FALSE
  <2>1. s = <<>> /\ x = <<>>
    BY <1>7 DEF StacksToBytes, WitnessesToBytes
  <2>2. Holds(bytes, q, l) /\ Len(bytes) = q + Len(l)
    BY <1>3, <1>6, <2>1
  <2>3. /\ EnsureRest(bytes, q, n, m, el, FALSE) = q + Len(l)
        /\ ReadRest(BareTx(t), bytes, q, el, FALSE).tx = KeptTx(t, plain, outs)
    <3>1. bytes \in Buffers /\ Holds(bytes, q, l)
      BY <1>3, <2>2
    <3>. QED
      BY <3>1, PlainRestBack, ZenonT(60)
  <2>4. Kept(t, flags) = KeptTx(t, plain, outs)
    BY <1>1, <1>7, KeptIs DEF BareInput
  <2>. QED
    <3>1. Analyze(bytes, f).end = Len(bytes)
      BY <1>5, <1>7, <2>2, <2>3, Zenon
    <3>2. FromBytes(bytes, f).tx = Kept(t, flags)
      BY <1>5, <1>7, <2>3, <2>4, Zenon
    <3>. QED
      BY <3>1, <3>2, Zenon DEF ReadBack, bytes
<1>8. CASE w = TRUE /\ el = FALSE
  <2>. DEFINE c == Concat(LAMBDA in : StackToBytes(in.witness), t.inputs)
  <2>1. s = c /\ x = <<>>
    BY <1>8 DEF StacksToBytes, WitnessesToBytes
  <2>2. Holds(bytes, q, c \o l) /\ Len(bytes) = q + Len(c \o l)
    <3>. HIDE DEF c, l
    <3>1. Len(c \o l) = Len(c) + Len(l)
      BY <1>3, <1>6, <2>1, LengthOfTwo, Zenon
    <3>2. Holds(bytes, q, c) /\ Holds(bytes, q + Len(c), l)
      BY <1>3, <2>1
    <3>3. Holds(bytes, q, c \o l)
      BY <1>3, <1>6, <2>1, <3>2, HoldsBoth
    <3>. QED
      BY <1>3, <1>6, <2>1, <3>1, <3>3
  <2>3. /\ EnsureRest(bytes, q, n, m, FALSE, TRUE) = q + Len(c \o l)
        /\ ReadRest(BareTx(t), bytes, q, FALSE, TRUE).tx = KeptTx(t, stacked, outs)
    BY <1>3, <1>8, <2>2, StacksRestBack, Zenon
  <2>4. Kept(t, flags) = KeptTx(t, stacked, outs)
    BY <1>1, <1>8, KeptIs
  <2>. QED
    <3>1. Analyze(bytes, f).end = Len(bytes)
      BY <1>5, <1>8, <2>2, <2>3, Zenon
    <3>2. FromBytes(bytes, f).tx = Kept(t, flags)
      BY <1>5, <1>8, <2>3, <2>4, Zenon
    <3>. QED
      BY <3>1, <3>2, Zenon DEF ReadBack, bytes
<1>9. CASE w = TRUE /\ el = TRUE
  <2>. DEFINE c == Concat(InputWitnessToBytes, t.inputs) \o Concat(ProofsToBytes, t.outputs)
  <2>1. s = <<>> /\ x = c
    BY <1>9 DEF StacksToBytes, WitnessesToBytes
  <2>2. Holds(bytes, q, l \o c) /\ Len(bytes) = q + Len(l \o c)
    <3>. HIDE DEF c, l
    <3>1. Len(l \o c) = Len(l) + Len(c)
      BY <1>3, <1>6, <2>1, LengthOfTwo, Zenon
    <3>2. Holds(bytes, q, l) /\ Holds(bytes, q + Len(l), c)
      BY <1>3, <1>6, <2>1
    <3>3. Holds(bytes, q, l \o c)
      BY <1>3, <1>6, <2>1, <3>2, HoldsBoth, Zenon
    <3>. QED
      BY <1>3, <1>6, <2>1, <3>1, <3>3
  <2>3. /\ EnsureRest(bytes, q, n, m, TRUE, TRUE) = q + Len(l \o c)
        /\ ReadRest(BareTx(t), bytes, q, TRUE, TRUE).tx = KeptTx(t, all, proven)
    BY <1>3, <1>9, <2>2, WitnessesRestBack, Zenon
  <2>4. Kept(t, flags) = KeptTx(t, all, proven)
    BY <1>1, <1>9, KeptIs, Zenon
  <2>. QED
    <3>1. Analyze(bytes, f).end = Len(bytes)
      BY <1>5, <1>9, <2>2, <2>3, Zenon
    <3>2. FromBytes(bytes, f).tx = Kept(t, flags)
      BY <1>5, <1>9, <2>3, <2>4, Zenon
    <3>. QED
      BY <3>1, <3>2, Zenon DEF ReadBack, bytes
<1>. QED
  BY <1>2, <1>7, <1>8, <1>9, Zenon

(* The beginning of bytes, analyzed alone: what is not refused is the same *)
(* of all of them.                                                         *)
Begins(short, bytes) ==
    /\ short \in Buffers /\ bytes \in Buffers /\ Len(short) <= Len(bytes)
    /\ \A i \in 1..Len(short) : short[i] = bytes[i]
Agrees(short, a, b) == a \in Positions(short) /\ (a # Refused => b = a)

LEMMA SkipAgrees ==
    ASSUME NEW short, NEW bytes, Begins(short, bytes), NEW a, NEW b, Agrees(short, a, b),
           NEW n \in Nat
    PROVE  Agrees(short, Skip(short, a, n), Skip(bytes, b, n))
<1>1. short \in Buffers /\ bytes \in Buffers /\ a \in Positions(short)
  BY DEF Begins, Agrees
<1>2. Len(short) \in Nat /\ Len(bytes) \in Nat
  BY <1>1, LengthIsNatural
<1>3. /\ Skip(short, a, n) \in Positions(short)
      /\ Skip(short, a, n) # Refused =>
            a \in Nat /\ Skip(short, a, n) = a + n /\ a + n <= Len(short)
  BY <1>1, SkipStays
<1>4. ASSUME Skip(short, a, n) # Refused PROVE Skip(bytes, b, n) = Skip(short, a, n)
  <2>1. a # Refused /\ a \in Nat /\ Skip(short, a, n) = a + n /\ a + n <= Len(short)
    BY <1>3, <1>4 DEF Refused
  <2>2. b = a
    BY <2>1 DEF Agrees
  <2>3. n <= Len(bytes) - a
    BY <1>2, <2>1 DEF Begins
  <2>. QED
    BY <2>1, <2>2, <2>3, Zenon DEF Skip
<1>. QED
  BY <1>3, <1>4 DEF Agrees

LEMMA ByteAgrees ==
    ASSUME NEW short, NEW bytes, Begins(short, bytes), NEW a, NEW b, Agrees(short, a, b),
           NEW n \in Nat \ {0}, Skip(short, a, n) # Refused
    PROVE  /\ Skip(bytes, b, n) = Skip(short, a, n)
           /\ short[Skip(short, a, n)] = bytes[Skip(short, a, n)]
           /\ a \in Nat /\ b = a /\ Skip(short, a, n) = a + n
           /\ \A i \in 1..n : short[a + i] = bytes[a + i]
<1>1. Agrees(short, Skip(short, a, n), Skip(bytes, b, n))
  BY SkipAgrees
<1>2. short \in Buffers /\ a \in Positions(short)
  BY DEF Begins, Agrees
<1>3. Len(short) \in Nat
  BY <1>2, LengthIsNatural
<1>4. a \in Nat /\ Skip(short, a, n) = a + n /\ a + n <= Len(short)
  BY <1>2, SkipStays
<1>5. a # Refused /\ b = a
  BY <1>4 DEF Refused, Agrees
<1>6. \A i \in 1..n : a + i \in 1..Len(short)
  BY <1>3, <1>4
<1>. QED
  BY <1>1, <1>4, <1>5, <1>6 DEF Agrees, Begins

LEMMA VarintAgrees ==
    ASSUME NEW short, NEW bytes, Begins(short, bytes), NEW a, NEW b, Agrees(short, a, b)
    PROVE  /\ Agrees(short, EnsureVarint(short, a).end, EnsureVarint(bytes, b).end)
           /\ EnsureVarint(short, a).value \in Nat
           /\ EnsureVarint(short, a).end # Refused
                => EnsureVarint(bytes, b).value = EnsureVarint(short, a).value
<1>1. short \in Buffers /\ a \in Positions(short)
  BY DEF Begins, Agrees
<1>2. EnsureVarint(short, a).value \in Nat /\ EnsureVarint(short, a).end \in Positions(short)
  BY <1>1, VarintReads DEF Reads
<1>3. ASSUME EnsureVarint(short, a).end # Refused
      PROVE  EnsureVarint(bytes, b) = EnsureVarint(short, a)
  <2>. DEFINE one == Skip(short, a, 1)
              two == Skip(short, a, 2)
  <2>1. one # Refused
    BY <1>3 DEF EnsureVarint
  <2>2. Skip(bytes, b, 1) = one /\ short[one] = bytes[one]
    BY <2>1, ByteAgrees
  <2>3. CASE short[one] # VarintTag
    <3>1. EnsureVarint(short, a) = [value |-> short[one], end |-> one]
      BY <2>1, <2>3 DEF EnsureVarint
    <3>. HIDE DEF one
    <3>2. EnsureVarint(bytes, b) = [value |-> short[one], end |-> one]
      BY <2>1, <2>2, <2>3 DEF EnsureVarint
    <3>. QED
      BY <3>1, <3>2
  <2>4. CASE short[one] = VarintTag
    <3>1. two # Refused
      BY <1>3, <2>1, <2>4 DEF EnsureVarint
    <3>2. Skip(bytes, b, 2) = two /\ short[two] = bytes[two]
      BY <3>1, ByteAgrees
    <3>3. EnsureVarint(short, a) = [value |-> short[two], end |-> two]
      BY <2>1, <2>4, <3>1 DEF EnsureVarint
    <3>. HIDE DEF one, two
    <3>4. EnsureVarint(bytes, b) = [value |-> short[two], end |-> two]
      BY <2>1, <2>2, <2>4, <3>1, <3>2, Zenon DEF EnsureVarint
    <3>. QED
      BY <3>3, <3>4
  <2>. QED
    BY <2>3, <2>4
<1>. QED
  BY <1>2, <1>3 DEF Agrees

LEMMA VarbuffAgrees ==
    ASSUME NEW short, NEW bytes, Begins(short, bytes), NEW a, NEW b, Agrees(short, a, b)
    PROVE  Agrees(short, EnsureVarbuff(short, a), EnsureVarbuff(bytes, b))
<1>. DEFINE v == EnsureVarint(short, a)
            u == EnsureVarint(bytes, b)
<1>1. /\ Agrees(short, v.end, u.end) /\ v.value \in Nat
      /\ v.end # Refused => u.value = v.value
  BY VarintAgrees
<1>. HIDE DEF u, v
<1>2. Agrees(short, Skip(short, v.end, v.value), Skip(bytes, u.end, v.value))
  BY <1>1, SkipAgrees
<1>3. EnsureVarbuff(short, a) = Skip(short, v.end, v.value)
      /\ EnsureVarbuff(bytes, b) = Skip(bytes, u.end, u.value)
  BY DEF EnsureVarbuff, u, v
<1>4. CASE v.end # Refused
  BY <1>1, <1>2, <1>3, <1>4
<1>5. CASE v.end = Refused
  BY <1>3, <1>5 DEF Skip, Agrees, Positions
<1>. QED
  BY <1>4, <1>5

LEMMA CommitmentAgrees ==
    ASSUME NEW short, NEW bytes, Begins(short, bytes), NEW a, NEW b, Agrees(short, a, b),
           NEW explicit \in {ExplicitLen, CtLen},
           NEW prefixes \in {ValuePrefixes, AssetPrefixes, NoncePrefixes}
    PROVE  Agrees(short, EnsureCommitment(short, a, explicit, prefixes),
                  EnsureCommitment(bytes, b, explicit, prefixes))
<1>. DEFINE prefix == Skip(short, a, 1)
            end == EnsureCommitment(short, a, explicit, prefixes)
<1>1. short \in Buffers /\ a \in Positions(short)
  BY DEF Begins, Agrees
<1>2. end \in Positions(short)
  BY <1>1, CommitmentReads DEF Reads
<1>3. explicit \in Nat /\ CtLen \in Nat
  BY SizesAssumption
<1>4. ASSUME end # Refused PROVE EnsureCommitment(bytes, b, explicit, prefixes) = end
  <2>1. prefix # Refused
    BY <1>4 DEF EnsureCommitment
  <2>2. Skip(bytes, b, 1) = prefix /\ short[prefix] = bytes[prefix]
    BY <2>1, ByteAgrees
  <2>3. /\ Agrees(short, Skip(short, a, explicit), Skip(bytes, b, explicit))
        /\ Agrees(short, Skip(short, a, CtLen), Skip(bytes, b, CtLen))
    BY <1>3, SkipAgrees
  <2>4. end = IF short[prefix] = EmptyPrefix THEN prefix
              ELSE IF short[prefix] = ExplicitPrefix THEN Skip(short, a, explicit)
              ELSE IF short[prefix] \in prefixes THEN Skip(short, a, CtLen) ELSE Refused
    BY <2>1 DEF EnsureCommitment
  <2>. HIDE DEF prefix, end
  <2>5. EnsureCommitment(bytes, b, explicit, prefixes)
            = IF short[prefix] = EmptyPrefix THEN prefix
              ELSE IF short[prefix] = ExplicitPrefix THEN Skip(bytes, b, explicit)
              ELSE IF short[prefix] \in prefixes THEN Skip(bytes, b, CtLen) ELSE Refused
    BY <2>1, <2>2 DEF EnsureCommitment
  <2>. QED
    BY <1>4, <2>3, <2>4, <2>5 DEF Agrees
<1>. QED
  BY <1>2, <1>4 DEF Agrees

LEMMA LoopAgrees ==
    ASSUME NEW short, NEW bytes, NEW a, NEW b, Agrees(short, a, b), NEW n \in Nat,
           NEW what, NEW el, NEW end, NEW read, NEW other, NEW readOther,
           Looped(what, short, a, n, el, end, read),
           Looped(what, bytes, b, n, el, other, readOther),
           \A q, r : Agrees(short, q, r) =>
              Agrees(short, Ensured(Ensuring(what, short, el), q),
                     Ensured(Ensuring(what, bytes, el), r))
    PROVE  Agrees(short, end, other)
<1>. DEFINE one == Ensuring(what, short, el)
            two == Ensuring(what, bytes, el)
<1>1. PICK g : Loops!IsLoop(one, a, g, n) /\ end = g[n]
  BY DEF Looped
<1>2. PICK h : Loops!IsLoop(two, b, h, n) /\ other = h[n]
  BY DEF Looped
<1>3. \A q : Did(one, q) = Ensured(one, q) /\ Did(two, q) = Ensured(two, q)
  <2>1. one.reads = FALSE /\ two.reads = FALSE
    BY DEF Ensuring
  <2>. HIDE DEF one, two
  <2>. QED
    BY <2>1 DEF Did
<1>4. \A q, r : Agrees(short, q, r) => Agrees(short, Ensured(one, q), Ensured(two, r))
  OBVIOUS
<1>. HIDE DEF one, two
<1>5. /\ g = [k \in 0..n |-> IF k = 0 THEN a ELSE Did(one, g[k - 1])]
      /\ h = [k \in 0..n |-> IF k = 0 THEN b ELSE Did(two, h[k - 1])]
  BY <1>1, <1>2 DEF Loops!IsLoop
<1>. DEFINE N == {k \in Nat : k <= n => Agrees(short, g[k], h[k])}
<1>6. 0 \in N
  BY <1>5
<1>7. ASSUME NEW k \in Nat, k \in N PROVE k + 1 \in N
  <2>. SUFFICES ASSUME k + 1 <= n PROVE Agrees(short, g[k + 1], h[k + 1])
    OBVIOUS
  <2>1. Agrees(short, g[k], h[k])
    BY <1>7
  <2>2. k + 1 \in 0..n /\ k + 1 # 0 /\ k + 1 - 1 = k
    OBVIOUS
  <2>3. g[k + 1] = Ensured(one, g[k]) /\ h[k + 1] = Ensured(two, h[k])
    BY <1>3, <1>5, <2>2
  <2>. QED
    BY <1>4, <2>1, <2>3
<1>. HIDE DEF N
<1>8. n \in N
  BY <1>6, <1>7, Sums!NaturalInduction
<1>. QED
  BY <1>1, <1>2, <1>8 DEF N

LEMMA ItemsAgree ==
    ASSUME NEW short, NEW bytes, Begins(short, bytes), NEW a, NEW b, Agrees(short, a, b),
           NEW n \in Nat
    PROVE  Agrees(short, EnsureItems(short, a, n), EnsureItems(bytes, b, n))
<1>1. /\ Looped("varbuff", short, a, n, FALSE, EnsureItems(short, a, n), ReadItems(short, a, n))
      /\ Looped("varbuff", bytes, b, n, FALSE, EnsureItems(bytes, b, n), ReadItems(bytes, b, n))
  BY ItemsLoop, Zenon
<1>2. \A q, r : /\ Ensured(Ensuring("varbuff", short, FALSE), q) = EnsureVarbuff(short, q)
                /\ Ensured(Ensuring("varbuff", bytes, FALSE), r) = EnsureVarbuff(bytes, r)
  BY DEF Ensured, Ensuring
<1>3. \A q, r : Agrees(short, q, r) =>
         Agrees(short, Ensured(Ensuring("varbuff", short, FALSE), q),
                Ensured(Ensuring("varbuff", bytes, FALSE), r))
  BY <1>2, VarbuffAgrees, Zenon
<1>. QED
  BY <1>1, <1>3, LoopAgrees, Zenon

LEMMA StackAgrees ==
    ASSUME NEW short, NEW bytes, Begins(short, bytes), NEW a, NEW b, Agrees(short, a, b)
    PROVE  Agrees(short, EnsureStack(short, a), EnsureStack(bytes, b))
<1>. DEFINE v == EnsureVarint(short, a)
            u == EnsureVarint(bytes, b)
<1>1. /\ Agrees(short, v.end, u.end) /\ v.value \in Nat
      /\ v.end # Refused => u.value = v.value
  BY VarintAgrees
<1>. HIDE DEF u, v
<1>2. Agrees(short, EnsureItems(short, v.end, v.value), EnsureItems(bytes, u.end, v.value))
  BY <1>1, ItemsAgree
<1>3. EnsureStack(short, a) = EnsureItems(short, v.end, v.value)
      /\ EnsureStack(bytes, b) = EnsureItems(bytes, u.end, u.value)
  BY DEF EnsureStack, u, v
<1>4. CASE v.end # Refused
  BY <1>1, <1>2, <1>3, <1>4
<1>5. CASE v.end = Refused
  <2>1. EnsureItems(short, v.end, v.value) = Refused
    <3>1. short \in Buffers /\ v.end \in Positions(short)
      BY <1>1 DEF Begins, Agrees
    <3>2. Reads(short, v.end, EnsureItems(short, v.end, v.value),
                ReadItems(short, v.end, v.value), Several(Buffers, v.value))
      BY <1>1, <3>1, ItemsRead
    <3>. QED
      BY <1>5, <3>2 DEF Reads
  <2>. QED
    BY <1>3, <2>1 DEF Agrees, Positions
<1>. QED
  BY <1>4, <1>5

LEMMA InputWitnessAgrees ==
    ASSUME NEW short, NEW bytes, Begins(short, bytes), NEW a, NEW b, Agrees(short, a, b)
    PROVE  Agrees(short, EnsureInputWitness(short, a), EnsureInputWitness(bytes, b))
<1>. DEFINE a1 == EnsureVarbuff(short, a)
            b1 == EnsureVarbuff(bytes, b)
            a2 == EnsureVarbuff(short, a1)
            b2 == EnsureVarbuff(bytes, b1)
            a3 == EnsureStack(short, a2)
            b3 == EnsureStack(bytes, b2)
            a4 == EnsureStack(short, a3)
            b4 == EnsureStack(bytes, b3)
<1>1. Agrees(short, a1, b1)
  BY VarbuffAgrees
<1>. HIDE DEF a1, b1
<1>2. Agrees(short, a2, b2)
  BY <1>1, VarbuffAgrees
<1>. HIDE DEF a2, b2
<1>3. Agrees(short, a3, b3)
  BY <1>2, StackAgrees
<1>. HIDE DEF a3, b3
<1>4. Agrees(short, a4, b4)
  BY <1>3, StackAgrees
<1>. QED
  BY <1>4 DEF EnsureInputWitness, a1, a2, a3, b1, b2, b3

LEMMA ProofsAgree ==
    ASSUME NEW short, NEW bytes, Begins(short, bytes), NEW a, NEW b, Agrees(short, a, b)
    PROVE  Agrees(short, EnsureProofs(short, a), EnsureProofs(bytes, b))
<1>. DEFINE a1 == EnsureVarbuff(short, a)
            b1 == EnsureVarbuff(bytes, b)
<1>1. Agrees(short, a1, b1)
  BY VarbuffAgrees
<1>. HIDE DEF a1, b1
<1>2. Agrees(short, EnsureVarbuff(short, a1), EnsureVarbuff(bytes, b1))
  BY <1>1, VarbuffAgrees
<1>. QED
  BY <1>2 DEF EnsureProofs, a1, b1

LEMMA ValueAgrees ==
    ASSUME NEW short, NEW bytes, Begins(short, bytes), NEW a, NEW b, Agrees(short, a, b)
    PROVE  Agrees(short, EnsureValue(short, a), EnsureValue(bytes, b))
BY CommitmentAgrees DEF EnsureValue

LEMMA OutputAgrees ==
    ASSUME NEW short, NEW bytes, Begins(short, bytes), NEW a, NEW b, Agrees(short, a, b),
           NEW el \in BOOLEAN
    PROVE  Agrees(short, EnsureOutput(short, a, el), EnsureOutput(bytes, b, el))
<1>. DEFINE a1 == EnsureCommitment(short, a, CtLen, AssetPrefixes)
            b1 == EnsureCommitment(bytes, b, CtLen, AssetPrefixes)
            a2 == EnsureValue(short, a1)
            b2 == EnsureValue(bytes, b1)
            a3 == IF el THEN EnsureCommitment(short, a2, CtLen, NoncePrefixes)
                  ELSE Skip(short, a, 1)
            b3 == IF el THEN EnsureCommitment(bytes, b2, CtLen, NoncePrefixes)
                  ELSE Skip(bytes, b, 1)
<1>1. Agrees(short, a1, b1)
  BY CommitmentAgrees
<1>. HIDE DEF a1, b1
<1>2. Agrees(short, a2, b2)
  BY <1>1, ValueAgrees
<1>. HIDE DEF a2, b2
<1>3. /\ Agrees(short, EnsureCommitment(short, a2, CtLen, NoncePrefixes),
                EnsureCommitment(bytes, b2, CtLen, NoncePrefixes))
      /\ Agrees(short, Skip(short, a, 1), Skip(bytes, b, 1))
  BY <1>2, CommitmentAgrees, SkipAgrees
<1>4. Agrees(short, a3, b3)
  BY <1>3
<1>5. EnsureOutput(short, a, el) = EnsureVarbuff(short, a3)
      /\ EnsureOutput(bytes, b, el) = EnsureVarbuff(bytes, b3)
  BY DEF EnsureOutput, a1, a2, b1, b2
<1>. HIDE DEF a3, b3
<1>6. Agrees(short, EnsureVarbuff(short, a3), EnsureVarbuff(bytes, b3))
  BY <1>4, VarbuffAgrees
<1>. QED
  BY <1>5, <1>6

LEMMA InputAgrees ==
    ASSUME NEW short, NEW bytes, Begins(short, bytes), NEW a, NEW b, Agrees(short, a, b),
           NEW el \in BOOLEAN
    PROVE  Agrees(short, EnsureInput(short, a, el), EnsureInput(bytes, b, el))
<1>. DEFINE a1 == Skip(short, a, 2)
            b1 == Skip(bytes, b, 2)
            a2 == EnsureVarbuff(short, a1)
            b2 == EnsureVarbuff(bytes, b1)
            a3 == Skip(short, a2, 1)
            b3 == Skip(bytes, b2, 1)
            a4 == Skip(short, a3, 2)
            b4 == Skip(bytes, b3, 2)
            a5 == EnsureValue(short, a4)
            b5 == EnsureValue(bytes, b4)
            a6 == EnsureValue(short, a5)
            b6 == EnsureValue(bytes, b5)
<1>1. /\ a1 # Refused => /\ b1 = a1 /\ b1 # Refused /\ a \in Nat /\ b = a
                         /\ short[a + 1] = bytes[a + 1] /\ short[a1] = bytes[a1]
      /\ Agrees(short, a1, b1)
  <2>1. Agrees(short, a1, b1)
    BY SkipAgrees
  <2>2. ASSUME a1 # Refused
        PROVE  /\ b1 = a1 /\ a \in Nat /\ b = a /\ short[a1] = bytes[a1]
               /\ short[a + 1] = bytes[a + 1]
    <3>1. /\ b1 = a1 /\ short[a1] = bytes[a1] /\ a \in Nat /\ b = a
          /\ \A i \in 1..2 : short[a + i] = bytes[a + i]
      BY <2>2, ByteAgrees
    <3>. QED
      BY <3>1
  <2>. QED
    BY <2>1, <2>2
<1>. DEFINE issuance == /\ el /\ Flagged(short[a1], IssuanceFlag)
                        /\ ~IsCoinbase(short[a + 1], short[a1])
<1>2. EnsureInput(short, a, el) = IF a1 = Refused THEN Refused ELSE IF issuance THEN a6 ELSE a3
  BY DEF EnsureInput
<1>3. a1 # Refused => EnsureInput(bytes, b, el) = IF issuance THEN b6 ELSE b3
  <2>. HIDE DEF a1
  <2>1. EnsureInput(bytes, b, el)
        = IF b1 = Refused THEN Refused
          ELSE IF el /\ Flagged(bytes[b1], IssuanceFlag) /\ ~IsCoinbase(bytes[b + 1], bytes[b1])
          THEN b6 ELSE b3
    BY DEF EnsureInput
  <2>. HIDE DEF b1, b6, b3
  <2>. QED
    BY <1>1, <2>1
<1>. HIDE DEF a1, b1
<1>4. Agrees(short, a2, b2)
  BY <1>1, VarbuffAgrees
<1>. HIDE DEF a2, b2
<1>5. Agrees(short, a3, b3)
  BY <1>4, SkipAgrees
<1>. HIDE DEF a3, b3
<1>6. Agrees(short, a4, b4)
  BY <1>5, SkipAgrees
<1>. HIDE DEF a4, b4
<1>7. Agrees(short, a5, b5)
  BY <1>6, ValueAgrees
<1>. HIDE DEF a5, b5
<1>8. Agrees(short, a6, b6)
  BY <1>7, ValueAgrees
<1>. HIDE DEF a6, b6, issuance
<1>9. CASE a1 = Refused
  BY <1>2, <1>9 DEF Agrees, Positions
<1>10. CASE a1 # Refused
  BY <1>2, <1>3, <1>5, <1>8, <1>10
<1>. QED
  BY <1>9, <1>10

LEMMA InputsAgree ==
    ASSUME NEW short, NEW bytes, Begins(short, bytes), NEW a, NEW b, Agrees(short, a, b),
           NEW n \in Nat, NEW el \in BOOLEAN
    PROVE  Agrees(short, EnsureInputs(short, a, n, el), EnsureInputs(bytes, b, n, el))
<1>1. /\ Looped("input", short, a, n, el,
                EnsureInputs(short, a, n, el), ReadInputs(short, a, n, el))
      /\ Looped("input", bytes, b, n, el,
                EnsureInputs(bytes, b, n, el), ReadInputs(bytes, b, n, el))
  BY InputsLoop
<1>2. \A q, r : /\ Ensured(Ensuring("input", short, el), q) = EnsureInput(short, q, el)
                /\ Ensured(Ensuring("input", bytes, el), r) = EnsureInput(bytes, r, el)
  BY DEF Ensured, Ensuring
<1>3. \A q, r : Agrees(short, q, r) =>
         Agrees(short, Ensured(Ensuring("input", short, el), q),
                Ensured(Ensuring("input", bytes, el), r))
  BY <1>2, InputAgrees
<1>. QED
  BY <1>1, <1>3, LoopAgrees

LEMMA OutputsAgree ==
    ASSUME NEW short, NEW bytes, Begins(short, bytes), NEW a, NEW b, Agrees(short, a, b),
           NEW n \in Nat, NEW el \in BOOLEAN
    PROVE  Agrees(short, EnsureOutputs(short, a, n, el), EnsureOutputs(bytes, b, n, el))
<1>1. /\ Looped("output", short, a, n, el,
                EnsureOutputs(short, a, n, el), ReadOutputs(short, a, n, el))
      /\ Looped("output", bytes, b, n, el,
                EnsureOutputs(bytes, b, n, el), ReadOutputs(bytes, b, n, el))
  BY OutputsLoop
<1>2. \A q, r : /\ Ensured(Ensuring("output", short, el), q) = EnsureOutput(short, q, el)
                /\ Ensured(Ensuring("output", bytes, el), r) = EnsureOutput(bytes, r, el)
  BY DEF Ensured, Ensuring
<1>3. \A q, r : Agrees(short, q, r) =>
         Agrees(short, Ensured(Ensuring("output", short, el), q),
                Ensured(Ensuring("output", bytes, el), r))
  BY <1>2, OutputAgrees
<1>. QED
  BY <1>1, <1>3, LoopAgrees

LEMMA StacksAgree ==
    ASSUME NEW short, NEW bytes, Begins(short, bytes), NEW a, NEW b, Agrees(short, a, b),
           NEW n \in Nat
    PROVE  Agrees(short, EnsureStacks(short, a, n), EnsureStacks(bytes, b, n))
<1>1. /\ Looped("stack", short, a, n, FALSE,
                EnsureStacks(short, a, n), ReadStacks(short, a, n))
      /\ Looped("stack", bytes, b, n, FALSE,
                EnsureStacks(bytes, b, n), ReadStacks(bytes, b, n))
  BY StacksLoop, Zenon
<1>2. \A q, r : /\ Ensured(Ensuring("stack", short, FALSE), q) = EnsureStack(short, q)
                /\ Ensured(Ensuring("stack", bytes, FALSE), r) = EnsureStack(bytes, r)
  BY DEF Ensured, Ensuring
<1>3. \A q, r : Agrees(short, q, r) =>
         Agrees(short, Ensured(Ensuring("stack", short, FALSE), q),
                Ensured(Ensuring("stack", bytes, FALSE), r))
  BY <1>2, StackAgrees, Zenon
<1>. QED
  BY <1>1, <1>3, LoopAgrees, Zenon

LEMMA InputWitnessesAgree ==
    ASSUME NEW short, NEW bytes, Begins(short, bytes), NEW a, NEW b, Agrees(short, a, b),
           NEW n \in Nat
    PROVE  Agrees(short, EnsureInputWitnesses(short, a, n), EnsureInputWitnesses(bytes, b, n))
<1>1. /\ Looped("witness", short, a, n, FALSE,
                EnsureInputWitnesses(short, a, n), ReadInputWitnesses(short, a, n))
      /\ Looped("witness", bytes, b, n, FALSE,
                EnsureInputWitnesses(bytes, b, n), ReadInputWitnesses(bytes, b, n))
  BY InputWitnessesLoop, Zenon
<1>2. \A q, r : /\ Ensured(Ensuring("witness", short, FALSE), q) = EnsureInputWitness(short, q)
                /\ Ensured(Ensuring("witness", bytes, FALSE), r) = EnsureInputWitness(bytes, r)
  BY DEF Ensured, Ensuring
<1>3. \A q, r : Agrees(short, q, r) =>
         Agrees(short, Ensured(Ensuring("witness", short, FALSE), q),
                Ensured(Ensuring("witness", bytes, FALSE), r))
  BY <1>2, InputWitnessAgrees, Zenon
<1>. QED
  BY <1>1, <1>3, LoopAgrees, Zenon

LEMMA AllProofsAgree ==
    ASSUME NEW short, NEW bytes, Begins(short, bytes), NEW a, NEW b, Agrees(short, a, b),
           NEW n \in Nat
    PROVE  Agrees(short, EnsureAllProofs(short, a, n), EnsureAllProofs(bytes, b, n))
<1>1. /\ Looped("proofs", short, a, n, FALSE,
                EnsureAllProofs(short, a, n), ReadAllProofs(short, a, n))
      /\ Looped("proofs", bytes, b, n, FALSE,
                EnsureAllProofs(bytes, b, n), ReadAllProofs(bytes, b, n))
  BY AllProofsLoop, Zenon
<1>2. \A q, r : /\ Ensured(Ensuring("proofs", short, FALSE), q) = EnsureProofs(short, q)
                /\ Ensured(Ensuring("proofs", bytes, FALSE), r) = EnsureProofs(bytes, r)
  BY DEF Ensured, Ensuring
<1>3. \A q, r : Agrees(short, q, r) =>
         Agrees(short, Ensured(Ensuring("proofs", short, FALSE), q),
                Ensured(Ensuring("proofs", bytes, FALSE), r))
  BY <1>2, ProofsAgree, Zenon
<1>. QED
  BY <1>1, <1>3, LoopAgrees, Zenon

LEMMA RestAgrees ==
    ASSUME NEW short, NEW bytes, Begins(short, bytes), NEW a, NEW b, Agrees(short, a, b),
           NEW ins \in Nat, NEW outs \in Nat, NEW el \in BOOLEAN, NEW w \in BOOLEAN
    PROVE  Agrees(short, EnsureRest(short, a, ins, outs, el, w),
                  EnsureRest(bytes, b, ins, outs, el, w))
<1>1. Agrees(short, Skip(short, a, 1), Skip(bytes, b, 1))
  BY SkipAgrees
<1>2. CASE ~w
  BY <1>1, <1>2 DEF EnsureRest
<1>3. CASE w /\ ~el
  <2>. DEFINE a1 == EnsureStacks(short, a, ins)
              b1 == EnsureStacks(bytes, b, ins)
  <2>1. Agrees(short, a1, b1)
    BY StacksAgree
  <2>2. EnsureRest(short, a, ins, outs, el, w) = Skip(short, a1, 1)
        /\ EnsureRest(bytes, b, ins, outs, el, w) = Skip(bytes, b1, 1)
    BY <1>3 DEF EnsureRest
  <2>. HIDE DEF a1, b1
  <2>3. Agrees(short, Skip(short, a1, 1), Skip(bytes, b1, 1))
    BY <2>1, SkipAgrees
  <2>. QED
    BY <2>2, <2>3
<1>4. CASE w /\ el
  <2>. DEFINE a1 == Skip(short, a, 1)
              b1 == Skip(bytes, b, 1)
              a2 == EnsureInputWitnesses(short, a1, ins)
              b2 == EnsureInputWitnesses(bytes, b1, ins)
              a3 == EnsureAllProofs(short, a2, outs)
              b3 == EnsureAllProofs(bytes, b2, outs)
  <2>1. EnsureRest(short, a, ins, outs, el, w) = a3
        /\ EnsureRest(bytes, b, ins, outs, el, w) = b3
    BY <1>4 DEF EnsureRest
  <2>2. Agrees(short, a1, b1)
    BY <1>1
  <2>. HIDE DEF a1, b1
  <2>3. Agrees(short, a2, b2)
    BY <2>2, InputWitnessesAgree
  <2>. HIDE DEF a2, b2
  <2>4. Agrees(short, a3, b3)
    BY <2>3, AllProofsAgree
  <2>. HIDE DEF a3, b3
  <2>. QED
    BY <2>1, <2>4
<1>. QED
  BY <1>2, <1>3, <1>4

LEMMA PartsAgree ==
    ASSUME NEW short, NEW bytes, Begins(short, bytes), NEW a, NEW b, Agrees(short, a, b),
           NEW el \in BOOLEAN, NEW w \in BOOLEAN
    PROVE  /\ Agrees(short, AnalyzeInputs(short, el, w, EnsureVarint(short, a)).end,
                     AnalyzeInputs(bytes, el, w, EnsureVarint(bytes, b)).end)
           /\ AnalyzeInputs(short, el, w, EnsureVarint(short, a)).end # Refused => a # Refused
<1>. DEFINE v == EnsureVarint(short, a)
            u == EnsureVarint(bytes, b)
            x == EnsureInputs(short, v.end, v.value, el)
            y == EnsureInputs(bytes, u.end, v.value, el)
            vo == EnsureVarint(short, x)
            uo == EnsureVarint(bytes, y)
            xo == EnsureOutputs(short, vo.end, vo.value, el)
            yo == EnsureOutputs(bytes, uo.end, vo.value, el)
            xe == EnsureRest(short, xo, v.value, vo.value, el, w)
            ye == EnsureRest(bytes, yo, v.value, vo.value, el, w)
<1>1. short \in Buffers /\ a \in Positions(short)
  BY DEF Begins, Agrees
<1>2. /\ Agrees(short, v.end, u.end) /\ v.value \in Nat
      /\ v.end # Refused => u.value = v.value
      /\ v.end # Refused => a # Refused
  BY <1>1, VarintAgrees, VarintReads DEF Reads
<1>3. AnalyzeInputs(short, el, w, v).end = xe
  BY DEF AnalyzeInputs, AnalyzeOutputs
<1>4. u.value = v.value /\ uo.value = vo.value => AnalyzeInputs(bytes, el, w, u).end = ye
  <2>1. AnalyzeInputs(bytes, el, w, u)
        = AnalyzeOutputs(bytes, el, w, u.value,
                         EnsureVarint(bytes, EnsureInputs(bytes, u.end, u.value, el)))
    BY DEF AnalyzeInputs
  <2>2. AnalyzeOutputs(bytes, el, w, v.value, uo).end
        = EnsureRest(bytes, EnsureOutputs(bytes, uo.end, uo.value, el), v.value, uo.value, el, w)
    BY DEF AnalyzeOutputs
  <2>. HIDE DEF u, v, vo
  <2>. QED
    BY <2>1, <2>2
<1>. HIDE DEF u, v
<1>5. Agrees(short, x, y) /\ (x # Refused => v.end # Refused)
  <2>1. v.end \in Positions(short)
    BY <1>2 DEF Agrees
  <2>2. Reads(short, v.end, x, ReadInputs(short, v.end, v.value, el),
              Several(ShapedInputs(el), v.value))
    BY <1>1, <1>2, <2>1, InputsRead
  <2>. QED
    BY <1>2, <2>2, InputsAgree DEF Reads
<1>. HIDE DEF x, y
<1>6. /\ Agrees(short, vo.end, uo.end) /\ vo.value \in Nat
      /\ vo.end # Refused => uo.value = vo.value
      /\ vo.end # Refused => x # Refused
  <2>1. x \in Positions(short)
    BY <1>5 DEF Agrees
  <2>. QED
    BY <1>1, <1>5, <2>1, VarintAgrees, VarintReads DEF Reads
<1>. HIDE DEF vo, uo
<1>7. Agrees(short, xo, yo) /\ (xo # Refused => vo.end # Refused)
  <2>1. vo.end \in Positions(short)
    BY <1>6 DEF Agrees
  <2>2. Reads(short, vo.end, xo, ReadOutputs(short, vo.end, vo.value, el),
              Several(OutputArgSet(el), vo.value))
    BY <1>1, <1>6, <2>1, OutputsRead
  <2>. QED
    BY <1>6, <2>2, OutputsAgree DEF Reads
<1>. HIDE DEF xo, yo
<1>8. Agrees(short, xe, ye) /\ (xe # Refused => xo # Refused)
  <2>1. xo \in Positions(short)
    BY <1>7 DEF Agrees
  <2>2. Follows(short, xo, xe)
    BY <1>1, <1>2, <1>6, <2>1, RestFollows
  <2>. QED
    BY <1>2, <1>6, <1>7, <2>2, RestAgrees DEF Follows
<1>. HIDE DEF xe, ye
<1>9. CASE xe = Refused
  BY <1>3, <1>9 DEF Agrees, Positions, v
<1>10. CASE xe # Refused
  <2>1. /\ xo # Refused /\ vo.end # Refused /\ x # Refused /\ v.end # Refused /\ a # Refused
    BY <1>2, <1>5, <1>6, <1>7, <1>8, <1>10
  <2>2. u.value = v.value /\ uo.value = vo.value
    BY <1>2, <1>6, <2>1
  <2>3. AnalyzeInputs(bytes, el, w, u).end = ye
    BY <1>4, <2>2
  <2>. QED
    BY <1>3, <1>8, <2>1, <2>3 DEF u, v
<1>. QED
  BY <1>9, <1>10

LEMMA HeaderAgrees ==
    ASSUME NEW short, NEW bytes, Begins(short, bytes), NEW f, Header(short, f).end # Refused
    PROVE  Header(bytes, f) = Header(short, f)
<1>1. Len(short) \in Nat /\ Len(bytes) \in Nat /\ Len(short) <= Len(bytes)
  BY LengthIsNatural DEF Begins
<1>2. ~(Len(short) < 3) /\ ~({"USE_ELEMENTS", "PRE_BIP144"} \subseteq f)
  BY DEF Header
<1>3. ~(Len(bytes) < 3)
  BY <1>1, <1>2
<1>4. bytes[2] = short[2] /\ bytes[3] = short[3]
  BY <1>1, <1>2 DEF Begins
<1>. QED
  BY <1>2, <1>3, <1>4 DEF Header

LEMMA AnalyzeAgrees ==
    ASSUME NEW short, NEW bytes, Begins(short, bytes), NEW f \in AllReadFlags,
           Analyze(short, f).end # Refused
    PROVE  Analyze(bytes, f).end = Analyze(short, f).end
<1>. DEFINE el == "USE_ELEMENTS" \in f
            w == Header(short, f).witness
            a == Header(short, f).end
            b == Header(bytes, f).end
<1>1. short \in Buffers
  BY DEF Begins
<1>2. a \in Positions(short) /\ w \in BOOLEAN
  BY <1>1, HeaderEnds
<1>3. el \in BOOLEAN
  OBVIOUS
<1>4. Analyze(short, f) = AnalyzeInputs(short, el, w, EnsureVarint(short, a))
  BY DEF Analyze
<1>5. Analyze(bytes, f) = AnalyzeInputs(bytes, el, Header(bytes, f).witness, EnsureVarint(bytes, b))
  BY DEF Analyze
<1>6. Agrees(short, a, b)
  BY <1>2, HeaderAgrees DEF Agrees
<1>7. a # Refused => Header(bytes, f).witness = w
  BY HeaderAgrees
<1>. HIDE DEF el, a, b, w
<1>8. /\ Agrees(short, AnalyzeInputs(short, el, w, EnsureVarint(short, a)).end,
                AnalyzeInputs(bytes, el, w, EnsureVarint(bytes, b)).end)
      /\ AnalyzeInputs(short, el, w, EnsureVarint(short, a)).end # Refused => a # Refused
  BY <1>2, <1>3, <1>6, PartsAgree
<1>9. a # Refused
  BY <1>4, <1>8
<1>10. Header(bytes, f).witness = w
  BY <1>7, <1>9
<1>11. Analyze(bytes, f) = AnalyzeInputs(bytes, el, w, EnsureVarint(bytes, b))
  BY <1>5, <1>10
<1>. QED
  BY <1>4, <1>8, <1>11 DEF Agrees

(* A part is not taken for the whole.                                      *)
LEMMA CutIsRefused ==
    ASSUME NEW el \in BOOLEAN, NEW t \in ShapedTxs(el), IsElements(t) = el, Clear(t),
           NEW flags, NEW f \in ReadFlags(t, flags),
           NEW n \in Nat, n < Len(ToBytes(t, flags))
    PROVE  Analyze(SubSeq(ToBytes(t, flags), 1, n), f).end = Refused
<1>. DEFINE bytes == ToBytes(t, flags)
            short == SubSeq(bytes, 1, n)
<1>1. bytes \in Buffers
  BY ShapesAreTxs, ToBytesLength
<1>2. Analyze(bytes, f).end = Len(bytes)
  BY WrittenIsRead DEF ReadBack
<1>3. f \in AllReadFlags
  BY DEF ReadFlags, AllReadFlags
<1>4. n < Len(bytes)
  OBVIOUS
<1>. HIDE DEF bytes
<1>5. Len(bytes) \in Nat
  BY <1>1, LengthIsNatural
<1>6. /\ short \in Buffers /\ Len(short) = n
      /\ \A i \in 1..n : short[i] = bytes[i]
  <2>1. 1 \in 1..Len(bytes) + 1 /\ n \in 0..Len(bytes)
    BY <1>4, <1>5
  <2>. QED
    BY <1>1, <1>4, <1>5, <2>1, SubSeqProperties DEF Buffers
<1>. HIDE DEF short
<1>7. Begins(short, bytes)
  BY <1>1, <1>4, <1>5, <1>6 DEF Begins
<1>8. ASSUME Analyze(short, f).end # Refused PROVE FALSE
  <2>1. Analyze(bytes, f).end = Analyze(short, f).end
    BY <1>3, <1>7, <1>8, AnalyzeAgrees
  <2>2. Analyze(short, f).end \in Positions(short)
    BY <1>3, <1>6, Parsed DEF IsParsed
  <2>. QED
    BY <1>2, <1>4, <1>5, <1>6, <1>8, <2>1, <2>2 DEF Positions
<1>. QED
  BY <1>8 DEF short, bytes

(* A transaction without inputs and outputs may belong to any network, and *)
(* is written as one of Bitcoin.                                           *)
LEMMA ShapedAsItIs ==
    ASSUME NEW el \in BOOLEAN, NEW t \in ShapedTxs(el)
    PROVE  /\ IsElements(t) \in BOOLEAN /\ t \in ShapedTxs(IsElements(t))
           /\ t.inputs # <<>> \/ t.outputs # <<>> => IsElements(t) = el
<1>1. /\ t.inputs \in Seq(ShapedInputs(el)) /\ t.outputs \in Seq(ShapedOutputs(el))
  BY DEF ShapedTxs
<1>2. \A i \in DOMAIN t.inputs : IsElementsPart(t.inputs[i]) <=> el
  <2>. TAKE i \in DOMAIN t.inputs
  <2>1. t.inputs[i] \in ShapedInputs(el)
    BY <1>1, ElementOfSeq
  <2>. QED
    BY <2>1 DEF ShapedInputs, InputShape, IsElementsPart
<1>3. \A i \in DOMAIN t.outputs : IsElementsPart(t.outputs[i]) <=> el
  <2>. TAKE i \in DOMAIN t.outputs
  <2>1. t.outputs[i] \in ShapedOutputs(el)
    BY <1>1, ElementOfSeq
  <2>2. t.outputs[i].features = FeatureIf("ELEMENTS", el)
    BY <2>1 DEF ShapedOutputs, OutputSet
  <2>. QED
    BY <2>2 DEF IsElementsPart, FeatureIf
<1>4. IsElements(t) \in BOOLEAN
  BY DEF IsElements
<1>5. CASE t.inputs # <<>> \/ t.outputs # <<>>
  <2>1. t.inputs # <<>> => 1 \in DOMAIN t.inputs
    BY <1>1
  <2>2. t.outputs # <<>> => 1 \in DOMAIN t.outputs
    BY <1>1
  <2>3. IsElements(t) <=> el
    BY <1>2, <1>3, <1>5, <2>1, <2>2 DEF IsElements
  <2>4. IsElements(t) = el
    BY <1>4, <2>3
  <2>. QED
    BY <2>4
<1>6. CASE t.inputs = <<>> /\ t.outputs = <<>>
  <2>1. IsElements(t) = FALSE
    BY <1>6 DEF IsElements
  <2>2. t \in ShapedTxs(FALSE)
    <3>1. /\ t = [version |-> t.version, locktime |-> t.locktime, inputs |-> <<>>,
                   outputs |-> <<>>]
          /\ t.version \in Nat /\ t.locktime \in Nat
      BY <1>6 DEF ShapedTxs
    <3>2. <<>> \in Seq(ShapedInputs(FALSE)) /\ <<>> \in Seq(ShapedOutputs(FALSE))
      OBVIOUS
    <3>3. [version |-> t.version, locktime |-> t.locktime, inputs |-> <<>>, outputs |-> <<>>]
          \in ShapedTxs(FALSE)
      BY <3>1, <3>2 DEF ShapedTxs
    <3>. QED
      BY <3>1, <3>3, Zenon
  <2>. QED
    BY <1>6, <2>1, <2>2, Zenon
<1>. QED
  BY <1>5, <1>6

LEMMA AnyRoundTrips ==
    ASSUME NEW el \in BOOLEAN, NEW t \in ShapedTxs(el)
    PROVE  CanRoundTrip(t)
<1>. SUFFICES ASSUME Unambiguous(t), NEW flags \in WriteFlags, NEW f \in ReadFlags(t, flags)
              PROVE  ReadBack(ToBytes(t, flags), f, Kept(t, flags))
  BY DEF CanRoundTrip, RoundTrips
<1>. DEFINE e == IsElements(t)
<1>1. e \in BOOLEAN /\ t \in ShapedTxs(e) /\ IsElements(t) = e
  BY ShapedAsItIs
<1>2. Clear(t)
  BY UnambiguousIsClear
<1>. HIDE DEF e
<1>. QED
  BY <1>1, <1>2, WrittenIsRead

(* Of the flags the bytes show whether there are witnesses.                *)
LEMMA FlagsShown ==
    ASSUME NEW t, NEW flags
    PROVE  /\ ToBytes(t, flags) = ToBytes(t, flags \cap {"USE_WITNESS"})
           /\ ReadFlags(t, flags) = ReadFlags(t, flags \cap {"USE_WITNESS"})
<1>1. WritesWitness(t, flags) = WritesWitness(t, flags \cap {"USE_WITNESS"})
  BY DEF WritesWitness
<1>. QED
  BY <1>1, Zenon DEF ToBytes, ReadFlags

-----------------------------------------------------------------------------
(* The transaction under the caller's calls.                               *)

LEMMA InsertAndRemove ==
    ASSUME NEW S, NEW s \in Seq(S)
    PROVE  /\ \A i \in 1..Len(s) + 1, e \in S : InsertAt(s, i, e) \in Seq(S)
           /\ \A i \in 1..Len(s) : RemoveAt(s, i) \in Seq(S)
<1>1. Len(s) \in Nat
  BY LenProperties
<1>2. \A m, n \in Int : 1 <= m /\ n <= Len(s) => SubSeq(s, m, n) \in Seq(S)
  BY SubSeqProperties
<1>3. ASSUME NEW i \in 1..Len(s) + 1, NEW e \in S PROVE InsertAt(s, i, e) \in Seq(S)
  <2>1. SubSeq(s, 1, i - 1) \in Seq(S) /\ SubSeq(s, i, Len(s)) \in Seq(S)
    BY <1>1, <1>2
  <2>2. <<e>> \in Seq(S)
    OBVIOUS
  <2>. QED
    BY <2>1, <2>2, ConcatProperties DEF InsertAt
<1>4. ASSUME NEW i \in 1..Len(s) PROVE RemoveAt(s, i) \in Seq(S)
  <2>1. SubSeq(s, 1, i - 1) \in Seq(S) /\ SubSeq(s, i + 1, Len(s)) \in Seq(S)
    BY <1>1, <1>2
  <2>. QED
    BY <2>1, ConcatProperties DEF RemoveAt
<1>. QED
  BY <1>3, <1>4

LEMMA TypeIsInductive == TypeOK /\ [Next]_vars => TypeOK'
<1>. SUFFICES ASSUME TypeOK, [Next]_vars PROVE TypeOK'
  OBVIOUS
<1>1. /\ elements \in BOOLEAN /\ tx \in TxSet
      /\ tx.inputs \in Seq(InputSet) /\ tx.outputs \in Seq(Outputs)
  BY DEF TypeOK, TxSet, Outputs
<1>2. /\ \A inputs \in Seq(InputSet) : [tx EXCEPT !.inputs = inputs] \in TxSet
      /\ \A outputs \in Seq(Outputs) : [tx EXCEPT !.outputs = outputs] \in TxSet
  BY <1>1 DEF TxSet, Outputs
<1>3. ASSUME NEW i \in 1..MaxInputs, NEW a \in InputArgs[elements], NEW raw \in BOOLEAN,
             AddInput(i, a, raw)
      PROVE  TypeOK'
  <2>. DEFINE in == IF raw THEN RawInput(a, elements) ELSE InitInput(a, elements)
              inputs == InsertAt(tx.inputs, i, in)
  <2>1. in \in InputSet
    BY <1>1, ArgsAssumption, InputMade, ShapesAreInputs
  <2>2. /\ i \in 1..Len(tx.inputs) + 1 /\ UNCHANGED <<elements, wire>>
        /\ tx' = [tx EXCEPT !.inputs = inputs]
    BY <1>3, Zenon DEF AddInput
  <2>. HIDE DEF in
  <2>3. inputs \in Seq(InputSet)
    BY <1>1, <2>1, <2>2, InsertAndRemove
  <2>. HIDE DEF inputs
  <2>4. tx' \in TxSet
    BY <1>2, <2>2, <2>3, Zenon
  <2>. QED
    BY <2>2, <2>4 DEF TypeOK
<1>4. ASSUME NEW i \in 1..Len(tx.inputs), RemoveInput(i) PROVE TypeOK'
  <2>. DEFINE inputs == RemoveAt(tx.inputs, i)
  <2>1. /\ UNCHANGED <<elements, wire>> /\ tx' = [tx EXCEPT !.inputs = inputs]
    BY <1>4, Zenon DEF RemoveInput
  <2>2. inputs \in Seq(InputSet)
    BY <1>1, InsertAndRemove
  <2>. HIDE DEF inputs
  <2>3. tx' \in TxSet
    BY <1>2, <2>1, <2>2, Zenon
  <2>. QED
    BY <2>1, <2>3 DEF TypeOK
<1>5. ASSUME NEW i \in 1..MaxOutputs, NEW a \in OutputArgs[elements], AddOutput(i, a)
      PROVE  TypeOK'
  <2>. DEFINE outputs == InsertAt(tx.outputs, i, MakeOutput(a, elements))
  <2>1. MakeOutput(a, elements) \in Outputs
    BY <1>1, <1>5, ArgsAssumption, OutputMade, ShapesAreTxs DEF AddOutput
  <2>2. /\ i \in 1..Len(tx.outputs) + 1 /\ UNCHANGED <<elements, wire>>
        /\ tx' = [tx EXCEPT !.outputs = outputs]
    BY <1>5, Zenon DEF AddOutput
  <2>3. outputs \in Seq(Outputs)
    BY <1>1, <2>1, <2>2, InsertAndRemove
  <2>. HIDE DEF outputs
  <2>4. tx' \in TxSet
    BY <1>2, <2>2, <2>3, Zenon
  <2>. QED
    BY <2>2, <2>4 DEF TypeOK
<1>6. ASSUME NEW i \in 1..Len(tx.outputs), RemoveOutput(i) PROVE TypeOK'
  <2>. DEFINE outputs == RemoveAt(tx.outputs, i)
  <2>1. /\ UNCHANGED <<elements, wire>> /\ tx' = [tx EXCEPT !.outputs = outputs]
    BY <1>6, Zenon DEF RemoveOutput
  <2>2. outputs \in Seq(Outputs)
    BY <1>1, InsertAndRemove
  <2>. HIDE DEF outputs
  <2>3. tx' \in TxSet
    BY <1>2, <2>1, <2>2, Zenon
  <2>. QED
    BY <2>1, <2>3 DEF TypeOK
<1>7. ASSUME NEW i \in 1..Len(tx.inputs), NEW stack \in Stacks, SetInputWitness(i, stack)
      PROVE  TypeOK'
  <2>. DEFINE in == [tx.inputs[i] EXCEPT !.witness = stack]
              inputs == [tx.inputs EXCEPT ![i] = in]
  <2>1. /\ UNCHANGED <<elements, wire>> /\ tx' = [tx EXCEPT !.inputs = inputs]
    BY <1>7, Zenon DEF SetInputWitness
  <2>2. in \in InputSet
    <3>1. tx.inputs[i] \in InputSet /\ stack \in StackSet
      BY <1>1, ElementOfSeq, ArgsAssumption
    <3>. QED
      BY <3>1 DEF InputSet
  <2>. HIDE DEF in
  <2>3. inputs \in Seq(InputSet)
    BY <1>1, <2>2, ExceptSeq
  <2>. HIDE DEF inputs
  <2>4. tx' \in TxSet
    BY <1>2, <2>1, <2>3, Zenon
  <2>. QED
    BY <2>1, <2>4 DEF TypeOK
<1>8. ASSUME NEW flags \in WriteFlags, Write(flags) PROVE TypeOK'
  <2>1. ToBytes(tx, flags) \in Buffers
    BY <1>1, ToBytesLength
  <2>2. wire' \in [bytes : Buffers, flags : WriteFlags, damage : {"none", "cut", "changed"}]
    <3>1. flags \cap {"USE_WITNESS"} \in WriteFlags
      BY DEF WriteFlags
    <3>. QED
      BY <1>8, <2>1, <3>1 DEF Write
  <2>. QED
    BY <1>1, <1>8, <2>2 DEF Write, TypeOK
<1>9. ASSUME wire # None
      PROVE  /\ wire \in [bytes : Buffers, flags : WriteFlags,
                         damage : {"none", "cut", "changed"}]
             /\ wire.bytes \in Seq(Nat)
  BY <1>9 DEF TypeOK, Buffers
<1>10. ASSUME wire # None, NEW bytes \in Buffers, NEW damage \in {"cut", "changed"},
              Damage(bytes, damage)
       PROVE  TypeOK'
  <2>1. wire' \in [bytes : Buffers, flags : WriteFlags, damage : {"none", "cut", "changed"}]
    BY <1>9, <1>10, Zenon DEF Damage
  <2>. QED
    BY <1>1, <1>10, <2>1 DEF Damage, TypeOK
<1>11. ASSUME wire # None, NEW n \in 0..Len(wire.bytes) - 1, Cut(n) PROVE TypeOK'
  <2>1. SubSeq(wire.bytes, 1, n) \in Buffers
    BY <1>9, <1>11, SubSeqProperties DEF Buffers
  <2>. QED
    BY <1>10, <1>11, <2>1 DEF Cut
<1>12. ASSUME wire # None, NEW p \in 1..Len(wire.bytes), NEW byte \in Bytes, Change(p, byte)
       PROVE  TypeOK'
  <2>1. [wire.bytes EXCEPT ![p] = byte] \in Buffers
    BY <1>9, <1>12, ExceptSeq, ArgsAssumption DEF Buffers
  <2>. QED
    BY <1>10, <1>12, <2>1 DEF Change
<1>13. ASSUME wire # None, NEW flags \in AllReadFlags, Read(flags) PROVE TypeOK'
  <2>1. IsParsed(wire.bytes, "USE_ELEMENTS" \in flags, FromBytes(wire.bytes, flags),
                 Analyze(wire.bytes, flags).end)
    BY <1>9, <1>13, Parsed DEF Buffers
  <2>2. /\ Analyze(wire.bytes, flags).end # Refused
        /\ tx' = FromBytes(wire.bytes, flags).tx /\ tx' # None
        /\ wire' = None /\ UNCHANGED elements
    BY <1>13, Zenon DEF Read
  <2>3. tx' \in TxSet
    <3>1. ("USE_ELEMENTS" \in flags) \in BOOLEAN
      OBVIOUS
    <3>2. ShapedTxs("USE_ELEMENTS" \in flags) \subseteq TxSet
      BY <3>1, ShapesAreTxs, Zenon
    <3>. QED
      BY <2>1, <2>2, <3>2, Zenon DEF IsParsed
  <2>. QED
    BY <1>1, <2>2, <2>3 DEF TypeOK
<1>14. CASE UNCHANGED vars
  BY <1>14 DEF vars, TypeOK
<1>15. CASE BuildNext
  BY <1>15, <1>3, <1>4, <1>5, <1>6, <1>7, <1>8 DEF BuildNext
<1>16. CASE wire # None /\ WireNext
  BY <1>16, <1>11, <1>12, <1>13 DEF WireNext
<1>. QED
  BY <1>14, <1>15, <1>16 DEF Next

(* Nothing changes the transaction while it is under way.                  *)
CarriesTx(t, w) ==
    LET bytes == ToBytes(t, w.flags)
    IN /\ w.damage = "none" => w.bytes = bytes
       /\ w.damage = "cut" =>
            \E n \in Nat : n < Len(bytes) /\ w.bytes = SubSeq(bytes, 1, n)
SerializationInv ==
    /\ TypeOK
    /\ tx \in ShapedTxs(elements)
    /\ wire # None => CarriesTx(tx, wire)

LEMMA ShapeIsKept ==
    ASSUME TypeOK, tx \in ShapedTxs(elements), Building, BuildNext
    PROVE  tx' \in ShapedTxs(elements) /\ UNCHANGED elements
<1>1. /\ elements \in BOOLEAN /\ tx.inputs \in Seq(ShapedInputs(elements))
      /\ tx.outputs \in Seq(ShapedOutputs(elements))
  BY DEF TypeOK, ShapedTxs
<1>2. /\ \A inputs \in Seq(ShapedInputs(elements)) :
            [tx EXCEPT !.inputs = inputs] \in ShapedTxs(elements)
      /\ \A outputs \in Seq(ShapedOutputs(elements)) :
            [tx EXCEPT !.outputs = outputs] \in ShapedTxs(elements)
  BY DEF ShapedTxs
<1>3. ASSUME NEW i \in 1..MaxInputs, NEW a \in InputArgs[elements], NEW raw \in BOOLEAN,
             AddInput(i, a, raw)
      PROVE  tx' \in ShapedTxs(elements) /\ UNCHANGED elements
  <2>. DEFINE in == IF raw THEN RawInput(a, elements) ELSE InitInput(a, elements)
              inputs == InsertAt(tx.inputs, i, in)
  <2>1. in \in ShapedInputs(elements)
    BY <1>1, ArgsAssumption, InputMade
  <2>2. /\ i \in 1..Len(tx.inputs) + 1 /\ UNCHANGED elements
        /\ tx' = [tx EXCEPT !.inputs = inputs]
    BY <1>3, Zenon DEF AddInput
  <2>. HIDE DEF in
  <2>3. inputs \in Seq(ShapedInputs(elements))
    BY <1>1, <2>1, <2>2, InsertAndRemove
  <2>. HIDE DEF inputs
  <2>. QED
    BY <1>2, <2>2, <2>3, Zenon
<1>4. ASSUME NEW i \in 1..Len(tx.inputs), RemoveInput(i)
      PROVE  tx' \in ShapedTxs(elements) /\ UNCHANGED elements
  <2>. DEFINE inputs == RemoveAt(tx.inputs, i)
  <2>1. UNCHANGED elements /\ tx' = [tx EXCEPT !.inputs = inputs]
    BY <1>4, Zenon DEF RemoveInput
  <2>2. inputs \in Seq(ShapedInputs(elements))
    BY <1>1, InsertAndRemove
  <2>. HIDE DEF inputs
  <2>. QED
    BY <1>2, <2>1, <2>2, Zenon
<1>5. ASSUME NEW i \in 1..MaxOutputs, NEW a \in OutputArgs[elements], AddOutput(i, a)
      PROVE  tx' \in ShapedTxs(elements) /\ UNCHANGED elements
  <2>. DEFINE outputs == InsertAt(tx.outputs, i, MakeOutput(a, elements))
  <2>1. MakeOutput(a, elements) \in ShapedOutputs(elements)
    BY <1>1, <1>5, ArgsAssumption, OutputMade DEF AddOutput
  <2>2. /\ i \in 1..Len(tx.outputs) + 1 /\ UNCHANGED elements
        /\ tx' = [tx EXCEPT !.outputs = outputs]
    BY <1>5, Zenon DEF AddOutput
  <2>3. outputs \in Seq(ShapedOutputs(elements))
    BY <1>1, <2>1, <2>2, InsertAndRemove
  <2>. HIDE DEF outputs
  <2>. QED
    BY <1>2, <2>2, <2>3, Zenon
<1>6. ASSUME NEW i \in 1..Len(tx.outputs), RemoveOutput(i)
      PROVE  tx' \in ShapedTxs(elements) /\ UNCHANGED elements
  <2>. DEFINE outputs == RemoveAt(tx.outputs, i)
  <2>1. UNCHANGED elements /\ tx' = [tx EXCEPT !.outputs = outputs]
    BY <1>6, Zenon DEF RemoveOutput
  <2>2. outputs \in Seq(ShapedOutputs(elements))
    BY <1>1, InsertAndRemove
  <2>. HIDE DEF outputs
  <2>. QED
    BY <1>2, <2>1, <2>2, Zenon
<1>7. ASSUME NEW i \in 1..Len(tx.inputs), NEW stack \in Stacks, SetInputWitness(i, stack)
      PROVE  tx' \in ShapedTxs(elements) /\ UNCHANGED elements
  <2>. DEFINE in == [tx.inputs[i] EXCEPT !.witness = stack]
              inputs == [tx.inputs EXCEPT ![i] = in]
  <2>1. UNCHANGED elements /\ tx' = [tx EXCEPT !.inputs = inputs]
    BY <1>7, Zenon DEF SetInputWitness
  <2>2. in \in ShapedInputs(elements)
    <3>1. /\ tx.inputs[i] \in InputSet /\ InputShape(tx.inputs[i], elements)
          /\ stack \in StackSet
      BY <1>1, ElementOfSeq, ArgsAssumption DEF ShapedInputs
    <3>2. in \in InputSet
      BY <3>1 DEF InputSet
    <3>3. /\ in.nonce = tx.inputs[i].nonce /\ in.features = tx.inputs[i].features
          /\ in.txhash = tx.inputs[i].txhash /\ in.index = tx.inputs[i].index
      BY <3>1 DEF InputSet
    <3>. HIDE DEF in
    <3>4. InputShape(in, elements)
      BY <3>1, <3>3 DEF InputShape
    <3>. QED
      BY <3>2, <3>4 DEF ShapedInputs
  <2>. HIDE DEF in
  <2>3. inputs \in Seq(ShapedInputs(elements))
    BY <1>1, <2>2, ExceptSeq
  <2>. HIDE DEF inputs
  <2>. QED
    BY <1>2, <2>1, <2>3, Zenon
<1>8. ASSUME NEW flags \in WriteFlags, Write(flags)
      PROVE  tx' \in ShapedTxs(elements) /\ UNCHANGED elements
  BY <1>8 DEF Write
<1>. QED
  BY <1>3, <1>4, <1>5, <1>6, <1>7, <1>8 DEF BuildNext

LEMMA SerializationInvIsInductive == SerializationInv /\ [Next]_vars => SerializationInv'
<1>. SUFFICES ASSUME SerializationInv, [Next]_vars
              PROVE  tx' \in ShapedTxs(elements') /\ (wire' # None => CarriesTx(tx', wire'))
  BY TypeIsInductive DEF SerializationInv
<1>1. TypeOK /\ elements \in BOOLEAN /\ tx \in ShapedTxs(elements)
  BY DEF SerializationInv, TypeOK
<1>2. CASE UNCHANGED vars
  BY <1>2 DEF vars, SerializationInv
<1>3. CASE BuildNext
  <2>1. Building
    BY <1>3 DEF BuildNext, AddInput, RemoveInput, AddOutput, RemoveOutput,
                SetInputWitness, Write
  <2>2. tx' \in ShapedTxs(elements')
    BY <1>1, <1>3, <2>1, ShapeIsKept
  <2>3. ASSUME wire' # None PROVE CarriesTx(tx', wire')
    <3>1. PICK flags \in WriteFlags : Write(flags)
      BY <1>3, <2>1, <2>3 DEF BuildNext, Building, AddInput, RemoveInput, AddOutput,
                              RemoveOutput, SetInputWitness
    <3>2. /\ wire'.bytes = ToBytes(tx, flags) /\ wire'.flags = flags \cap {"USE_WITNESS"}
          /\ wire'.damage = "none" /\ tx' = tx
      BY <3>1 DEF Write
    <3>3. ToBytes(tx', wire'.flags) = ToBytes(tx, flags)
      BY <3>2, FlagsShown
    <3>. QED
      BY <3>2, <3>3 DEF CarriesTx
  <2>. QED
    BY <2>2, <2>3
<1>4. ASSUME wire # None, NEW bytes, NEW damage \in {"cut", "changed"}, Damage(bytes, damage),
             damage = "cut" => \E n \in Nat : /\ n < Len(wire.bytes)
                                              /\ bytes = SubSeq(wire.bytes, 1, n)
      PROVE  tx' \in ShapedTxs(elements') /\ CarriesTx(tx', wire')
  <2>1. /\ wire.damage = "none" /\ tx' = tx /\ elements' = elements
        /\ wire'.bytes = bytes /\ wire'.damage = damage /\ wire'.flags = wire.flags
    BY <1>1, <1>4 DEF Damage, TypeOK
  <2>2. wire.bytes = ToBytes(tx, wire.flags)
    BY <1>4, <2>1 DEF SerializationInv, CarriesTx
  <2>3. ToBytes(tx', wire'.flags) = wire.bytes
    BY <2>1, <2>2
  <2>. QED
    BY <1>1, <1>4, <2>1, <2>3 DEF CarriesTx
<1>5. ASSUME wire # None, NEW n \in 0..Len(wire.bytes) - 1, Cut(n)
      PROVE  tx' \in ShapedTxs(elements') /\ CarriesTx(tx', wire')
  <2>1. Len(wire.bytes) \in Nat
    BY <1>1, <1>5, LengthIsNatural DEF TypeOK
  <2>2. n \in Nat /\ n < Len(wire.bytes)
    BY <2>1
  <2>. QED
    BY <1>4, <1>5, <2>2, Zenon DEF Cut
<1>6. ASSUME wire # None, NEW p, NEW byte, Change(p, byte)
      PROVE  tx' \in ShapedTxs(elements') /\ CarriesTx(tx', wire')
  BY <1>4, <1>6 DEF Change
<1>7. ASSUME wire # None, NEW flags \in AllReadFlags, Read(flags)
      PROVE  tx' \in ShapedTxs(elements') /\ wire' = None
  <2>1. /\ wire.damage = "none" /\ flags \in ReadFlags(tx, wire.flags)
        /\ Analyze(wire.bytes, flags).end # Refused
        /\ tx' = FromBytes(wire.bytes, flags).tx /\ tx' # None
        /\ wire' = None /\ UNCHANGED elements
    BY <1>7, Zenon DEF Read
  <2>2. wire.bytes = ToBytes(tx, wire.flags)
    BY <1>7, <2>1 DEF SerializationInv, CarriesTx
  <2>3. CASE tx.inputs # <<>> \/ tx.outputs # <<>>
    <3>1. IsElements(tx) = elements
      BY <1>1, <2>3, ShapedAsItIs
    <3>2. ("USE_ELEMENTS" \in flags) = elements
      BY <1>1, <2>1, <3>1 DEF ReadFlags
    <3>3. wire.bytes \in Buffers
      BY <1>1, <1>7 DEF TypeOK
    <3>4. IsParsed(wire.bytes, elements, FromBytes(wire.bytes, flags),
                   Analyze(wire.bytes, flags).end)
      BY <1>7, <3>2, <3>3, Parsed
    <3>. QED
      BY <2>1, <3>4, Zenon DEF IsParsed
  <2>4. CASE tx.inputs = <<>> /\ tx.outputs = <<>>
    <3>1. IsElements(tx) = FALSE /\ tx \in ShapedTxs(FALSE) /\ Clear(tx) /\ tx \in TxSet
      <4>1. IsElements(tx) = FALSE
        BY <2>4 DEF IsElements
      <4>2. tx \in ShapedTxs(FALSE)
        BY <1>1, <4>1, ShapedAsItIs, Zenon
      <4>3. Clear(tx)
        BY <2>4 DEF Clear
      <4>. QED
        BY <1>1, <4>1, <4>2, <4>3, Zenon DEF TypeOK
    <3>2. tx' = Kept(tx, wire.flags)
      BY <2>1, <2>2, <3>1, WrittenIsRead, ZenonT(60) DEF ReadBack
    <3>3. /\ tx'.version = tx.version /\ tx'.locktime = tx.locktime
          /\ tx'.inputs = <<>> /\ tx'.outputs = <<>>
          /\ tx' = [version |-> tx'.version, locktime |-> tx'.locktime,
                    inputs |-> tx'.inputs, outputs |-> tx'.outputs]
      BY <2>4, <3>1, <3>2, KeptIs DEF KeptTx
    <3>4. tx.version \in Nat /\ tx.locktime \in Nat
      BY <1>1 DEF ShapedTxs
    <3>5. <<>> \in Seq(ShapedInputs(elements)) /\ <<>> \in Seq(ShapedOutputs(elements))
      OBVIOUS
    <3>6. tx' \in ShapedTxs(elements)
      BY <3>3, <3>4, <3>5, Zenon DEF ShapedTxs
    <3>. QED
      BY <2>1, <3>6
  <2>. QED
    BY <2>1, <2>3, <2>4
<1>8. CASE wire # None /\ WireNext
  BY <1>5, <1>6, <1>7, <1>8 DEF WireNext
<1>. QED
  BY <1>2, <1>3, <1>8 DEF Next

(* Whatever is added, removed, written, damaged and read again, the        *)
(* transaction is one: every commitment of an input or output that was     *)
(* parsed, from whatever bytes, is as long as its prefix says.             *)
THEOREM SerializationTypeCorrect == Spec => []TypeOK
<1>1. Init => TypeOK
  BY DEF Init, EmptyTx, TypeOK, TxSet
<1>. QED
  BY <1>1, TypeIsInductive, PTL DEF Spec

(* The length computed for a transaction is that of its bytes, for every   *)
(* transaction that calls and parsing can make and for all flags: the      *)
(* buffer that wally_tx_to_bytes fills without looking at its end is as    *)
(* long as what is written.  Weight, size and discount add up to it.       *)
THEOREM LengthsAreExact == Spec => []LengthIsExact
<1>1. TypeOK => LengthIsExact
  BY AnyLengthIsExact DEF TypeOK
<1>. QED
  BY <1>1, SerializationTypeCorrect, PTL

(* tx_from_bytes, which does not look at the end of the bytes, ends where  *)
(* analyze_tx said, or before, and never behind the bytes, whatever they   *)
(* became.                                                                 *)
THEOREM ParserNeverLeaves == Spec => []ParserStaysInside
<1>1. TypeOK => ParserStaysInside
  <2>. SUFFICES ASSUME TypeOK, ~Building, NEW flags \in AllReadFlags
                PROVE  EndsAt(FromBytes(wire.bytes, flags), Analyze(wire.bytes, flags).end)
    BY DEF ParserStaysInside
  <2>. DEFINE read == FromBytes(wire.bytes, flags)
              end == Analyze(wire.bytes, flags).end
  <2>1. wire.bytes \in Buffers
    BY DEF TypeOK, Building
  <2>2. IsParsed(wire.bytes, "USE_ELEMENTS" \in flags, read, end)
    BY <2>1, Parsed
  <2>. HIDE DEF read, end
  <2>3. end # Refused => end \in Nat /\ end <= Len(wire.bytes)
    BY <2>1, <2>2, LengthIsNatural DEF IsParsed, Positions
  <2>4. end # Refused => IF read.tx = None THEN read.end <= end ELSE read.end = end
    BY <2>2, <2>3 DEF IsParsed
  <2>5. EndsAt(read, end)
    BY <2>3, <2>4 DEF EndsAt
  <2>. QED
    BY <2>5 DEF read, end
<1>. QED
  BY <1>1, SerializationTypeCorrect, PTL

(* What tx_to_bytes writes, tx_from_bytes reads back, for every            *)
(* transaction that calls make and every one that is read from whatever    *)
(* bytes, for all flags; and analyze_tx refuses every part of it that      *)
(* lacks the end.                                                          *)
THEOREM WrittenBytesAreReadBack == Spec => []BytesAreReadBack
<1>1. Init => SerializationInv
  <2>. SUFFICES ASSUME Init PROVE SerializationInv
    OBVIOUS
  <2>1. TypeOK
    BY DEF Init, EmptyTx, TypeOK, TxSet
  <2>2. <<>> \in Seq(ShapedInputs(elements)) /\ <<>> \in Seq(ShapedOutputs(elements))
    OBVIOUS
  <2>3. tx \in ShapedTxs(elements)
    BY <2>2 DEF Init, EmptyTx, ShapedTxs
  <2>. QED
    BY <2>1, <2>3 DEF Init, SerializationInv
<1>2. SerializationInv => BytesAreReadBack
  <2>. SUFFICES ASSUME SerializationInv PROVE BytesAreReadBack
    OBVIOUS
  <2>1. elements \in BOOLEAN /\ tx \in ShapedTxs(elements)
    BY DEF SerializationInv, TypeOK
  <2>2. CanRoundTrip(tx)
    BY <2>1, AnyRoundTrips
  <2>3. ASSUME ~Building, NEW flags \in AllReadFlags,
               Analyze(wire.bytes, flags).end # Refused
        PROVE  CanRoundTrip(FromBytes(wire.bytes, flags).tx)
    <3>. DEFINE read == FromBytes(wire.bytes, flags)
                el == "USE_ELEMENTS" \in flags
    <3>1. wire.bytes \in Buffers
      BY <2>3 DEF SerializationInv, TypeOK, Building
    <3>2. IsParsed(wire.bytes, el, read, Analyze(wire.bytes, flags).end)
      BY <2>3, <3>1, Parsed
    <3>. HIDE DEF read
    <3>3. read.tx = None \/ read.tx \in ShapedTxs(el)
      BY <2>3, <3>2 DEF IsParsed
    <3>4. el \in BOOLEAN
      OBVIOUS
    <3>. HIDE DEF el
    <3>5. CanRoundTrip(read.tx)
      <4>1. CASE read.tx = None
        BY <4>1 DEF CanRoundTrip
      <4>2. CASE read.tx \in ShapedTxs(el)
        BY <3>4, <4>2, AnyRoundTrips
      <4>. QED
        BY <3>3, <4>1, <4>2
    <3>. QED
      BY <3>5 DEF read
  <2>4. ASSUME ~Building, wire.damage = "cut", Unambiguous(tx),
               NEW flags \in ReadFlags(tx, wire.flags)
        PROVE  Analyze(wire.bytes, flags).end = Refused
    <3>. DEFINE e == IsElements(tx)
                bytes == ToBytes(tx, wire.flags)
    <3>1. e \in BOOLEAN /\ tx \in ShapedTxs(e) /\ IsElements(tx) = e
      BY <2>1, ShapedAsItIs
    <3>2. Clear(tx)
      BY <2>4, UnambiguousIsClear
    <3>3. PICK n \in Nat : n < Len(bytes) /\ wire.bytes = SubSeq(bytes, 1, n)
      BY <2>4 DEF SerializationInv, CarriesTx, Building
    <3>. HIDE DEF e
    <3>4. Analyze(SubSeq(bytes, 1, n), flags).end = Refused
      BY <2>4, <3>1, <3>2, <3>3, CutIsRefused
    <3>. HIDE DEF bytes
    <3>. QED
      BY <3>3, <3>4
  <2>. QED
    BY <2>2, <2>3, <2>4, Zenon DEF BytesAreReadBack
<1>. QED
  BY <1>1, <1>2, SerializationInvIsInductive, PTL DEF Spec
=============================================================================
