-------------------------- MODULE PsbtReaderProofs --------------------------
(***************************************************************************)
(* The serialization of PSBTs, for every set of keys and records, every    *)
(* number of inputs and outputs and every stream.                          *)
(*                                                                         *)
(* Each map is read as the set of its records, and a stream of maps as the *)
(* PSBT they were written from.  Then what a reader of any stream has made *)
(* of it by every record, which is the invariant, and that it makes the    *)
(* same of two records in either order.                                    *)
(***************************************************************************)
EXTENDS PsbtReader, FiniteSetTheorems, SequenceTheorems, TLAPS

(* What an input is when its map begins.                                   *)
BlankInput == [EmptyInput EXCEPT !.sequence = FinalSequence]

-----------------------------------------------------------------------------
(* The reader goes over the records of a map and the maps of a stream with *)
(* folds that take what comes first.                                       *)

LOCAL Took(r, s) == ReadRecord(s, r)
LOCAL TookLoose(m, s) == ReadMap(s, m, TRUE)
LOCAL TookStrict(m, s) == ReadMap(s, m, FALSE)
LOCAL Item(f, n) == f[n]
LOCAL Greatest(S) == Max(S)
OfRecords == INSTANCE Folding
             WITH Op <- Took, Base <- 0, Map <- Item, Choose <- Greatest
OfLoose == INSTANCE Folding
           WITH Op <- TookLoose, Base <- 0, Map <- Item, Choose <- Greatest
OfStrict == INSTANCE Folding
            WITH Op <- TookStrict, Base <- 0, Map <- Item, Choose <- Greatest

ReadRecords(s, records) == FoldLeft(ReadRecord, s, records)
ReadMaps(s, stream, lax) ==
    FoldLeft(LAMBDA t, m : ReadMap(t, m, lax), s, stream)

LEMMA ReadsAreFolds ==
    /\ \A s, f : ReadRecords(s, f) = OfRecords!FoldFrom(f, s, DOMAIN f)
    /\ \A s, f : ReadMaps(s, f, TRUE) = OfLoose!FoldFrom(f, s, DOMAIN f)
    /\ \A s, f : ReadMaps(s, f, FALSE) = OfStrict!FoldFrom(f, s, DOMAIN f)
<1>1. \A s, f : ReadRecords(s, f) = OfRecords!FoldFrom(f, s, DOMAIN f)
  BY DEF ReadRecords, FoldLeft, MapThenFoldSet, OfRecords!FoldFrom,
         OfRecords!MapThenFoldSet, Took, Item, Greatest
<1>2. \A s, f : ReadMaps(s, f, TRUE) = OfLoose!FoldFrom(f, s, DOMAIN f)
  BY DEF ReadMaps, FoldLeft, MapThenFoldSet, OfLoose!FoldFrom,
         OfLoose!MapThenFoldSet, TookLoose, Item, Greatest
<1>3. \A s, f : ReadMaps(s, f, FALSE) = OfStrict!FoldFrom(f, s, DOMAIN f)
  BY DEF ReadMaps, FoldLeft, MapThenFoldSet, OfStrict!FoldFrom,
         OfStrict!MapThenFoldSet, TookStrict, Item, Greatest
<1>. QED
  BY <1>1, <1>2, <1>3

LEMMA GreatestIs ==
    ASSUME NEW n \in Nat, NEW S \in SUBSET (1..n), S # {}
    PROVE  Greatest(S) \in S /\ \A m \in S : Greatest(S) >= m
<1>1. S \subseteq Nat /\ \A m \in S : m <= n
  OBVIOUS
<1>2. PICK m \in S : \A k \in S : k <= m
  BY <1>1, OfRecords!GreatestNatural, Zenon
<1>3. \E k \in S : \A m1 \in S : k >= m1
  BY <1>1, <1>2
<1>. QED
  BY <1>3 DEF Greatest, Max

LEMMA LastPosition == ASSUME NEW n \in Nat, n # 0 PROVE Greatest(1..n) = n
<1>1. 1..n \in SUBSET (1..n) /\ 1..n # {} /\ n \in 1..n
  OBVIOUS
<1>2. Greatest(1..n) \in 1..n /\ Greatest(1..n) >= n
  BY <1>1, GreatestIs
<1>. QED
  BY <1>2

LEMMA PositionsAreChosen ==
    ASSUME NEW n \in Nat
    PROVE  /\ OfRecords!IsFiniteSet(1..n) /\ OfRecords!Chooses(1..n)
           /\ OfLoose!IsFiniteSet(1..n) /\ OfLoose!Chooses(1..n)
           /\ OfStrict!IsFiniteSet(1..n) /\ OfStrict!Chooses(1..n)
<1>1. IsFiniteSet(1..n)
  BY FS_Interval
<1>2. \A S \in SUBSET (1..n) : S # {} => Greatest(S) \in S
  BY GreatestIs
<1>. QED
  BY <1>1, <1>2 DEF IsFiniteSet, OfRecords!IsFiniteSet, OfLoose!IsFiniteSet,
     OfStrict!IsFiniteSet, OfRecords!Chooses, OfLoose!Chooses, OfStrict!Chooses

LEMMA PositionFacts ==
    ASSUME NEW N \in Nat, NEW n \in 1..N
    PROVE  n \in Nat /\ n # 0 /\ 1..n # {} /\ (1..n) \ {n} = 1..(n - 1)
           /\ n \in 0..N /\ n - 1 \in 0..N
<1>1. n \in Nat /\ n # 0 /\ n \in 0..N /\ n - 1 \in 0..N /\ n \in 1..n
  OBVIOUS
<1>2. ASSUME NEW m, m \in (1..n) \ {n} PROVE m \in 1..(n - 1)
  BY <1>1, <1>2
<1>3. ASSUME NEW m, m \in 1..(n - 1) PROVE m \in (1..n) \ {n}
  BY <1>1, <1>3
<1>4. (1..n) \ {n} = 1..(n - 1)
  BY <1>2, <1>3, Zenon
<1>. QED
  BY <1>1, <1>4

(* What is there after the first n.                                        *)
RecordSteps(g, s, f, N) ==
    /\ g[0] = s /\ g[N] = ReadRecords(s, f)
    /\ \A n \in 1..N : g[n] = ReadRecord(g[n - 1], f[n])

LEMMA RecordsLoop ==
    ASSUME NEW s, NEW f, NEW N \in Nat, DOMAIN f = 1..N
    PROVE  \E g : RecordSteps(g, s, f, N)
<1>. DEFINE g == [n \in 0..N |-> OfRecords!FoldFrom(f, s, 1..n)]
<1>1. g[0] = s
  <2>1. 1..0 = {} /\ 0 \in 0..N
    OBVIOUS
  <2>. QED
    BY <2>1, OfRecords!FromNothing
<1>2. g[N] = ReadRecords(s, f)
  BY ReadsAreFolds
<1>3. ASSUME NEW n \in 1..N PROVE g[n] = ReadRecord(g[n - 1], f[n])
  <2>1. n \in Nat /\ n # 0 /\ 1..n # {} /\ (1..n) \ {n} = 1..(n - 1)
        /\ n \in 0..N /\ n - 1 \in 0..N
    BY PositionFacts, Zenon
  <2>2. OfRecords!FoldFrom(f, s, 1..n)
          = Took(Item(f, Greatest(1..n)),
                 OfRecords!FoldFrom(f, s, (1..n) \ {Greatest(1..n)}))
    BY <2>1, PositionsAreChosen, OfRecords!FromUnfolds, Zenon
  <2>3. Greatest(1..n) = n
    BY <2>1, LastPosition
  <2>. QED
    BY <2>1, <2>2, <2>3 DEF Took, Item
<1>. HIDE DEF g
<1>. QED
  BY <1>1, <1>2, <1>3 DEF RecordSteps

MapSteps(g, s, f, N, lax) ==
    /\ g[0] = s /\ g[N] = ReadMaps(s, f, lax)
    /\ \A n \in 1..N : g[n] = ReadMap(g[n - 1], f[n], lax)

LEMMA MapsLoop ==
    ASSUME NEW s, NEW f, NEW N \in Nat, DOMAIN f = 1..N, NEW lax \in BOOLEAN
    PROVE  \E g : MapSteps(g, s, f, N, lax)
<1>1. 1..0 = {} /\ 0 \in 0..N /\ N \in 0..N
  OBVIOUS
<1>2. CASE lax = TRUE
  <2>. DEFINE g == [n \in 0..N |-> OfLoose!FoldFrom(f, s, 1..n)]
  <2>1. g[0] = s
    BY <1>1, OfLoose!FromNothing
  <2>2. g[N] = ReadMaps(s, f, TRUE)
    BY <1>1, ReadsAreFolds
  <2>3. ASSUME NEW n \in 1..N PROVE g[n] = ReadMap(g[n - 1], f[n], TRUE)
    <3>0. n \in Nat /\ n # 0 /\ 1..n # {} /\ (1..n) \ {n} = 1..(n - 1)
          /\ n \in 0..N /\ n - 1 \in 0..N
      BY PositionFacts, Zenon
    <3>1. OfLoose!FoldFrom(f, s, 1..n)
            = TookLoose(Item(f, Greatest(1..n)),
                        OfLoose!FoldFrom(f, s, (1..n) \ {Greatest(1..n)}))
      BY <3>0, PositionsAreChosen, OfLoose!FromUnfolds, Zenon
    <3>2. Greatest(1..n) = n
      BY <3>0, LastPosition
    <3>. QED
      BY <3>0, <3>1, <3>2 DEF TookLoose, Item
  <2>. HIDE DEF g
  <2>. QED
    BY <1>2, <2>1, <2>2, <2>3 DEF MapSteps
<1>3. CASE lax = FALSE
  <2>. DEFINE g == [n \in 0..N |-> OfStrict!FoldFrom(f, s, 1..n)]
  <2>1. g[0] = s
    BY <1>1, OfStrict!FromNothing
  <2>2. g[N] = ReadMaps(s, f, FALSE)
    BY <1>1, ReadsAreFolds
  <2>3. ASSUME NEW n \in 1..N PROVE g[n] = ReadMap(g[n - 1], f[n], FALSE)
    <3>0. n \in Nat /\ n # 0 /\ 1..n # {} /\ (1..n) \ {n} = 1..(n - 1)
          /\ n \in 0..N /\ n - 1 \in 0..N
      BY PositionFacts, Zenon
    <3>1. OfStrict!FoldFrom(f, s, 1..n)
            = TookStrict(Item(f, Greatest(1..n)),
                         OfStrict!FoldFrom(f, s, (1..n) \ {Greatest(1..n)}))
      BY <3>0, PositionsAreChosen, OfStrict!FromUnfolds, Zenon
    <3>2. Greatest(1..n) = n
      BY <3>0, LastPosition
    <3>. QED
      BY <3>0, <3>1, <3>2 DEF TookStrict, Item
  <2>. HIDE DEF g
  <2>. QED
    BY <1>3, <2>1, <2>2, <2>3 DEF MapSteps
<1>. QED
  BY <1>2, <1>3

(* What holds at first and is kept holds at last.                          *)
LEMMA Stepwise ==
    ASSUME NEW T, NEW N \in Nat, 0 \in T, \A n \in 1..N : n - 1 \in T => n \in T
    PROVE  \A n \in 0..N : n \in T
<1>. DEFINE U == {n \in Nat : n <= N => n \in T}
<1>1. 0 \in U
  OBVIOUS
<1>2. ASSUME NEW n \in Nat, n \in U PROVE n + 1 \in U
  <2>1. CASE n + 1 <= N
    <3>1. n \in T /\ n + 1 \in 1..N /\ (n + 1) - 1 = n
      BY <1>2, <2>1
    <3>2. n + 1 \in T
      BY <3>1
    <3>. QED
      BY <3>2
  <2>2. CASE ~(n + 1 <= N)
    BY <2>2
  <2>. QED
    BY <2>1, <2>2
<1>3. \A n \in Nat : n \in U
  BY ONLY <1>1, <1>2, OfRecords!NaturalInduction, Zenon
<1>. QED
  BY <1>3

-----------------------------------------------------------------------------
(* The records of a map, as the set they are of.                           *)

Apart(r1, r2) ==
    r1.field # r2.field \/ (r1.field \in HaveKeydata /\ r1.key # r2.key)

Lists(records, X) ==
    /\ records \in Seq(X) /\ Range(records) = X
    /\ \A m, n \in 1..Len(records) : m # n => Apart(records[m], records[n])

LEMMA ListsNothing == Lists(<<>>, {})
<1>1. <<>> \in Seq({}) /\ Len(<<>>) = 0 /\ Range(<<>>) = {}
  BY DEF Range
<1>. QED
  BY <1>1 DEF Lists

LEMMA ListsOne == ASSUME NEW r PROVE Lists(<<r>>, {r})
<1>1. <<r>> \in Seq({r}) /\ Len(<<r>>) = 1 /\ Range(<<r>>) = {r}
  BY DEF Range
<1>2. \A m, n \in 1..1 : m = n
  OBVIOUS
<1>. QED
  BY <1>1, <1>2 DEF Lists

(* One map's records behind another's, when their fields are others.       *)
LEMMA ListsBoth ==
    ASSUME NEW a, NEW X, Lists(a, X), NEW b, NEW Y, Lists(b, Y),
           \A x \in X, y \in Y : x.field # y.field
    PROVE  Lists(a \o b, X \cup Y)
<1>. DEFINE c == a \o b
<1>1. a \in Seq(X \cup Y) /\ b \in Seq(X \cup Y)
  BY DEF Lists
<1>2. /\ c \in Seq(X \cup Y) /\ Len(c) = Len(a) + Len(b)
      /\ \A n \in 1..(Len(a) + Len(b)) :
            c[n] = IF n <= Len(a) THEN a[n] ELSE b[n - Len(a)]
  BY <1>1, ConcatProperties
<1>3. Len(a) \in Nat /\ Len(b) \in Nat
  BY <1>1
<1>. HIDE DEF c
<1>4. ASSUME NEW n \in 1..Len(c)
      PROVE  \/ n \in 1..Len(a) /\ c[n] = a[n] /\ a[n] \in X
             \/ n - Len(a) \in 1..Len(b) /\ c[n] = b[n - Len(a)] /\ b[n - Len(a)] \in Y
  <2>1. CASE n <= Len(a)
    BY <1>2, <1>3, <2>1 DEF Lists
  <2>2. CASE ~(n <= Len(a))
    BY <1>2, <1>3, <2>2 DEF Lists
  <2>. QED
    BY <2>1, <2>2
<1>5. ASSUME NEW r \in X \cup Y PROVE r \in Range(c)
  <2>1. CASE r \in X
    <3>1. PICK n \in 1..Len(a) : r = a[n]
      BY <2>1 DEF Lists, Range
    <3>2. n \in 1..Len(c) /\ c[n] = r
      BY <1>2, <1>3, <3>1
    <3>. QED
      BY <1>2, <3>2 DEF Range
  <2>2. CASE r \in Y
    <3>1. PICK n \in 1..Len(b) : r = b[n]
      BY <2>2 DEF Lists, Range
    <3>2. n + Len(a) \in 1..Len(c) /\ c[n + Len(a)] = r
      BY <1>2, <1>3, <3>1
    <3>. QED
      BY <1>2, <3>2 DEF Range
  <2>. QED
    BY <2>1, <2>2
<1>6. Range(c) = X \cup Y
  BY <1>2, <1>5 DEF Range
<1>7. ASSUME NEW m \in 1..Len(c), NEW n \in 1..Len(c), m # n
      PROVE  Apart(c[m], c[n])
  <2>1. CASE m <= Len(a) /\ n <= Len(a)
    <3>1. m \in 1..Len(a) /\ n \in 1..Len(a) /\ c[m] = a[m] /\ c[n] = a[n]
      BY <1>2, <1>3, <2>1
    <3>. QED
      BY <1>7, <3>1, Zenon DEF Lists
  <2>2. CASE ~(m <= Len(a)) /\ ~(n <= Len(a))
    <3>1. /\ m - Len(a) \in 1..Len(b) /\ n - Len(a) \in 1..Len(b)
          /\ m - Len(a) # n - Len(a)
          /\ c[m] = b[m - Len(a)] /\ c[n] = b[n - Len(a)]
      BY <1>2, <1>3, <1>7, <2>2
    <3>. QED
      BY <3>1, Zenon DEF Lists
  <2>3. CASE m <= Len(a) /\ ~(n <= Len(a))
    <3>1. c[m] \in X /\ c[n] \in Y
      BY <1>2, <1>3, <2>3 DEF Lists
    <3>. QED
      BY <3>1 DEF Apart
  <2>4. CASE ~(m <= Len(a)) /\ n <= Len(a)
    <3>1. c[m] \in Y /\ c[n] \in X
      BY <1>2, <1>3, <2>4 DEF Lists
    <3>. QED
      BY <3>1 DEF Apart
  <2>. QED
    BY <2>1, <2>2, <2>3, <2>4
<1>. QED
  BY <1>2, <1>6, <1>7 DEF Lists, c

(* The items of a map, in whichever order they come.                       *)
LEMMA ListsItems ==
    ASSUME NEW X, IsFiniteSet(X), \A x, y \in X : x # y => Apart(x, y)
    PROVE  Lists(SetToSeq(X), X)
<1>. DEFINE n == Cardinality(X)
            IsOrder(f) == f \in [1..n -> X] /\ IsInjective(f)
<1>1. n \in Nat
  BY FS_CardinalityType
<1>2. PICK f : f \in Bijection(1..n, X)
  BY FS_CardinalityType, FS_CountingElements, FS_NatBijection DEF ExistsBijection
<1>3. IsOrder(f)
  BY <1>2 DEF Bijection, Injection, IsInjective
<1>4. IsOrder(SetToSeq(X))
  BY <1>3 DEF SetToSeq
<1>. DEFINE s == SetToSeq(X)
<1>. HIDE DEF s
<1>5. s \in Seq(X) /\ Len(s) = n
  BY <1>1, <1>4 DEF s
<1>6. s \in Surjection(1..n, X)
  <2>1. s \in Injection(1..n, X)
    BY <1>4 DEF s, IsInjective, Injection
  <2>. QED
    BY <1>1, <2>1, FS_Interval, FS_Injection
<1>7. Range(s) = X
  BY <1>1, <1>4, <1>6 DEF Surjection, Range, s
<1>8. ASSUME NEW i \in 1..Len(s), NEW j \in 1..Len(s), i # j PROVE Apart(s[i], s[j])
  <2>1. s[i] # s[j] /\ s[i] \in X /\ s[j] \in X
    BY <1>4, <1>5, <1>8 DEF IsInjective, s
  <2>. QED
    BY <2>1
<1>. QED
  BY <1>5, <1>7, <1>8 DEF Lists, s

-----------------------------------------------------------------------------
(* What an input is made of the records of its map, in whatever order they *)
(* are read.                                                               *)

Fields(X) == {r.field : r \in X}

(* A field is what its record says, or not set.                            *)
Holds(X, f, v, unset) ==
    /\ \A r \in X : r.field = f => v = r.value
    /\ f \notin Fields(X) => v = unset

LEMMA HoldsNothing == \A f, unset : Holds({}, f, unset, unset)
BY DEF Holds, Fields

LEMMA HoldsOther ==
    ASSUME NEW X, NEW f, NEW v, NEW unset, Holds(X, f, v, unset),
           NEW r, r.field # f
    PROVE  Holds(X \cup {r}, f, v, unset)
BY DEF Holds, Fields

LEMMA HoldsNew ==
    ASSUME NEW X, NEW r, \A x \in X : x.field # r.field, NEW unset
    PROVE  Holds(X \cup {r}, r.field, r.value, unset)
BY DEF Holds, Fields

(* No two records of the same map make different things of a field.        *)
LEMMA HoldsSame ==
    ASSUME NEW X, NEW f, NEW v, NEW w, NEW unset,
           Holds(X, f, v, unset), Holds(X, f, w, unset)
    PROVE  v = w
BY DEF Holds, Fields

SigsOf(X, k) == {r \in X : r.field = "PARTIAL_SIG" /\ r.key = k}
KeypathsOf(X) == {r.key : r \in {x \in X : x.field = "BIP32_DERIVATION"}}

InputMade(in, X) ==
    /\ Holds(X, "PREVIOUS_TXID", in.txid, None)
    /\ Holds(X, "OUTPUT_INDEX", in.index, 0)
    /\ Holds(X, "SEQUENCE", in.sequence, FinalSequence)
    /\ Holds(X, "REQUIRED_TIME_LOCKTIME", in.time, 0)
    /\ Holds(X, "REQUIRED_HEIGHT_LOCKTIME", in.height, 0)
    /\ Holds(X, "SIGHASH_TYPE", in.sighash, None)
    /\ Holds(X, "WITNESS_UTXO", in.utxo, None)
    /\ Holds(X, "WITNESS_SCRIPT", in.script, None)
    /\ Holds(X, "FINAL_SCRIPTWITNESS", in.final, None)
    /\ in.keypaths = KeypathsOf(X)
    /\ \A k \in Keys : Holds(SigsOf(X, k), "PARTIAL_SIG", in.sigs[k], None)

InputShape(in) ==
    /\ in = [txid |-> in.txid, index |-> in.index, sequence |-> in.sequence,
             time |-> in.time, height |-> in.height, sighash |-> in.sighash,
             utxo |-> in.utxo, script |-> in.script, keypaths |-> in.keypaths,
             sigs |-> in.sigs, final |-> in.final]
    /\ in.sigs = [k \in Keys |-> in.sigs[k]]

PlainInputFields ==
    {"PREVIOUS_TXID", "OUTPUT_INDEX", "SEQUENCE",
     "REQUIRED_TIME_LOCKTIME", "REQUIRED_HEIGHT_LOCKTIME", "SIGHASH_TYPE",
     "WITNESS_UTXO", "WITNESS_SCRIPT", "FINAL_SCRIPTWITNESS"}

(* The records of an input, and what is asked of their values.             *)
InputRecord(r) ==
    /\ r.field \in PlainInputFields \cup HaveKeydata
    /\ r.field \in HaveKeydata => r.key \in Keys
    /\ r.field = "REQUIRED_TIME_LOCKTIME" => ~(r.value < MinTimestamp)
    /\ r.field = "REQUIRED_HEIGHT_LOCKTIME" => r.value \in 1..(MinTimestamp - 1)

NewInput(in, r) ==
    CASE r.field = "PARTIAL_SIG" -> [in EXCEPT !.sigs[r.key] = r.value]
      [] r.field = "BIP32_DERIVATION" -> [in EXCEPT !.keypaths = @ \cup {r.key}]
      [] r.field = "PREVIOUS_TXID" -> [in EXCEPT !.txid = r.value]
      [] r.field = "OUTPUT_INDEX" -> [in EXCEPT !.index = r.value]
      [] r.field = "SEQUENCE" -> [in EXCEPT !.sequence = r.value]
      [] r.field = "REQUIRED_TIME_LOCKTIME" -> [in EXCEPT !.time = r.value]
      [] r.field = "REQUIRED_HEIGHT_LOCKTIME" -> [in EXCEPT !.height = r.value]
      [] r.field = "SIGHASH_TYPE" -> [in EXCEPT !.sighash = r.value]
      [] r.field = "WITNESS_UTXO" -> [in EXCEPT !.utxo = r.value]
      [] r.field = "WITNESS_SCRIPT" -> [in EXCEPT !.script = r.value]
      [] r.field = "FINAL_SCRIPTWITNESS" -> [in EXCEPT !.final = r.value]

LEMMA InputsSame ==
    ASSUME NEW X, NEW a, NEW b, InputShape(a), InputShape(b),
           InputMade(a, X), InputMade(b, X)
    PROVE  a = b
<1>1. a.txid = b.txid
  BY HoldsSame, ZenonT(60) DEF InputMade
<1>2. a.index = b.index
  BY HoldsSame, ZenonT(60) DEF InputMade
<1>3. a.sequence = b.sequence
  BY HoldsSame, ZenonT(60) DEF InputMade
<1>4. a.time = b.time
  BY HoldsSame, ZenonT(60) DEF InputMade
<1>5. a.height = b.height
  BY HoldsSame, ZenonT(60) DEF InputMade
<1>6. a.sighash = b.sighash
  BY HoldsSame, ZenonT(60) DEF InputMade
<1>7. a.utxo = b.utxo
  BY HoldsSame, ZenonT(60) DEF InputMade
<1>8. a.script = b.script
  BY HoldsSame, ZenonT(60) DEF InputMade
<1>9. a.final = b.final
  BY HoldsSame, ZenonT(60) DEF InputMade
<1>10. a.keypaths = b.keypaths
  BY Zenon DEF InputMade
<1>11. ASSUME NEW k \in Keys PROVE a.sigs[k] = b.sigs[k]
  <2>1. /\ Holds(SigsOf(X, k), "PARTIAL_SIG", a.sigs[k], None)
        /\ Holds(SigsOf(X, k), "PARTIAL_SIG", b.sigs[k], None)
    BY Zenon DEF InputMade
  <2>. QED
    BY <2>1, HoldsSame
<1>12. a.sigs = b.sigs
  <2>1. [k \in Keys |-> a.sigs[k]] = [k \in Keys |-> b.sigs[k]]
    BY <1>11
  <2>. QED
    BY <2>1, Zenon DEF InputShape
<1>. QED
  BY <1>1, <1>2, <1>3, <1>4, <1>5, <1>6, <1>7, <1>8, <1>9, <1>10, <1>12 DEF InputShape

LEMMA BlankMade == InputShape(BlankInput) /\ InputMade(BlankInput, {})
<1>1. SigsOf({}, 0) = {} /\ \A k : SigsOf({}, k) = {} /\ KeypathsOf({}) = {}
  BY DEF SigsOf, KeypathsOf
<1>2. \A k \in Keys : BlankInput.sigs[k] = None
  BY DEF BlankInput, EmptyInput, NoSigs
<1>3. InputMade(BlankInput, {})
  BY <1>1, <1>2, HoldsNothing DEF InputMade, BlankInput, EmptyInput
<1>. QED
  BY <1>3 DEF InputShape, BlankInput, EmptyInput, NoSigs

(* A record that is apart from those read before is taken.                 *)
LEMMA InputTakes ==
    ASSUME NEW in, NEW X, InputShape(in), InputMade(in, X),
           NEW r, InputRecord(r), \A x \in X : Apart(x, r)
    PROVE  /\ r.field \notin Fields(X) \ HaveKeydata
           /\ r.field = "PARTIAL_SIG" => IsNewSignature(in, r)
           /\ r.field = "BIP32_DERIVATION" => r.key \notin in.keypaths
<1>1. r.field \notin Fields(X) \ HaveKeydata
  BY DEF Apart, Fields
<1>2. ASSUME r.field = "PARTIAL_SIG" PROVE IsNewSignature(in, r)
  <2>1. SigsOf(X, r.key) = {}
    BY <1>2 DEF Apart, SigsOf
  <2>2. r.key \in Keys
    BY <1>2 DEF InputRecord, HaveKeydata
  <2>. QED
    BY <2>1, <2>2 DEF InputMade, Holds, Fields, IsNewSignature
<1>3. ASSUME r.field = "BIP32_DERIVATION" PROVE r.key \notin in.keypaths
  BY <1>3 DEF Apart, InputMade, KeypathsOf
<1>. QED
  BY <1>1, <1>2, <1>3

LEMMA InputStep ==
    ASSUME NEW in, NEW X, InputShape(in), InputMade(in, X),
           NEW r, InputRecord(r), \A x \in X : Apart(x, r)
    PROVE  InputShape(NewInput(in, r)) /\ InputMade(NewInput(in, r), X \cup {r})
<1>. DEFINE new == NewInput(in, r)
            Y == X \cup {r}
<1>1. ASSUME r.field # "PARTIAL_SIG", NEW k PROVE SigsOf(Y, k) = SigsOf(X, k)
  BY <1>1 DEF SigsOf
<1>2. ASSUME r.field # "BIP32_DERIVATION" PROVE KeypathsOf(Y) = KeypathsOf(X)
  BY <1>2 DEF KeypathsOf
<1>3. ASSUME NEW f, NEW v, NEW unset, Holds(X, f, v, unset), r.field # f
      PROVE  Holds(Y, f, v, unset)
  BY <1>3, HoldsOther
<1>4. ASSUME r.field \notin HaveKeydata, NEW unset
      PROVE  Holds(Y, r.field, r.value, unset)
  BY <1>4, HoldsNew DEF Apart
<1>5. CASE r.field = "PREVIOUS_TXID"
  <2>1. new = [in EXCEPT !.txid = r.value]
    BY <1>5 DEF NewInput
  <2>2. InputShape(new)
    BY <2>1 DEF InputShape
  <2>3. Holds(Y, "PREVIOUS_TXID", new.txid, None)
    <3>1. new.txid = r.value
      BY <2>1 DEF InputShape
    <3>. QED
      BY <1>5, <1>4, <3>1 DEF HaveKeydata
  <2>4. InputMade(new, Y)
    BY <1>1, <1>2, <1>3, <1>5, <2>1, <2>3 DEF InputShape, InputMade
  <2>. QED
    BY <2>2, <2>4
<1>6. CASE r.field = "OUTPUT_INDEX"
  <2>1. new = [in EXCEPT !.index = r.value]
    BY <1>6 DEF NewInput
  <2>2. InputShape(new)
    BY <2>1 DEF InputShape
  <2>3. Holds(Y, "OUTPUT_INDEX", new.index, 0)
    <3>1. new.index = r.value
      BY <2>1 DEF InputShape
    <3>. QED
      BY <1>6, <1>4, <3>1 DEF HaveKeydata
  <2>4. InputMade(new, Y)
    BY <1>1, <1>2, <1>3, <1>6, <2>1, <2>3 DEF InputShape, InputMade
  <2>. QED
    BY <2>2, <2>4
<1>7. CASE r.field = "SEQUENCE"
  <2>1. new = [in EXCEPT !.sequence = r.value]
    BY <1>7 DEF NewInput
  <2>2. InputShape(new)
    BY <2>1 DEF InputShape
  <2>3. Holds(Y, "SEQUENCE", new.sequence, FinalSequence)
    <3>1. new.sequence = r.value
      BY <2>1 DEF InputShape
    <3>. QED
      BY <1>7, <1>4, <3>1 DEF HaveKeydata
  <2>4. InputMade(new, Y)
    BY <1>1, <1>2, <1>3, <1>7, <2>1, <2>3 DEF InputShape, InputMade
  <2>. QED
    BY <2>2, <2>4
<1>8. CASE r.field = "REQUIRED_TIME_LOCKTIME"
  <2>1. new = [in EXCEPT !.time = r.value]
    BY <1>8 DEF NewInput
  <2>2. InputShape(new)
    BY <2>1 DEF InputShape
  <2>3. Holds(Y, "REQUIRED_TIME_LOCKTIME", new.time, 0)
    <3>1. new.time = r.value
      BY <2>1 DEF InputShape
    <3>. QED
      BY <1>8, <1>4, <3>1 DEF HaveKeydata
  <2>4. InputMade(new, Y)
    BY <1>1, <1>2, <1>3, <1>8, <2>1, <2>3 DEF InputShape, InputMade
  <2>. QED
    BY <2>2, <2>4
<1>9. CASE r.field = "REQUIRED_HEIGHT_LOCKTIME"
  <2>1. new = [in EXCEPT !.height = r.value]
    BY <1>9 DEF NewInput
  <2>2. InputShape(new)
    BY <2>1 DEF InputShape
  <2>3. Holds(Y, "REQUIRED_HEIGHT_LOCKTIME", new.height, 0)
    <3>1. new.height = r.value
      BY <2>1 DEF InputShape
    <3>. QED
      BY <1>9, <1>4, <3>1 DEF HaveKeydata
  <2>4. InputMade(new, Y)
    BY <1>1, <1>2, <1>3, <1>9, <2>1, <2>3 DEF InputShape, InputMade
  <2>. QED
    BY <2>2, <2>4
<1>10. CASE r.field = "SIGHASH_TYPE"
  <2>1. new = [in EXCEPT !.sighash = r.value]
    BY <1>10 DEF NewInput
  <2>2. InputShape(new)
    BY <2>1 DEF InputShape
  <2>3. Holds(Y, "SIGHASH_TYPE", new.sighash, None)
    <3>1. new.sighash = r.value
      BY <2>1 DEF InputShape
    <3>. QED
      BY <1>10, <1>4, <3>1 DEF HaveKeydata
  <2>4. InputMade(new, Y)
    BY <1>1, <1>2, <1>3, <1>10, <2>1, <2>3 DEF InputShape, InputMade
  <2>. QED
    BY <2>2, <2>4
<1>11. CASE r.field = "WITNESS_UTXO"
  <2>1. new = [in EXCEPT !.utxo = r.value]
    BY <1>11 DEF NewInput
  <2>2. InputShape(new)
    BY <2>1 DEF InputShape
  <2>3. Holds(Y, "WITNESS_UTXO", new.utxo, None)
    <3>1. new.utxo = r.value
      BY <2>1 DEF InputShape
    <3>. QED
      BY <1>11, <1>4, <3>1 DEF HaveKeydata
  <2>4. InputMade(new, Y)
    BY <1>1, <1>2, <1>3, <1>11, <2>1, <2>3 DEF InputShape, InputMade
  <2>. QED
    BY <2>2, <2>4
<1>12. CASE r.field = "WITNESS_SCRIPT"
  <2>1. new = [in EXCEPT !.script = r.value]
    BY <1>12 DEF NewInput
  <2>2. InputShape(new)
    BY <2>1 DEF InputShape
  <2>3. Holds(Y, "WITNESS_SCRIPT", new.script, None)
    <3>1. new.script = r.value
      BY <2>1 DEF InputShape
    <3>. QED
      BY <1>12, <1>4, <3>1 DEF HaveKeydata
  <2>4. InputMade(new, Y)
    BY <1>1, <1>2, <1>3, <1>12, <2>1, <2>3 DEF InputShape, InputMade
  <2>. QED
    BY <2>2, <2>4
<1>13. CASE r.field = "FINAL_SCRIPTWITNESS"
  <2>1. new = [in EXCEPT !.final = r.value]
    BY <1>13 DEF NewInput
  <2>2. InputShape(new)
    BY <2>1 DEF InputShape
  <2>3. Holds(Y, "FINAL_SCRIPTWITNESS", new.final, None)
    <3>1. new.final = r.value
      BY <2>1 DEF InputShape
    <3>. QED
      BY <1>13, <1>4, <3>1 DEF HaveKeydata
  <2>4. InputMade(new, Y)
    BY <1>1, <1>2, <1>3, <1>13, <2>1, <2>3 DEF InputShape, InputMade
  <2>. QED
    BY <2>2, <2>4
<1>14. CASE r.field = "PARTIAL_SIG"
  <2>1. new = [in EXCEPT !.sigs = [in.sigs EXCEPT ![r.key] = r.value]]
    BY <1>14 DEF NewInput
  <2>2. r.key \in Keys
    BY <1>14 DEF InputRecord, HaveKeydata
  <2>3. new.sigs = [k \in Keys |-> IF k = r.key THEN r.value ELSE in.sigs[k]]
    BY <2>1, <2>2 DEF InputShape
  <2>4. InputShape(new)
    BY <2>1, <2>3 DEF InputShape
  <2>5. ASSUME NEW k \in Keys
        PROVE  Holds(SigsOf(Y, k), "PARTIAL_SIG", new.sigs[k], None)
    <3>1. CASE k = r.key
      <4>1. SigsOf(Y, k) = {r} /\ new.sigs[k] = r.value
        BY <1>14, <2>3, <3>1 DEF Apart, SigsOf
      <4>. QED
        BY <1>14, <4>1 DEF Holds, Fields
    <3>2. CASE k # r.key
      <4>1. SigsOf(Y, k) = SigsOf(X, k) /\ new.sigs[k] = in.sigs[k]
        BY <2>3, <3>2 DEF SigsOf
      <4>. QED
        BY <4>1 DEF InputMade
    <3>. QED
      BY <3>1, <3>2
  <2>6. InputMade(new, Y)
    BY <1>2, <1>3, <1>14, <2>1, <2>5 DEF InputShape, InputMade
  <2>. QED
    BY <2>4, <2>6
<1>15. CASE r.field = "BIP32_DERIVATION"
  <2>1. new = [in EXCEPT !.keypaths = in.keypaths \cup {r.key}]
    BY <1>15 DEF NewInput
  <2>2. InputShape(new)
    BY <2>1 DEF InputShape
  <2>3. KeypathsOf(Y) = KeypathsOf(X) \cup {r.key}
    BY <1>15 DEF KeypathsOf
  <2>4. InputMade(new, Y)
    BY <1>1, <1>3, <1>15, <2>1, <2>3 DEF InputShape, InputMade
  <2>. QED
    BY <2>2, <2>4
<1>. QED
  BY <1>5, <1>6, <1>7, <1>8, <1>9, <1>10, <1>11, <1>12, <1>13, <1>14, <1>15 DEF InputRecord, PlainInputFields, HaveKeydata

-----------------------------------------------------------------------------
(* The map of an input, read.                                              *)

NotTrailing == FALSE

Reader(section, at, keyset, inCount, outCount, p) ==
    [section |-> section, at |-> at, keyset |-> keyset, inCount |-> inCount,
     outCount |-> outCount, psbt |-> p, trailing |-> NotTrailing]

WithKeyset(s, K) == [s EXCEPT !.keyset = K]
WithPsbt(s, p) == [s EXCEPT !.psbt = p]
WithPlace(s, section, at) == [s EXCEPT !.section = section, !.at = at]

LEMMA ReaderParts ==
    ASSUME NEW section, NEW at, NEW K, NEW ic, NEW oc, NEW p,
           NEW s, s = Reader(section, at, K, ic, oc, p)
    PROVE  /\ s.section = section /\ s.at = at /\ s.keyset = K /\ s.inCount = ic
           /\ s.outCount = oc /\ s.psbt = p
           /\ \A new : WithKeyset(s, new) = Reader(section, at, new, ic, oc, p)
           /\ \A new : WithPsbt(s, new) = Reader(section, at, K, ic, oc, new)
<1>1. /\ s.section = section /\ s.at = at /\ s.keyset = K /\ s.inCount = ic
      /\ s.outCount = oc /\ s.psbt = p
  BY DEF Reader
<1>2. ASSUME NEW new PROVE WithKeyset(s, new) = Reader(section, at, new, ic, oc, p)
  BY DEF Reader, WithKeyset
<1>3. ASSUME NEW new PROVE WithPsbt(s, new) = Reader(section, at, K, ic, oc, new)
  BY DEF Reader, WithPsbt
<1>. QED
  BY <1>1, <1>2, <1>3

LEMMA ReaderPlace ==
    ASSUME NEW section, NEW at, NEW K, NEW ic, NEW oc, NEW p,
           NEW s, s = Reader(section, at, K, ic, oc, p), NEW a, NEW b
    PROVE  WithPlace(s, a, b) = Reader(a, b, K, ic, oc, p)
<1>1. [s EXCEPT !.section = a] = Reader(a, at, K, ic, oc, p)
  BY DEF Reader
<1>2. [Reader(a, at, K, ic, oc, p) EXCEPT !.at = b] = Reader(a, b, K, ic, oc, p)
  BY DEF Reader
<1>. QED
  BY <1>1, <1>2, Zenon DEF WithPlace

PsbtShape(p) ==
    /\ p = [version |-> p.version, tx |-> p.tx, txVersion |-> p.txVersion,
            fallback |-> p.fallback, mods |-> p.mods, inputs |-> p.inputs,
            outputs |-> p.outputs]
    /\ p.inputs \in Seq(Range(p.inputs)) /\ p.outputs \in Seq(Range(p.outputs))

WithInput(p, i, in) == [p EXCEPT !.inputs = [p.inputs EXCEPT ![i] = in]]

InputState(i, X, ic, oc, p, in) ==
    Reader("input", i, Fields(X), ic, oc, WithInput(p, i, in))

LEMMA InputRecordIsRead ==
    ASSUME NEW p, PsbtShape(p), NEW i \in DOMAIN p.inputs, NEW ic, NEW oc,
           NEW in, NEW X, InputShape(in), InputMade(in, X),
           NEW r, InputRecord(r), \A x \in X : Apart(x, r)
    PROVE  ReadRecord(InputState(i, X, ic, oc, p, in), r)
             = InputState(i, X \cup {r}, ic, oc, p, NewInput(in, r))
<1>. DEFINE new == NewInput(in, r)
            q == WithInput(p, i, in)
            K == Fields(X) \cup {r.field}
            s == Reader("input", i, K, ic, oc, q)
<1>1. /\ r.field \notin Fields(X) \ HaveKeydata
      /\ r.field = "PARTIAL_SIG" => IsNewSignature(in, r)
      /\ r.field = "BIP32_DERIVATION" => r.key \notin in.keypaths
  BY InputTakes
<1>2. Fields(X \cup {r}) = K
  BY DEF Fields
<1>3. ReadRecord(InputState(i, X, ic, oc, p, in), r) = ReadInput(s, r)
  <2>. DEFINE t == InputState(i, X, ic, oc, p, in)
  <2>1. /\ t.section = "input" /\ t.keyset = Fields(X)
        /\ WithKeyset(t, t.keyset \cup {r.field}) = s
    <3>1. t = Reader("input", i, Fields(X), ic, oc, q)
      BY DEF InputState
    <3>. HIDE DEF t, q
    <3>. QED
      BY <3>1, ReaderParts
  <2>. HIDE DEF t, s
  <2>2. ReadRecord(t, r) = ReadInput(WithKeyset(t, t.keyset \cup {r.field}), r)
    BY <1>1, <2>1 DEF ReadRecord, WithKeyset
  <2>. QED
    BY <2>1, <2>2, Zenon DEF t
<1>4. /\ q = [version |-> p.version, tx |-> p.tx, txVersion |-> p.txVersion,
              fallback |-> p.fallback, mods |-> p.mods,
              inputs |-> [p.inputs EXCEPT ![i] = in], outputs |-> p.outputs]
      /\ q.inputs[i] = in
  <2>1. q = [p EXCEPT !.inputs = [p.inputs EXCEPT ![i] = in]]
    BY DEF WithInput
  <2>2. q.inputs = [p.inputs EXCEPT ![i] = in]
    BY <2>1 DEF PsbtShape
  <2>. QED
    BY <2>1, <2>2 DEF PsbtShape
<1>5. [s EXCEPT !.psbt.inputs[i] = new] = InputState(i, X \cup {r}, ic, oc, p, new)
  <2>1. [q EXCEPT !.inputs = [q.inputs EXCEPT ![i] = new]] = WithInput(p, i, new)
    BY DEF WithInput, PsbtShape
  <2>2. WithPsbt(s, WithInput(p, i, new)) = InputState(i, X \cup {r}, ic, oc, p, new)
    <3>. DEFINE other == WithInput(p, i, new)
    <3>1. s = Reader("input", i, K, ic, oc, q)
      OBVIOUS
    <3>2. InputState(i, X \cup {r}, ic, oc, p, new) = Reader("input", i, K, ic, oc, other)
      BY <1>2 DEF InputState
    <3>. HIDE DEF s, q, other, K
    <3>3. WithPsbt(s, other) = Reader("input", i, K, ic, oc, other)
      BY <3>1, ReaderParts
    <3>. QED
      BY <3>2, <3>3 DEF other
  <2>3. s.psbt = q
    BY DEF Reader
  <2>. HIDE DEF s, q
  <2>. QED
    BY <2>1, <2>2, <2>3 DEF WithPsbt
<1>6. ReadInput(s, r) = [s EXCEPT !.psbt.inputs[i] = new]
  <2>1. s.psbt = q /\ s.at = i
    BY DEF Reader
  <2>. HIDE DEF s, q
  <2>. QED
    BY <1>1, <1>4, <2>1, ZenonT(60) DEF ReadInput, NewInput, InputRecord, PlainInputFields,
       HaveKeydata
<1>. QED
  BY <1>3, <1>5, <1>6

FirstOf(records, n) == {records[m] : m \in 1..n}

LEMMA FirstOneMore ==
    ASSUME NEW records, NEW N \in Nat, NEW n \in 1..N
    PROVE  FirstOf(records, n) = FirstOf(records, n - 1) \cup {records[n]}
<1>1. 1..n = 1..(n - 1) \cup {n}
  OBVIOUS
<1>. QED
  BY <1>1 DEF FirstOf

LEMMA InputMapIsRead ==
    ASSUME NEW p, PsbtShape(p), NEW i \in DOMAIN p.inputs, NEW ic, NEW oc,
           NEW X, NEW records, Lists(records, X), \A r \in X : InputRecord(r),
           NEW w, InputShape(w), InputMade(w, X)
    PROVE  ReadRecords(InputState(i, {}, ic, oc, p, BlankInput), records)
             = InputState(i, X, ic, oc, p, w)
<1>. DEFINE start == InputState(i, {}, ic, oc, p, BlankInput)
            N == Len(records)
            F(n) == FirstOf(records, n)
<1>1. N \in Nat /\ DOMAIN records = 1..N
  BY DEF Lists
<1>20. PICK g : RecordSteps(g, start, records, N)
  <2>. HIDE DEF start, N
  <2>. QED
    BY <1>1, RecordsLoop
<1>2. /\ g[0] = start /\ g[N] = ReadRecords(start, records)
      /\ \A n \in 1..N : g[n] = ReadRecord(g[n - 1], records[n])
  BY <1>20 DEF RecordSteps
<1>. DEFINE Fits(in, n) == /\ InputShape(in) /\ InputMade(in, F(n))
                           /\ g[n] = InputState(i, F(n), ic, oc, p, in)
            T == {n \in Nat : \E in : Fits(in, n)}
<1>3. 0 \in T
  <2>1. F(0) = {}
    BY DEF FirstOf
  <2>2. Fits(BlankInput, 0)
    BY <1>2, <2>1, BlankMade
  <2>. QED
    BY <2>2
<1>4. ASSUME NEW n \in 1..N, n - 1 \in T PROVE n \in T
  <2>1. PICK in : Fits(in, n - 1)
    BY <1>4
  <2>2. F(n) = F(n - 1) \cup {records[n]} /\ records[n] \in X
    BY <1>1, FirstOneMore DEF Lists
  <2>3. InputRecord(records[n])
    BY <2>2
  <2>4. ASSUME NEW x \in F(n - 1) PROVE Apart(x, records[n])
    <3>1. PICK m \in 1..(n - 1) : x = records[m]
      BY DEF FirstOf
    <3>2. m \in 1..N /\ m # n
      BY <1>1
    <3>. QED
      BY <3>1, <3>2 DEF Lists
  <2>5. Fits(NewInput(in, records[n]), n)
    <3>. DEFINE r == records[n]
                Y == F(n - 1)
                h == g[n - 1]
    <3>1. InputShape(in) /\ InputMade(in, Y) /\ h = InputState(i, Y, ic, oc, p, in)
      BY <2>1
    <3>2. F(n) = Y \cup {r} /\ InputRecord(r) /\ (\A x \in Y : Apart(x, r))
          /\ g[n] = ReadRecord(h, r)
      BY <1>2, <2>2, <2>3, <2>4
    <3>. HIDE DEF r, Y, h, F
    <3>3. InputShape(NewInput(in, r)) /\ InputMade(NewInput(in, r), Y \cup {r})
      BY <3>1, <3>2, InputStep
    <3>4. ReadRecord(h, r) = InputState(i, Y \cup {r}, ic, oc, p, NewInput(in, r))
      BY <3>1, <3>2, InputRecordIsRead
    <3>5. InputShape(NewInput(in, r)) /\ InputMade(NewInput(in, r), F(n))
          /\ g[n] = InputState(i, F(n), ic, oc, p, NewInput(in, r))
      BY <3>2, <3>3, <3>4
    <3>. QED
      BY <3>5 DEF r
  <2>6. n \in Nat
    BY <1>1
  <2>. QED
    BY <2>5, <2>6
<1>5. N \in T
  <2>. HIDE DEF T, N
  <2>1. \A n \in 0..N : n \in T
    BY <1>1, <1>3, <1>4, Stepwise
  <2>. QED
    BY <1>1, <2>1
<1>6. F(N) = X
  BY <1>1 DEF FirstOf, Lists, Range
<1>7. PICK in : Fits(in, N)
  BY <1>5
<1>8. in = w
  BY <1>6, <1>7, InputsSame
<1>. QED
  BY <1>2, <1>6, <1>7, <1>8

-----------------------------------------------------------------------------
(* The map of the globals of version 2, read.                              *)

Globals(version, txVersion, fallback, mods) ==
    [version |-> version, tx |-> None, txVersion |-> txVersion,
     fallback |-> fallback, mods |-> mods, inputs |-> <<>>, outputs |-> <<>>]

GlobalState(X, ic, oc, version, txVersion, fallback, mods) ==
    Reader("global", 1, Fields(X), ic, oc,
           Globals(version, txVersion, fallback, mods))

GlobalMade(X, ic, oc, version, txVersion, fallback, mods) ==
    /\ Holds(X, "INPUT_COUNT", ic, 0)
    /\ Holds(X, "OUTPUT_COUNT", oc, 0)
    /\ Holds(X, "VERSION", version, 0)
    /\ Holds(X, "TX_VERSION", txVersion, 2)
    /\ Holds(X, "FALLBACK_LOCKTIME", fallback, None)
    /\ Holds(X, "TX_MODIFIABLE", mods, {})

GlobalRecord(r) ==
    /\ r.field \in {"INPUT_COUNT", "OUTPUT_COUNT", "VERSION", "TX_VERSION",
                    "FALLBACK_LOCKTIME", "TX_MODIFIABLE"}
    /\ r.field = "VERSION" => r.value \in {0, 2}
    /\ r.field = "TX_MODIFIABLE" => r.value \subseteq Flags

GlobalsRead(s, X) ==
    \E ic, oc, version, txVersion, fallback, mods :
        /\ GlobalMade(X, ic, oc, version, txVersion, fallback, mods)
        /\ s = GlobalState(X, ic, oc, version, txVersion, fallback, mods)

LEMMA GlobalRecordIsRead ==
    ASSUME NEW X, NEW ic, NEW oc, NEW version, NEW txVersion, NEW fallback, NEW mods,
           GlobalMade(X, ic, oc, version, txVersion, fallback, mods),
           NEW r, GlobalRecord(r), \A x \in X : Apart(x, r)
    PROVE  GlobalsRead(
               ReadRecord(GlobalState(X, ic, oc, version, txVersion, fallback, mods), r),
               X \cup {r})
<1>. DEFINE v == r.value
            Y == X \cup {r}
            p == Globals(version, txVersion, fallback, mods)
            t == GlobalState(X, ic, oc, version, txVersion, fallback, mods)
            s == Reader("global", 1, Fields(Y), ic, oc, p)
<1>1. r.field \notin Fields(X) /\ r.field \notin HaveKeydata
  BY DEF Apart, Fields, HaveKeydata, GlobalRecord
<1>2. Fields(Y) = Fields(X) \cup {r.field}
  BY DEF Fields
<1>3. ReadRecord(t, r) = ReadGlobal(s, r)
  <2>1. t = Reader("global", 1, Fields(X), ic, oc, p)
    BY DEF GlobalState
  <2>. HIDE DEF t, p
  <2>2. t.section = "global" /\ t.keyset = Fields(X)
        /\ WithKeyset(t, Fields(Y)) = s
    BY <2>1, ReaderParts
  <2>. HIDE DEF s
  <2>3. ReadRecord(t, r) = ReadGlobal(WithKeyset(t, t.keyset \cup {r.field}), r)
    BY <1>1, <2>2 DEF ReadRecord, WithKeyset
  <2>. QED
    BY <1>2, <2>2, <2>3
<1>4. ASSUME NEW f, NEW w, NEW unset, Holds(X, f, w, unset), r.field # f
      PROVE  Holds(Y, f, w, unset)
  BY <1>4, HoldsOther
<1>5. ASSUME NEW unset PROVE Holds(Y, r.field, v, unset)
  BY <1>1, HoldsNew DEF Apart
<1>6. s.psbt = p
  BY DEF Reader
<1>7. ASSUME NEW new PROVE WithPsbt(s, new) = Reader("global", 1, Fields(Y), ic, oc, new)
  <2>. HIDE DEF p, s, Y
  <2>1. s = Reader("global", 1, Fields(Y), ic, oc, p)
    BY DEF s
  <2>. QED
    BY <2>1, ReaderParts
<1>14. /\ [p EXCEPT !.version = v] = Globals(v, txVersion, fallback, mods)
       /\ [p EXCEPT !.txVersion = v] = Globals(version, v, fallback, mods)
       /\ [p EXCEPT !.fallback = v] = Globals(version, txVersion, v, mods)
       /\ [p EXCEPT !.mods = v] = Globals(version, txVersion, fallback, v)
  <2>. HIDE DEF v
  <2>1. [p EXCEPT !.version = v] = Globals(v, txVersion, fallback, mods)
    BY DEF Globals
  <2>2. [p EXCEPT !.txVersion = v] = Globals(version, v, fallback, mods)
    BY DEF Globals
  <2>3. [p EXCEPT !.fallback = v] = Globals(version, txVersion, v, mods)
    BY DEF Globals
  <2>4. [p EXCEPT !.mods = v] = Globals(version, txVersion, fallback, v)
    BY DEF Globals
  <2>. QED
    BY <2>1, <2>2, <2>3, <2>4
<1>. HIDE DEF Y
<1>8. CASE r.field = "VERSION"
  <2>1. ReadGlobal(s, r) = WithPsbt(s, [s.psbt EXCEPT !.version = v])
    BY <1>8 DEF ReadGlobal, GlobalRecord, WithPsbt
  <2>2. ReadGlobal(s, r) = GlobalState(Y, ic, oc, v, txVersion, fallback, mods)
    <3>. HIDE DEF s, p
    <3>. QED
      BY <1>6, <1>7, <1>14, <2>1 DEF GlobalState
  <2>3. GlobalMade(Y, ic, oc, v, txVersion, fallback, mods)
    BY <1>4, <1>5, <1>8 DEF GlobalMade
  <2>. QED
    BY <1>3, <2>2, <2>3 DEF Y, GlobalsRead
<1>9. CASE r.field = "TX_VERSION"
  <2>1. ReadGlobal(s, r) = WithPsbt(s, [s.psbt EXCEPT !.txVersion = v])
    BY <1>9 DEF ReadGlobal, WithPsbt
  <2>2. ReadGlobal(s, r) = GlobalState(Y, ic, oc, version, v, fallback, mods)
    <3>. HIDE DEF s, p
    <3>. QED
      BY <1>6, <1>7, <1>14, <2>1 DEF GlobalState
  <2>3. GlobalMade(Y, ic, oc, version, v, fallback, mods)
    BY <1>4, <1>5, <1>9 DEF GlobalMade
  <2>. QED
    BY <1>3, <2>2, <2>3 DEF Y, GlobalsRead
<1>10. CASE r.field = "FALLBACK_LOCKTIME"
  <2>1. ReadGlobal(s, r) = WithPsbt(s, [s.psbt EXCEPT !.fallback = v])
    BY <1>10 DEF ReadGlobal, WithPsbt
  <2>2. ReadGlobal(s, r) = GlobalState(Y, ic, oc, version, txVersion, v, mods)
    <3>. HIDE DEF s, p
    <3>. QED
      BY <1>6, <1>7, <1>14, <2>1 DEF GlobalState
  <2>3. GlobalMade(Y, ic, oc, version, txVersion, v, mods)
    BY <1>4, <1>5, <1>10 DEF GlobalMade
  <2>. QED
    BY <1>3, <2>2, <2>3 DEF Y, GlobalsRead
<1>11. CASE r.field = "TX_MODIFIABLE"
  <2>1. ReadGlobal(s, r) = WithPsbt(s, [s.psbt EXCEPT !.mods = v])
    BY <1>11 DEF ReadGlobal, GlobalRecord, WithPsbt
  <2>2. ReadGlobal(s, r) = GlobalState(Y, ic, oc, version, txVersion, fallback, v)
    <3>. HIDE DEF s, p
    <3>. QED
      BY <1>6, <1>7, <1>14, <2>1 DEF GlobalState
  <2>3. GlobalMade(Y, ic, oc, version, txVersion, fallback, v)
    BY <1>4, <1>5, <1>11 DEF GlobalMade
  <2>. QED
    BY <1>3, <2>2, <2>3 DEF Y, GlobalsRead
<1>12. CASE r.field = "INPUT_COUNT"
  <2>1. ReadGlobal(s, r) = [s EXCEPT !.inCount = v]
    BY <1>12 DEF ReadGlobal
  <2>2. [s EXCEPT !.inCount = v] = GlobalState(Y, v, oc, version, txVersion, fallback, mods)
    <3>. HIDE DEF p
    <3>1. [s EXCEPT !.inCount = v] = Reader("global", 1, Fields(Y), v, oc, p)
      BY DEF Reader
    <3>. QED
      BY <3>1 DEF GlobalState, p
  <2>3. GlobalMade(Y, v, oc, version, txVersion, fallback, mods)
    BY <1>4, <1>5, <1>12 DEF GlobalMade
  <2>. QED
    BY <1>3, <2>1, <2>2, <2>3 DEF Y, GlobalsRead
<1>13. CASE r.field = "OUTPUT_COUNT"
  <2>1. ReadGlobal(s, r) = [s EXCEPT !.outCount = v]
    BY <1>13 DEF ReadGlobal
  <2>2. [s EXCEPT !.outCount = v] = GlobalState(Y, ic, v, version, txVersion, fallback, mods)
    <3>. HIDE DEF p
    <3>1. [s EXCEPT !.outCount = v] = Reader("global", 1, Fields(Y), ic, v, p)
      BY DEF Reader
    <3>. QED
      BY <3>1 DEF GlobalState, p
  <2>3. GlobalMade(Y, ic, v, version, txVersion, fallback, mods)
    BY <1>4, <1>5, <1>13 DEF GlobalMade
  <2>. QED
    BY <1>3, <2>1, <2>2, <2>3 DEF Y, GlobalsRead
<1>. QED
  BY <1>8, <1>9, <1>10, <1>11, <1>12, <1>13 DEF GlobalRecord

LEMMA GlobalsSame ==
    ASSUME NEW X, NEW a1, NEW a2, NEW a3, NEW a4, NEW a5, NEW a6,
           NEW b1, NEW b2, NEW b3, NEW b4, NEW b5, NEW b6,
           GlobalMade(X, a1, a2, a3, a4, a5, a6), GlobalMade(X, b1, b2, b3, b4, b5, b6)
    PROVE  a1 = b1 /\ a2 = b2 /\ a3 = b3 /\ a4 = b4 /\ a5 = b5 /\ a6 = b6
<1>1. a1 = b1
  BY HoldsSame, Zenon DEF GlobalMade
<1>2. a2 = b2
  BY HoldsSame, Zenon DEF GlobalMade
<1>3. a3 = b3
  BY HoldsSame, Zenon DEF GlobalMade
<1>4. a4 = b4
  BY HoldsSame, Zenon DEF GlobalMade
<1>5. a5 = b5
  BY HoldsSame, Zenon DEF GlobalMade
<1>6. a6 = b6
  BY HoldsSame, Zenon DEF GlobalMade
<1>. QED
  BY <1>1, <1>2, <1>3, <1>4, <1>5, <1>6

LEMMA StartIsGlobal ==
    /\ StartReading = GlobalState({}, 0, 0, 0, 2, None, {})
    /\ GlobalMade({}, 0, 0, 0, 2, None, {})
<1>1. [InitPsbt(0) EXCEPT !.mods = {}] = Globals(0, 2, None, {})
  BY DEF InitPsbt, Globals
<1>2. Fields({}) = {}
  BY DEF Fields
<1>3. StartReading = GlobalState({}, 0, 0, 0, 2, None, {})
  <2>. DEFINE p == Globals(0, 2, None, {})
  <2>. HIDE DEF p
  <2>1. [InitPsbt(0) EXCEPT !.mods = {}] = p
    BY <1>1 DEF p
  <2>2. GlobalState({}, 0, 0, 0, 2, None, {}) = Reader("global", 1, {}, 0, 0, p)
    BY <1>2 DEF p, GlobalState
  <2>3. Reader("global", 1, {}, 0, 0, p)
          = [section |-> "global", at |-> 1, keyset |-> {}, inCount |-> 0,
             outCount |-> 0, psbt |-> p, trailing |-> FALSE]
    BY DEF Reader, NotTrailing
  <2>. QED
    BY <2>1, <2>2, <2>3, Zenon DEF StartReading
<1>. QED
  BY <1>3, HoldsNothing DEF GlobalMade

LEMMA GlobalMapIsRead ==
    ASSUME NEW X, NEW records, Lists(records, X), \A r \in X : GlobalRecord(r),
           NEW ic, NEW oc, NEW version, NEW txVersion, NEW fallback, NEW mods,
           GlobalMade(X, ic, oc, version, txVersion, fallback, mods)
    PROVE  ReadRecords(StartReading, records)
             = GlobalState(X, ic, oc, version, txVersion, fallback, mods)
<1>. DEFINE N == Len(records)
            F(n) == FirstOf(records, n)
<1>1. N \in Nat /\ DOMAIN records = 1..N
  BY DEF Lists
<1>20. PICK g : RecordSteps(g, StartReading, records, N)
  <2>. HIDE DEF N
  <2>. QED
    BY <1>1, RecordsLoop
<1>2. /\ g[0] = StartReading /\ g[N] = ReadRecords(StartReading, records)
      /\ \A n \in 1..N : g[n] = ReadRecord(g[n - 1], records[n])
  BY <1>20 DEF RecordSteps
<1>. DEFINE T == {n \in Nat : GlobalsRead(g[n], F(n))}
<1>3. 0 \in T
  <2>1. F(0) = {}
    BY DEF FirstOf
  <2>2. GlobalsRead(g[0], {})
    BY <1>2, StartIsGlobal DEF GlobalsRead
  <2>. QED
    BY <2>1, <2>2
<1>4. ASSUME NEW n \in 1..N, n - 1 \in T PROVE n \in T
  <2>. DEFINE r == records[n]
              Y == F(n - 1)
              h == g[n - 1]
  <2>1. GlobalsRead(h, Y)
    BY <1>4
  <2>2. F(n) = Y \cup {r} /\ r \in X
    BY <1>1, FirstOneMore DEF Lists
  <2>3. GlobalRecord(r) /\ g[n] = ReadRecord(h, r)
    BY <1>2, <2>2
  <2>4. ASSUME NEW x \in Y PROVE Apart(x, r)
    <3>1. PICK j \in 1..(n - 1) : x = records[j]
      BY DEF FirstOf
    <3>2. j \in 1..N /\ j # n
      BY <1>1
    <3>. QED
      BY <3>1, <3>2 DEF Lists
  <2>5. n \in Nat
    BY <1>1
  <2>. HIDE DEF r, Y, h
  <2>6. GlobalsRead(ReadRecord(h, r), Y \cup {r})
    <3>1. PICK a, b, c, d, e, m : GlobalMade(Y, a, b, c, d, e, m)
                                  /\ h = GlobalState(Y, a, b, c, d, e, m)
      BY <2>1 DEF GlobalsRead
    <3>. QED
      BY <2>3, <2>4, <3>1, GlobalRecordIsRead
  <2>. QED
    BY <2>2, <2>3, <2>5, <2>6
<1>5. N \in T
  <2>. HIDE DEF T, N
  <2>1. \A n \in 0..N : n \in T
    BY <1>1, <1>3, <1>4, Stepwise
  <2>. QED
    BY <1>1, <2>1
<1>6. F(N) = X
  BY <1>1 DEF FirstOf, Lists, Range
<1>7. PICK a, b, c, d, e, m : /\ GlobalMade(X, a, b, c, d, e, m)
                              /\ g[N] = GlobalState(X, a, b, c, d, e, m)
  BY <1>5, <1>6 DEF GlobalsRead
<1>8. a = ic /\ b = oc /\ c = version /\ d = txVersion /\ e = fallback /\ m = mods
  BY <1>7, GlobalsSame
<1>. QED
  BY <1>2, <1>7, <1>8

-----------------------------------------------------------------------------
(* The map of an output, read: without records in version 0, with both in  *)
(* version 2.                                                              *)

WithOutput(p, i, out) == [p EXCEPT !.outputs = [p.outputs EXCEPT ![i] = out]]

LEMMA OutputMapIsRead ==
    ASSUME NEW p, PsbtShape(p), NEW i \in DOMAIN p.outputs, NEW ic, NEW oc,
           NEW script, NEW satoshi, p.outputs[i] = EmptyOutput
    PROVE  ReadRecords(Reader("output", i, {}, ic, oc, p),
                       <<Plain("AMOUNT", satoshi), Plain("SCRIPT", script)>>)
             = Reader("output", i, {"AMOUNT", "SCRIPT"}, ic, oc,
                      WithOutput(p, i, [script |-> script, satoshi |-> satoshi]))
<1>. DEFINE s == Reader("output", i, {}, ic, oc, p)
            a == Plain("AMOUNT", satoshi)
            b == Plain("SCRIPT", script)
            f == <<a, b>>
<1>10. PICK g : RecordSteps(g, s, f, 2)
  <2>1. 2 \in Nat /\ DOMAIN f = 1..2
    OBVIOUS
  <2>. HIDE DEF s, f
  <2>. QED
    BY <2>1, RecordsLoop
<1>1. /\ g[0] = s /\ g[2] = ReadRecords(s, f)
      /\ \A n \in 1..2 : g[n] = ReadRecord(g[n - 1], f[n])
  <2>. HIDE DEF s, f
  <2>. QED
    BY <1>10 DEF RecordSteps
<1>2. g[1] = ReadRecord(s, a) /\ g[2] = ReadRecord(g[1], b)
  BY <1>1
<1>. DEFINE half == [script |-> None, satoshi |-> satoshi]
            q == WithOutput(p, i, half)
            t == Reader("output", i, {"AMOUNT"}, ic, oc, q)
            full == [script |-> script, satoshi |-> satoshi]
            u == Reader("output", i, {"AMOUNT", "SCRIPT"}, ic, oc, WithOutput(p, i, full))
            s1 == Reader("output", i, {"AMOUNT"}, ic, oc, p)
            t1 == Reader("output", i, {"AMOUNT", "SCRIPT"}, ic, oc, q)
<1>3. /\ a.field = "AMOUNT" /\ a.value = satoshi /\ b.field = "SCRIPT" /\ b.value = script
      /\ {} \cup {"AMOUNT"} = {"AMOUNT"} /\ {"AMOUNT"} \cup {"SCRIPT"} = {"AMOUNT", "SCRIPT"}
  BY DEF Plain, Record
<1>4. ReadRecord(s, a) = t
  <2>1. /\ s.section = "output" /\ s.keyset = {} /\ WithKeyset(s, {"AMOUNT"}) = s1
        /\ s1.at = i /\ s1.psbt = p
        /\ \A new : WithPsbt(s1, new) = Reader("output", i, {"AMOUNT"}, ic, oc, new)
    <3>1. s = Reader("output", i, {}, ic, oc, p)
          /\ s1 = Reader("output", i, {"AMOUNT"}, ic, oc, p)
      OBVIOUS
    <3>. HIDE DEF s, s1
    <3>. QED
      BY <3>1, ReaderParts
  <2>2. ReadRecord(s, a) = ReadOutput(WithKeyset(s, {} \cup {"AMOUNT"}), a)
    <3>. HIDE DEF s, a
    <3>. QED
      BY <1>3, <2>1 DEF ReadRecord, WithKeyset, HaveKeydata
  <2>3. [p.outputs[i] EXCEPT !.satoshi = satoshi] = half
    BY DEF EmptyOutput
  <2>4. ReadOutput(s1, a) = WithPsbt(s1, q)
    <3>. HIDE DEF s1, a, half
    <3>. QED
      BY <1>3, <2>1, <2>3 DEF ReadOutput, WithPsbt, WithOutput
  <2>. QED
    BY <1>3, <2>1, <2>2, <2>4, Zenon
<1>5. q.outputs[i] = half
  <2>. HIDE DEF half
  <2>. QED
    BY DEF WithOutput, PsbtShape
<1>6. [q EXCEPT !.outputs = [q.outputs EXCEPT ![i] = full]] = WithOutput(p, i, full)
  <2>. HIDE DEF half, full
  <2>. QED
    BY DEF WithOutput, PsbtShape
<1>7. ReadRecord(t, b) = u
  <2>1. /\ t.section = "output" /\ t.keyset = {"AMOUNT"}
        /\ WithKeyset(t, {"AMOUNT", "SCRIPT"}) = t1
        /\ t1.at = i /\ t1.psbt = q
        /\ \A new : WithPsbt(t1, new) = Reader("output", i, {"AMOUNT", "SCRIPT"}, ic, oc, new)
    <3>1. t = Reader("output", i, {"AMOUNT"}, ic, oc, q)
          /\ t1 = Reader("output", i, {"AMOUNT", "SCRIPT"}, ic, oc, q)
      OBVIOUS
    <3>. HIDE DEF t, t1, q
    <3>. QED
      BY <3>1, ReaderParts
  <2>2. ReadRecord(t, b) = ReadOutput(WithKeyset(t, {"AMOUNT"} \cup {"SCRIPT"}), b)
    <3>. HIDE DEF t, b
    <3>. QED
      BY <1>3, <2>1 DEF ReadRecord, WithKeyset, HaveKeydata
  <2>3. [q.outputs[i] EXCEPT !.script = script] = full
    BY <1>5
  <2>4. ReadOutput(t1, b) = WithPsbt(t1, WithOutput(p, i, full))
    <3>. HIDE DEF t1, b, full, q
    <3>. QED
      BY <1>3, <1>6, <2>1, <2>3 DEF ReadOutput, WithPsbt
  <2>. QED
    BY <1>3, <2>1, <2>2, <2>4, Zenon
<1>8. ReadRecords(s, f) = u
  BY <1>1, <1>2, <1>4, <1>7, Zenon
<1>. QED
  BY <1>8

LEMMA NothingIsRead == \A s : ReadRecords(s, <<>>) = s
<1>1. ASSUME NEW s PROVE ReadRecords(s, <<>>) = s
  <2>1. 0 \in Nat /\ DOMAIN <<>> = 1..0
    OBVIOUS
  <2>. QED
    BY <2>1, RecordsLoop DEF RecordSteps
<1>. QED
  BY <1>1

-----------------------------------------------------------------------------
(* A PSBT that is read map by map: what it is of the one that was written. *)

Partly(w, ins, outs) ==
    [version |-> w.version, tx |-> w.tx, txVersion |-> w.txVersion,
     fallback |-> w.fallback, mods |-> w.mods, inputs |-> ins, outputs |-> outs]

(* A sequence of which the first k are of another, and one of which one    *)
(* more is `here`.                                                         *)
FirstDone(s, k, rest) == [n \in 1..Len(s) |-> IF n <= k THEN s[n] ELSE rest]
NextHere(s, k, here, rest) ==
    [n \in 1..Len(s) |-> IF n < k THEN s[n] ELSE IF n = k THEN here ELSE rest]
Replaced(s, n, x) == [s EXCEPT ![n] = x]

InsDone(w, k, base) == FirstDone(w.inputs, k, base)
InsAt(w, k, base) == NextHere(w.inputs, k, BlankInput, base)
OutsDone(w, k) == FirstDone(w.outputs, k, EmptyOutput)

Stage(w, base, ic, oc, k) ==
    IF k < Len(w.inputs)
    THEN Reader("input", k + 1, {}, ic, oc,
                Partly(w, InsAt(w, k + 1, base), OutsDone(w, 0)))
    ELSE IF k < Len(w.inputs) + Len(w.outputs)
    THEN Reader("output", k - Len(w.inputs) + 1, {}, ic, oc,
                Partly(w, w.inputs, OutsDone(w, k - Len(w.inputs))))
    ELSE Reader("end", 1, {}, ic, oc, w)

LEMMA PartlyParts ==
    ASSUME NEW w, NEW ins, NEW outs, NEW p, p = Partly(w, ins, outs)
    PROVE  /\ p.version = w.version /\ p.tx = w.tx /\ p.txVersion = w.txVersion
           /\ p.fallback = w.fallback /\ p.mods = w.mods
           /\ p.inputs = ins /\ p.outputs = outs
           /\ p = [version |-> p.version, tx |-> p.tx, txVersion |-> p.txVersion,
                   fallback |-> p.fallback, mods |-> p.mods, inputs |-> p.inputs,
                   outputs |-> p.outputs]
BY DEF Partly

LEMMA PartlyWith ==
    ASSUME NEW w, NEW ins, NEW outs, NEW i, NEW in
    PROVE  /\ WithInput(Partly(w, ins, outs), i, in)
                = Partly(w, Replaced(ins, i, in), outs)
           /\ WithOutput(Partly(w, ins, outs), i, in)
                = Partly(w, ins, Replaced(outs, i, in))
<1>1. WithInput(Partly(w, ins, outs), i, in) = Partly(w, Replaced(ins, i, in), outs)
  BY DEF WithInput, Partly, Replaced
<1>2. WithOutput(Partly(w, ins, outs), i, in) = Partly(w, ins, Replaced(outs, i, in))
  BY DEF WithOutput, Partly, Replaced
<1>. QED
  BY <1>1, <1>2

LEMMA LengthIs == ASSUME NEW f, NEW N \in Nat, DOMAIN f = 1..N PROVE Len(f) = N
OBVIOUS

LEMMA SameOn ==
    ASSUME NEW S, NEW h, NEW g, h = [n \in S |-> h[n]], g = [n \in S |-> g[n]],
           \A n \in S : h[n] = g[n]
    PROVE  h = g
<1>1. [n \in S |-> h[n]] = [n \in S |-> g[n]]
  OBVIOUS
<1>. QED
  BY <1>1, Zenon

LEMMA ReplaceNext ==
    ASSUME NEW s, Len(s) \in Nat, NEW k \in Nat, k < Len(s), NEW a, NEW b
    PROVE  /\ Replaced(FirstDone(s, k, b), k + 1, a) = NextHere(s, k + 1, a, b)
           /\ Replaced(NextHere(s, k + 1, a, b), k + 1, s[k + 1]) = FirstDone(s, k + 1, b)
           /\ Replaced(FirstDone(s, k, b), k + 1, s[k + 1]) = FirstDone(s, k + 1, b)
<1>. DEFINE N == Len(s)
            done(j) == [n \in 1..N |-> IF n <= j THEN s[n] ELSE b]
            at == [n \in 1..N |-> IF n < k + 1 THEN s[n] ELSE IF n = k + 1 THEN a ELSE b]
            x == [done(k) EXCEPT ![k + 1] = a]
            y == [at EXCEPT ![k + 1] = s[k + 1]]
            z == [done(k) EXCEPT ![k + 1] = s[k + 1]]
            more == done(k + 1)
<1>. HIDE DEF N
<1>0. N \in Nat /\ k < N
  BY DEF N
<1>1. \A n \in 1..N : x[n] = at[n]
  BY <1>0
<1>2. \A n \in 1..N : y[n] = more[n]
  BY <1>0
<1>3. \A n \in 1..N : z[n] = more[n]
  BY <1>0
<1>4. x = [n \in 1..N |-> x[n]] /\ at = [n \in 1..N |-> at[n]]
  BY <1>0
<1>5. y = [n \in 1..N |-> y[n]] /\ more = [n \in 1..N |-> more[n]]
  BY <1>0
<1>6. z = [n \in 1..N |-> z[n]]
  BY <1>0
<1>7. x = at /\ y = more /\ z = more
  <2>. HIDE DEF x, y, z, at, more
  <2>. QED
    BY <1>1, <1>2, <1>3, <1>4, <1>5, <1>6, SameOn, Zenon
<1>. QED
  BY <1>7, Zenon DEF N, Replaced, FirstDone, NextHere

LEMMA PartlyAll ==
    ASSUME NEW w, PsbtShape(w)
    PROVE  /\ Len(w.inputs) \in Nat /\ Len(w.outputs) \in Nat
           /\ \A base : InsDone(w, Len(w.inputs), base) = w.inputs
           /\ OutsDone(w, Len(w.outputs)) = w.outputs
           /\ Partly(w, w.inputs, w.outputs) = w
<1>1. w.inputs \in Seq(Range(w.inputs)) /\ w.outputs \in Seq(Range(w.outputs))
  BY DEF PsbtShape
<1>2. ASSUME NEW s, s \in Seq(Range(s))
      PROVE  Len(s) \in Nat /\ s = [n \in 1..Len(s) |-> s[n]]
  BY <1>2
<1>3. ASSUME NEW base PROVE InsDone(w, Len(w.inputs), base) = w.inputs
  <2>. DEFINE s == w.inputs
  <2>1. Len(s) \in Nat /\ s = [n \in 1..Len(s) |-> s[n]]
    BY <1>1, <1>2
  <2>2. InsDone(w, Len(s), base)
          = [n \in 1..Len(s) |-> IF n <= Len(s) THEN s[n] ELSE base]
    BY DEF InsDone, FirstDone
  <2>. HIDE DEF s
  <2>3. InsDone(w, Len(s), base) = [n \in 1..Len(s) |-> s[n]]
    BY <2>1, <2>2
  <2>. QED
    BY <2>1, <2>3 DEF s
<1>4. OutsDone(w, Len(w.outputs)) = w.outputs
  <2>. DEFINE s == w.outputs
  <2>1. Len(s) \in Nat /\ s = [n \in 1..Len(s) |-> s[n]]
    BY <1>1, <1>2
  <2>2. OutsDone(w, Len(s))
          = [n \in 1..Len(s) |-> IF n <= Len(s) THEN s[n] ELSE EmptyOutput]
    BY DEF OutsDone, FirstDone
  <2>. HIDE DEF s
  <2>3. OutsDone(w, Len(s)) = [n \in 1..Len(s) |-> s[n]]
    BY <2>1, <2>2
  <2>. QED
    BY <2>1, <2>3 DEF s
<1>5. Partly(w, w.inputs, w.outputs) = w
  BY DEF Partly, PsbtShape
<1>6. Len(w.inputs) \in Nat /\ Len(w.outputs) \in Nat
  BY <1>1
<1>. QED
  BY <1>3, <1>4, <1>5, <1>6

(* Where a reader goes on.                                                 *)
LEMMA EntersInput ==
    ASSUME NEW section, NEW at, NEW K, NEW ic, NEW oc, NEW p,
           NEW ins \in Nat, ins < Len(p.inputs)
    PROVE  Enter(Reader(section, at, K, ic, oc, p), ins, 0)
             = Reader("input", ins + 1, {}, ic, oc,
                      WithInput(p, ins + 1,
                                [p.inputs[ins + 1] EXCEPT !.sequence = FinalSequence]))
<1>. DEFINE s == Reader(section, at, K, ic, oc, p)
            t == Reader(section, at, {}, ic, oc, p)
            u == Reader("input", ins + 1, {}, ic, oc, p)
            in == [p.inputs[ins + 1] EXCEPT !.sequence = FinalSequence]
            q == WithInput(p, ins + 1, in)
<1>1. /\ WithKeyset(s, {}) = t /\ s.psbt = p /\ WithPlace(t, "input", ins + 1) = u
      /\ u.psbt = p /\ WithPsbt(u, q) = Reader("input", ins + 1, {}, ic, oc, q)
  <2>1. /\ s = Reader(section, at, K, ic, oc, p) /\ t = Reader(section, at, {}, ic, oc, p)
        /\ u = Reader("input", ins + 1, {}, ic, oc, p)
    OBVIOUS
  <2>. HIDE DEF s, t, u, q
  <2>. QED
    BY <2>1, ReaderParts, ReaderPlace
<1>2. Enter(s, ins, 0)
        = [WithPlace(WithKeyset(s, {}), "input", ins + 1)
              EXCEPT !.psbt.inputs[ins + 1].sequence = FinalSequence]
  <2>. HIDE DEF s, t
  <2>. QED
    BY <1>1 DEF Enter, WithKeyset, WithPlace
<1>3. [u EXCEPT !.psbt.inputs[ins + 1].sequence = FinalSequence] = WithPsbt(u, q)
  <2>. HIDE DEF u
  <2>. QED
    BY <1>1 DEF WithPsbt, WithInput
<1>. HIDE DEF s, t, u, q
<1>4. Enter(s, ins, 0) = Reader("input", ins + 1, {}, ic, oc, q)
  BY <1>1, <1>2, <1>3
<1>. QED
  BY <1>4 DEF s, q

LEMMA EntersOutput ==
    ASSUME NEW section, NEW at, NEW K, NEW ic, NEW oc, NEW p,
           NEW ins \in Nat, ins = Len(p.inputs), NEW outs \in Nat, Len(p.outputs) \in Nat
    PROVE  Enter(Reader(section, at, K, ic, oc, p), ins, outs)
             = IF outs < Len(p.outputs)
               THEN Reader("output", outs + 1, {}, ic, oc, p)
               ELSE Reader("end", 1, {}, ic, oc, p)
<1>. DEFINE s == Reader(section, at, K, ic, oc, p)
            t == Reader(section, at, {}, ic, oc, p)
<1>1. /\ WithKeyset(s, {}) = t /\ s.psbt = p
      /\ WithPlace(t, "output", outs + 1) = Reader("output", outs + 1, {}, ic, oc, p)
      /\ WithPlace(t, "end", 1) = Reader("end", 1, {}, ic, oc, p)
  <2>1. s = Reader(section, at, K, ic, oc, p) /\ t = Reader(section, at, {}, ic, oc, p)
    OBVIOUS
  <2>. HIDE DEF s, t
  <2>. QED
    BY <2>1, ReaderParts, ReaderPlace
<1>2. Enter(s, ins, outs)
        = IF outs < Len(p.outputs) THEN WithPlace(WithKeyset(s, {}), "output", outs + 1)
          ELSE WithPlace(WithKeyset(s, {}), "end", 1)
  <2>. HIDE DEF s, t
  <2>. QED
    BY <1>1 DEF Enter, WithKeyset, WithPlace
<1>. HIDE DEF s, t
<1>3. Enter(s, ins, outs)
        = IF outs < Len(p.outputs) THEN Reader("output", outs + 1, {}, ic, oc, p)
          ELSE Reader("end", 1, {}, ic, oc, p)
  BY <1>1, <1>2
<1>. QED
  BY <1>3 DEF s

(* Behind the first k inputs.                                              *)
LEMMA StageOfInputs ==
    ASSUME NEW w, PsbtShape(w), NEW base \in {EmptyInput, BlankInput},
           NEW section, NEW at, NEW K, NEW ic, NEW oc, NEW k \in 0..Len(w.inputs)
    PROVE  Enter(Reader(section, at, K, ic, oc,
                        Partly(w, InsDone(w, k, base), OutsDone(w, 0))), k, 0)
             = Stage(w, base, ic, oc, k)
<1>. DEFINE p == Partly(w, InsDone(w, k, base), OutsDone(w, 0))
            I == Len(w.inputs)
            O == Len(w.outputs)
<1>1. I \in Nat /\ O \in Nat /\ k \in Nat
  BY PartlyAll
<1>2. p.inputs = InsDone(w, k, base) /\ p.outputs = OutsDone(w, 0)
  BY PartlyParts
<1>3. Len(p.inputs) = I /\ Len(p.outputs) = O
  <2>1. DOMAIN p.inputs = 1..I /\ DOMAIN p.outputs = 1..O
    <3>. HIDE DEF p
    <3>. QED
      BY <1>2 DEF InsDone, OutsDone, FirstDone
  <2>. HIDE DEF p, I, O
  <2>. QED
    BY <1>1, <2>1, LengthIs
<1>4. CASE k < I
  <2>1. p.inputs[k + 1] = base
    <3>. HIDE DEF p
    <3>. QED
      BY <1>1, <1>2, <1>4 DEF InsDone, FirstDone
  <2>2. [base EXCEPT !.sequence = FinalSequence] = BlankInput
    BY DEF BlankInput, EmptyInput
  <2>3. Replaced(InsDone(w, k, base), k + 1, BlankInput) = InsAt(w, k + 1, base)
    BY <1>1, <1>4, ReplaceNext DEF InsDone, InsAt
  <2>4. WithInput(p, k + 1, BlankInput)
          = Partly(w, InsAt(w, k + 1, base), OutsDone(w, 0))
    <3>. DEFINE ins == InsDone(w, k, base)
                outs == OutsDone(w, 0)
                i == k + 1
    <3>. HIDE DEF ins, outs, i
    <3>1. WithInput(Partly(w, ins, outs), i, BlankInput)
            = Partly(w, Replaced(ins, i, BlankInput), outs)
      BY PartlyWith
    <3>. QED
      BY <2>3, <3>1, Zenon DEF ins, outs, i
  <2>. HIDE DEF p
  <2>5. Enter(Reader(section, at, K, ic, oc, p), k, 0)
          = Reader("input", k + 1, {}, ic, oc, WithInput(p, k + 1, BlankInput))
    BY <1>1, <1>3, <1>4, <2>1, <2>2, EntersInput
  <2>. QED
    BY <1>1, <1>4, <2>4, <2>5 DEF Stage, p
<1>5. CASE k = I
  <2>1. p.inputs = w.inputs
    BY <1>2, <1>5, PartlyAll
  <2>2. Enter(Reader(section, at, K, ic, oc, p), k, 0)
          = IF 0 < O THEN Reader("output", 0 + 1, {}, ic, oc, p)
            ELSE Reader("end", 1, {}, ic, oc, p)
    <3>1. 0 \in Nat
      OBVIOUS
    <3>. HIDE DEF p, I, O
    <3>. QED
      BY <1>1, <1>3, <1>5, <3>1, EntersOutput
  <2>3. CASE 0 < O
    <3>1. Stage(w, base, ic, oc, k)
            = Reader("output", 0 + 1, {}, ic, oc, Partly(w, w.inputs, OutsDone(w, 0)))
      <4>1. ~(k < I) /\ k < I + O /\ k - I = 0
        <5>. HIDE DEF I, O
        <5>. QED
          BY <1>1, <1>5, <2>3
      <4>. QED
        BY <4>1 DEF Stage
    <3>2. p = Partly(w, w.inputs, OutsDone(w, 0))
      BY <1>2, <2>1
    <3>. QED
      BY <2>2, <2>3, <3>1, <3>2
  <2>4. CASE O = 0
    <3>1. Stage(w, base, ic, oc, k) = Reader("end", 1, {}, ic, oc, w)
      BY <1>1, <1>5, <2>4 DEF Stage
    <3>2. OutsDone(w, 0) = w.outputs
      BY <2>4, PartlyAll
    <3>3. p = w
      BY <1>2, <2>1, <3>2, PartlyAll
    <3>. QED
      BY <2>2, <2>4, <3>1, <3>3
  <2>. QED
    BY <1>1, <2>3, <2>4
<1>. QED
  BY <1>1, <1>4, <1>5

(* Behind the first k outputs.                                             *)
LEMMA StageOfOutputs ==
    ASSUME NEW w, PsbtShape(w), NEW base,
           NEW section, NEW at, NEW K, NEW ic, NEW oc, NEW k \in 0..Len(w.outputs),
           NEW m, m = Len(w.inputs) + k
    PROVE  Enter(Reader(section, at, K, ic, oc, Partly(w, w.inputs, OutsDone(w, k))),
                 Len(w.inputs), k)
             = Stage(w, base, ic, oc, m)
<1>. DEFINE p == Partly(w, w.inputs, OutsDone(w, k))
            I == Len(w.inputs)
            O == Len(w.outputs)
<1>1. I \in Nat /\ O \in Nat /\ k \in Nat
  BY PartlyAll
<1>2. p.inputs = w.inputs /\ p.outputs = OutsDone(w, k)
  BY PartlyParts
<1>3. Len(p.inputs) = I /\ Len(p.outputs) = O
  <2>1. p.inputs = w.inputs /\ DOMAIN p.outputs = 1..O
    <3>. HIDE DEF p
    <3>. QED
      BY <1>2 DEF OutsDone, FirstDone
  <2>. HIDE DEF p, O
  <2>. QED
    BY <1>1, <2>1, LengthIs
<1>4. Enter(Reader(section, at, K, ic, oc, p), I, k)
        = IF k < O THEN Reader("output", k + 1, {}, ic, oc, p)
          ELSE Reader("end", 1, {}, ic, oc, p)
  <2>. HIDE DEF p
  <2>. QED
    BY <1>1, <1>3, EntersOutput
<1>5. CASE k < O
  <2>1. ~(I + k < I) /\ I + k < I + O /\ (I + k) - I = k
    <3>. HIDE DEF I, O
    <3>. QED
      BY <1>1, <1>5
  <2>. QED
    BY <1>4, <1>5, <2>1 DEF Stage
<1>6. CASE k = O
  <2>1. ~(I + k < I) /\ ~(I + k < I + O)
    <3>. HIDE DEF I, O
    <3>. QED
      BY <1>1, <1>6
  <2>2. Stage(w, base, ic, oc, I + k) = Reader("end", 1, {}, ic, oc, w)
    BY <2>1 DEF Stage
  <2>3. p = w
    BY <1>6, PartlyAll
  <2>4. ~(k < O)
    <3>. HIDE DEF O
    <3>. QED
      BY <1>1, <1>6
  <2>5. Enter(Reader(section, at, K, ic, oc, p), I, k) = Reader("end", 1, {}, ic, oc, p)
    BY <1>4, <2>4, Zenon
  <2>. QED
    BY <2>2, <2>3, <2>5, Zenon
<1>. QED
  BY <1>1, <1>5, <1>6

-----------------------------------------------------------------------------
(* The maps of a PSBT, one after the other.                                *)

FieldsAre(section, version, X, lax) ==
    lax \/ /\ Mandatory(section, version) \subseteq Fields(X)
           /\ Disallowed(section, version) \cap Fields(X) = {}

InputMapFor(records, in, version, lax) ==
    /\ InputShape(in)
    /\ \E X : /\ Lists(records, X) /\ InputMade(in, X)
              /\ \A r \in X : InputRecord(r)
              /\ FieldsAre("input", version, X, lax)

LEMMA FirstDoneShape ==
    ASSUME NEW s, Len(s) \in Nat, NEW k, NEW b
    PROVE  /\ FirstDone(s, k, b) \in Seq(Range(FirstDone(s, k, b)))
           /\ Len(FirstDone(s, k, b)) = Len(s)
           /\ DOMAIN FirstDone(s, k, b) = 1..Len(s)
<1>. DEFINE f == FirstDone(s, k, b)
<1>1. DOMAIN f = 1..Len(s) /\ f = [n \in 1..Len(s) |-> f[n]]
  BY DEF FirstDone
<1>. HIDE DEF f
<1>2. \A n \in 1..Len(s) : f[n] \in Range(f)
  BY <1>1 DEF Range
<1>3. f \in [1..Len(s) -> Range(f)]
  BY <1>1, <1>2, Zenon
<1>4. f \in Seq(Range(f))
  BY <1>3
<1>5. Len(f) = Len(s)
  BY <1>1, LengthIs
<1>. QED
  BY <1>1, <1>4, <1>5 DEF f

LEMMA PartlyShape ==
    ASSUME NEW w, PsbtShape(w), NEW j, NEW k, NEW base
    PROVE  /\ PsbtShape(Partly(w, InsDone(w, j, base), OutsDone(w, k)))
           /\ PsbtShape(Partly(w, w.inputs, OutsDone(w, k)))
<1>1. /\ InsDone(w, j, base) \in Seq(Range(InsDone(w, j, base)))
      /\ OutsDone(w, k) \in Seq(Range(OutsDone(w, k)))
      /\ w.inputs \in Seq(Range(w.inputs))
  BY PartlyAll, FirstDoneShape DEF InsDone, OutsDone, PsbtShape
<1>2. ASSUME NEW ins, NEW outs, ins \in Seq(Range(ins)), outs \in Seq(Range(outs))
      PROVE  PsbtShape(Partly(w, ins, outs))
  <2>. DEFINE p == Partly(w, ins, outs)
  <2>1. p = Partly(w, ins, outs)
    OBVIOUS
  <2>. HIDE DEF p
  <2>2. p.inputs = ins /\ p.outputs = outs
        /\ p = [version |-> p.version, tx |-> p.tx, txVersion |-> p.txVersion,
                fallback |-> p.fallback, mods |-> p.mods, inputs |-> p.inputs,
                outputs |-> p.outputs]
    BY <2>1, PartlyParts
  <2>3. PsbtShape(p)
    BY <1>2, <2>2, Zenon DEF PsbtShape
  <2>. QED
    BY <2>3 DEF p
<1>. QED
  BY <1>1, <1>2, Zenon

LEMMA InputStage ==
    ASSUME NEW w, PsbtShape(w), NEW base \in {EmptyInput, BlankInput},
           NEW ic, NEW oc, NEW k \in 1..Len(w.inputs), NEW lax \in BOOLEAN,
           NEW records, InputMapFor(records, w.inputs[k], w.version, lax)
    PROVE  ReadMap(Stage(w, base, ic, oc, k - 1), records, lax)
             = IF SighashOk(w.inputs[k]) THEN Stage(w, base, ic, oc, k) ELSE Refused
<1>. DEFINE I == Len(w.inputs)
            j == k - 1
            outs == OutsDone(w, 0)
            p0 == Partly(w, InsDone(w, j, base), outs)
            p1 == Partly(w, InsAt(w, k, base), outs)
            p2 == Partly(w, InsDone(w, k, base), outs)
            in == w.inputs[k]
<1>1. I \in Nat /\ k \in Nat /\ k \in 0..I /\ j \in Nat /\ j < I /\ j + 1 = k
  <2>1. I \in Nat
    BY PartlyAll
  <2>. HIDE DEF I
  <2>2. k \in 1..I
    BY DEF I
  <2>. QED
    BY <2>1, <2>2
<1>2. PICK X : /\ Lists(records, X) /\ InputMade(in, X)
               /\ \A r \in X : InputRecord(r)
               /\ FieldsAre("input", w.version, X, lax)
  BY DEF InputMapFor
<1>3. InputShape(in)
  BY DEF InputMapFor
<1>4. Stage(w, base, ic, oc, j) = Reader("input", k, {}, ic, oc, p1)
  BY <1>1, Zenon DEF Stage
<1>5. PsbtShape(p0) /\ p0.inputs = InsDone(w, j, base) /\ DOMAIN p0.inputs = 1..I
  <2>1. p0.inputs = InsDone(w, j, base)
    BY PartlyParts
  <2>2. DOMAIN InsDone(w, j, base) = 1..I
    BY <1>1, FirstDoneShape DEF InsDone
  <2>. QED
    BY <2>1, <2>2, PartlyShape
<1>6. WithInput(p0, k, BlankInput) = p1 /\ WithInput(p0, k, in) = p2
  <2>1. /\ Replaced(InsDone(w, j, base), k, BlankInput) = InsAt(w, k, base)
        /\ Replaced(InsDone(w, j, base), k, in) = InsDone(w, k, base)
    <3>1. /\ Replaced(InsDone(w, j, base), j + 1, BlankInput) = InsAt(w, j + 1, base)
          /\ Replaced(InsDone(w, j, base), j + 1, w.inputs[j + 1]) = InsDone(w, j + 1, base)
      <4>. HIDE DEF j
      <4>. QED
        BY <1>1, ReplaceNext DEF InsDone, InsAt
    <3>. QED
      BY <1>1, <3>1, Zenon
  <2>. DEFINE ins == InsDone(w, j, base)
  <2>. HIDE DEF ins, outs, in
  <2>2. /\ WithInput(Partly(w, ins, outs), k, BlankInput)
            = Partly(w, Replaced(ins, k, BlankInput), outs)
        /\ WithInput(Partly(w, ins, outs), k, in) = Partly(w, Replaced(ins, k, in), outs)
    BY PartlyWith
  <2>. QED
    BY <2>1, <2>2, Zenon DEF ins
<1>. HIDE DEF I, j, p0, p1, p2, in
<1>7. ReadRecords(Reader("input", k, {}, ic, oc, p1), records)
        = Reader("input", k, Fields(X), ic, oc, p2)
  <2>1. k \in DOMAIN p0.inputs
    BY <1>5 DEF I
  <2>2. ReadRecords(InputState(k, {}, ic, oc, p0, BlankInput), records)
          = InputState(k, X, ic, oc, p0, in)
    <3>1. /\ PsbtShape(p0) /\ Lists(records, X) /\ InputShape(in) /\ InputMade(in, X)
          /\ \A r \in X : InputRecord(r)
      BY <1>2, <1>3, <1>5, Zenon
    <3>. QED
      BY ONLY <2>1, <3>1, InputMapIsRead
  <2>3. Fields({}) = {}
    BY DEF Fields
  <2>. QED
    BY <1>6, <2>2, <2>3, Zenon DEF InputState
<1>. DEFINE s == Reader("input", k, {}, ic, oc, p1)
            t == Reader("input", k, Fields(X), ic, oc, p2)
<1>8. /\ s.section = "input"
      /\ t.section = "input" /\ t.keyset = Fields(X) /\ t.psbt = p2 /\ t.at = k
  <2>1. s = Reader("input", k, {}, ic, oc, p1) /\ t = Reader("input", k, Fields(X), ic, oc, p2)
    OBVIOUS
  <2>. HIDE DEF s, t
  <2>. QED
    BY <2>1, ReaderParts
<1>9. p2.version = w.version /\ p2.inputs[k] = in
  <2>1. p2.version = w.version /\ p2.inputs = InsDone(w, k, base)
    <3>1. p2 = Partly(w, InsDone(w, k, base), outs)
      BY DEF p2
    <3>. HIDE DEF outs
    <3>. QED
      BY <3>1, PartlyParts
  <2>2. InsDone(w, k, base)[k] = w.inputs[k]
    BY <1>1 DEF InsDone, FirstDone
  <2>. QED
    BY <2>1, <2>2 DEF in
<1>10. Enter(t, k, 0) = Stage(w, base, ic, oc, k)
  <2>1. k \in 0..Len(w.inputs)
    BY <1>1 DEF I
  <2>. QED
    BY <2>1, StageOfInputs DEF p2
<1>. HIDE DEF s, t
<1>11. FieldsOk(t, lax)
  BY <1>2, <1>8, <1>9 DEF FieldsOk, FieldsAre
<1>12. EndMap(t, lax) = IF SighashOk(in) THEN Enter(t, k, 0) ELSE Refused
  BY <1>8, <1>9, <1>11 DEF EndMap
<1>13. ReadMap(s, records, lax) = EndMap(t, lax)
  BY <1>7, <1>8 DEF ReadMap, ReadRecords, s, t
<1>14. Stage(w, base, ic, oc, j) = s
  BY <1>4 DEF s
<1>. QED
  BY <1>10, <1>12, <1>13, <1>14, Zenon DEF j, in


OutputMapFor(records, out, version) ==
    /\ out = [script |-> out.script, satoshi |-> out.satoshi]
    /\ \/ version = 0 /\ records = <<>> /\ out = EmptyOutput
       \/ /\ version = 2
          /\ records = <<Plain("AMOUNT", out.satoshi), Plain("SCRIPT", out.script)>>

LEMMA OutputStage ==
    ASSUME NEW w, PsbtShape(w), NEW base, NEW ic, NEW oc,
           NEW k \in 1..Len(w.outputs), NEW lax \in BOOLEAN,
           NEW records, OutputMapFor(records, w.outputs[k], w.version)
    PROVE  ReadMap(Stage(w, base, ic, oc, Len(w.inputs) + k - 1), records, lax)
             = Stage(w, base, ic, oc, Len(w.inputs) + k)
<1>. DEFINE I == Len(w.inputs)
            O == Len(w.outputs)
            j == k - 1
            p == Partly(w, w.inputs, OutsDone(w, j))
            q == Partly(w, w.inputs, OutsDone(w, k))
            out == w.outputs[k]
            K == IF w.version = 0 THEN {} ELSE {"AMOUNT", "SCRIPT"}
            s == Reader("output", k, {}, ic, oc, p)
            t == Reader("output", k, K, ic, oc, q)
<1>1. I \in Nat /\ O \in Nat /\ k \in Nat /\ k \in 1..O
  BY PartlyAll
<1>2. /\ j \in Nat /\ j < O /\ j + 1 = k
      /\ I + k - 1 = I + j /\ (I + j) - I = j /\ ~(I + j < I) /\ I + j < I + O
  <2>. HIDE DEF I, O
  <2>. QED
    BY <1>1
<1>3. Stage(w, base, ic, oc, I + k - 1) = s
  <2>. HIDE DEF j
  <2>1. Stage(w, base, ic, oc, I + j)
          = Reader("output", j + 1, {}, ic, oc, Partly(w, w.inputs, OutsDone(w, j)))
    BY <1>2 DEF Stage
  <2>. QED
    BY <1>2, <2>1
<1>4. ReadRecords(s, records) = t
  <2>1. CASE w.version = 0
    <3>1. records = <<>> /\ out = EmptyOutput
      BY <2>1 DEF OutputMapFor
    <3>2. OutsDone(w, j) = OutsDone(w, k)
      <4>. DEFINE f == OutsDone(w, j)
                  g == OutsDone(w, k)
      <4>1. \A n \in 1..O : f[n] = g[n]
        <5>. HIDE DEF j, O
        <5>1. ASSUME NEW n \in 1..O PROVE f[n] = g[n]
          <6>1. CASE n = k
            BY <1>1, <1>2, <3>1, <6>1 DEF OutsDone, FirstDone, O
          <6>2. CASE n # k
            <7>1. n <= j <=> n <= k
              BY <1>1, <1>2, <6>2
            <7>. QED
              BY <7>1 DEF OutsDone, FirstDone, O
          <6>. QED
            BY <6>1, <6>2
        <5>. QED
          BY <5>1
      <4>2. f = [n \in 1..O |-> f[n]] /\ g = [n \in 1..O |-> g[n]]
        BY DEF OutsDone, FirstDone
      <4>. HIDE DEF f, g, O
      <4>3. f = g
        BY <4>1, <4>2, SameOn
      <4>. QED
        BY <4>3 DEF f, g
    <3>. QED
      BY <2>1, <3>1, <3>2, NothingIsRead, Zenon
  <2>2. CASE w.version = 2
    <3>1. records = <<Plain("AMOUNT", out.satoshi), Plain("SCRIPT", out.script)>>
          /\ out = [script |-> out.script, satoshi |-> out.satoshi]
      BY <2>2 DEF OutputMapFor
    <3>2. p.outputs = OutsDone(w, j) /\ PsbtShape(p)
      <4>1. w.inputs = InsDone(w, I, base)
        BY PartlyAll
      <4>. HIDE DEF j
      <4>. QED
        BY PartlyParts, PartlyShape
    <3>3. k \in DOMAIN p.outputs /\ p.outputs[k] = EmptyOutput
      <4>1. ~(k <= j)
        BY <1>1, <1>2
      <4>. HIDE DEF p, j
      <4>. QED
        BY <1>1, <3>2, <4>1 DEF OutsDone, FirstDone, O
    <3>4. WithOutput(p, k, out) = q
      <4>1. Replaced(OutsDone(w, j), j + 1, w.outputs[j + 1]) = OutsDone(w, j + 1)
        <5>. HIDE DEF j
        <5>. QED
          BY <1>1, <1>2, ReplaceNext DEF OutsDone, O
      <4>. DEFINE ins == w.inputs
                  outs == OutsDone(w, j)
      <4>2. Replaced(outs, k, out) = OutsDone(w, k)
        BY <1>2, <4>1, Zenon
      <4>. HIDE DEF ins, outs, out
      <4>3. WithOutput(Partly(w, ins, outs), k, out) = Partly(w, ins, Replaced(outs, k, out))
        BY PartlyWith
      <4>. QED
        BY <4>2, <4>3, Zenon DEF ins, outs
    <3>5. K = {"AMOUNT", "SCRIPT"}
      BY <2>2
    <3>. DEFINE sat == out.satoshi
                script == out.script
                full == [script |-> script, satoshi |-> sat]
    <3>. HIDE DEF p, q, K, sat, script
    <3>6. ReadRecords(Reader("output", k, {}, ic, oc, p),
                      <<Plain("AMOUNT", sat), Plain("SCRIPT", script)>>)
            = Reader("output", k, {"AMOUNT", "SCRIPT"}, ic, oc, WithOutput(p, k, full))
      BY ONLY <3>2, <3>3, OutputMapIsRead
    <3>7. full = out /\ records = <<Plain("AMOUNT", sat), Plain("SCRIPT", script)>>
      BY <3>1, Zenon DEF sat, script
    <3>. QED
      BY <3>4, <3>5, <3>6, <3>7, Zenon
  <2>. QED
    BY <2>1, <2>2 DEF OutputMapFor
<1>5. /\ s.section = "output"
      /\ t.section = "output" /\ t.keyset = K /\ t.psbt = q /\ t.at = k
  <2>1. s = Reader("output", k, {}, ic, oc, p) /\ t = Reader("output", k, K, ic, oc, q)
    OBVIOUS
  <2>. HIDE DEF s, t
  <2>. QED
    BY <2>1, ReaderParts
<1>6. q.version = w.version /\ q.inputs = w.inputs
  BY PartlyParts
<1>7. Enter(t, I, k) = Stage(w, base, ic, oc, I + k)
  <2>1. k \in 0..Len(w.outputs) /\ PsbtShape(w)
    BY <1>1
  <2>. DEFINE m == I + k
  <2>. HIDE DEF K, m
  <2>2. Enter(Reader("output", k, K, ic, oc, Partly(w, w.inputs, OutsDone(w, k))),
              Len(w.inputs), k)
          = Stage(w, base, ic, oc, m)
    BY <2>1, StageOfOutputs DEF m
  <2>. QED
    BY <2>2 DEF m
<1>. HIDE DEF s, t, q
<1>8. FieldsOk(t, lax)
  <2>1. w.version \in {0, 2}
    BY DEF OutputMapFor
  <2>2. Mandatory("output", w.version) \subseteq K /\ Disallowed("output", w.version) \cap K = {}
    BY <2>1 DEF Mandatory, Disallowed
  <2>. QED
    BY <1>5, <1>6, <2>2 DEF FieldsOk
<1>9. EndMap(t, lax) = Enter(t, I, k)
  BY <1>5, <1>6, <1>8 DEF EndMap
<1>10. ReadMap(s, records, lax) = EndMap(t, lax)
  BY <1>4, <1>5 DEF ReadMap, ReadRecords
<1>. QED
  BY <1>3, <1>7, <1>9, <1>10, Zenon


(* The map of the globals, of either version.                              *)
GlobalMapFor2(records, w, lax) ==
    /\ w.version = 2 /\ w.tx = None /\ ~(w.txVersion < 2)
    /\ \E X : /\ Lists(records, X) /\ \A r \in X : GlobalRecord(r)
              /\ GlobalMade(X, Len(w.inputs), Len(w.outputs), 2, w.txVersion,
                            w.fallback, w.mods)
              /\ FieldsAre("global", 2, X, lax)

GlobalMapFor0(records, w, lax) ==
    /\ w.version = 0 /\ w.txVersion = 2 /\ w.fallback = None /\ w.mods = {}
    /\ IF w.tx = None
       THEN /\ lax /\ records = <<>> /\ Len(w.inputs) = 0 /\ Len(w.outputs) = 0
       ELSE /\ records = <<Plain("UNSIGNED_TX", w.tx)>>
            /\ Len(w.inputs) = Len(w.tx.inputs) /\ Len(w.outputs) = Len(w.tx.outputs)

LEMMA NoneDone ==
    ASSUME NEW s, NEW N \in Nat, Len(s) = N, NEW b
    PROVE  FirstDone(s, 0, b) = [n \in 1..N |-> b]
<1>. DEFINE f == FirstDone(s, 0, b)
            g == [n \in 1..N |-> b]
<1>1. \A n \in 1..N : f[n] = g[n]
  BY DEF FirstDone
<1>2. f = [n \in 1..N |-> f[n]] /\ g = [n \in 1..N |-> g[n]]
  BY DEF FirstDone
<1>. HIDE DEF f, g
<1>3. f = g
  BY <1>1, <1>2, SameOn
<1>. QED
  BY <1>3 DEF f, g

WithArrays(p, ins, outs) == [p EXCEPT !.inputs = ins, !.outputs = outs]
AllocatedAs(s, ins, outs) ==
    [s EXCEPT !.psbt.inputs = ins, !.psbt.outputs = outs]

LEMMA GlobalStage2 ==
    ASSUME NEW w, PsbtShape(w), NEW lax \in BOOLEAN, NEW records,
           GlobalMapFor2(records, w, lax)
    PROVE  ReadMap(StartReading, records, lax)
             = Stage(w, BlankInput, Len(w.inputs), Len(w.outputs), 0)
<1>. DEFINE I == Len(w.inputs)
            O == Len(w.outputs)
            e == Globals(2, w.txVersion, w.fallback, w.mods)
            q == Partly(w, InsDone(w, 0, BlankInput), OutsDone(w, 0))
<1>1. I \in Nat /\ O \in Nat
  BY PartlyAll
<1>2. PICK X : /\ Lists(records, X) /\ \A r \in X : GlobalRecord(r)
               /\ GlobalMade(X, I, O, 2, w.txVersion, w.fallback, w.mods)
               /\ FieldsAre("global", 2, X, lax)
  BY DEF GlobalMapFor2
<1>. DEFINE t == Reader("global", 1, Fields(X), I, O, e)
            u == Reader("global", 1, Fields(X), I, O, q)
<1>3. ReadRecords(StartReading, records) = t
  <2>1. ReadRecords(StartReading, records)
          = GlobalState(X, I, O, 2, w.txVersion, w.fallback, w.mods)
    <3>. HIDE DEF I, O
    <3>. QED
      BY <1>2, GlobalMapIsRead
  <2>. QED
    BY <2>1 DEF GlobalState
<1>4. /\ t.section = "global" /\ t.keyset = Fields(X) /\ t.psbt = e
      /\ t.inCount = I /\ t.outCount = O
      /\ WithPsbt(t, q) = u
  <2>1. t = Reader("global", 1, Fields(X), I, O, e) /\ u = Reader("global", 1, Fields(X), I, O, q)
    OBVIOUS
  <2>. HIDE DEF t, u, e, q
  <2>. QED
    BY <2>1, ReaderParts
<1>5. e.version = 2 /\ ~(e.txVersion < 2)
  BY DEF Globals, GlobalMapFor2
<1>6. Allocated(t) = u
  <2>. DEFINE ins == [n \in 1..I |-> BlankInput]
              outs == [n \in 1..O |-> EmptyOutput]
  <2>1. InsDone(w, 0, BlankInput) = ins /\ OutsDone(w, 0) = outs
    <3>1. Len(w.inputs) = I /\ Len(w.outputs) = O
      OBVIOUS
    <3>. HIDE DEF I, O
    <3>2. /\ FirstDone(w.inputs, 0, BlankInput) = [n \in 1..I |-> BlankInput]
          /\ FirstDone(w.outputs, 0, EmptyOutput) = [n \in 1..O |-> EmptyOutput]
      BY <1>1, <3>1, NoneDone
    <3>. QED
      BY <3>2, Zenon DEF InsDone, OutsDone
  <2>2. q = WithArrays(e, ins, outs)
    <3>1. w.version = 2 /\ w.tx = None
      BY DEF GlobalMapFor2
    <3>2. q = Partly(w, ins, outs)
      BY <2>1
    <3>. HIDE DEF ins, outs, q
    <3>. DEFINE half == [version |-> 2, tx |-> None, txVersion |-> w.txVersion,
                         fallback |-> w.fallback, mods |-> w.mods,
                         inputs |-> ins, outputs |-> <<>>]
    <3>3. [e EXCEPT !.inputs = ins] = half
      BY DEF Globals
    <3>4. [half EXCEPT !.outputs = outs] = q
      BY <3>1, <3>2 DEF Partly
    <3>. HIDE DEF half, e
    <3>. QED
      BY <3>3, <3>4 DEF WithArrays
  <2>3. [EmptyInput EXCEPT !.sequence = FinalSequence] = BlankInput
    BY DEF BlankInput, EmptyInput
  <2>. HIDE DEF e, q, t, u
  <2>4. t.psbt.version # 0
    BY <1>4, <1>5
  <2>5. Allocated(t)
          = AllocatedAs(t, [n \in 1..t.inCount |->
                               [EmptyInput EXCEPT !.sequence = FinalSequence]],
                        [n \in 1..t.outCount |-> EmptyOutput])
    BY <2>4, Zenon DEF Allocated, AllocatedAs
  <2>6. Allocated(t) = AllocatedAs(t, ins, outs)
    BY <1>4, <2>3, <2>5, Zenon
  <2>. HIDE DEF ins, outs
  <2>7. AllocatedAs(t, ins, outs) = WithPsbt(t, WithArrays(t.psbt, ins, outs))
    <3>1. t.psbt = e /\ t = Reader("global", 1, Fields(X), I, O, e)
          /\ e = Globals(2, w.txVersion, w.fallback, w.mods)
      BY <1>4 DEF t, e
    <3>. QED
      BY <3>1 DEF AllocatedAs, WithPsbt, WithArrays, Reader, Globals
  <2>. QED
    BY <1>4, <2>2, <2>6, <2>7, Zenon
<1>7. Enter(u, 0, 0) = Stage(w, BlankInput, I, O, 0)
  <2>1. 0 \in 0..Len(w.inputs)
    BY <1>1
  <2>. QED
    BY <2>1, StageOfInputs
<1>. HIDE DEF t, u, e
<1>8. FieldsOk(t, lax)
  BY <1>2, <1>4, <1>5 DEF FieldsOk, FieldsAre
<1>9. EndMap(t, lax) = Enter(Allocated(t), 0, 0)
  BY <1>4, <1>5, <1>8 DEF EndMap
<1>10. ReadMap(StartReading, records, lax) = EndMap(t, lax)
  <2>1. StartReading.section = "global"
    BY DEF StartReading
  <2>. QED
    BY <1>3, <2>1 DEF ReadMap, ReadRecords
<1>. QED
  BY <1>6, <1>7, <1>9, <1>10, Zenon


Whole(version, tx, txVersion, fallback, mods, inputs, outputs) ==
    [version |-> version, tx |-> tx, txVersion |-> txVersion, fallback |-> fallback,
     mods |-> mods, inputs |-> inputs, outputs |-> outputs]

LEMMA GlobalStage0 ==
    ASSUME NEW w, PsbtShape(w), NEW lax \in BOOLEAN, NEW records,
           GlobalMapFor0(records, w, lax)
    PROVE  ReadMap(StartReading, records, lax) = Stage(w, EmptyInput, 0, 0, 0)
<1>. DEFINE I == Len(w.inputs)
            O == Len(w.outputs)
            e == Globals(0, 2, None, {})
            q == Partly(w, InsDone(w, 0, EmptyInput), OutsDone(w, 0))
            K == IF w.tx = None THEN {} ELSE {"UNSIGNED_TX"}
            t == Reader("global", 1, K, 0, 0, q)
<1>1. I \in Nat /\ O \in Nat
  BY PartlyAll
<1>2. /\ w.version = 0 /\ w.txVersion = 2 /\ w.fallback = None /\ w.mods = {}
      /\ w.tx = None => lax /\ records = <<>> /\ I = 0 /\ O = 0
      /\ w.tx # None => /\ records = <<Plain("UNSIGNED_TX", w.tx)>>
                        /\ I = Len(w.tx.inputs) /\ O = Len(w.tx.outputs)
  BY DEF GlobalMapFor0
<1>3. q = Partly(w, [n \in 1..I |-> EmptyInput], [n \in 1..O |-> EmptyOutput])
  <2>1. Len(w.inputs) = I /\ Len(w.outputs) = O
    OBVIOUS
  <2>. HIDE DEF I, O
  <2>2. /\ FirstDone(w.inputs, 0, EmptyInput) = [n \in 1..I |-> EmptyInput]
        /\ FirstDone(w.outputs, 0, EmptyOutput) = [n \in 1..O |-> EmptyOutput]
    BY <1>1, <2>1, NoneDone
  <2>. QED
    BY <2>2, Zenon DEF InsDone, OutsDone
<1>. DEFINE s0 == Reader("global", 1, {}, 0, 0, e)
<1>4. StartReading = s0
  <2>1. Fields({}) = {}
    BY DEF Fields
  <2>. QED
    BY <2>1, StartIsGlobal, Zenon DEF GlobalState
<1>5. e.version = 0 /\ e.tx = None /\ Len(e.inputs) = 0 /\ Len(e.outputs) = 0
  BY DEF Globals
<1>6. ReadRecords(StartReading, records) = t
  <2>1. CASE w.tx = None
    <3>1. q = e
      <4>1. [n \in 1..0 |-> EmptyInput] = <<>> /\ [n \in 1..0 |-> EmptyOutput] = <<>>
        OBVIOUS
      <4>2. q = Partly(w, <<>>, <<>>)
        <5>. HIDE DEF q, I, O
        <5>. QED
          BY <1>2, <1>3, <2>1, <4>1
      <4>. HIDE DEF q
      <4>. QED
        BY <1>2, <2>1, <4>2 DEF Partly, Globals
    <3>2. K = {}
      BY <2>1
    <3>. HIDE DEF q, e, K
    <3>. QED
      BY <1>2, <1>4, <2>1, <3>1, <3>2, NothingIsRead, Zenon
  <2>2. CASE w.tx # None
    <3>. DEFINE r == Plain("UNSIGNED_TX", w.tx)
                s1 == Reader("global", 1, {"UNSIGNED_TX"}, 0, 0, e)
    <3>1. ReadRecords(s0, <<r>>) = ReadRecord(s0, r)
      <4>1. 1 \in Nat /\ DOMAIN <<r>> = 1..1 /\ <<r>>[1] = r
        OBVIOUS
      <4>. DEFINE f == <<r>>
      <4>. HIDE DEF s0, f
      <4>2. PICK g : RecordSteps(g, s0, f, 1)
        BY <4>1, RecordsLoop DEF f
      <4>3. g[0] = s0 /\ g[1] = ReadRecords(s0, f) /\ g[1] = ReadRecord(g[0], f[1])
        BY <4>2 DEF RecordSteps
      <4>. QED
        BY <4>1, <4>3 DEF f
    <3>2. r.field = "UNSIGNED_TX" /\ r.value = w.tx
      BY DEF Plain, Record
    <3>. HIDE DEF r
    <3>3. /\ s0.section = "global" /\ s0.keyset = {} /\ s1.psbt = e
          /\ WithKeyset(s0, {"UNSIGNED_TX"}) = s1
          /\ \A new : WithPsbt(s1, new) = Reader("global", 1, {"UNSIGNED_TX"}, 0, 0, new)
      <4>1. s0 = Reader("global", 1, {}, 0, 0, e)
            /\ s1 = Reader("global", 1, {"UNSIGNED_TX"}, 0, 0, e)
        OBVIOUS
      <4>. HIDE DEF s0, s1, e
      <4>. QED
        BY <4>1, ReaderParts
    <3>. HIDE DEF s0, s1
    <3>4. ReadRecord(s0, r) = ReadGlobal(WithKeyset(s0, {} \cup {"UNSIGNED_TX"}), r)
      BY <3>2, <3>3 DEF ReadRecord, WithKeyset
    <3>5. CanSetGlobalTx(s1.psbt)
      <4>. HIDE DEF e
      <4>. QED
        BY <1>5, <3>3 DEF CanSetGlobalTx, IsValid
    <3>6. ReadGlobal(s1, r) = WithPsbt(s1, SetGlobalTx(e, w.tx))
      <4>. HIDE DEF e
      <4>. QED
        BY <3>2, <3>3, <3>5 DEF ReadGlobal, WithPsbt
    <3>7. SetGlobalTx(e, w.tx) = q
      <4>. DEFINE ins == [n \in 1..I |-> EmptyInput]
                  outs == [n \in 1..O |-> EmptyOutput]
                  tx == w.tx
                  a == Whole(0, tx, 2, None, {}, <<>>, <<>>)
                  b == Whole(0, tx, 2, None, {}, ins, <<>>)
      <4>1. SetGlobalTx(e, tx)
              = [e EXCEPT !.tx = tx, !.inputs = ins, !.outputs = outs]
        <5>1. I = Len(tx.inputs) /\ O = Len(tx.outputs)
          BY <1>2, <2>2
        <5>. HIDE DEF e, I, O, tx
        <5>. QED
          BY <5>1, Zenon DEF SetGlobalTx
      <4>2. q = Partly(w, ins, outs)
        BY <1>3
      <4>. HIDE DEF ins, outs, tx
      <4>3. e = Whole(0, None, 2, None, {}, <<>>, <<>>)
        BY DEF Globals, Whole
      <4>4. q = Whole(0, tx, 2, None, {}, ins, outs)
        <5>1. w.tx = tx
          BY DEF tx
        <5>. HIDE DEF q
        <5>. QED
          BY <1>2, <4>2, <5>1 DEF Partly, Whole
      <4>. HIDE DEF e, q
      <4>5. /\ [e EXCEPT !.tx = tx] = a /\ [a EXCEPT !.inputs = ins] = b
            /\ [b EXCEPT !.outputs = outs] = q
        <5>. DEFINE none == <<>>
                    nil == {}
                    zero == 0
                    two == 2
                    e0 == Whole(zero, None, two, None, nil, none, none)
                    e1 == Whole(zero, tx, two, None, nil, none, none)
                    e2 == Whole(zero, tx, two, None, nil, ins, none)
                    e3 == Whole(zero, tx, two, None, nil, ins, outs)
        <5>1. e = e0 /\ a = e1 /\ b = e2 /\ q = e3
          BY <4>3, <4>4
        <5>. HIDE DEF none, nil, zero, two, a, b
        <5>2. [e0 EXCEPT !.tx = tx] = e1
          BY DEF Whole
        <5>3. [e1 EXCEPT !.inputs = ins] = e2
          BY DEF Whole
        <5>4. [e2 EXCEPT !.outputs = outs] = e3
          BY DEF Whole
        <5>. HIDE DEF e0, e1, e2, e3
        <5>. QED
          BY <5>1, <5>2, <5>3, <5>4
      <4>. HIDE DEF a, b
      <4>. QED
        BY <4>1, <4>5 DEF tx
    <3>8. {} \cup {"UNSIGNED_TX"} = {"UNSIGNED_TX"} /\ K = {"UNSIGNED_TX"}
          /\ records = <<r>>
      BY <1>2, <2>2 DEF r
    <3>. HIDE DEF e, q, K
    <3>. QED
      BY <1>4, <3>1, <3>3, <3>4, <3>6, <3>7, <3>8, Zenon
  <2>. QED
    BY <2>1, <2>2
<1>7. /\ t.section = "global" /\ t.keyset = K /\ t.psbt = q
  <2>1. t = Reader("global", 1, K, 0, 0, q)
    OBVIOUS
  <2>. HIDE DEF t, q, K
  <2>. QED
    BY <2>1, ReaderParts
<1>8. q.version = 0
  BY <1>2, PartlyParts
<1>9. Enter(t, 0, 0) = Stage(w, EmptyInput, 0, 0, 0)
  <2>1. 0 \in 0..Len(w.inputs)
    BY <1>1
  <2>. HIDE DEF K
  <2>. QED
    BY <2>1, StageOfInputs
<1>. HIDE DEF t, q
<1>10. Allocated(t) = t
  BY <1>7, <1>8 DEF Allocated
<1>11. FieldsOk(t, lax)
  <2>1. CASE w.tx = None
    BY <1>2, <2>1 DEF FieldsOk
  <2>2. CASE w.tx # None
    <3>1. Mandatory("global", 0) \subseteq K /\ Disallowed("global", 0) \cap K = {}
      BY <2>2 DEF Mandatory, Disallowed
    <3>. QED
      BY <1>7, <1>8, <3>1 DEF FieldsOk
  <2>. QED
    BY <2>1, <2>2
<1>12. EndMap(t, lax) = Enter(Allocated(t), 0, 0)
  BY <1>7, <1>8, <1>11 DEF EndMap
<1>13. ReadMap(StartReading, records, lax) = EndMap(t, lax)
  <2>1. StartReading.section = "global"
    BY DEF StartReading
  <2>. QED
    BY <1>6, <2>1 DEF ReadMap, ReadRecords
<1>. QED
  BY <1>9, <1>10, <1>12, <1>13, Zenon

-----------------------------------------------------------------------------
(* A stream of the maps of a PSBT is read as that PSBT, or refused for a   *)
(* sighash that contradicts a signature.                                   *)

GlobalMapFor(records, w, lax) ==
    GlobalMapFor0(records, w, lax) \/ GlobalMapFor2(records, w, lax)

StreamFor(stream, w, lax) ==
    /\ PsbtShape(w)
    /\ DOMAIN stream = 1..(1 + Len(w.inputs) + Len(w.outputs))
    /\ GlobalMapFor(stream[1], w, lax)
    /\ \A n \in 1..Len(w.inputs) :
          InputMapFor(stream[n + 1], w.inputs[n], w.version, lax)
    /\ \A n \in 1..Len(w.outputs) :
          OutputMapFor(stream[Len(w.inputs) + n + 1], w.outputs[n], w.version)

LEMMA GlobalStage ==
    ASSUME NEW w, PsbtShape(w), NEW lax \in BOOLEAN, NEW records,
           GlobalMapFor(records, w, lax)
    PROVE  \E base \in {EmptyInput, BlankInput} : \E ic, oc :
               ReadMap(StartReading, records, lax) = Stage(w, base, ic, oc, 0)
<1>1. CASE GlobalMapFor0(records, w, lax)
  BY <1>1, GlobalStage0
<1>2. CASE GlobalMapFor2(records, w, lax)
  BY <1>2, GlobalStage2
<1>. QED
  BY <1>1, <1>2 DEF GlobalMapFor

(* A reader that refused stays where it is.                                *)
LEMMA NothingAfterRefusal == ASSUME NEW r PROVE ReadRecord(Refused, r) = Refused
<1>. DEFINE p == Globals(0, 2, None, {})
            s == StartReading
            t == Refused
<1>1. s = Reader("global", 1, {}, 0, 0, p)
  <2>1. Fields({}) = {}
    BY DEF Fields
  <2>. QED
    BY <2>1, StartIsGlobal DEF GlobalState
<1>. HIDE DEF p, s
<1>2. t.keyset = {} /\ t.section = "refused"
  <2>1. t = [s EXCEPT !.section = "refused"]
    BY DEF Refused, s
  <2>. HIDE DEF t
  <2>. QED
    BY <1>1, <2>1 DEF Reader
<1>. HIDE DEF t
<1>3. WithKeyset(t, t.keyset \cup {r.field}) = [t EXCEPT !.keyset = @ \cup {r.field}]
  BY DEF WithKeyset
<1>4. ReadRecord(t, r) = t
  BY <1>2 DEF ReadRecord
<1>. QED
  BY <1>4 DEF t

LEMMA RefusedIs == Refused.section = "refused"
<1>. DEFINE p == Globals(0, 2, None, {})
            s == StartReading
<1>1. s = Reader("global", 1, {}, 0, 0, p)
  <2>1. Fields({}) = {}
    BY DEF Fields
  <2>. QED
    BY <2>1, StartIsGlobal DEF GlobalState
<1>. HIDE DEF p, s
<1>2. [s EXCEPT !.section = "refused"].section = "refused"
  BY <1>1 DEF Reader
<1>. QED
  BY <1>2 DEF Refused, s

LEMMA RefusalStays ==
    ASSUME NEW records, NEW N \in Nat, DOMAIN records = 1..N, NEW lax
    PROVE  ReadMap(Refused, records, lax) = Refused
<1>. DEFINE t == Refused
<1>1. t.section = "refused" /\ \A r : ReadRecord(t, r) = t
  BY RefusedIs, NothingAfterRefusal
<1>. HIDE DEF t
<1>2. ReadRecords(t, records) = t
  <2>1. PICK g : RecordSteps(g, t, records, N)
    BY RecordsLoop
  <2>. DEFINE T == {n \in Nat : g[n] = t}
  <2>2. 0 \in T
    BY <2>1 DEF RecordSteps
  <2>3. ASSUME NEW n \in 1..N, n - 1 \in T PROVE n \in T
    BY <1>1, <2>1, <2>3 DEF RecordSteps
  <2>4. \A n \in 0..N : n \in T
    <3>. HIDE DEF T
    <3>. QED
      BY ONLY <2>2, <2>3, N \in Nat, Stepwise
  <2>. QED
    BY <2>1, <2>4 DEF RecordSteps
<1>3. EndMap(t, lax) = t
  BY <1>1 DEF EndMap
<1>. QED
  BY <1>1, <1>2, <1>3 DEF ReadMap, ReadRecords, t

LEMMA StreamIsRead ==
    ASSUME NEW stream, NEW w, NEW lax \in BOOLEAN, StreamFor(stream, w, lax)
    PROVE  Parse(stream, lax, TRUE) = IF Consistent(w) THEN w ELSE None
<1>. DEFINE I == Len(w.inputs)
            O == Len(w.outputs)
            N == 1 + I + O
<1>1. I \in Nat /\ O \in Nat /\ PsbtShape(w)
  BY PartlyAll DEF StreamFor
<1>2. N \in Nat /\ DOMAIN stream = 1..N /\ 1 \in 1..N
  <2>1. DOMAIN stream = 1..N
    BY DEF StreamFor
  <2>2. N \in Nat /\ 1 \in 1..N
    <3>. HIDE DEF I, O
    <3>. QED
      BY <1>1
  <2>. QED
    BY <2>1, <2>2
<1>3. PICK g : MapSteps(g, StartReading, stream, N, lax)
  <2>. HIDE DEF N
  <2>. QED
    BY <1>2, MapsLoop
<1>4. /\ g[0] = StartReading /\ g[N] = ReadMaps(StartReading, stream, lax)
      /\ \A n \in 1..N : g[n] = ReadMap(g[n - 1], stream[n], lax)
  BY <1>3 DEF MapSteps
<1>15. PICK base \in {EmptyInput, BlankInput} :
          \E ic, oc : g[1] = Stage(w, base, ic, oc, 0)
  <2>1. GlobalMapFor(stream[1], w, lax)
    BY DEF StreamFor
  <2>2. g[1] = ReadMap(StartReading, stream[1], lax)
    <3>1. g[1] = ReadMap(g[1 - 1], stream[1], lax) /\ 1 - 1 = 0
      <4>. HIDE DEF N
      <4>. QED
        BY <1>2, <1>4
    <3>. QED
      BY <1>4, <3>1
  <2>. QED
    BY <1>1, <2>1, <2>2, GlobalStage
<1>5. PICK ic, oc : g[1] = Stage(w, base, ic, oc, 0)
  BY <1>15
<1>. DEFINE Fine(k) == \A m \in 1..Len(w.inputs) : m <= k => SighashOk(w.inputs[m])
            At(k) == IF Fine(k) THEN Stage(w, base, ic, oc, k) ELSE Refused
            T == {n \in Nat : n = 0 \/ g[n] = At(n - 1)}
<1>16. Fine(0)
  <2>. HIDE DEF I
  <2>1. \A m \in 1..I : ~(m <= 0)
    BY <1>1
  <2>. QED
    BY <2>1 DEF I
<1>17. ASSUME NEW k \in 1..I PROVE Fine(k) <=> Fine(k - 1) /\ SighashOk(w.inputs[k])
  <2>. DEFINE Ok(m) == SighashOk(w.inputs[m])
  <2>. HIDE DEF Ok, I
  <2>1. \A m \in 1..I : m <= k <=> (m <= k - 1 \/ m = k)
    BY <1>1
  <2>2. (\A m \in 1..I : m <= k => Ok(m)) <=> (\A m \in 1..I : m <= k - 1 => Ok(m)) /\ Ok(k)
    BY <2>1
  <2>. QED
    BY <2>2 DEF Ok, I
<1>18. ASSUME NEW k \in Nat PROVE Fine(I + k) <=> Consistent(w)
  <2>. DEFINE Ok(m) == SighashOk(w.inputs[m])
  <2>. HIDE DEF Ok, I
  <2>1. \A m \in 1..I : m <= I + k
    BY <1>1
  <2>2. (\A m \in 1..I : m <= I + k => Ok(m)) <=> (\A m \in 1..I : Ok(m))
    BY <2>1
  <2>. QED
    BY <2>2 DEF Ok, I, Consistent
<1>. HIDE DEF Fine
<1>6. ASSUME NEW n \in 1..N, n - 1 \in T PROVE n \in T
  <2>1. n \in Nat /\ g[n] = ReadMap(g[n - 1], stream[n], lax)
    <3>. HIDE DEF N
    <3>. QED
      BY <1>2, <1>4
  <2>2. CASE n = 1
    <3>1. 1 - 1 = 0
      OBVIOUS
    <3>. QED
      BY <1>5, <1>16, <2>2, <3>1
  <2>3. CASE n \in 2..(I + 1)
    <3>. DEFINE k == n - 1
    <3>1. k \in 1..I /\ n - 1 # 0 /\ k + 1 = n /\ (n - 1) - 1 = k - 1
      <4>. HIDE DEF I, O
      <4>. QED
        BY <1>1, <2>1, <2>3
    <3>2. g[k] = At(k - 1)
      BY <1>6, <3>1
    <3>3. InputMapFor(stream[n], w.inputs[k], w.version, lax)
      <4>. HIDE DEF k
      <4>. QED
        BY <3>1 DEF StreamFor
    <3>4. /\ ReadMap(Stage(w, base, ic, oc, k - 1), stream[n], lax)
               = IF SighashOk(w.inputs[k]) THEN Stage(w, base, ic, oc, k) ELSE Refused
          /\ ReadMap(Refused, stream[n], lax) = Refused
      <4>. DEFINE records == stream[n]
      <4>1. k \in 1..Len(w.inputs) /\ InputMapFor(records, w.inputs[k], w.version, lax)
        BY <3>1, <3>3
      <4>. HIDE DEF k, records
      <4>2. ReadMap(Stage(w, base, ic, oc, k - 1), records, lax)
              = IF SighashOk(w.inputs[k]) THEN Stage(w, base, ic, oc, k) ELSE Refused
        BY <1>1, <1>15, <4>1, InputStage
      <4>3. \E N1 \in Nat : DOMAIN records = 1..N1
        BY <4>1 DEF InputMapFor, Lists
      <4>4. ReadMap(Refused, records, lax) = Refused
        BY <4>3, RefusalStays
      <4>. QED
        BY <4>2, <4>4 DEF records
    <3>5. Fine(k) <=> Fine(k - 1) /\ SighashOk(w.inputs[k])
      BY <1>17, <3>1
    <3>6. g[n] = At(k)
      <4>1. g[n] = ReadMap(g[k], stream[n], lax)
        BY <2>1
      <4>2. CASE Fine(k - 1)
        BY <3>2, <3>4, <3>5, <4>1, <4>2
      <4>3. CASE ~Fine(k - 1)
        BY <3>2, <3>4, <3>5, <4>1, <4>3
      <4>. QED
        BY <4>2, <4>3
    <3>. QED
      BY <2>1, <3>6
  <2>4. CASE n \in (I + 2)..N
    <3>. DEFINE k == n - 1 - I
    <3>1. k \in 1..O /\ n - 1 # 0 /\ I + k + 1 = n /\ (n - 1) - 1 = I + k - 1
          /\ I + k = n - 1
      <4>. HIDE DEF I, O
      <4>. QED
        BY <1>1, <2>1, <2>4
    <3>2. g[n - 1] = At(I + k - 1)
      BY <1>6, <3>1
    <3>3. OutputMapFor(stream[n], w.outputs[k], w.version)
      <4>. HIDE DEF k
      <4>. QED
        BY <3>1 DEF StreamFor
    <3>4. /\ ReadMap(Stage(w, base, ic, oc, I + k - 1), stream[n], lax)
               = Stage(w, base, ic, oc, I + k)
          /\ ReadMap(Refused, stream[n], lax) = Refused
      <4>. DEFINE records == stream[n]
      <4>1. k \in 1..Len(w.outputs) /\ OutputMapFor(records, w.outputs[k], w.version)
        BY <3>1, <3>3
      <4>. HIDE DEF k, records
      <4>2. ReadMap(Stage(w, base, ic, oc, Len(w.inputs) + k - 1), records, lax)
              = Stage(w, base, ic, oc, Len(w.inputs) + k)
        BY <1>1, <4>1, OutputStage
      <4>3. DOMAIN records = 1..0 \/ DOMAIN records = 1..2
        BY <4>1 DEF OutputMapFor
      <4>4. ReadMap(Refused, records, lax) = Refused
        BY <4>3, RefusalStays
      <4>. QED
        BY <4>2, <4>4 DEF records
    <3>5. Fine(I + k) <=> Fine(I + k - 1)
      <4>1. k \in Nat /\ k - 1 \in Nat /\ I + (k - 1) = I + k - 1
        <5>. HIDE DEF k, I, O
        <5>. QED
          BY <1>1, <3>1
      <4>2. \A m \in Nat : Fine(I + m) <=> Consistent(w)
        BY <1>18
      <4>. HIDE DEF k, I
      <4>. QED
        BY <4>1, <4>2
    <3>6. g[n] = At(I + k)
      <4>1. g[n] = ReadMap(g[n - 1], stream[n], lax)
        BY <2>1
      <4>. QED
        BY <3>2, <3>4, <3>5, <4>1
    <3>. QED
      BY <2>1, <3>1, <3>6
  <2>. QED
    <3>1. n = 1 \/ n \in 2..(I + 1) \/ n \in (I + 2)..N
      <4>. HIDE DEF I, O
      <4>. QED
        BY <1>1, <2>1
    <3>. QED
      BY <2>2, <2>3, <2>4, <3>1
<1>7. g[N] = At(I + O)
  <2>1. 0 \in T
    OBVIOUS
  <2>2. \A n \in 0..N : n \in T
    <3>. HIDE DEF T, N
    <3>. QED
      BY <1>2, <1>6, <2>1, Stepwise
  <2>3. N \in 0..N /\ N # 0 /\ N - 1 = I + O
    <3>. HIDE DEF I, O
    <3>. QED
      BY <1>1
  <2>. HIDE DEF N, I, O
  <2>. QED
    BY <2>2, <2>3
<1>8. Stage(w, base, ic, oc, I + O) = Reader("end", 1, {}, ic, oc, w)
  <2>1. ~(I + O < I) /\ ~(I + O < I + O)
    <3>. HIDE DEF I, O
    <3>. QED
      BY <1>1
  <2>. QED
    BY <2>1 DEF Stage
<1>. DEFINE s == ReadMaps(StartReading, stream, lax)
<1>9. Parse(stream, lax, TRUE) = Finished(s, TRUE) /\ s = At(I + O)
  BY <1>4, <1>7 DEF Parse, ReadMaps
<1>10. Fine(I + O) <=> Consistent(w)
  BY <1>1, <1>18
<1>. HIDE DEF s
<1>11. CASE Consistent(w)
  <2>1. s = Reader("end", 1, {}, ic, oc, w)
    BY <1>8, <1>9, <1>10, <1>11
  <2>2. s.section = "end" /\ s.psbt = w /\ ~s.trailing
    BY <2>1 DEF Reader, NotTrailing
  <2>. QED
    BY <1>9, <1>11, <2>2 DEF Finished
<1>12. CASE ~Consistent(w)
  <2>1. s.section = "refused"
    BY <1>9, <1>10, <1>12, RefusedIs
  <2>. QED
    BY <1>9, <1>12, <2>1 DEF Finished
<1>. QED
  BY <1>11, <1>12

-----------------------------------------------------------------------------
(* The maps that are written, as the sets of their records.                *)

One(f, v, unset) == IF v # unset THEN {Plain(f, v)} ELSE {}

SigItems(in) == {Record("PARTIAL_SIG", k, in.sigs[k]) : k \in Signers(in)}
KeypathItems(in) == {Record("BIP32_DERIVATION", k, k) : k \in in.keypaths}
PartialItems(in) ==
    ((SigItems(in) \cup One("SIGHASH_TYPE", in.sighash, None))
     \cup One("WITNESS_SCRIPT", in.script, None)) \cup KeypathItems(in)
PlaceItems(in) ==
    (({Plain("PREVIOUS_TXID", in.txid), Plain("OUTPUT_INDEX", in.index)}
      \cup One("SEQUENCE", in.sequence, FinalSequence))
     \cup One("REQUIRED_TIME_LOCKTIME", in.time, 0))
    \cup One("REQUIRED_HEIGHT_LOCKTIME", in.height, 0)
InputItems(in, version) ==
    ((One("WITNESS_UTXO", in.utxo, None) \cup PartialItems(in))
     \cup One("FINAL_SCRIPTWITNESS", in.final, None))
    \cup IF version = 0 THEN {} ELSE PlaceItems(in)

LEMMA ItemFields ==
    /\ \A f, v, unset : \A r \in One(f, v, unset) : r.field = f /\ r.value = v /\ v # unset
    /\ \A in : \A r \in SigItems(in) :
            r.field = "PARTIAL_SIG" /\ r.key \in Signers(in) /\ r.value = in.sigs[r.key]
    /\ \A in : \A r \in KeypathItems(in) :
            r.field = "BIP32_DERIVATION" /\ r.key \in in.keypaths
BY DEF One, Plain, Record, SigItems, KeypathItems

LEMMA PairFields ==
    ASSUME NEW f, NEW v, NEW g, NEW u, NEW r, r \in {Plain(f, v), Plain(g, u)}
    PROVE  (r.field = f /\ r.value = v) \/ (r.field = g /\ r.value = u)
BY DEF Plain, Record

LEMMA ListsPair ==
    ASSUME NEW f, NEW v, NEW g, NEW u, f # g
    PROVE  Lists(<<Plain(f, v), Plain(g, u)>>, {Plain(f, v), Plain(g, u)})
<1>. DEFINE a == Plain(f, v)
            b == Plain(g, u)
<1>1. Apart(a, b) /\ Apart(b, a)
  BY DEF Plain, Record, Apart
<1>. HIDE DEF a, b
<1>2. <<a, b>> \in Seq({a, b}) /\ Range(<<a, b>>) = {a, b} /\ Len(<<a, b>>) = 2
  BY DEF Range
<1>3. ASSUME NEW m \in 1..2, NEW n \in 1..2, m # n
      PROVE  Apart(<<a, b>>[m], <<a, b>>[n])
  BY <1>1, <1>3
<1>4. Lists(<<a, b>>, {a, b})
  BY <1>2, <1>3 DEF Lists
<1>. QED
  BY <1>4 DEF a, b

LEMMA ListsUnless ==
    \A f, v, unset : Lists(Unless(f, v, unset), One(f, v, unset))
<1>1. ASSUME NEW f, NEW v, NEW unset PROVE Lists(Unless(f, v, unset), One(f, v, unset))
  BY ListsNothing, ListsOne DEF Unless, When, One
<1>. QED
  BY <1>1

LEMMA ImageIsFinite ==
    ASSUME NEW S, IsFiniteSet(S), NEW X, NEW g, g = [k \in S |-> g[k]],
           X = {g[k] : k \in S}
    PROVE  IsFiniteSet(X)
<1>1. g \in Surjection(S, X)
  <2>1. \A k \in S : g[k] \in X
    OBVIOUS
  <2>2. g \in [S -> X]
    BY <2>1, Zenon
  <2>3. \A x \in X : \E k \in S : g[k] = x
    OBVIOUS
  <2>. QED
    BY <2>2, <2>3 DEF Surjection
<1>. QED
  BY <1>1, FS_Surjection

LEMMA ListsSigs ==
    ASSUME IsFiniteSet(Keys), NEW in
    PROVE  Lists(SigRecords(in), SigItems(in))
<1>. DEFINE S == Signers(in)
            of(k) == Record("PARTIAL_SIG", k, in.sigs[k])
            X == {of(k) : k \in S}
<1>1. IsFiniteSet(S)
  BY FS_Subset DEF Signers
<1>2. IsFiniteSet(X)
  <2>. DEFINE g == [k \in S |-> of(k)]
  <2>. HIDE DEF S, of
  <2>1. g = [k \in S |-> g[k]] /\ X = {g[k] : k \in S}
    OBVIOUS
  <2>. HIDE DEF X, g
  <2>. QED
    BY <1>1, <2>1, ImageIsFinite
<1>3. ASSUME NEW x \in X, NEW y \in X, x # y PROVE Apart(x, y)
  BY <1>3 DEF Apart, HaveKeydata, Record
<1>4. Lists(SetToSeq(X), X)
  <2>. HIDE DEF X
  <2>. QED
    BY <1>2, <1>3, ListsItems
<1>. QED
  BY <1>4 DEF SigRecords, SigItems

LEMMA ListsKeypaths ==
    ASSUME IsFiniteSet(Keys), NEW in, in.keypaths \subseteq Keys
    PROVE  Lists(KeypathRecords(in), KeypathItems(in))
<1>. DEFINE S == in.keypaths
            of(k) == Record("BIP32_DERIVATION", k, k)
            X == {of(k) : k \in S}
<1>1. IsFiniteSet(S)
  BY FS_Subset
<1>2. IsFiniteSet(X)
  <2>. DEFINE g == [k \in S |-> of(k)]
  <2>. HIDE DEF S, of
  <2>1. g = [k \in S |-> g[k]] /\ X = {g[k] : k \in S}
    OBVIOUS
  <2>. HIDE DEF X, g
  <2>. QED
    BY <1>1, <2>1, ImageIsFinite
<1>3. ASSUME NEW x \in X, NEW y \in X, x # y PROVE Apart(x, y)
  BY <1>3 DEF Apart, HaveKeydata, Record
<1>4. Lists(SetToSeq(X), X)
  <2>. HIDE DEF X
  <2>. QED
    BY <1>2, <1>3, ListsItems
<1>. QED
  BY <1>4 DEF KeypathRecords, KeypathItems

LEMMA ListsPartial ==
    ASSUME IsFiniteSet(Keys), NEW in, in.keypaths \subseteq Keys
    PROVE  Lists(SigRecords(in)
                 \o Unless("SIGHASH_TYPE", in.sighash, None)
                 \o Unless("WITNESS_SCRIPT", in.script, None)
                 \o KeypathRecords(in), PartialItems(in))
<1>. DEFINE a == SigRecords(in)
            b == Unless("SIGHASH_TYPE", in.sighash, None)
            c == Unless("WITNESS_SCRIPT", in.script, None)
            d == KeypathRecords(in)
            A == SigItems(in)
            B == One("SIGHASH_TYPE", in.sighash, None)
            C == One("WITNESS_SCRIPT", in.script, None)
            D == KeypathItems(in)
<1>1. Lists(a, A) /\ Lists(b, B) /\ Lists(c, C) /\ Lists(d, D)
  BY ListsSigs, ListsUnless, ListsKeypaths
<1>2. /\ \A r \in A : r.field = "PARTIAL_SIG"
      /\ \A r \in B : r.field = "SIGHASH_TYPE"
      /\ \A r \in C : r.field = "WITNESS_SCRIPT"
      /\ \A r \in D : r.field = "BIP32_DERIVATION"
  BY ItemFields
<1>. HIDE DEF a, b, c, d, A, B, C, D
<1>3. Lists(a \o b, A \cup B)
  BY <1>1, <1>2, ListsBoth
<1>4. Lists((a \o b) \o c, (A \cup B) \cup C)
  BY <1>1, <1>2, <1>3, ListsBoth
<1>5. Lists(((a \o b) \o c) \o d, ((A \cup B) \cup C) \cup D)
  <2>1. \A x \in (A \cup B) \cup C, y \in D : x.field # y.field
    BY <1>2
  <2>. QED
    BY <1>1, <1>4, <2>1, ListsBoth
<1>. QED
  BY <1>5 DEF PartialItems, a, b, c, d, A, B, C, D

LEMMA ListsPlace ==
    ASSUME NEW in
    PROVE  Lists(<<Plain("PREVIOUS_TXID", in.txid), Plain("OUTPUT_INDEX", in.index)>>
                 \o Unless("SEQUENCE", in.sequence, FinalSequence)
                 \o Unless("REQUIRED_TIME_LOCKTIME", in.time, 0)
                 \o Unless("REQUIRED_HEIGHT_LOCKTIME", in.height, 0), PlaceItems(in))
<1>. DEFINE a == <<Plain("PREVIOUS_TXID", in.txid), Plain("OUTPUT_INDEX", in.index)>>
            b == Unless("SEQUENCE", in.sequence, FinalSequence)
            c == Unless("REQUIRED_TIME_LOCKTIME", in.time, 0)
            d == Unless("REQUIRED_HEIGHT_LOCKTIME", in.height, 0)
            A == {Plain("PREVIOUS_TXID", in.txid), Plain("OUTPUT_INDEX", in.index)}
            B == One("SEQUENCE", in.sequence, FinalSequence)
            C == One("REQUIRED_TIME_LOCKTIME", in.time, 0)
            D == One("REQUIRED_HEIGHT_LOCKTIME", in.height, 0)
<1>1. Lists(a, A) /\ Lists(b, B) /\ Lists(c, C) /\ Lists(d, D)
  <2>1. Lists(a, A)
    BY ListsPair
  <2>. QED
    BY <2>1, ListsUnless
<1>2. /\ \A r \in A : r.field \in {"PREVIOUS_TXID", "OUTPUT_INDEX"}
      /\ \A r \in B : r.field = "SEQUENCE"
      /\ \A r \in C : r.field = "REQUIRED_TIME_LOCKTIME"
      /\ \A r \in D : r.field = "REQUIRED_HEIGHT_LOCKTIME"
  BY ItemFields, PairFields
<1>. HIDE DEF a, b, c, d, A, B, C, D
<1>3. Lists(a \o b, A \cup B)
  BY <1>1, <1>2, ListsBoth
<1>4. Lists((a \o b) \o c, (A \cup B) \cup C)
  <2>1. \A x \in A \cup B, y \in C : x.field # y.field
    BY <1>2
  <2>. QED
    BY <1>1, <1>3, <2>1, ListsBoth
<1>5. Lists(((a \o b) \o c) \o d, ((A \cup B) \cup C) \cup D)
  <2>1. \A x \in (A \cup B) \cup C, y \in D : x.field # y.field
    BY <1>2
  <2>. QED
    BY <1>1, <1>4, <2>1, ListsBoth
<1>. QED
  BY <1>5 DEF PlaceItems, a, b, c, d, A, B, C, D


(* What an input is made of its own items is the input itself.             *)
InputValues(in) ==
    /\ in.keypaths \subseteq Keys
    /\ in.time = 0 \/ ~(in.time < MinTimestamp)
    /\ in.height = 0 \/ in.height \in 1..(MinTimestamp - 1)
NotPlaced(in) ==
    /\ in.txid = None /\ in.index = 0 /\ in.sequence = FinalSequence
    /\ in.time = 0 /\ in.height = 0

LEMMA PlaceFields ==
    ASSUME NEW in, NEW r \in PlaceItems(in)
    PROVE  \/ r.field = "PREVIOUS_TXID" /\ r.value = in.txid
           \/ r.field = "OUTPUT_INDEX" /\ r.value = in.index
           \/ r.field = "SEQUENCE" /\ r.value = in.sequence
           \/ r.field = "REQUIRED_TIME_LOCKTIME" /\ r.value = in.time /\ in.time # 0
           \/ r.field = "REQUIRED_HEIGHT_LOCKTIME" /\ r.value = in.height /\ in.height # 0
BY ItemFields, PairFields DEF PlaceItems

LEMMA PartialFields ==
    ASSUME NEW in, NEW r \in PartialItems(in)
    PROVE  \/ r.field = "PARTIAL_SIG" /\ r.key \in Signers(in) /\ r.value = in.sigs[r.key]
           \/ r.field = "SIGHASH_TYPE" /\ r.value = in.sighash
           \/ r.field = "WITNESS_SCRIPT" /\ r.value = in.script
           \/ r.field = "BIP32_DERIVATION" /\ r.key \in in.keypaths
BY ItemFields DEF PartialItems

LEMMA InputItemFields ==
    ASSUME NEW in, NEW version, NEW r \in InputItems(in, version)
    PROVE  \/ r \in PartialItems(in)
           \/ r \in PlaceItems(in) /\ version # 0
           \/ r.field = "WITNESS_UTXO" /\ r.value = in.utxo
           \/ r.field = "FINAL_SCRIPTWITNESS" /\ r.value = in.final
BY ItemFields DEF InputItems

LEMMA InputItemsAreRecords ==
    ASSUME NEW in, InputValues(in), NEW version, NEW r \in InputItems(in, version)
    PROVE  InputRecord(r)
<1>1. CASE r \in PartialItems(in)
  BY <1>1, PartialFields DEF InputRecord, PlainInputFields, HaveKeydata, Signers,
     InputValues
<1>2. CASE r \in PlaceItems(in)
  BY <1>2, PlaceFields DEF InputRecord, PlainInputFields, HaveKeydata, InputValues
<1>3. CASE r.field = "WITNESS_UTXO" \/ r.field = "FINAL_SCRIPTWITNESS"
  BY <1>3 DEF InputRecord, PlainInputFields, HaveKeydata
<1>. QED
  BY <1>1, <1>2, <1>3, InputItemFields

(* A record that is there unless a field has its unset value.              *)
LEMMA HoldsItem ==
    ASSUME NEW X, NEW f, NEW v, NEW unset,
           \A r \in X : r.field = f => r.value = v,
           v # unset => Plain(f, v) \in X
    PROVE  Holds(X, f, v, unset)
<1>1. Plain(f, v).field = f
  BY DEF Plain, Record
<1>. QED
  BY <1>1 DEF Holds, Fields

LEMMA OneHas == ASSUME NEW f, NEW v, NEW unset, v # unset PROVE Plain(f, v) \in One(f, v, unset)
BY DEF One

LEMMA InputIsMade ==
    ASSUME NEW in, InputShape(in), NEW version, version = 0 => NotPlaced(in)
    PROVE  InputMade(in, InputItems(in, version))
<1>. DEFINE X == InputItems(in, version)
<1>1. ASSUME NEW r \in X
      PROVE  /\ r.field = "PREVIOUS_TXID" => r.value = in.txid
             /\ r.field = "OUTPUT_INDEX" => r.value = in.index
             /\ r.field = "SEQUENCE" => r.value = in.sequence
             /\ r.field = "REQUIRED_TIME_LOCKTIME" => r.value = in.time
             /\ r.field = "REQUIRED_HEIGHT_LOCKTIME" => r.value = in.height
             /\ r.field = "SIGHASH_TYPE" => r.value = in.sighash
             /\ r.field = "WITNESS_UTXO" => r.value = in.utxo
             /\ r.field = "WITNESS_SCRIPT" => r.value = in.script
             /\ r.field = "FINAL_SCRIPTWITNESS" => r.value = in.final
             /\ r.field = "BIP32_DERIVATION" => r.key \in in.keypaths
             /\ r.field = "PARTIAL_SIG" => r.value = in.sigs[r.key]
                                           /\ r.key \in Signers(in)
  <2>1. CASE r \in PartialItems(in)
    BY <2>1, PartialFields
  <2>2. CASE r \in PlaceItems(in)
    BY <2>2, PlaceFields
  <2>3. CASE r.field = "WITNESS_UTXO" /\ r.value = in.utxo
    BY <2>3
  <2>4. CASE r.field = "FINAL_SCRIPTWITNESS" /\ r.value = in.final
    BY <2>4
  <2>. QED
    BY <2>1, <2>2, <2>3, <2>4, InputItemFields
<1>2. /\ in.utxo # None => Plain("WITNESS_UTXO", in.utxo) \in X
      /\ in.final # None => Plain("FINAL_SCRIPTWITNESS", in.final) \in X
  BY OneHas DEF InputItems
<1>3. /\ in.sighash # None => Plain("SIGHASH_TYPE", in.sighash) \in X
      /\ in.script # None => Plain("WITNESS_SCRIPT", in.script) \in X
      /\ \A k \in in.keypaths : Record("BIP32_DERIVATION", k, k) \in X
      /\ \A k \in Signers(in) : Record("PARTIAL_SIG", k, in.sigs[k]) \in X
  <2>1. PartialItems(in) \subseteq X
    BY DEF InputItems
  <2>2. /\ in.sighash # None => Plain("SIGHASH_TYPE", in.sighash) \in PartialItems(in)
        /\ in.script # None => Plain("WITNESS_SCRIPT", in.script) \in PartialItems(in)
    BY OneHas DEF PartialItems
  <2>3. /\ \A k \in in.keypaths : Record("BIP32_DERIVATION", k, k) \in PartialItems(in)
        /\ \A k \in Signers(in) : Record("PARTIAL_SIG", k, in.sigs[k]) \in PartialItems(in)
    BY DEF PartialItems, KeypathItems, SigItems
  <2>. QED
    BY <2>1, <2>2, <2>3
<1>4. /\ in.txid # None => Plain("PREVIOUS_TXID", in.txid) \in X
      /\ in.index # 0 => Plain("OUTPUT_INDEX", in.index) \in X
      /\ in.sequence # FinalSequence => Plain("SEQUENCE", in.sequence) \in X
      /\ in.time # 0 => Plain("REQUIRED_TIME_LOCKTIME", in.time) \in X
      /\ in.height # 0 => Plain("REQUIRED_HEIGHT_LOCKTIME", in.height) \in X
  <2>1. CASE version = 0
    BY <2>1 DEF NotPlaced
  <2>2. CASE version # 0
    <3>1. PlaceItems(in) \subseteq X
      BY <2>2 DEF InputItems
    <3>2. /\ Plain("PREVIOUS_TXID", in.txid) \in PlaceItems(in)
          /\ Plain("OUTPUT_INDEX", in.index) \in PlaceItems(in)
          /\ in.sequence # FinalSequence => Plain("SEQUENCE", in.sequence) \in PlaceItems(in)
          /\ in.time # 0 => Plain("REQUIRED_TIME_LOCKTIME", in.time) \in PlaceItems(in)
          /\ in.height # 0 => Plain("REQUIRED_HEIGHT_LOCKTIME", in.height) \in PlaceItems(in)
      BY OneHas DEF PlaceItems
    <3>. QED
      BY <3>1, <3>2
  <2>. QED
    BY <2>1, <2>2
<1>. HIDE DEF X
<1>5. /\ Holds(X, "PREVIOUS_TXID", in.txid, None)
      /\ Holds(X, "OUTPUT_INDEX", in.index, 0)
      /\ Holds(X, "SEQUENCE", in.sequence, FinalSequence)
      /\ Holds(X, "REQUIRED_TIME_LOCKTIME", in.time, 0)
      /\ Holds(X, "REQUIRED_HEIGHT_LOCKTIME", in.height, 0)
  BY <1>1, <1>4, HoldsItem
<1>6. /\ Holds(X, "SIGHASH_TYPE", in.sighash, None)
      /\ Holds(X, "WITNESS_UTXO", in.utxo, None)
      /\ Holds(X, "WITNESS_SCRIPT", in.script, None)
      /\ Holds(X, "FINAL_SCRIPTWITNESS", in.final, None)
  BY <1>1, <1>2, <1>3, HoldsItem
<1>7. in.keypaths = KeypathsOf(X)
  <2>1. \A k \in KeypathsOf(X) : k \in in.keypaths
    BY <1>1 DEF KeypathsOf
  <2>2. ASSUME NEW k \in in.keypaths PROVE k \in KeypathsOf(X)
    <3>. DEFINE r == Record("BIP32_DERIVATION", k, k)
    <3>1. r \in X /\ r.field = "BIP32_DERIVATION" /\ r.key = k
      BY <1>3 DEF Record
    <3>. HIDE DEF r
    <3>. QED
      BY <3>1 DEF KeypathsOf
  <2>. QED
    BY <2>1, <2>2
<1>8. ASSUME NEW k \in Keys PROVE Holds(SigsOf(X, k), "PARTIAL_SIG", in.sigs[k], None)
  <2>1. \A r \in SigsOf(X, k) : r.value = in.sigs[k]
    BY <1>1 DEF SigsOf
  <2>2. ASSUME in.sigs[k] # None PROVE "PARTIAL_SIG" \in Fields(SigsOf(X, k))
    <3>. DEFINE r == Record("PARTIAL_SIG", k, in.sigs[k])
    <3>1. r \in X /\ r.field = "PARTIAL_SIG" /\ r.key = k
      BY <1>3, <2>2 DEF Signers, Record
    <3>. HIDE DEF r
    <3>. QED
      BY <3>1 DEF SigsOf, Fields
  <2>. QED
    BY <2>1, <2>2 DEF Holds
<1>. QED
  BY <1>5, <1>6, <1>7, <1>8 DEF InputMade, X


(* What is left of an input when it is written.                            *)
Dropped(in, redundant) == IsFinalized(in) /\ ~redundant
Bare(in) == [in EXCEPT !.sigs = NoSigs, !.sighash = None, !.script = None,
                       !.keypaths = {}]
Unplaced(in) == [in EXCEPT !.txid = None, !.index = 0, !.sequence = FinalSequence,
                           !.time = 0, !.height = 0]

SamePartial(a, b) ==
    /\ a.sigs = b.sigs /\ a.sighash = b.sighash /\ a.script = b.script
    /\ a.keypaths = b.keypaths
SamePlace(a, b) ==
    /\ a.txid = b.txid /\ a.index = b.index /\ a.sequence = b.sequence
    /\ a.time = b.time /\ a.height = b.height
SameRest(a, b) == a.utxo = b.utxo /\ a.final = b.final
NoPartial(in) ==
    /\ in.sigs = NoSigs /\ in.sighash = None /\ in.script = None /\ in.keypaths = {}

Form(txid, index, sequence, time, height, sighash, utxo, script, keypaths, sigs, final) ==
    [txid |-> txid, index |-> index, sequence |-> sequence, time |-> time,
     height |-> height, sighash |-> sighash, utxo |-> utxo, script |-> script,
     keypaths |-> keypaths, sigs |-> sigs, final |-> final]

LEMMA BareFields ==
    ASSUME NEW in, InputShape(in)
    PROVE  /\ InputShape(Bare(in)) /\ NoPartial(Bare(in))
           /\ SamePlace(Bare(in), in) /\ SameRest(Bare(in), in)
<1>. DEFINE w1 == Form(in.txid, in.index, in.sequence, in.time, in.height, in.sighash,
                       in.utxo, in.script, in.keypaths, NoSigs, in.final)
            w2 == Form(in.txid, in.index, in.sequence, in.time, in.height, None,
                       in.utxo, in.script, in.keypaths, NoSigs, in.final)
            w3 == Form(in.txid, in.index, in.sequence, in.time, in.height, None,
                       in.utxo, None, in.keypaths, NoSigs, in.final)
            w4 == Form(in.txid, in.index, in.sequence, in.time, in.height, None,
                       in.utxo, None, {}, NoSigs, in.final)
<1>1. in = Form(in.txid, in.index, in.sequence, in.time, in.height, in.sighash,
               in.utxo, in.script, in.keypaths, in.sigs, in.final)
  BY DEF InputShape, Form
<1>2. [in EXCEPT !.sigs = NoSigs] = w1
  BY <1>1 DEF Form
<1>3. [w1 EXCEPT !.sighash = None] = w2
  BY DEF Form
<1>4. [w2 EXCEPT !.script = None] = w3
  BY DEF Form
<1>5. [w3 EXCEPT !.keypaths = {}] = w4
  BY DEF Form
<1>6. /\ InputShape(w4) /\ NoPartial(w4)
      /\ SamePlace(w4, in) /\ SameRest(w4, in)
  BY <1>1 DEF InputShape, Form, NoPartial, SamePlace, SameRest, NoSigs
<1>. HIDE DEF w1, w2, w3, w4
<1>7. Bare(in) = w4
  BY <1>2, <1>3, <1>4, <1>5 DEF Bare
<1>. QED
  BY <1>6, <1>7

LEMMA UnplacedFields ==
    ASSUME NEW in, InputShape(in)
    PROVE  /\ InputShape(Unplaced(in)) /\ NotPlaced(Unplaced(in))
           /\ SamePartial(Unplaced(in), in) /\ SameRest(Unplaced(in), in)
<1>. DEFINE w1 == Form(None, in.index, in.sequence, in.time, in.height, in.sighash,
                       in.utxo, in.script, in.keypaths, in.sigs, in.final)
            w2 == Form(None, 0, in.sequence, in.time, in.height, in.sighash,
                       in.utxo, in.script, in.keypaths, in.sigs, in.final)
            w3 == Form(None, 0, FinalSequence, in.time, in.height, in.sighash,
                       in.utxo, in.script, in.keypaths, in.sigs, in.final)
            w4 == Form(None, 0, FinalSequence, 0, in.height, in.sighash,
                       in.utxo, in.script, in.keypaths, in.sigs, in.final)
            w5 == Form(None, 0, FinalSequence, 0, 0, in.sighash,
                       in.utxo, in.script, in.keypaths, in.sigs, in.final)
<1>1. in = Form(in.txid, in.index, in.sequence, in.time, in.height, in.sighash,
               in.utxo, in.script, in.keypaths, in.sigs, in.final)
  BY DEF InputShape, Form
<1>2. [in EXCEPT !.txid = None] = w1
  BY <1>1 DEF Form
<1>3. [w1 EXCEPT !.index = 0] = w2
  BY DEF Form
<1>4. [w2 EXCEPT !.sequence = FinalSequence] = w3
  BY DEF Form
<1>5. [w3 EXCEPT !.time = 0] = w4
  BY DEF Form
<1>6. [w4 EXCEPT !.height = 0] = w5
  BY DEF Form
<1>7. /\ InputShape(w5) /\ NotPlaced(w5)
      /\ SamePartial(w5, in) /\ SameRest(w5, in)
  BY <1>1 DEF InputShape, Form, NotPlaced, SamePartial, SameRest
<1>. HIDE DEF w1, w2, w3, w4, w5
<1>8. Unplaced(in) = w5
  BY <1>2, <1>3, <1>4, <1>5, <1>6 DEF Unplaced
<1>. QED
  BY <1>7, <1>8

LEMMA WrittenInputFields ==
    ASSUME NEW p, p.version \in {0, 2}, NEW in, InputShape(in), NEW redundant \in BOOLEAN,
           NEW w, w = WrittenInput(p, in, redundant)
    PROVE  /\ InputShape(w) /\ SameRest(w, in)
           /\ IF Dropped(in, redundant) THEN NoPartial(w) ELSE SamePartial(w, in)
           /\ IF p.version = 0 THEN NotPlaced(w) ELSE SamePlace(w, in)
<1>. DEFINE shown == IF Dropped(in, redundant) THEN Bare(in) ELSE in
<1>1. w = IF p.version = 2 THEN shown ELSE Unplaced(shown)
  BY DEF WrittenInput, Dropped, Bare, Unplaced
<1>2. /\ InputShape(shown) /\ SameRest(shown, in) /\ SamePlace(shown, in)
      /\ IF Dropped(in, redundant) THEN NoPartial(shown) ELSE SamePartial(shown, in)
  BY BareFields DEF SameRest, SamePlace, SamePartial
<1>. HIDE DEF shown
<1>3. CASE p.version = 2
  BY <1>1, <1>2, <1>3
<1>4. CASE p.version = 0
  <2>1. InputShape(w) /\ NotPlaced(w) /\ SamePartial(w, shown) /\ SameRest(w, shown)
    BY <1>1, <1>2, <1>4, UnplacedFields
  <2>. QED
    BY <1>2, <1>4, <2>1 DEF SameRest, SamePartial, NoPartial
<1>. QED
  BY <1>3, <1>4

LEMMA WrittenInputValues ==
    ASSUME NEW p, p.version \in {0, 2}, NEW in, InputShape(in), InputValues(in),
           NEW redundant \in BOOLEAN
    PROVE  InputValues(WrittenInput(p, in, redundant))
<1>. DEFINE w == WrittenInput(p, in, redundant)
<1>1. w = WrittenInput(p, in, redundant)
  OBVIOUS
<1>. HIDE DEF w
<1>2. /\ IF Dropped(in, redundant) THEN NoPartial(w) ELSE SamePartial(w, in)
      /\ IF p.version = 0 THEN NotPlaced(w) ELSE SamePlace(w, in)
  BY <1>1, WrittenInputFields
<1>3. InputValues(w)
  BY <1>2 DEF InputValues, NoPartial, SamePartial, NotPlaced, SamePlace
<1>. QED
  BY <1>1, <1>3

LEMMA ListsInput ==
    ASSUME IsFiniteSet(Keys), NEW p, p.version \in {0, 2},
           NEW in, InputShape(in), InputValues(in), NEW redundant \in BOOLEAN
    PROVE  Lists(InputMap(p, in, redundant),
                 InputItems(WrittenInput(p, in, redundant), p.version))
<1>. DEFINE w == WrittenInput(p, in, redundant)
            utxo == Unless("WITNESS_UTXO", in.utxo, None)
            partial == SigRecords(in)
                       \o Unless("SIGHASH_TYPE", in.sighash, None)
                       \o Unless("WITNESS_SCRIPT", in.script, None)
                       \o KeypathRecords(in)
            mid == IF IsFinalized(in) /\ ~redundant THEN <<>> ELSE partial
            final == Unless("FINAL_SCRIPTWITNESS", in.final, None)
            at == <<Plain("PREVIOUS_TXID", in.txid), Plain("OUTPUT_INDEX", in.index)>>
                  \o Unless("SEQUENCE", in.sequence, FinalSequence)
                  \o Unless("REQUIRED_TIME_LOCKTIME", in.time, 0)
                  \o Unless("REQUIRED_HEIGHT_LOCKTIME", in.height, 0)
            place == IF p.version = 0 THEN <<>> ELSE at
            P == IF p.version = 0 THEN {} ELSE PlaceItems(w)
            U == One("WITNESS_UTXO", w.utxo, None)
            F == One("FINAL_SCRIPTWITNESS", w.final, None)
            M == PartialItems(w)
<1>1. InputMap(p, in, redundant) = ((utxo \o mid) \o final) \o place
  BY Zenon DEF InputMap
<1>2. InputItems(w, p.version) = ((U \cup M) \cup F) \cup P
  BY Zenon DEF InputItems
<1>3. w = WrittenInput(p, in, redundant)
  OBVIOUS
<1>. HIDE DEF w
<1>4. /\ InputShape(w) /\ SameRest(w, in)
      /\ IF Dropped(in, redundant) THEN NoPartial(w) ELSE SamePartial(w, in)
      /\ IF p.version = 0 THEN NotPlaced(w) ELSE SamePlace(w, in)
  BY <1>3, WrittenInputFields
<1>5. Lists(utxo, U) /\ Lists(final, F)
  BY <1>4, ListsUnless DEF SameRest
<1>6. Lists(mid, M)
  <2>1. CASE Dropped(in, redundant)
    <3>1. Signers(w) = {} /\ w.keypaths = {} /\ w.sighash = None /\ w.script = None
      BY <1>4, <2>1 DEF NoPartial, Signers, NoSigs
    <3>2. M = {}
      BY <3>1 DEF PartialItems, SigItems, KeypathItems, One
    <3>3. mid = <<>>
      BY <2>1 DEF Dropped
    <3>. QED
      BY <3>2, <3>3, ListsNothing
  <2>2. CASE ~Dropped(in, redundant)
    <3>1. mid = partial
      BY <2>2, Zenon DEF Dropped
    <3>2. Signers(w) = Signers(in) /\ SamePartial(w, in)
      BY <1>4, <2>2 DEF SamePartial, Signers
    <3>3. SigItems(w) = SigItems(in) /\ KeypathItems(w) = KeypathItems(in)
      BY <3>2 DEF SamePartial, SigItems, KeypathItems
    <3>4. M = PartialItems(in)
      BY <3>2, <3>3 DEF PartialItems, SamePartial
    <3>5. in.keypaths \subseteq Keys
      BY DEF InputValues
    <3>6. Lists(partial, PartialItems(in))
      BY <3>5, ListsPartial
    <3>. HIDE DEF partial, mid, M
    <3>. QED
      BY <3>1, <3>4, <3>6
  <2>. QED
    BY <2>1, <2>2
<1>7. Lists(place, P)
  <2>1. CASE p.version = 0
    BY <2>1, ListsNothing
  <2>2. CASE p.version # 0
    <3>1. Lists(at, PlaceItems(in))
      BY ListsPlace
    <3>2. PlaceItems(w) = PlaceItems(in)
      BY <1>4, <2>2 DEF SamePlace, PlaceItems
    <3>3. place = at /\ P = PlaceItems(w)
      BY <2>2, Zenon
    <3>. HIDE DEF at, place, P
    <3>. QED
      BY <3>1, <3>2, <3>3
  <2>. QED
    BY <2>1, <2>2
<1>8. /\ \A r \in U : r.field = "WITNESS_UTXO"
      /\ \A r \in F : r.field = "FINAL_SCRIPTWITNESS"
      /\ \A r \in M : r.field \in {"PARTIAL_SIG", "SIGHASH_TYPE", "WITNESS_SCRIPT",
                                   "BIP32_DERIVATION"}
      /\ \A r \in P : r.field \in {"PREVIOUS_TXID", "OUTPUT_INDEX", "SEQUENCE",
                                   "REQUIRED_TIME_LOCKTIME", "REQUIRED_HEIGHT_LOCKTIME"}
  BY ItemFields, PartialFields, PlaceFields
<1>. HIDE DEF utxo, mid, final, place, U, M, F, P
<1>9. Lists(utxo \o mid, U \cup M)
  <2>1. \A x \in U, y \in M : x.field # y.field
    BY <1>8
  <2>. QED
    BY <1>5, <1>6, <2>1, ListsBoth
<1>10. Lists((utxo \o mid) \o final, (U \cup M) \cup F)
  <2>1. \A x \in U \cup M, y \in F : x.field # y.field
    BY <1>8
  <2>. QED
    BY <1>5, <1>9, <2>1, ListsBoth
<1>11. Lists(((utxo \o mid) \o final) \o place, ((U \cup M) \cup F) \cup P)
  <2>1. \A x \in (U \cup M) \cup F, y \in P : x.field # y.field
    BY <1>8
  <2>. QED
    BY <1>7, <1>10, <2>1, ListsBoth
<1>. QED
  BY <1>1, <1>2, <1>11 DEF w

LEMMA InputFieldsAre ==
    ASSUME NEW w, NEW version \in {0, 2}, NEW lax
    PROVE  FieldsAre("input", version, InputItems(w, version), lax)
<1>. DEFINE X == InputItems(w, version)
<1>1. CASE version = 0
  <2>1. ASSUME NEW r \in X PROVE r.field \notin Disallowed("input", 0)
    BY <1>1, InputItemFields, PartialFields DEF Disallowed
  <2>2. Mandatory("input", 0) = {}
    BY DEF Mandatory
  <2>. QED
    BY <1>1, <2>1, <2>2 DEF FieldsAre, Fields
<1>2. CASE version = 2
  <2>1. Plain("PREVIOUS_TXID", w.txid) \in X /\ Plain("OUTPUT_INDEX", w.index) \in X
    BY <1>2 DEF InputItems, PlaceItems
  <2>2. Mandatory("input", 2) = {"PREVIOUS_TXID", "OUTPUT_INDEX"}
        /\ Disallowed("input", 2) = {}
    BY DEF Mandatory, Disallowed
  <2>3. Plain("PREVIOUS_TXID", w.txid).field = "PREVIOUS_TXID"
        /\ Plain("OUTPUT_INDEX", w.index).field = "OUTPUT_INDEX"
    BY DEF Plain, Record
  <2>. HIDE DEF X
  <2>4. "PREVIOUS_TXID" \in Fields(X) /\ "OUTPUT_INDEX" \in Fields(X)
    BY <2>1, <2>3 DEF Fields
  <2>. QED
    BY <1>2, <2>2, <2>4 DEF FieldsAre, X
<1>. QED
  BY <1>1, <1>2

LEMMA InputIsWritten ==
    ASSUME IsFiniteSet(Keys), NEW p, p.version \in {0, 2},
           NEW in, InputShape(in), InputValues(in), NEW redundant \in BOOLEAN,
           NEW w, w = WrittenInput(p, in, redundant), NEW lax
    PROVE  InputMapFor(InputMap(p, in, redundant), w, p.version, lax)
<1>. DEFINE X == InputItems(w, p.version)
<1>1. Lists(InputMap(p, in, redundant), X)
  BY ListsInput
<1>2. InputShape(w) /\ (p.version = 0 => NotPlaced(w))
  BY WrittenInputFields
<1>3. InputMade(w, X)
  BY <1>2, InputIsMade
<1>4. InputValues(w)
  BY WrittenInputValues
<1>5. \A r \in X : InputRecord(r)
  BY <1>4, InputItemsAreRecords
<1>6. FieldsAre("input", p.version, X, lax)
  BY InputFieldsAre
<1>. HIDE DEF X
<1>. QED
  BY <1>1, <1>2, <1>3, <1>5, <1>6 DEF InputMapFor

-----------------------------------------------------------------------------
(* What is written is read again.                                          *)

(* What the setters of the interface leave a PSBT with.                    *)
Writable(p) ==
    /\ PsbtShape(p) /\ p.version \in {0, 2} /\ p.mods \subseteq Flags
    /\ p.version = 2 => ~(p.txVersion < 2)
    /\ \A n \in 1..Len(p.inputs) : InputShape(p.inputs[n]) /\ InputValues(p.inputs[n])
    /\ \A n \in 1..Len(p.outputs) :
          p.outputs[n] = [script |-> p.outputs[n].script, satoshi |-> p.outputs[n].satoshi]

Version0(p, outs) ==
    [p EXCEPT !.txVersion = 2, !.fallback = None, !.mods = {}, !.outputs = outs]

LEMMA WrittenFields ==
    ASSUME NEW p, PsbtShape(p), p.version \in {0, 2}, NEW redundant \in BOOLEAN,
           NEW w, w = WrittenPart(p, redundant)
    PROVE  /\ PsbtShape(w) /\ w.version = p.version /\ w.tx = p.tx
           /\ w.inputs = [n \in 1..Len(p.inputs) |-> WrittenInput(p, p.inputs[n], redundant)]
           /\ p.version = 2 => /\ w.txVersion = p.txVersion /\ w.fallback = p.fallback
                               /\ w.mods = p.mods /\ w.outputs = p.outputs
           /\ p.version = 0 => /\ w.txVersion = 2 /\ w.fallback = None /\ w.mods = {}
                               /\ w.outputs = [n \in 1..Len(p.outputs) |-> EmptyOutput]
<1>. DEFINE ins == [n \in 1..Len(p.inputs) |-> WrittenInput(p, p.inputs[n], redundant)]
            outs == [n \in 1..Len(p.outputs) |-> EmptyOutput]
            w1 == Whole(p.version, p.tx, p.txVersion, p.fallback, p.mods, ins, p.outputs)
            w2 == Whole(p.version, p.tx, 2, p.fallback, p.mods, ins, p.outputs)
            w3 == Whole(p.version, p.tx, 2, None, p.mods, ins, p.outputs)
            w4 == Whole(p.version, p.tx, 2, None, {}, ins, p.outputs)
            w5 == Whole(p.version, p.tx, 2, None, {}, ins, outs)
<1>1. w = IF p.version = 2 THEN [p EXCEPT !.inputs = ins]
          ELSE Version0([p EXCEPT !.inputs = ins], outs)
  BY DEF WrittenPart, Version0
<1>2. Len(p.inputs) \in Nat /\ Len(p.outputs) \in Nat
  BY PartlyAll
<1>3. ins \in Seq(Range(ins)) /\ outs \in Seq(Range(outs))
      /\ p.outputs \in Seq(Range(p.outputs))
  <2>1. ASSUME NEW f, NEW N \in Nat, f = [n \in 1..N |-> f[n]] PROVE f \in Seq(Range(f))
    <3>1. \A n \in 1..N : f[n] \in Range(f)
      BY <2>1 DEF Range
    <3>2. f \in [1..N -> Range(f)]
      BY <2>1, <3>1, Zenon
    <3>. QED
      BY <3>2
  <2>. QED
    BY <1>2, <2>1 DEF PsbtShape
<1>. HIDE DEF ins, outs
<1>4. p = Whole(p.version, p.tx, p.txVersion, p.fallback, p.mods, p.inputs, p.outputs)
  BY DEF PsbtShape, Whole
<1>5. [p EXCEPT !.inputs = ins] = w1
  BY <1>4 DEF Whole
<1>6. [w1 EXCEPT !.txVersion = 2] = w2
  BY DEF Whole
<1>7. [w2 EXCEPT !.fallback = None] = w3
  BY DEF Whole
<1>8. [w3 EXCEPT !.mods = {}] = w4
  BY DEF Whole
<1>9. [w4 EXCEPT !.outputs = outs] = w5
  BY DEF Whole
<1>10. p.version = 2 => w = w1
  <2>. HIDE DEF w1
  <2>. QED
    BY <1>1, <1>5
<1>11. p.version = 0 => w = w5
  <2>. HIDE DEF w1, w2, w3, w4, w5
  <2>1. Version0(w1, outs) = w5
    BY <1>6, <1>7, <1>8, <1>9 DEF Version0
  <2>. QED
    BY <1>1, <1>5, <2>1
<1>12. CASE p.version = 2
  <2>1. /\ w.version = p.version /\ w.tx = p.tx /\ w.inputs = ins
        /\ w.txVersion = p.txVersion /\ w.fallback = p.fallback
        /\ w.mods = p.mods /\ w.outputs = p.outputs
        /\ w = [version |-> w.version, tx |-> w.tx, txVersion |-> w.txVersion,
                fallback |-> w.fallback, mods |-> w.mods, inputs |-> w.inputs,
                outputs |-> w.outputs]
    BY <1>10, <1>12 DEF Whole
  <2>2. PsbtShape(w)
    BY <1>3, <2>1, Zenon DEF PsbtShape
  <2>3. p.version # 0
    BY <1>12
  <2>. QED
    BY <2>1, <2>2, <2>3, Zenon DEF ins
<1>13. CASE p.version = 0
  <2>1. /\ w.version = p.version /\ w.tx = p.tx /\ w.inputs = ins
        /\ w.txVersion = 2 /\ w.fallback = None /\ w.mods = {} /\ w.outputs = outs
        /\ w = [version |-> w.version, tx |-> w.tx, txVersion |-> w.txVersion,
                fallback |-> w.fallback, mods |-> w.mods, inputs |-> w.inputs,
                outputs |-> w.outputs]
    BY <1>11, <1>13 DEF Whole
  <2>2. PsbtShape(w)
    BY <1>3, <2>1, Zenon DEF PsbtShape
  <2>3. p.version # 2
    BY <1>13
  <2>. QED
    BY <2>1, <2>2, <2>3, Zenon DEF ins, outs
<1>. QED
  BY <1>12, <1>13

LEMMA OutputIsWritten ==
    ASSUME NEW p, p.version \in {0, 2}, NEW out,
           out = [script |-> out.script, satoshi |-> out.satoshi]
    PROVE  OutputMapFor(OutputMap(p, out), IF p.version = 0 THEN EmptyOutput ELSE out,
                        p.version)
BY DEF OutputMapFor, OutputMap, EmptyOutput

GlobalItems(w) ==
    ((({Plain("TX_VERSION", w.txVersion)} \cup One("FALLBACK_LOCKTIME", w.fallback, None))
      \cup {Plain("INPUT_COUNT", Len(w.inputs)), Plain("OUTPUT_COUNT", Len(w.outputs))})
     \cup One("TX_MODIFIABLE", w.mods, {}))
    \cup {Plain("VERSION", 2)}

LEMMA SingleFields ==
    ASSUME NEW f, NEW v, NEW r, r \in {Plain(f, v)} PROVE r.field = f /\ r.value = v
BY DEF Plain, Record

LEMMA GlobalItemFields ==
    ASSUME NEW w, NEW r \in GlobalItems(w)
    PROVE  \/ r.field = "TX_VERSION" /\ r.value = w.txVersion
           \/ r.field = "FALLBACK_LOCKTIME" /\ r.value = w.fallback
           \/ r.field = "INPUT_COUNT" /\ r.value = Len(w.inputs)
           \/ r.field = "OUTPUT_COUNT" /\ r.value = Len(w.outputs)
           \/ r.field = "TX_MODIFIABLE" /\ r.value = w.mods
           \/ r.field = "VERSION" /\ r.value = 2
BY ItemFields, PairFields, SingleFields DEF GlobalItems

LEMMA GlobalIsMade ==
    ASSUME NEW w, w.mods \subseteq Flags
    PROVE  /\ GlobalMade(GlobalItems(w), Len(w.inputs), Len(w.outputs), 2,
                         w.txVersion, w.fallback, w.mods)
           /\ \A r \in GlobalItems(w) : GlobalRecord(r)
           /\ \A lax : FieldsAre("global", 2, GlobalItems(w), lax)
<1>. DEFINE X == GlobalItems(w)
            I == Len(w.inputs)
            O == Len(w.outputs)
<1>1. \A r \in X : GlobalRecord(r)
  BY GlobalItemFields DEF GlobalRecord
<1>2. /\ Plain("TX_VERSION", w.txVersion) \in X
      /\ w.fallback # None => Plain("FALLBACK_LOCKTIME", w.fallback) \in X
      /\ Plain("INPUT_COUNT", I) \in X /\ Plain("OUTPUT_COUNT", O) \in X
      /\ w.mods # {} => Plain("TX_MODIFIABLE", w.mods) \in X
      /\ Plain("VERSION", 2) \in X
  BY OneHas DEF GlobalItems
<1>3. \A r \in X : /\ r.field = "TX_VERSION" => r.value = w.txVersion
                   /\ r.field = "FALLBACK_LOCKTIME" => r.value = w.fallback
                   /\ r.field = "INPUT_COUNT" => r.value = I
                   /\ r.field = "OUTPUT_COUNT" => r.value = O
                   /\ r.field = "TX_MODIFIABLE" => r.value = w.mods
                   /\ r.field = "VERSION" => r.value = 2
                   /\ r.field # "UNSIGNED_TX"
  BY GlobalItemFields
<1>. HIDE DEF X, I, O
<1>4. GlobalMade(X, I, O, 2, w.txVersion, w.fallback, w.mods)
  BY <1>2, <1>3, HoldsItem DEF GlobalMade
<1>5. Plain("TX_VERSION", w.txVersion).field = "TX_VERSION"
      /\ Plain("INPUT_COUNT", I).field = "INPUT_COUNT"
      /\ Plain("OUTPUT_COUNT", O).field = "OUTPUT_COUNT"
  BY DEF Plain, Record
<1>6. Mandatory("global", 2) = {"TX_VERSION", "INPUT_COUNT", "OUTPUT_COUNT"}
      /\ Disallowed("global", 2) = {"UNSIGNED_TX"}
  BY DEF Mandatory, Disallowed
<1>7. {"TX_VERSION", "INPUT_COUNT", "OUTPUT_COUNT"} \subseteq Fields(X)
      /\ "UNSIGNED_TX" \notin Fields(X)
  BY <1>2, <1>3, <1>5 DEF Fields
<1>8. \A lax : FieldsAre("global", 2, X, lax)
  BY <1>6, <1>7 DEF FieldsAre
<1>. QED
  BY <1>1, <1>4, <1>8 DEF X, I, O

LEMMA ListsGlobal ==
    ASSUME NEW p, p.version = 2, p.tx = None
    PROVE  Lists(GlobalMap(p), GlobalItems(p))
<1>. DEFINE t == Unless("UNSIGNED_TX", p.tx, None)
            a == <<Plain("TX_VERSION", p.txVersion)>>
            b == Unless("FALLBACK_LOCKTIME", p.fallback, None)
            c == <<Plain("INPUT_COUNT", Len(p.inputs)), Plain("OUTPUT_COUNT", Len(p.outputs))>>
            d == Unless("TX_MODIFIABLE", p.mods, {})
            e == <<Plain("VERSION", 2)>>
            A == {Plain("TX_VERSION", p.txVersion)}
            B == One("FALLBACK_LOCKTIME", p.fallback, None)
            C == {Plain("INPUT_COUNT", Len(p.inputs)), Plain("OUTPUT_COUNT", Len(p.outputs))}
            D == One("TX_MODIFIABLE", p.mods, {})
            E == {Plain("VERSION", 2)}
<1>1. GlobalMap(p) = t \o (IF p.version = 0 THEN <<>> ELSE (((a \o b) \o c) \o d) \o e)
  BY Zenon DEF GlobalMap
<1>2. t = <<>>
  BY DEF Unless, When
<1>3. Lists(a, A) /\ Lists(b, B) /\ Lists(c, C) /\ Lists(d, D) /\ Lists(e, E)
  <2>1. Lists(a, A) /\ Lists(e, E)
    BY ListsOne
  <2>2. Lists(c, C)
    BY ListsPair
  <2>. QED
    BY <2>1, <2>2, ListsUnless
<1>4. /\ \A r \in A : r.field = "TX_VERSION"
      /\ \A r \in B : r.field = "FALLBACK_LOCKTIME"
      /\ \A r \in C : r.field \in {"INPUT_COUNT", "OUTPUT_COUNT"}
      /\ \A r \in D : r.field = "TX_MODIFIABLE"
      /\ \A r \in E : r.field = "VERSION"
  BY ItemFields, PairFields, SingleFields
<1>5. GlobalItems(p) = (((A \cup B) \cup C) \cup D) \cup E
  BY Zenon DEF GlobalItems
<1>. HIDE DEF t, a, b, c, d, e, A, B, C, D, E
<1>6. Lists(a \o b, A \cup B)
  BY <1>3, <1>4, ListsBoth
<1>7. Lists((a \o b) \o c, (A \cup B) \cup C)
  <2>1. \A x \in A \cup B, y \in C : x.field # y.field
    BY <1>4
  <2>. QED
    BY <1>3, <1>6, <2>1, ListsBoth
<1>8. Lists(((a \o b) \o c) \o d, ((A \cup B) \cup C) \cup D)
  <2>1. \A x \in (A \cup B) \cup C, y \in D : x.field # y.field
    BY <1>4
  <2>. QED
    BY <1>3, <1>7, <2>1, ListsBoth
<1>9. Lists((((a \o b) \o c) \o d) \o e, (((A \cup B) \cup C) \cup D) \cup E)
  <2>1. \A x \in ((A \cup B) \cup C) \cup D, y \in E : x.field # y.field
    BY <1>4
  <2>. QED
    BY <1>3, <1>8, <2>1, ListsBoth
<1>10. GlobalMap(p) = (((a \o b) \o c) \o d) \o e
  <2>. DEFINE all == (((a \o b) \o c) \o d) \o e
  <2>1. all \in Seq((((A \cup B) \cup C) \cup D) \cup E)
    BY <1>9 DEF Lists
  <2>2. GlobalMap(p) = <<>> \o all
    BY <1>1, <1>2
  <2>. HIDE DEF all
  <2>3. <<>> \o all = all
    BY <2>1
  <2>. QED
    BY <2>2, <2>3, Zenon DEF all
<1>. QED
  BY <1>5, <1>9, <1>10


\* s is g followed by the I maps ins and the O maps outs.
IsStreamOf(s, g, I, ins, O, outs) ==
    /\ I \in Nat /\ O \in Nat
    /\ ins = [n \in 1..I |-> ins[n]] /\ outs = [n \in 1..O |-> outs[n]]
    /\ s = <<g>> \o ins \o outs

LEMMA StreamParts ==
    ASSUME NEW g, NEW I, NEW O, NEW ins, NEW outs, NEW s,
           IsStreamOf(s, g, I, ins, O, outs)
    PROVE  /\ DOMAIN s = 1..(1 + I + O) /\ s[1] = g
           /\ \A n \in 1..I : s[n + 1] = ins[n]
           /\ \A n \in 1..O : s[I + n + 1] = outs[n]
<1>. DEFINE X == {g} \cup {ins[n] : n \in 1..I} \cup {outs[n] : n \in 1..O}
            t == <<g>> \o ins
<1>. USE DEF IsStreamOf
<1>1. ins \in [1..I -> X] /\ outs \in [1..O -> X] /\ <<g>> \in Seq(X)
  <2>1. \A n \in 1..I : ins[n] \in X
    OBVIOUS
  <2>2. \A n \in 1..O : outs[n] \in X
    OBVIOUS
  <2>3. <<g>> \in Seq(X)
    OBVIOUS
  <2>. HIDE DEF X
  <2>. QED
    BY <2>1, <2>2, <2>3, Zenon
<1>. HIDE DEF X
<1>2. ins \in Seq(X) /\ Len(ins) = I /\ outs \in Seq(X) /\ Len(outs) = O
  BY <1>1
<1>3. t \in Seq(X) /\ Len(t) = 1 + I /\ t[1] = g /\ \A n \in 1..I : t[n + 1] = ins[n]
  <2>1. Len(<<g>>) = 1 /\ <<g>>[1] = g
    OBVIOUS
  <2>2. /\ t \in Seq(X) /\ Len(t) = Len(<<g>>) + Len(ins)
        /\ \A n \in 1..(Len(<<g>>) + Len(ins)) :
              t[n] = IF n <= Len(<<g>>) THEN <<g>>[n] ELSE ins[n - Len(<<g>>)]
    BY <1>1, <1>2, ConcatProperties
  <2>3. /\ t \in Seq(X) /\ Len(t) = 1 + I
        /\ \A n \in 1..(1 + I) : t[n] = IF n <= 1 THEN <<g>>[n] ELSE ins[n - 1]
    BY <1>2, <2>1, <2>2
  <2>. HIDE DEF t
  <2>4. t[1] = g
    <3>1. 1 \in 1..(1 + I) /\ 1 <= 1
      OBVIOUS
    <3>2. t[1] = IF 1 <= 1 THEN <<g>>[1] ELSE ins[1 - 1]
      BY ONLY <2>3, <3>1
    <3>. QED
      BY ONLY <2>1, <3>1, <3>2
  <2>5. ASSUME NEW n \in 1..I PROVE t[n + 1] = ins[n]
    <3>1. n + 1 \in 1..(1 + I) /\ ~(n + 1 <= 1) /\ (n + 1) - 1 = n
      OBVIOUS
    <3>. QED
      BY <2>3, <3>1
  <2>. QED
    BY <2>3, <2>4, <2>5
<1>. HIDE DEF t
<1>4. s = t \o outs
  BY DEF t
<1>5. /\ s \in Seq(X) /\ Len(s) = 1 + I + O
      /\ \A n \in 1..(1 + I + O) : s[n] = IF n <= 1 + I THEN t[n] ELSE outs[n - (1 + I)]
  <2>1. /\ t \o outs \in Seq(X) /\ Len(t \o outs) = Len(t) + Len(outs)
        /\ \A n \in 1..(Len(t) + Len(outs)) :
              (t \o outs)[n] = IF n <= Len(t) THEN t[n] ELSE outs[n - Len(t)]
    BY <1>2, <1>3, ConcatProperties
  <2>. QED
    BY <1>2, <1>3, <1>4, <2>1
<1>6. DOMAIN s = 1..(1 + I + O)
  BY <1>5
<1>7. s[1] = g
  <2>1. 1 \in 1..(1 + I + O) /\ 1 <= 1 + I
    OBVIOUS
  <2>. QED
    BY <1>3, <1>5, <2>1
<1>8. ASSUME NEW n \in 1..I PROVE s[n + 1] = ins[n]
  <2>1. n + 1 \in 1..(1 + I + O) /\ n + 1 <= 1 + I
    OBVIOUS
  <2>. QED
    BY <1>3, <1>5, <2>1
<1>9. ASSUME NEW n \in 1..O PROVE s[I + n + 1] = outs[n]
  <2>1. I + n + 1 \in 1..(1 + I + O) /\ ~(I + n + 1 <= 1 + I) /\ (I + n + 1) - (1 + I) = n
    BY ONLY I \in Nat, O \in Nat, n \in 1..O
  <2>. DEFINE m == I + n + 1
  <2>2. m \in 1..(1 + I + O) /\ ~(m <= 1 + I) /\ m - (1 + I) = n
    BY <2>1
  <2>. HIDE DEF m
  <2>3. s[m] = outs[n]
    BY ONLY <1>5, <2>2
  <2>. QED
    BY <2>3 DEF m
<1>. QED
  BY <1>6, <1>7, <1>8, <1>9

LEMMA GlobalIsWritten ==
    ASSUME NEW p, Writable(p), IsValid(p), NEW redundant \in BOOLEAN,
           NEW w, w = WrittenPart(p, redundant),
           NEW lax \in BOOLEAN, lax \/ ~(p.version = 0 /\ p.tx = None)
    PROVE  GlobalMapFor(GlobalMap(p), w, lax)
<1>. DEFINE I == Len(p.inputs)
            O == Len(p.outputs)
<1>1. PsbtShape(p) /\ p.version \in {0, 2} /\ p.mods \subseteq Flags
      /\ (p.version = 2 => ~(p.txVersion < 2))
  BY DEF Writable
<1>2. I \in Nat /\ O \in Nat
  BY <1>1, PartlyAll
<1>3. /\ w.version = p.version /\ w.tx = p.tx
      /\ w.inputs = [n \in 1..I |-> WrittenInput(p, p.inputs[n], redundant)]
      /\ p.version = 2 => /\ w.txVersion = p.txVersion /\ w.fallback = p.fallback
                          /\ w.mods = p.mods /\ w.outputs = p.outputs
      /\ p.version = 0 => /\ w.txVersion = 2 /\ w.fallback = None /\ w.mods = {}
                          /\ w.outputs = [n \in 1..O |-> EmptyOutput]
  BY <1>1, WrittenFields
<1>4. Len(w.inputs) = I /\ Len(w.outputs) = O
  <2>1. DOMAIN w.inputs = 1..I
    <3>. HIDE DEF I
    <3>. QED
      BY <1>3
  <2>2. CASE p.version = 0
    <3>1. DOMAIN w.outputs = 1..O
      <4>. HIDE DEF I, O
      <4>. QED
        BY <1>3, <2>2
    <3>. HIDE DEF I, O
    <3>. QED
      BY <1>2, <2>1, <3>1, LengthIs
  <2>3. CASE p.version = 2
    <3>1. w.outputs = p.outputs
      BY <1>3, <2>3
    <3>2. Len(w.inputs) = I
      <4>. HIDE DEF I
      <4>. QED
        BY <1>2, <2>1, LengthIs
    <3>. QED
      BY <3>1, <3>2
  <2>. QED
    BY <1>1, <2>2, <2>3
<1>5. CASE p.version = 2
  <2>1. p.tx = None
    BY <1>5 DEF IsValid
  <2>2. Lists(GlobalMap(p), GlobalItems(p))
    BY <1>5, <2>1, ListsGlobal
  <2>3. /\ GlobalMade(GlobalItems(p), I, O, 2, p.txVersion, p.fallback, p.mods)
        /\ \A r \in GlobalItems(p) : GlobalRecord(r)
        /\ FieldsAre("global", 2, GlobalItems(p), lax)
    BY <1>1, GlobalIsMade
  <2>4. GlobalMapFor2(GlobalMap(p), w, lax)
    <3>1. /\ w.version = 2 /\ w.tx = None /\ ~(w.txVersion < 2)
          /\ w.txVersion = p.txVersion /\ w.fallback = p.fallback /\ w.mods = p.mods
      BY <1>1, <1>3, <1>5, <2>1
    <3>. HIDE DEF I, O
    <3>. QED
      BY <1>4, <2>2, <2>3, <3>1 DEF GlobalMapFor2
  <2>. QED
    BY <2>4 DEF GlobalMapFor
<1>6. CASE p.version = 0
  <2>1. GlobalMap(p) = Unless("UNSIGNED_TX", p.tx, None) \o <<>>
    BY <1>6 DEF GlobalMap
  <2>2. /\ w.version = 0 /\ w.tx = p.tx /\ w.txVersion = 2 /\ w.fallback = None
        /\ w.mods = {}
    BY <1>3, <1>6
  <2>3. CASE p.tx = None
    <3>1. GlobalMap(p) = <<>>
      <4>1. Unless("UNSIGNED_TX", p.tx, None) = <<>> /\ <<>> \o <<>> = <<>>
        BY <2>3 DEF Unless, When
      <4>. QED
        BY <2>1, <4>1
    <3>2. I = 0 /\ O = 0 /\ lax
      BY <1>6, <2>3 DEF IsValid
    <3>. QED
      BY <1>4, <2>2, <2>3, <3>1, <3>2 DEF GlobalMapFor, GlobalMapFor0
  <2>4. CASE p.tx # None
    <3>1. GlobalMap(p) = <<Plain("UNSIGNED_TX", p.tx)>>
      <4>. DEFINE r == Plain("UNSIGNED_TX", p.tx)
      <4>1. Unless("UNSIGNED_TX", p.tx, None) = <<r>>
        BY <2>4 DEF Unless, When
      <4>2. <<r>> \o <<>> = <<r>>
        <5>. HIDE DEF r
        <5>. QED
          OBVIOUS
      <4>. HIDE DEF r
      <4>3. GlobalMap(p) = <<r>>
        BY <2>1, <4>1, <4>2
      <4>. QED
        BY <4>3 DEF r
    <3>2. I = Len(p.tx.inputs) /\ O = Len(p.tx.outputs)
      BY <1>6, <2>4 DEF IsValid
    <3>. QED
      BY <1>4, <2>2, <2>4, <3>1, <3>2 DEF GlobalMapFor, GlobalMapFor0
  <2>. QED
    BY <2>3, <2>4
<1>. QED
  BY <1>1, <1>5, <1>6

LEMMA InputsAreWritten ==
    ASSUME IsFiniteSet(Keys), NEW p, Writable(p), NEW redundant \in BOOLEAN, NEW lax
    PROVE  \A n \in 1..Len(p.inputs) : \A w :
               w = WrittenInput(p, p.inputs[n], redundant)
                   => InputMapFor(InputMap(p, p.inputs[n], redundant), w, p.version, lax)
<1>1. p.version \in {0, 2}
  BY DEF Writable
<1>2. ASSUME NEW in, NEW w, InputShape(in), InputValues(in),
             w = WrittenInput(p, in, redundant)
      PROVE  InputMapFor(InputMap(p, in, redundant), w, p.version, lax)
  BY ONLY <1>1, InputIsWritten, IsFiniteSet(Keys), p.version \in {0, 2}, InputShape(in), InputValues(in), redundant \in BOOLEAN,
     w = WrittenInput(p, in, redundant)
<1>3. \A n \in 1..Len(p.inputs) : InputShape(p.inputs[n]) /\ InputValues(p.inputs[n])
  BY DEF Writable
<1>. QED
  BY ONLY <1>2, <1>3

LEMMA StreamIsWritten ==
    ASSUME IsFiniteSet(Keys), NEW p, Writable(p), IsValid(p), NEW redundant \in BOOLEAN,
           NEW w, w = WrittenPart(p, redundant),
           NEW lax \in BOOLEAN, lax \/ ~(p.version = 0 /\ p.tx = None)
    PROVE  StreamFor(Serialize(p, redundant), w, lax)
<1>. DEFINE I == Len(p.inputs)
            O == Len(p.outputs)
            ins == [n \in 1..I |-> InputMap(p, p.inputs[n], redundant)]
            outs == [n \in 1..O |-> OutputMap(p, p.outputs[n])]
            s == Serialize(p, redundant)
<1>1. PsbtShape(p) /\ p.version \in {0, 2}
  BY DEF Writable
<1>2. I \in Nat /\ O \in Nat
  BY <1>1, PartlyAll
<1>3. /\ PsbtShape(w) /\ w.version = p.version
      /\ w.inputs = [n \in 1..I |-> WrittenInput(p, p.inputs[n], redundant)]
      /\ p.version = 2 => w.outputs = p.outputs
      /\ p.version = 0 => w.outputs = [n \in 1..O |-> EmptyOutput]
  BY <1>1, WrittenFields
<1>4. /\ Len(w.inputs) = I /\ Len(w.outputs) = O
      /\ \A n \in 1..I : w.inputs[n] = WrittenInput(p, p.inputs[n], redundant)
      /\ \A n \in 1..O : w.outputs[n] = IF p.version = 0 THEN EmptyOutput ELSE p.outputs[n]
  <2>. DEFINE win == w.inputs
              wout == w.outputs
              pout == p.outputs
  <2>1. DOMAIN win = 1..I
    <3>. HIDE DEF I, win
    <3>. QED
      BY <1>3 DEF win
  <2>2. Len(win) = I
    <3>. HIDE DEF I, win
    <3>. QED
      BY <1>2, <2>1, LengthIs
  <2>3. \A n \in 1..I : win[n] = WrittenInput(p, p.inputs[n], redundant)
    <3>. HIDE DEF I, win
    <3>. QED
      BY <1>3 DEF win
  <2>4. Len(wout) = O
        /\ \A n \in 1..O : wout[n] = IF p.version = 0 THEN EmptyOutput ELSE pout[n]
    <3>1. CASE p.version = 0
      <4>1. DOMAIN wout = 1..O
            /\ \A n \in 1..O : wout[n] = IF p.version = 0 THEN EmptyOutput ELSE pout[n]
        <5>. HIDE DEF O, wout
        <5>. QED
          BY <1>3, <3>1 DEF wout
      <4>. HIDE DEF O, wout, pout
      <4>. QED
        BY <1>2, <4>1, LengthIs
    <3>2. CASE p.version = 2
      <4>1. wout = pout
        BY <1>3, <3>2
      <4>2. Len(pout) = O
        OBVIOUS
      <4>. HIDE DEF O, wout, pout
      <4>. QED
        BY <3>2, <4>1, <4>2
    <3>. QED
      BY <1>1, <3>1, <3>2
  <2>. QED
    BY <2>2, <2>3, <2>4
<1>5. s = <<GlobalMap(p)>> \o ins \o outs
  BY DEF Serialize
<1>6. ins = [n \in 1..I |-> ins[n]] /\ outs = [n \in 1..O |-> outs[n]]
  OBVIOUS
<1>7. GlobalMapFor(GlobalMap(p), w, lax)
  BY GlobalIsWritten
<1>8. ASSUME NEW n \in 1..I
      PROVE  InputMapFor(ins[n], w.inputs[n], w.version, lax)
  <2>0. IsFiniteSet(Keys) /\ Writable(p) /\ redundant \in BOOLEAN
    OBVIOUS
  <2>1. \A m \in 1..Len(p.inputs) : \A v :
            v = WrittenInput(p, p.inputs[m], redundant)
                => InputMapFor(InputMap(p, p.inputs[m], redundant), v, p.version, lax)
    BY ONLY <2>0, InputsAreWritten
  <2>. DEFINE win == w.inputs[n]
  <2>2. win = WrittenInput(p, p.inputs[n], redundant)
    BY <1>4
  <2>3. ins[n] = InputMap(p, p.inputs[n], redundant)
    OBVIOUS
  <2>. HIDE DEF win, ins
  <2>4. InputMapFor(InputMap(p, p.inputs[n], redundant), win, p.version, lax)
    BY <2>1, <2>2
  <2>. QED
    BY <1>3, <2>3, <2>4 DEF win
<1>9. ASSUME NEW n \in 1..O
      PROVE  OutputMapFor(outs[n], w.outputs[n], w.version)
  <2>. DEFINE out == p.outputs[n]
              wout == w.outputs[n]
  <2>1. out = [script |-> out.script, satoshi |-> out.satoshi]
        /\ wout = IF p.version = 0 THEN EmptyOutput ELSE out
    BY <1>4 DEF Writable
  <2>2. outs[n] = OutputMap(p, out)
    OBVIOUS
  <2>. HIDE DEF out, wout, outs
  <2>3. OutputMapFor(OutputMap(p, out), IF p.version = 0 THEN EmptyOutput ELSE out, p.version)
    BY <1>1, <2>1, OutputIsWritten
  <2>. QED
    BY <1>3, <2>1, <2>2, <2>3 DEF wout
<1>. DEFINE g == GlobalMap(p)
<1>. HIDE DEF s, ins, outs, I, O, g
<1>10. /\ DOMAIN s = 1..(1 + I + O) /\ s[1] = g
       /\ \A n \in 1..I : s[n + 1] = ins[n]
       /\ \A n \in 1..O : s[I + n + 1] = outs[n]
  <2>1. IsStreamOf(s, g, I, ins, O, outs)
    BY <1>2, <1>5, <1>6 DEF g, IsStreamOf
  <2>. QED
    BY ONLY <2>1, StreamParts
<1>11. StreamFor(s, w, lax)
  BY <1>3, <1>4, <1>7, <1>8, <1>9, <1>10 DEF StreamFor, g
<1>. QED
  BY <1>11 DEF s

(* What is written is read as its written part, and refused when a sighash *)
(* contradicts the signatures that are written with it.                    *)
LEMMA WrittenIsRead ==
    ASSUME NEW p, Writable(p), CanSerialize(p), NEW redundant \in BOOLEAN,
           NEW w, w = WrittenPart(p, redundant),
           NEW lax \in BOOLEAN, lax \/ ~(p.version = 0 /\ p.tx = None)
    PROVE  Parse(Serialize(p, redundant), lax, TRUE) = IF Consistent(w) THEN w ELSE None
<1>1. IsFiniteSet(Keys) /\ IsValid(p)
  BY KeysAssumption DEF CanSerialize
<1>2. StreamFor(Serialize(p, redundant), w, lax)
  BY <1>1, StreamIsWritten
<1>. QED
  BY ONLY <1>2, lax \in BOOLEAN, StreamIsRead

(* A PSBT that the setters can leave, written by wally_psbt_to_bytes with  *)
(* whichever flags allow it, is read by wally_psbt_from_bytes, strict or   *)
(* loose, as the part of it that is written.                               *)
THEOREM WrittenIsReadAgain ==
    ASSUME NEW p, Writable(p), NEW redundant \in BOOLEAN
    PROVE  RoundTrips(p, redundant)
<1>. DEFINE w == WrittenPart(p, redundant)
<1>1. ASSUME CanSerialize(p), Consistent(w),
             NEW lax \in {TRUE} \cup {p.version = 0 /\ p.tx = None}
      PROVE  Parse(Serialize(p, redundant), lax, TRUE) = w
  <2>1. w = WrittenPart(p, redundant)
    OBVIOUS
  <2>. HIDE DEF w
  <2>2. lax \in BOOLEAN /\ (lax \/ ~(p.version = 0 /\ p.tx = None))
    OBVIOUS
  <2>. QED
    BY <1>1, <2>1, <2>2, WrittenIsRead
<1>. QED
  BY <1>1 DEF RoundTrips

-----------------------------------------------------------------------------
(* A stream of signatures only, read by the loose reader.                  *)

OnlySigs(in) ==
    [txid |-> None, index |-> 0, sequence |-> FinalSequence, time |-> 0, height |-> 0,
     sighash |-> None, utxo |-> None, script |-> None, keypaths |-> {},
     sigs |-> in.sigs, final |-> None]
SigsPsbt(p) ==
    [version |-> 2, tx |-> None, txVersion |-> 2, fallback |-> None, mods |-> {},
     inputs |-> [n \in 1..Len(p.inputs) |-> OnlySigs(p.inputs[n])], outputs |-> <<>>]

LEMMA SigMapIsFor ==
    ASSUME IsFiniteSet(Keys), NEW in, in.sigs = [k \in Keys |-> in.sigs[k]]
    PROVE  InputMapFor(SigRecords(in), OnlySigs(in), 2, TRUE)
<1>. DEFINE w == OnlySigs(in)
            X == SigItems(in)
<1>1. InputShape(w) /\ NotPlaced(w) /\ InputValues(w) /\ w.sigs = in.sigs
      /\ w.utxo = None /\ w.sighash = None /\ w.script = None /\ w.final = None
      /\ w.keypaths = {}
  BY DEF OnlySigs, InputShape, NotPlaced, InputValues
<1>. HIDE DEF w
<1>2. InputItems(w, 0) = X
  <2>1. SigItems(w) = X
    BY <1>1 DEF SigItems, Signers
  <2>2. KeypathItems(w) = {}
    BY <1>1 DEF KeypathItems
  <2>3. /\ One("SIGHASH_TYPE", w.sighash, None) = {} /\ One("WITNESS_SCRIPT", w.script, None) = {}
        /\ One("WITNESS_UTXO", w.utxo, None) = {}
        /\ One("FINAL_SCRIPTWITNESS", w.final, None) = {}
    BY <1>1 DEF One
  <2>. HIDE DEF X
  <2>. QED
    BY <2>1, <2>2, <2>3 DEF InputItems, PartialItems
<1>3. InputMade(w, X)
  BY <1>1, <1>2, InputIsMade
<1>4. \A r \in X : InputRecord(r)
  BY <1>1, <1>2, InputItemsAreRecords
<1>5. Lists(SigRecords(in), X)
  BY ListsSigs
<1>6. FieldsAre("input", 2, X, TRUE)
  BY DEF FieldsAre
<1>. HIDE DEF X
<1>. QED
  BY <1>1, <1>3, <1>4, <1>5, <1>6 DEF InputMapFor, w

LEMMA SigGlobalsAreFor ==
    ASSUME NEW w, NEW I, Len(w.inputs) = I, Len(w.outputs) = 0,
           w.version = 2, w.tx = None, w.txVersion = 2, w.fallback = None, w.mods = {}
    PROVE  GlobalMapFor(<<Plain("VERSION", 2), Plain("INPUT_COUNT", I),
                          Plain("OUTPUT_COUNT", 0)>>, w, TRUE)
<1>. DEFINE a == Plain("VERSION", 2)
            b == Plain("INPUT_COUNT", I)
            c == Plain("OUTPUT_COUNT", 0)
            X == {a} \cup {b, c}
<1>1. /\ a.field = "VERSION" /\ a.value = 2 /\ b.field = "INPUT_COUNT" /\ b.value = I
      /\ c.field = "OUTPUT_COUNT" /\ c.value = 0
  BY DEF Plain, Record
<1>. HIDE DEF a, b, c
<1>3. Lists(<<a, b, c>>, X)
  <2>1. <<a, b, c>> \in Seq(X) /\ Range(<<a, b, c>>) = X /\ Len(<<a, b, c>>) = 3
    BY DEF Range
  <2>2. Apart(a, b) /\ Apart(a, c) /\ Apart(b, a) /\ Apart(b, c) /\ Apart(c, a)
        /\ Apart(c, b)
    BY <1>1 DEF Apart
  <2>3. ASSUME NEW m \in 1..3, NEW n \in 1..3, m # n
        PROVE  Apart(<<a, b, c>>[m], <<a, b, c>>[n])
    BY <2>2, <2>3
  <2>. HIDE DEF X
  <2>. QED
    BY <2>1, <2>3 DEF Lists
<1>4. \A r \in X : GlobalRecord(r)
  BY <1>1 DEF GlobalRecord
<1>5. GlobalMade(X, I, 0, 2, 2, None, {})
  <2>1. /\ \A r \in X : r.field = "VERSION" => r.value = 2
        /\ \A r \in X : r.field = "INPUT_COUNT" => r.value = I
        /\ \A r \in X : r.field = "OUTPUT_COUNT" => r.value = 0
        /\ \A r \in X : r.field \notin {"TX_VERSION", "FALLBACK_LOCKTIME", "TX_MODIFIABLE"}
    BY <1>1
  <2>2. a \in X /\ b \in X /\ c \in X
    OBVIOUS
  <2>. HIDE DEF X
  <2>. QED
    BY <1>1, <2>1, <2>2 DEF GlobalMade, Holds, Fields
<1>6. FieldsAre("global", 2, X, TRUE)
  BY DEF FieldsAre
<1>. HIDE DEF X
<1>7. GlobalMapFor2(<<a, b, c>>, w, TRUE)
  <2>1. ~(2 < 2)
    OBVIOUS
  <2>2. Lists(<<a, b, c>>, X) /\ (\A r \in X : GlobalRecord(r))
        /\ GlobalMade(X, Len(w.inputs), Len(w.outputs), 2, w.txVersion, w.fallback, w.mods)
        /\ FieldsAre("global", 2, X, TRUE)
    BY <1>3, <1>4, <1>5, <1>6
  <2>. QED
    BY <2>1, <2>2, Zenon DEF GlobalMapFor2
<1>. QED
  BY <1>7 DEF GlobalMapFor, a, b, c

(* Whatever it holds, of a PSBT that is sent as signatures only the        *)
(* receiver gets the signatures, each at its input, and nothing else.      *)
THEOREM SignaturesTravelAlone ==
    ASSUME NEW p, Len(p.inputs) \in Nat,
           \A n \in 1..Len(p.inputs) :
               p.inputs[n].sigs = [k \in Keys |-> p.inputs[n].sigs[k]]
    PROVE  SigsOnly(p) = SigsPsbt(p)
<1>. DEFINE I == Len(p.inputs)
            w == SigsPsbt(p)
            win == [n \in 1..I |-> OnlySigs(p.inputs[n])]
            s == SerializeSigs(p)
            g == <<Plain("VERSION", 2), Plain("INPUT_COUNT", I), Plain("OUTPUT_COUNT", 0)>>
            ins == [n \in 1..I |-> SigRecords(p.inputs[n])]
<1>1. /\ w.version = 2 /\ w.tx = None /\ w.txVersion = 2 /\ w.fallback = None
      /\ w.mods = {} /\ w.inputs = win /\ w.outputs = <<>>
      /\ w = [version |-> w.version, tx |-> w.tx, txVersion |-> w.txVersion,
              fallback |-> w.fallback, mods |-> w.mods, inputs |-> w.inputs,
              outputs |-> w.outputs]
  BY DEF SigsPsbt
<1>2. /\ win \in Seq(Range(win)) /\ Len(win) = I /\ DOMAIN win = 1..I
      /\ \A n \in 1..I : win[n] = OnlySigs(p.inputs[n])
  <2>1. win \in [1..I -> Range(win)]
    BY DEF Range
  <2>2. DOMAIN win = 1..I
    OBVIOUS
  <2>3. \A n \in 1..I : win[n] = OnlySigs(p.inputs[n])
    OBVIOUS
  <2>4. I \in Nat
    OBVIOUS
  <2>. HIDE DEF win, I
  <2>. QED
    BY <2>1, <2>2, <2>3, <2>4
<1>3. s = <<g>> \o ins
  BY DEF SerializeSigs
<1>4. /\ DOMAIN s = 1..(1 + I) /\ s[1] = g /\ \A n \in 1..I : s[n + 1] = ins[n]
  <2>. DEFINE outs == <<>>
  <2>1. ins = [n \in 1..I |-> ins[n]] /\ outs = [n \in 1..0 |-> outs[n]] /\ I \in Nat
    OBVIOUS
  <2>2. s \o outs = s
    <3>1. \E S : s \in Seq(S)
      <4>. DEFINE S == {g} \cup {ins[n] : n \in 1..I}
      <4>1. <<g>> \in Seq(S)
        OBVIOUS
      <4>2. ins \in [1..I -> S]
        <5>1. \A n \in 1..I : ins[n] \in S
          OBVIOUS
        <5>. HIDE DEF S
        <5>. QED
          BY <5>1
      <4>. HIDE DEF S, ins, g, I
      <4>3. ins \in Seq(S)
        BY <2>1, <4>2
      <4>. QED
        BY <1>3, <4>1, <4>3
    <3>. QED
      BY <3>1, ConcatEmptySeq
  <2>3. s = <<g>> \o ins \o outs
    BY <1>3, <2>2
  <2>. HIDE DEF s, g, ins, I, outs
  <2>4. IsStreamOf(s, g, I, ins, 0, outs)
    BY <2>1, <2>3 DEF IsStreamOf
  <2>5. /\ DOMAIN s = 1..(1 + I + 0) /\ s[1] = g
        /\ \A n \in 1..I : s[n + 1] = ins[n]
    BY ONLY <2>4, StreamParts
  <2>. QED
    BY <2>1, <2>5
<1>5. ASSUME NEW n \in 1..I PROVE InputMapFor(ins[n], win[n], 2, TRUE)
  BY SigMapIsFor, KeysAssumption
<1>6. GlobalMapFor(g, w, TRUE)
  <2>1. Len(w.inputs) = I /\ Len(w.outputs) = 0
    <3>. HIDE DEF w, win
    <3>. QED
      BY <1>1, <1>2
  <2>. HIDE DEF w, I
  <2>. QED
    BY <1>1, <2>1, SigGlobalsAreFor
<1>7. PsbtShape(w)
  <2>. HIDE DEF w, win, I
  <2>1. <<>> \in Seq(Range(<<>>))
    OBVIOUS
  <2>. QED
    BY <1>1, <1>2, <2>1, Zenon DEF PsbtShape
<1>8. Consistent(w)
  <2>1. \A n \in 1..I : win[n].sighash = None
    BY DEF OnlySigs
  <2>. HIDE DEF w, win, I
  <2>. QED
    BY <1>1, <1>2, <2>1 DEF Consistent, SighashOk
<1>9. StreamFor(s, w, TRUE)
  <2>. HIDE DEF w, win, I, s, g, ins
  <2>1. Len(w.inputs) = I /\ Len(w.outputs) = 0
    BY <1>1, <1>2
  <2>2. 1 + I + 0 = 1 + I /\ ~\E n \in 1..0 : TRUE
    BY DEF I
  <2>. QED
    BY <1>1, <1>4, <1>5, <1>6, <1>7, <2>1, <2>2, ZenonT(60) DEF StreamFor
<1>10. Parse(s, TRUE, TRUE) = w
  <2>1. TRUE \in BOOLEAN
    OBVIOUS
  <2>. HIDE DEF s, w
  <2>. QED
    BY <1>8, <1>9, <2>1, StreamIsRead
<1>. QED
  BY <1>10 DEF SigsOnly

-----------------------------------------------------------------------------
(* What a reader has made of the records of any stream.                    *)

OutputShape(out) == out = [script |-> out.script, satoshi |-> out.satoshi]

Readable(p) ==
    /\ PsbtShape(p) /\ p.version \in {0, 2} /\ p.mods \subseteq Flags
    /\ \A n \in 1..Len(p.inputs) : InputShape(p.inputs[n]) /\ InputValues(p.inputs[n])
    /\ \A n \in 1..Len(p.outputs) : OutputShape(p.outputs[n])

(* An input, an output of whose map the fields K were read.                *)
InputSoFar(in, K) ==
    /\ "PREVIOUS_TXID" \notin K => in.txid = None
    /\ "OUTPUT_INDEX" \notin K => in.index = 0
    /\ "SEQUENCE" \notin K => in.sequence = FinalSequence
    /\ "REQUIRED_TIME_LOCKTIME" \notin K => in.time = 0
    /\ "REQUIRED_HEIGHT_LOCKTIME" \notin K => in.height = 0

OutputSoFar(out, K) ==
    /\ "AMOUNT" \in K <=> out.satoshi # None
    /\ "SCRIPT" \notin K => out.script = None

SameBut(q, p) ==
    /\ q.version = p.version /\ q.tx = p.tx /\ q.txVersion = p.txVersion
    /\ q.fallback = p.fallback /\ q.mods = p.mods

LEMMA ReplacedParts ==
    ASSUME NEW f, f \in Seq(Range(f)), NEW i \in DOMAIN f, NEW x,
           NEW g, g = Replaced(f, i, x)
    PROVE  /\ g \in Seq(Range(g)) /\ Len(g) = Len(f) /\ DOMAIN f = 1..Len(f)
           /\ Len(f) \in Nat /\ g[i] = x
           /\ \A n \in 1..Len(f) : n # i => g[n] = f[n]
<1>1. Len(f) \in Nat /\ DOMAIN f = 1..Len(f) /\ DOMAIN g = 1..Len(f)
  BY DEF Replaced
<1>2. g = [n \in 1..Len(f) |-> g[n]]
  BY <1>1 DEF Replaced
<1>3. g \in Seq(Range(g)) /\ Len(g) = Len(f)
  <2>. DEFINE N == Len(f)
  <2>. HIDE DEF N
  <2>1. \A n \in 1..N : g[n] \in Range(g)
    BY <1>1 DEF Range, N
  <2>2. g \in [1..N -> Range(g)]
    BY <1>2, <2>1, Zenon DEF N
  <2>3. N \in Nat /\ DOMAIN g = 1..N
    BY <1>1 DEF N
  <2>4. g \in Seq(Range(g))
    BY ONLY <2>2, <2>3
  <2>5. Len(g) = N
    BY <2>3, LengthIs
  <2>. QED
    BY <2>4, <2>5 DEF N
<1>4. g[i] = x /\ \A n \in 1..Len(f) : n # i => g[n] = f[n]
  BY <1>1 DEF Replaced
<1>. QED
  BY <1>1, <1>3, <1>4

LEMMA WithInputParts ==
    ASSUME NEW p, PsbtShape(p), NEW i \in DOMAIN p.inputs, NEW x,
           NEW q, q = WithInput(p, i, x)
    PROVE  /\ PsbtShape(q) /\ SameBut(q, p) /\ q.outputs = p.outputs
           /\ Len(q.inputs) = Len(p.inputs) /\ q.inputs[i] = x
           /\ \A n \in 1..Len(p.inputs) : n # i => q.inputs[n] = p.inputs[n]
<1>. DEFINE f == p.inputs
            g == Replaced(f, i, x)
<1>1. /\ f \in Seq(Range(f)) /\ i \in DOMAIN f
      /\ p = Whole(p.version, p.tx, p.txVersion, p.fallback, p.mods, f, p.outputs)
      /\ p.outputs \in Seq(Range(p.outputs))
  BY DEF PsbtShape, Whole
<1>2. q = [p EXCEPT !.inputs = g]
  BY DEF WithInput, Replaced
<1>3. /\ g \in Seq(Range(g)) /\ Len(g) = Len(f) /\ g[i] = x
      /\ \A n \in 1..Len(f) : n # i => g[n] = f[n]
  <2>1. g = Replaced(f, i, x)
    OBVIOUS
  <2>. HIDE DEF f, g
  <2>. QED
    BY <1>1, <2>1, ReplacedParts
<1>. HIDE DEF g
<1>4. q = Whole(p.version, p.tx, p.txVersion, p.fallback, p.mods, g, p.outputs)
  BY <1>1, <1>2 DEF Whole
<1>5. SameBut(q, p) /\ q.inputs = g /\ q.outputs = p.outputs
      /\ q = Whole(q.version, q.tx, q.txVersion, q.fallback, q.mods, q.inputs, q.outputs)
  BY <1>4 DEF Whole, SameBut
<1>6. PsbtShape(q)
  BY <1>1, <1>3, <1>5 DEF PsbtShape, Whole
<1>. QED
  BY <1>3, <1>5, <1>6

LEMMA WithOutputParts ==
    ASSUME NEW p, PsbtShape(p), NEW i \in DOMAIN p.outputs, NEW x,
           NEW q, q = WithOutput(p, i, x)
    PROVE  /\ PsbtShape(q) /\ SameBut(q, p) /\ q.inputs = p.inputs
           /\ Len(q.outputs) = Len(p.outputs) /\ q.outputs[i] = x
           /\ \A n \in 1..Len(p.outputs) : n # i => q.outputs[n] = p.outputs[n]
<1>. DEFINE f == p.outputs
            g == Replaced(f, i, x)
<1>1. /\ f \in Seq(Range(f)) /\ i \in DOMAIN f
      /\ p = Whole(p.version, p.tx, p.txVersion, p.fallback, p.mods, p.inputs, f)
      /\ p.inputs \in Seq(Range(p.inputs))
  BY DEF PsbtShape, Whole
<1>2. q = [p EXCEPT !.outputs = g]
  BY DEF WithOutput, Replaced
<1>3. /\ g \in Seq(Range(g)) /\ Len(g) = Len(f) /\ g[i] = x
      /\ \A n \in 1..Len(f) : n # i => g[n] = f[n]
  <2>1. g = Replaced(f, i, x)
    OBVIOUS
  <2>. HIDE DEF f, g
  <2>. QED
    BY <1>1, <2>1, ReplacedParts
<1>. HIDE DEF g
<1>4. q = Whole(p.version, p.tx, p.txVersion, p.fallback, p.mods, p.inputs, g)
  BY <1>1, <1>2 DEF Whole
<1>5. SameBut(q, p) /\ q.outputs = g /\ q.inputs = p.inputs
      /\ q = Whole(q.version, q.tx, q.txVersion, q.fallback, q.mods, q.inputs, q.outputs)
  BY <1>4 DEF Whole, SameBut
<1>6. PsbtShape(q)
  BY <1>1, <1>3, <1>5 DEF PsbtShape, Whole
<1>. QED
  BY <1>3, <1>5, <1>6

(* A record keeps an input what it was.                                    *)
LEMMA InputRecordKeeps ==
    ASSUME NEW in, InputShape(in), InputValues(in), NEW K, InputSoFar(in, K),
           NEW r, InputRecord(r), r.field = "REQUIRED_TIME_LOCKTIME" => r.value # 0,
           NEW new, new = NewInput(in, r)
    PROVE  InputShape(new) /\ InputValues(new) /\ InputSoFar(new, K \cup {r.field})
<1>1. CASE r.field = "PREVIOUS_TXID"
  <2>1. new = [in EXCEPT !.txid = r.value]
    BY <1>1 DEF NewInput
  <2>2. InputShape(new) /\ new.txid = r.value
    BY <2>1 DEF InputShape
  <2>3. InputValues(new) /\ InputSoFar(new, K \cup {r.field})
    BY <1>1, <2>1, <2>2 DEF InputShape, InputValues, InputSoFar, InputRecord
  <2>. QED
    BY <2>2, <2>3
<1>2. CASE r.field = "OUTPUT_INDEX"
  <2>1. new = [in EXCEPT !.index = r.value]
    BY <1>2 DEF NewInput
  <2>2. InputShape(new) /\ new.index = r.value
    BY <2>1 DEF InputShape
  <2>3. InputValues(new) /\ InputSoFar(new, K \cup {r.field})
    BY <1>2, <2>1, <2>2 DEF InputShape, InputValues, InputSoFar, InputRecord
  <2>. QED
    BY <2>2, <2>3
<1>3. CASE r.field = "SEQUENCE"
  <2>1. new = [in EXCEPT !.sequence = r.value]
    BY <1>3 DEF NewInput
  <2>2. InputShape(new) /\ new.sequence = r.value
    BY <2>1 DEF InputShape
  <2>3. InputValues(new) /\ InputSoFar(new, K \cup {r.field})
    BY <1>3, <2>1, <2>2 DEF InputShape, InputValues, InputSoFar, InputRecord
  <2>. QED
    BY <2>2, <2>3
<1>4. CASE r.field = "REQUIRED_TIME_LOCKTIME"
  <2>1. new = [in EXCEPT !.time = r.value]
    BY <1>4 DEF NewInput
  <2>2. InputShape(new) /\ new.time = r.value
    BY <2>1 DEF InputShape
  <2>3. InputValues(new) /\ InputSoFar(new, K \cup {r.field})
    BY <1>4, <2>1, <2>2 DEF InputShape, InputValues, InputSoFar, InputRecord
  <2>. QED
    BY <2>2, <2>3
<1>5. CASE r.field = "REQUIRED_HEIGHT_LOCKTIME"
  <2>1. new = [in EXCEPT !.height = r.value]
    BY <1>5 DEF NewInput
  <2>2. InputShape(new) /\ new.height = r.value
    BY <2>1 DEF InputShape
  <2>3. InputValues(new) /\ InputSoFar(new, K \cup {r.field})
    BY <1>5, <2>1, <2>2 DEF InputShape, InputValues, InputSoFar, InputRecord
  <2>. QED
    BY <2>2, <2>3
<1>6. CASE r.field = "SIGHASH_TYPE"
  <2>1. new = [in EXCEPT !.sighash = r.value]
    BY <1>6 DEF NewInput
  <2>2. InputShape(new) /\ new.sighash = r.value
    BY <2>1 DEF InputShape
  <2>3. InputValues(new) /\ InputSoFar(new, K \cup {r.field})
    BY <1>6, <2>1, <2>2 DEF InputShape, InputValues, InputSoFar, InputRecord
  <2>. QED
    BY <2>2, <2>3
<1>7. CASE r.field = "WITNESS_UTXO"
  <2>1. new = [in EXCEPT !.utxo = r.value]
    BY <1>7 DEF NewInput
  <2>2. InputShape(new) /\ new.utxo = r.value
    BY <2>1 DEF InputShape
  <2>3. InputValues(new) /\ InputSoFar(new, K \cup {r.field})
    BY <1>7, <2>1, <2>2 DEF InputShape, InputValues, InputSoFar, InputRecord
  <2>. QED
    BY <2>2, <2>3
<1>8. CASE r.field = "WITNESS_SCRIPT"
  <2>1. new = [in EXCEPT !.script = r.value]
    BY <1>8 DEF NewInput
  <2>2. InputShape(new) /\ new.script = r.value
    BY <2>1 DEF InputShape
  <2>3. InputValues(new) /\ InputSoFar(new, K \cup {r.field})
    BY <1>8, <2>1, <2>2 DEF InputShape, InputValues, InputSoFar, InputRecord
  <2>. QED
    BY <2>2, <2>3
<1>9. CASE r.field = "FINAL_SCRIPTWITNESS"
  <2>1. new = [in EXCEPT !.final = r.value]
    BY <1>9 DEF NewInput
  <2>2. InputShape(new) /\ new.final = r.value
    BY <2>1 DEF InputShape
  <2>3. InputValues(new) /\ InputSoFar(new, K \cup {r.field})
    BY <1>9, <2>1, <2>2 DEF InputShape, InputValues, InputSoFar, InputRecord
  <2>. QED
    BY <2>2, <2>3
<1>10. CASE r.field = "PARTIAL_SIG"
  <2>1. new = [in EXCEPT !.sigs = [in.sigs EXCEPT ![r.key] = r.value]]
    BY <1>10 DEF NewInput
  <2>2. r.key \in Keys
    BY <1>10 DEF InputRecord, HaveKeydata
  <2>3. new.sigs = [k \in Keys |-> IF k = r.key THEN r.value ELSE in.sigs[k]]
    BY <2>1, <2>2 DEF InputShape
  <2>4. InputShape(new)
    BY <2>1, <2>3 DEF InputShape
  <2>5. InputValues(new) /\ InputSoFar(new, K \cup {r.field})
    BY <1>10, <2>1 DEF InputShape, InputValues, InputSoFar
  <2>. QED
    BY <2>4, <2>5
<1>11. CASE r.field = "BIP32_DERIVATION"
  <2>1. new = [in EXCEPT !.keypaths = in.keypaths \cup {r.key}]
    BY <1>11 DEF NewInput
  <2>2. InputShape(new) /\ new.keypaths = in.keypaths \cup {r.key}
    BY <2>1 DEF InputShape
  <2>3. r.key \in Keys
    BY <1>11 DEF InputRecord, HaveKeydata
  <2>4. InputValues(new) /\ InputSoFar(new, K \cup {r.field})
    BY <1>11, <2>1, <2>2, <2>3 DEF InputShape, InputValues, InputSoFar
  <2>. QED
    BY <2>2, <2>4
<1>. QED
  BY <1>1, <1>2, <1>3, <1>4, <1>5, <1>6, <1>7, <1>8, <1>9, <1>10, <1>11 DEF InputRecord, PlainInputFields, HaveKeydata

-----------------------------------------------------------------------------
(* An output with a record taken into it.                                  *)

NewOutput(out, r) ==
    IF r.field = "AMOUNT" THEN [out EXCEPT !.satoshi = r.value]
    ELSE [out EXCEPT !.script = r.value]

LEMMA OutputRecordKeeps ==
    ASSUME NEW out, OutputShape(out), NEW K, OutputSoFar(out, K),
           NEW r, r.field \in {"AMOUNT", "SCRIPT"}, r.field = "AMOUNT" => r.value # None,
           NEW new, new = NewOutput(out, r)
    PROVE  OutputShape(new) /\ OutputSoFar(new, K \cup {r.field})
<1>1. CASE r.field = "AMOUNT"
  <2>1. new = [out EXCEPT !.satoshi = r.value]
    BY <1>1 DEF NewOutput
  <2>2. OutputShape(new) /\ new.satoshi = r.value /\ new.script = out.script
    BY <2>1 DEF OutputShape
  <2>. QED
    BY <1>1, <2>2 DEF OutputSoFar
<1>2. CASE r.field = "SCRIPT"
  <2>1. new = [out EXCEPT !.script = r.value]
    BY <1>2 DEF NewOutput
  <2>2. OutputShape(new) /\ new.script = r.value /\ new.satoshi = out.satoshi
    BY <2>1 DEF OutputShape
  <2>. QED
    BY <1>2, <2>2 DEF OutputSoFar
<1>. QED
  BY <1>1, <1>2

-----------------------------------------------------------------------------
(* The globals, so far.                                                    *)

GlobalSoFar(p, K) ==
    /\ Readable(p)
    /\ "TX_VERSION" \notin K => p.txVersion = 2
    /\ "FALLBACK_LOCKTIME" \notin K => p.fallback = None
    /\ "TX_MODIFIABLE" \notin K => p.mods = {}
    /\ "UNSIGNED_TX" \in K <=> p.tx # None
    /\ Len(p.inputs) = IF p.tx = None THEN 0 ELSE Len(p.tx.inputs)
    /\ Len(p.outputs) = IF p.tx = None THEN 0 ELSE Len(p.tx.outputs)
    /\ \A n \in 1..Len(p.inputs) : p.inputs[n] = EmptyInput
    /\ \A n \in 1..Len(p.outputs) : p.outputs[n] = EmptyOutput

InGlobals(s) ==
    \E K, ic, oc, p :
        /\ s = Reader("global", 1, K, ic, oc, p)
        /\ ic \in Nat /\ oc \in Nat /\ GlobalSoFar(p, K)

AnyGlobal(r) ==
    /\ r.field \in {"UNSIGNED_TX", "VERSION", "TX_VERSION", "FALLBACK_LOCKTIME",
                    "INPUT_COUNT", "OUTPUT_COUNT", "TX_MODIFIABLE"}
    /\ r.field = "UNSIGNED_TX" =>
          r.value # None /\ Len(r.value.inputs) \in Nat /\ Len(r.value.outputs) \in Nat
    /\ r.field \in {"INPUT_COUNT", "OUTPUT_COUNT"} => r.value \in Nat

LEMMA EmptyPartsAre ==
    /\ InputShape(EmptyInput) /\ InputValues(EmptyInput) /\ InputSoFar(BlankInput, {})
    /\ InputShape(BlankInput) /\ InputValues(BlankInput)
    /\ OutputShape(EmptyOutput) /\ OutputSoFar(EmptyOutput, {})
<1>1. InputShape(EmptyInput) /\ InputValues(EmptyInput)
  BY DEF InputShape, InputValues, EmptyInput, NoSigs
<1>2. InputShape(BlankInput) /\ InputValues(BlankInput) /\ InputSoFar(BlankInput, {})
  BY <1>1 DEF InputShape, InputValues, BlankInput, InputSoFar, EmptyInput
<1>3. OutputShape(EmptyOutput) /\ OutputSoFar(EmptyOutput, {})
  BY DEF OutputShape, OutputSoFar, EmptyOutput
<1>. QED
  BY <1>1, <1>2, <1>3

(* A sequence of one thing.                                                *)
LEMMA AllOne ==
    ASSUME NEW N \in Nat, NEW x, NEW f, f = [n \in 1..N |-> x]
    PROVE  f \in Seq(Range(f)) /\ Len(f) = N /\ \A n \in 1..N : f[n] = x
<1>1. DOMAIN f = 1..N /\ \A n \in 1..N : f[n] = x
  OBVIOUS
<1>2. \A n \in 1..N : f[n] \in Range(f)
  BY <1>1 DEF Range
<1>3. f = [n \in 1..N |-> f[n]]
  BY <1>1
<1>4. f \in [1..N -> Range(f)]
  BY <1>2, <1>3, Zenon
<1>5. N \in Nat
  OBVIOUS
<1>6. f \in Seq(Range(f))
  BY ONLY <1>4, <1>5
<1>. QED
  BY ONLY <1>1, <1>5, <1>6, LengthIs

LEMMA GlobalFieldKeeps ==
    ASSUME NEW p, NEW K, GlobalSoFar(p, K), NEW v, NEW q,
           NEW f \in {"VERSION", "TX_VERSION", "FALLBACK_LOCKTIME", "TX_MODIFIABLE"},
           f = "VERSION" => v \in {0, 2}, f = "TX_MODIFIABLE" => v \subseteq Flags,
           q = Whole(IF f = "VERSION" THEN v ELSE p.version, p.tx,
                     IF f = "TX_VERSION" THEN v ELSE p.txVersion,
                     IF f = "FALLBACK_LOCKTIME" THEN v ELSE p.fallback,
                     IF f = "TX_MODIFIABLE" THEN v ELSE p.mods, p.inputs, p.outputs)
    PROVE  GlobalSoFar(q, K \cup {f})
<1>1. /\ q.version = IF f = "VERSION" THEN v ELSE p.version
      /\ q.tx = p.tx /\ q.inputs = p.inputs /\ q.outputs = p.outputs
      /\ q.txVersion = IF f = "TX_VERSION" THEN v ELSE p.txVersion
      /\ q.fallback = IF f = "FALLBACK_LOCKTIME" THEN v ELSE p.fallback
      /\ q.mods = IF f = "TX_MODIFIABLE" THEN v ELSE p.mods
      /\ q = Whole(q.version, q.tx, q.txVersion, q.fallback, q.mods, q.inputs, q.outputs)
  BY DEF Whole
<1>2. PsbtShape(q)
  BY <1>1 DEF GlobalSoFar, Readable, PsbtShape, Whole
<1>3. Readable(q)
  BY <1>1, <1>2 DEF GlobalSoFar, Readable
<1>. QED
  BY <1>1, <1>3, ZenonT(60) DEF GlobalSoFar

LEMMA TransactionKeeps ==
    ASSUME NEW p, NEW K, GlobalSoFar(p, K), NEW v, v # None,
           Len(v.inputs) \in Nat, Len(v.outputs) \in Nat
    PROVE  GlobalSoFar(SetGlobalTx(p, v), K \cup {"UNSIGNED_TX"})
<1>. DEFINE ins == [n \in 1..Len(v.inputs) |-> EmptyInput]
            outs == [n \in 1..Len(v.outputs) |-> EmptyOutput]
            q == Whole(p.version, v, p.txVersion, p.fallback, p.mods, ins, outs)
<1>1. /\ ins \in Seq(Range(ins)) /\ Len(ins) = Len(v.inputs)
      /\ \A n \in 1..Len(v.inputs) : ins[n] = EmptyInput
      /\ outs \in Seq(Range(outs)) /\ Len(outs) = Len(v.outputs)
      /\ \A n \in 1..Len(v.outputs) : outs[n] = EmptyOutput
  <2>. DEFINE I == Len(v.inputs)
              O == Len(v.outputs)
  <2>1. I \in Nat /\ O \in Nat
    OBVIOUS
  <2>2. ins = [n \in 1..I |-> EmptyInput] /\ outs = [n \in 1..O |-> EmptyOutput]
    OBVIOUS
  <2>. HIDE DEF I, O, ins, outs
  <2>3. ins \in Seq(Range(ins)) /\ Len(ins) = I /\ \A n \in 1..I : ins[n] = EmptyInput
    BY ONLY <2>1, <2>2, AllOne, ZenonT(60)
  <2>4. outs \in Seq(Range(outs)) /\ Len(outs) = O /\ \A n \in 1..O : outs[n] = EmptyOutput
    BY ONLY <2>1, <2>2, AllOne, ZenonT(60)
  <2>. QED
    BY <2>3, <2>4 DEF I, O
<1>. HIDE DEF ins, outs
<1>2. p = Whole(p.version, p.tx, p.txVersion, p.fallback, p.mods, p.inputs, p.outputs)
  BY DEF GlobalSoFar, Readable, PsbtShape, Whole
<1>3. SetGlobalTx(p, v) = q
  <2>1. SetGlobalTx(p, v) = [p EXCEPT !.tx = v, !.inputs = ins, !.outputs = outs]
    BY DEF SetGlobalTx, ins, outs
  <2>. QED
    BY <1>2, <2>1 DEF Whole
<1>4. /\ q.version = p.version /\ q.tx = v /\ q.txVersion = p.txVersion
      /\ q.fallback = p.fallback /\ q.mods = p.mods /\ q.inputs = ins /\ q.outputs = outs
      /\ q = Whole(q.version, q.tx, q.txVersion, q.fallback, q.mods, q.inputs, q.outputs)
  BY DEF Whole
<1>. HIDE DEF q
<1>5. PsbtShape(q)
  BY <1>1, <1>4 DEF PsbtShape, Whole
<1>6. Readable(q)
  BY <1>1, <1>4, <1>5, EmptyPartsAre DEF GlobalSoFar, Readable
<1>7. GlobalSoFar(q, K \cup {"UNSIGNED_TX"})
  BY <1>1, <1>4, <1>6 DEF GlobalSoFar
<1>. QED
  BY <1>3, <1>7

-----------------------------------------------------------------------------
(* The inputs and the outputs, so far.                                     *)

DoneInput(in, version) == SighashOk(in) /\ (version = 0 => NotPlaced(in))
DoneOutput(out, version) ==
    IF version = 0 THEN out = EmptyOutput ELSE out.satoshi # None

GlobalsDone(p, lax) ==
    /\ p.version = 2 => ~(p.txVersion < 2)
    /\ \/ lax
       \/ /\ IsValid(p)
          /\ p.version = 0 => p.txVersion = 2 /\ p.fallback = None /\ p.mods = {}

InputsSoFar(p, at, K, lax) ==
    /\ Readable(p) /\ GlobalsDone(p, lax) /\ at \in 1..Len(p.inputs)
    /\ \A n \in 1..Len(p.inputs) : n < at => lax \/ DoneInput(p.inputs[n], p.version)
    /\ InputSoFar(p.inputs[at], K)
    /\ \A n \in 1..Len(p.inputs) : at < n => p.inputs[n] \in {EmptyInput, BlankInput}
    /\ \A n \in 1..Len(p.outputs) : p.outputs[n] = EmptyOutput

OutputsSoFar(p, at, K, lax) ==
    /\ Readable(p) /\ GlobalsDone(p, lax) /\ at \in 1..Len(p.outputs)
    /\ \A n \in 1..Len(p.inputs) : lax \/ DoneInput(p.inputs[n], p.version)
    /\ \A n \in 1..Len(p.outputs) : n < at => lax \/ DoneOutput(p.outputs[n], p.version)
    /\ OutputSoFar(p.outputs[at], K)
    /\ \A n \in 1..Len(p.outputs) : at < n => p.outputs[n] = EmptyOutput

WholeRead(p, lax) ==
    /\ Readable(p) /\ GlobalsDone(p, lax)
    /\ \A n \in 1..Len(p.inputs) : lax \/ DoneInput(p.inputs[n], p.version)
    /\ \A n \in 1..Len(p.outputs) : lax \/ DoneOutput(p.outputs[n], p.version)

InInputs(s, lax) ==
    \E at, K, ic, oc, p : s = Reader("input", at, K, ic, oc, p) /\ InputsSoFar(p, at, K, lax)
InOutputs(s, lax) ==
    \E at, K, ic, oc, p : s = Reader("output", at, K, ic, oc, p) /\ OutputsSoFar(p, at, K, lax)
AtEnd(s, lax) == s.section = "end" /\ WholeRead(s.psbt, lax)

InBody(s, lax) == InInputs(s, lax) \/ InOutputs(s, lax) \/ AtEnd(s, lax)

LEMMA ShapeParts ==
    ASSUME NEW p, PsbtShape(p)
    PROVE  /\ Len(p.inputs) \in Nat /\ DOMAIN p.inputs = 1..Len(p.inputs)
           /\ Len(p.outputs) \in Nat /\ DOMAIN p.outputs = 1..Len(p.outputs)
BY DEF PsbtShape

LEMMA OutputsAreEntered ==
    ASSUME NEW section, NEW at, NEW K, NEW ic, NEW oc, NEW p, NEW lax \in BOOLEAN,
           Readable(p), GlobalsDone(p, lax),
           \A n \in 1..Len(p.inputs) : lax \/ DoneInput(p.inputs[n], p.version),
           NEW k \in Nat, k <= Len(p.outputs),
           \A n \in 1..Len(p.outputs) :
               n <= k => lax \/ DoneOutput(p.outputs[n], p.version),
           \A n \in 1..Len(p.outputs) : k < n => p.outputs[n] = EmptyOutput,
           NEW ins, ins = Len(p.inputs)
    PROVE  InBody(Enter(Reader(section, at, K, ic, oc, p), ins, k), lax)
<1>. DEFINE O == Len(p.outputs)
            t == Enter(Reader(section, at, K, ic, oc, p), ins, k)
<1>1. ins \in Nat /\ O \in Nat
  BY ShapeParts DEF Readable
<1>2. t = IF k < O THEN Reader("output", k + 1, {}, ic, oc, p)
          ELSE Reader("end", 1, {}, ic, oc, p)
  BY <1>1, EntersOutput
<1>. HIDE DEF t
<1>3. CASE k < O
  <2>. DEFINE j == k + 1
  <2>1. j \in 1..O
    BY <1>1, <1>3
  <2>2. \A n \in 1..O : (n < j <=> n <= k) /\ (j < n => k < n) /\ k < j
    BY <1>1
  <2>3. t = Reader("output", j, {}, ic, oc, p)
    BY <1>2, <1>3
  <2>. HIDE DEF j
  <2>4. OutputSoFar(p.outputs[j], {})
    BY <2>1, <2>2, EmptyPartsAre
  <2>5. OutputsSoFar(p, j, {}, lax)
    BY <2>1, <2>2, <2>4 DEF OutputsSoFar
  <2>. QED
    <3>1. InOutputs(t, lax)
      BY <2>3, <2>5 DEF InOutputs
    <3>. QED
      BY <3>1 DEF InBody, t
<1>4. CASE ~(k < O)
  <2>. DEFINE e == Reader("end", 1, {}, ic, oc, p)
  <2>1. t = e /\ e.section = "end" /\ e.psbt = p
    <3>1. e = Reader("end", 1, {}, ic, oc, p)
      OBVIOUS
    <3>2. t = e
      BY <1>2, <1>4
    <3>. HIDE DEF e
    <3>. QED
      BY <3>1, <3>2, ReaderParts
  <2>2. \A n \in 1..O : n <= k
    BY <1>1, <1>4
  <2>3. WholeRead(p, lax)
    BY <2>2 DEF WholeRead
  <2>. QED
    <3>1. AtEnd(t, lax)
      BY <2>1, <2>3 DEF AtEnd
    <3>. QED
      BY <3>1 DEF InBody, t
<1>. QED
  BY <1>3, <1>4 DEF t

LEMMA InputsAreEntered ==
    ASSUME NEW section, NEW at, NEW K, NEW ic, NEW oc, NEW p, NEW lax \in BOOLEAN,
           Readable(p), GlobalsDone(p, lax),
           NEW k \in Nat, k <= Len(p.inputs),
           \A n \in 1..Len(p.inputs) :
               n <= k => lax \/ DoneInput(p.inputs[n], p.version),
           \A n \in 1..Len(p.inputs) : k < n => p.inputs[n] \in {EmptyInput, BlankInput},
           \A n \in 1..Len(p.outputs) : p.outputs[n] = EmptyOutput
    PROVE  InBody(Enter(Reader(section, at, K, ic, oc, p), k, 0), lax)
<1>. DEFINE I == Len(p.inputs)
            t == Enter(Reader(section, at, K, ic, oc, p), k, 0)
<1>1. I \in Nat /\ DOMAIN p.inputs = 1..I /\ Len(p.outputs) \in Nat /\ PsbtShape(p)
  BY ShapeParts DEF Readable
<1>2. CASE k < I
  <2>. DEFINE j == k + 1
              q == WithInput(p, j, BlankInput)
  <2>1. j \in 1..I /\ k < j
    BY <1>1, <1>2
  <2>2. [p.inputs[j] EXCEPT !.sequence = FinalSequence] = BlankInput
    <3>1. p.inputs[j] = EmptyInput \/ p.inputs[j] = BlankInput
      BY <2>1
    <3>2. [BlankInput EXCEPT !.sequence = FinalSequence] = BlankInput
      BY DEF BlankInput, EmptyInput
    <3>3. [EmptyInput EXCEPT !.sequence = FinalSequence] = BlankInput
      BY DEF BlankInput
    <3>. HIDE DEF j
    <3>. QED
      BY <3>1, <3>2, <3>3
  <2>3. t = Reader("input", j, {}, ic, oc, q)
    <3>1. t = Reader("input", k + 1, {}, ic, oc,
                     WithInput(p, k + 1, [p.inputs[k + 1] EXCEPT !.sequence = FinalSequence]))
      BY <1>2, EntersInput
    <3>. QED
      BY <2>2, <3>1
  <2>. HIDE DEF t
  <2>4. \A n \in 1..I : (n < j <=> n <= k) /\ (j < n => k < n) /\ ~(j < j)
                        /\ (n # j => n < j \/ j < n)
    BY <1>1
  <2>. DEFINE qin == q.inputs
              pin == p.inputs
  <2>5. /\ PsbtShape(q) /\ SameBut(q, p) /\ q.outputs = p.outputs
        /\ Len(qin) = I /\ qin[j] = BlankInput
        /\ \A n \in 1..I : n # j => qin[n] = pin[n]
    <3>1. q = WithInput(p, j, BlankInput) /\ j \in DOMAIN p.inputs /\ PsbtShape(p)
      BY <1>1, <2>1
    <3>. HIDE DEF q, j
    <3>2. /\ PsbtShape(q) /\ SameBut(q, p) /\ q.outputs = p.outputs
          /\ Len(q.inputs) = Len(p.inputs) /\ q.inputs[j] = BlankInput
          /\ \A n \in 1..Len(p.inputs) : n # j => q.inputs[n] = p.inputs[n]
      BY ONLY <3>1, WithInputParts
    <3>. QED
      BY <3>2
  <2>. HIDE DEF q, j
  <2>6. Readable(q)
    BY <1>1, <2>5, EmptyPartsAre DEF Readable, SameBut
  <2>7. GlobalsDone(q, lax)
    <3>1. IsValid(p) => IsValid(q)
      BY <2>5 DEF SameBut, IsValid
    <3>. QED
      BY <2>5, <3>1 DEF SameBut, GlobalsDone
  <2>8. /\ \A n \in 1..I : n < j => (lax \/ DoneInput(qin[n], q.version))
        /\ \A n \in 1..I : j < n => qin[n] \in {EmptyInput, BlankInput}
    <3>1. q.version = p.version
      BY <2>5 DEF SameBut
    <3>2. ASSUME NEW n \in 1..I, n < j PROVE lax \/ DoneInput(qin[n], q.version)
      <4>1. n <= k /\ n # j
        BY <2>4, <3>2
      <4>2. lax \/ DoneInput(pin[n], p.version)
        BY <4>1
      <4>3. qin[n] = pin[n]
        BY <2>5, <4>1
      <4>. HIDE DEF qin, pin
      <4>. QED
        BY <3>1, <4>2, <4>3
    <3>3. ASSUME NEW n \in 1..I, j < n PROVE qin[n] \in {EmptyInput, BlankInput}
      <4>1. k < n /\ n # j
        BY <2>4, <3>3
      <4>2. pin[n] \in {EmptyInput, BlankInput}
        BY <4>1
      <4>3. qin[n] = pin[n]
        BY <2>5, <4>1
      <4>. HIDE DEF qin, pin
      <4>. QED
        BY <4>2, <4>3
    <3>. QED
      BY <3>2, <3>3
  <2>9. InputsSoFar(q, j, {}, lax)
    BY <2>1, <2>5, <2>6, <2>7, <2>8, EmptyPartsAre DEF InputsSoFar
  <2>10. InInputs(t, lax)
    BY <2>3, <2>9 DEF InInputs
  <2>. QED
    BY <2>10 DEF InBody, t
<1>3. CASE ~(k < I)
  <2>1. k = I
    BY <1>1, <1>3
  <2>2. \A n \in 1..I : n <= k
    BY <1>1, <2>1
  <2>3. \A n \in 1..I : lax \/ DoneInput(p.inputs[n], p.version)
    BY <2>2
  <2>4. 0 \in Nat /\ 0 <= Len(p.outputs) /\ \A n \in 1..Len(p.outputs) : ~(n <= 0)
    BY <1>1
  <2>. QED
    BY <2>1, <2>3, <2>4, OutputsAreEntered
<1>. QED
  BY <1>2, <1>3

-----------------------------------------------------------------------------
(* What a reader makes of one record: it is refused, or it is taken into   *)
(* the input, the output or the globals whose map is read.                 *)

AnyInput(r) ==
    /\ r.field \in PlainInputFields \cup HaveKeydata
    /\ r.field \in HaveKeydata => r.key \in Keys
AnyOutput(r) ==
    /\ r.field \in {"AMOUNT", "SCRIPT"} /\ (r.field = "AMOUNT" => r.value # None)

InputTaken(in, K, r) ==
    /\ r.field \notin K \ HaveKeydata /\ InputRecord(r)
    /\ r.field = "PARTIAL_SIG" => in.sigs[r.key] = None
    /\ r.field = "BIP32_DERIVATION" => r.key \notin in.keypaths

(* t is what a reader, in the map of input i of p, makes of the record r.  *)
PutIntoInput(p, i, ic, oc, K, in, r, new, L, q, t) ==
    /\ PsbtShape(p) /\ i \in DOMAIN p.inputs /\ in = p.inputs[i] /\ AnyInput(r)
    /\ new = NewInput(in, r) /\ L = K \cup {r.field} /\ q = WithInput(p, i, new)
    /\ t = ReadRecord(Reader("input", i, K, ic, oc, p), r)

LEMMA InputIsTaken ==
    ASSUME NEW p, NEW i, NEW ic, NEW oc, NEW K, NEW in, NEW r, NEW new, NEW L, NEW q, NEW t,
           PutIntoInput(p, i, ic, oc, K, in, r, new, L, q, t)
    PROVE  /\ InputTaken(in, K, r) => t = Reader("input", i, L, ic, oc, q)
           /\ ~InputTaken(in, K, r) => t = Refused
<1>. DEFINE s == Reader("input", i, K, ic, oc, p)
            u == Reader("input", i, L, ic, oc, p)
<1>0. /\ PsbtShape(p) /\ i \in DOMAIN p.inputs /\ in = p.inputs[i]
      /\ r.field \in PlainInputFields \cup HaveKeydata
      /\ r.field \in HaveKeydata => r.key \in Keys
      /\ new = NewInput(in, r) /\ L = K \cup {r.field} /\ q = WithInput(p, i, new)
      /\ t = ReadRecord(s, r)
  BY DEF PutIntoInput, AnyInput
<1>1. /\ s.section = "input" /\ s.keyset = K /\ WithKeyset(s, L) = u
      /\ u.psbt = p /\ u.at = i /\ WithPsbt(u, q) = Reader("input", i, L, ic, oc, q)
  <2>1. s = Reader("input", i, K, ic, oc, p) /\ u = Reader("input", i, L, ic, oc, p)
    OBVIOUS
  <2>. HIDE DEF s, u
  <2>. QED
    BY <2>1, ReaderParts
<1>2. IF r.field \in K \ HaveKeydata THEN t = Refused ELSE t = ReadInput(u, r)
  <2>1. t = ReadRecord(s, r) /\ L = K \cup {r.field}
    BY <1>0
  <2>. HIDE DEF s, u
  <2>2. IF r.field \in K \ HaveKeydata THEN t = Refused
        ELSE t = ReadInput(WithKeyset(s, s.keyset \cup {r.field}), r)
    BY <1>1, <2>1 DEF ReadRecord, WithKeyset
  <2>. QED
    BY ONLY <1>1, <2>1, <2>2
<1>3. [u EXCEPT !.psbt.inputs[i] = new] = WithPsbt(u, q)
  <2>. HIDE DEF u
  <2>. QED
    BY <1>0, <1>1 DEF WithPsbt, WithInput
<1>4. IF /\ InputRecord(r)
         /\ r.field = "PARTIAL_SIG" => in.sigs[r.key] = None
         /\ r.field = "BIP32_DERIVATION" => r.key \notin in.keypaths
      THEN ReadInput(u, r) = [u EXCEPT !.psbt.inputs[i] = new]
      ELSE ReadInput(u, r) = Refused
  <2>. HIDE DEF u
  <2>1. /\ u.psbt = p /\ u.at = i /\ in = p.inputs[i] /\ new = NewInput(in, r)
        /\ r.field \in PlainInputFields \cup HaveKeydata
        /\ r.field \in HaveKeydata => r.key \in Keys
    BY <1>0, <1>1
  <2>. QED
    BY ONLY <2>1 DEF ReadInput, NewInput, InputRecord, PlainInputFields, HaveKeydata,
       IsNewSignature
<1>. HIDE DEF u
<1>. QED
  BY <1>1, <1>2, <1>3, <1>4 DEF InputTaken

(* t is what a reader, in the map of output i of p, makes of the record r. *)
PutIntoOutput(p, i, ic, oc, K, out, r, new, L, q, t) ==
    /\ PsbtShape(p) /\ i \in DOMAIN p.outputs /\ out = p.outputs[i] /\ AnyOutput(r)
    /\ new = NewOutput(out, r) /\ L = K \cup {r.field} /\ q = WithOutput(p, i, new)
    /\ t = ReadRecord(Reader("output", i, K, ic, oc, p), r)

LEMMA OutputIsTaken ==
    ASSUME NEW p, NEW i, NEW ic, NEW oc, NEW K, NEW out, NEW r, NEW new, NEW L, NEW q, NEW t,
           PutIntoOutput(p, i, ic, oc, K, out, r, new, L, q, t)
    PROVE  /\ r.field \notin K => t = Reader("output", i, L, ic, oc, q)
           /\ r.field \in K => t = Refused
<1>. DEFINE s == Reader("output", i, K, ic, oc, p)
            u == Reader("output", i, L, ic, oc, p)
<1>0. /\ PsbtShape(p) /\ i \in DOMAIN p.outputs /\ out = p.outputs[i] /\ AnyOutput(r)
      /\ new = NewOutput(out, r) /\ L = K \cup {r.field} /\ q = WithOutput(p, i, new)
      /\ t = ReadRecord(s, r)
  BY DEF PutIntoOutput
<1>1. /\ s.section = "output" /\ s.keyset = K /\ WithKeyset(s, L) = u
      /\ u.psbt = p /\ u.at = i /\ WithPsbt(u, q) = Reader("output", i, L, ic, oc, q)
  <2>1. s = Reader("output", i, K, ic, oc, p) /\ u = Reader("output", i, L, ic, oc, p)
    OBVIOUS
  <2>. HIDE DEF s, u
  <2>. QED
    BY <2>1, ReaderParts
<1>2. IF r.field \in K THEN t = Refused ELSE t = ReadOutput(u, r)
  <2>1. t = ReadRecord(s, r) /\ r.field \notin HaveKeydata /\ L = K \cup {r.field}
    BY <1>0 DEF AnyOutput, HaveKeydata
  <2>. HIDE DEF s, u
  <2>2. IF r.field \in K THEN t = Refused
        ELSE t = ReadOutput(WithKeyset(s, s.keyset \cup {r.field}), r)
    BY <1>1, <2>1 DEF ReadRecord, WithKeyset
  <2>. QED
    BY ONLY <1>1, <2>1, <2>2
<1>3. ReadOutput(u, r) = WithPsbt(u, q)
  <2>. HIDE DEF u
  <2>1. /\ u.psbt = p /\ u.at = i /\ AnyOutput(r)
        /\ q = WithOutput(p, i, NewOutput(p.outputs[i], r))
    BY <1>0, <1>1
  <2>. QED
    BY ONLY <2>1 DEF ReadOutput, NewOutput, AnyOutput, WithPsbt, WithOutput
<1>. HIDE DEF u
<1>. QED
  BY <1>1, <1>2, <1>3

GlobalTaken(p, K, r) ==
    /\ r.field \notin K
    /\ r.field = "UNSIGNED_TX" => p.version = 0
    /\ r.field = "VERSION" => r.value \in {0, 2}
    /\ r.field = "TX_MODIFIABLE" => r.value \subseteq Flags

(* The globals p with a record taken into them, field by field.            *)
GlobalsInto(q, p, r) ==
    LET v == r.value
        setsTx == r.field = "UNSIGNED_TX"
    IN /\ q = Whole(q.version, q.tx, q.txVersion, q.fallback, q.mods, q.inputs, q.outputs)
       /\ q.version = IF r.field = "VERSION" THEN v ELSE p.version
       /\ q.tx = IF setsTx THEN v ELSE p.tx
       /\ q.txVersion = IF r.field = "TX_VERSION" THEN v ELSE p.txVersion
       /\ q.fallback = IF r.field = "FALLBACK_LOCKTIME" THEN v ELSE p.fallback
       /\ q.mods = IF r.field = "TX_MODIFIABLE" THEN v ELSE p.mods
       /\ q.inputs = IF setsTx THEN [n \in 1..Len(v.inputs) |-> EmptyInput] ELSE p.inputs
       /\ q.outputs = IF setsTx THEN [n \in 1..Len(v.outputs) |-> EmptyOutput] ELSE p.outputs

NewGlobals(p, r) ==
    LET v == r.value
        setsTx == r.field = "UNSIGNED_TX"
    IN Whole(IF r.field = "VERSION" THEN v ELSE p.version,
             IF setsTx THEN v ELSE p.tx,
             IF r.field = "TX_VERSION" THEN v ELSE p.txVersion,
             IF r.field = "FALLBACK_LOCKTIME" THEN v ELSE p.fallback,
             IF r.field = "TX_MODIFIABLE" THEN v ELSE p.mods,
             IF setsTx THEN [n \in 1..Len(v.inputs) |-> EmptyInput] ELSE p.inputs,
             IF setsTx THEN [n \in 1..Len(v.outputs) |-> EmptyOutput] ELSE p.outputs)

InCountOf(ic, r) == IF r.field = "INPUT_COUNT" THEN r.value ELSE ic
OutCountOf(oc, r) == IF r.field = "OUTPUT_COUNT" THEN r.value ELSE oc

LEMMA NewGlobalsParts ==
    ASSUME NEW p, NEW r, NEW q, q = NewGlobals(p, r) PROVE GlobalsInto(q, p, r)
BY DEF NewGlobals, GlobalsInto, Whole

LEMMA NewGlobalsAreGlobals ==
    ASSUME NEW p, NEW K, GlobalSoFar(p, K), NEW r, AnyGlobal(r), GlobalTaken(p, K, r),
           NEW q, q = NewGlobals(p, r)
    PROVE  GlobalSoFar(q, K \cup {r.field})
<1>. DEFINE v == r.value
<1>1. CASE r.field \in {"VERSION", "TX_VERSION", "FALLBACK_LOCKTIME", "TX_MODIFIABLE"}
  <2>. DEFINE f == r.field
  <2>1. q = Whole(IF f = "VERSION" THEN v ELSE p.version, p.tx,
                  IF f = "TX_VERSION" THEN v ELSE p.txVersion,
                  IF f = "FALLBACK_LOCKTIME" THEN v ELSE p.fallback,
                  IF f = "TX_MODIFIABLE" THEN v ELSE p.mods, p.inputs, p.outputs)
    BY <1>1 DEF NewGlobals
  <2>2. /\ f \in {"VERSION", "TX_VERSION", "FALLBACK_LOCKTIME", "TX_MODIFIABLE"}
        /\ f = "VERSION" => v \in {0, 2}
        /\ f = "TX_MODIFIABLE" => v \subseteq Flags
    BY <1>1 DEF GlobalTaken
  <2>. HIDE DEF f, v
  <2>3. GlobalSoFar(q, K \cup {f})
    BY <2>1, <2>2, GlobalFieldKeeps
  <2>. QED
    BY <2>3 DEF f
<1>2. CASE r.field = "UNSIGNED_TX"
  <2>. DEFINE ins == [n \in 1..Len(v.inputs) |-> EmptyInput]
              outs == [n \in 1..Len(v.outputs) |-> EmptyOutput]
  <2>0. p = Whole(p.version, p.tx, p.txVersion, p.fallback, p.mods, p.inputs, p.outputs)
    BY DEF GlobalSoFar, Readable, PsbtShape, Whole
  <2>1. q = Whole(p.version, v, p.txVersion, p.fallback, p.mods, ins, outs)
    BY <1>2 DEF NewGlobals
  <2>2. SetGlobalTx(p, v) = [p EXCEPT !.tx = v, !.inputs = ins, !.outputs = outs]
    BY DEF SetGlobalTx
  <2>. HIDE DEF ins, outs
  <2>3. SetGlobalTx(p, v) = q
    BY <2>0, <2>1, <2>2 DEF Whole
  <2>4. GlobalSoFar(SetGlobalTx(p, v), K \cup {"UNSIGNED_TX"})
    BY <1>2, TransactionKeeps DEF AnyGlobal
  <2>. QED
    BY <1>2, <2>3, <2>4
<1>3. CASE r.field \in {"INPUT_COUNT", "OUTPUT_COUNT"}
  <2>1. q = Whole(p.version, p.tx, p.txVersion, p.fallback, p.mods, p.inputs, p.outputs)
    BY <1>3 DEF NewGlobals
  <2>2. q = p
    BY <2>1 DEF GlobalSoFar, Readable, PsbtShape, Whole
  <2>. QED
    BY <1>3, <2>2 DEF GlobalSoFar
<1>. QED
  BY <1>1, <1>2, <1>3 DEF AnyGlobal

(* t is what a reader, in the globals p, makes of the record r.            *)
PutIntoGlobals(p, ic, oc, K, r, L, q, jc, kc, t) ==
    /\ GlobalSoFar(p, K) /\ AnyGlobal(r) /\ L = K \cup {r.field} /\ q = NewGlobals(p, r)
    /\ jc = InCountOf(ic, r) /\ kc = OutCountOf(oc, r)
    /\ t = ReadRecord(Reader("global", 1, K, ic, oc, p), r)

LEMMA GlobalIsTaken ==
    ASSUME NEW p, NEW ic, NEW oc, NEW K, NEW r, NEW L, NEW q, NEW jc, NEW kc, NEW t,
           PutIntoGlobals(p, ic, oc, K, r, L, q, jc, kc, t)
    PROVE  /\ GlobalTaken(p, K, r) => t = Reader("global", 1, L, jc, kc, q)
           /\ ~GlobalTaken(p, K, r) => t = Refused
<1>. DEFINE v == r.value
            s == Reader("global", 1, K, ic, oc, p)
            u == Reader("global", 1, L, ic, oc, p)
<1>0. /\ GlobalSoFar(p, K) /\ AnyGlobal(r) /\ L = K \cup {r.field} /\ q = NewGlobals(p, r)
      /\ jc = InCountOf(ic, r) /\ kc = OutCountOf(oc, r) /\ t = ReadRecord(s, r)
  BY DEF PutIntoGlobals
<1>1. /\ s.section = "global" /\ s.keyset = K /\ WithKeyset(s, L) = u /\ u.psbt = p
      /\ \A w : WithPsbt(u, w) = Reader("global", 1, L, ic, oc, w)
  <2>1. s = Reader("global", 1, K, ic, oc, p) /\ u = Reader("global", 1, L, ic, oc, p)
    OBVIOUS
  <2>. HIDE DEF s, u
  <2>. QED
    BY <2>1, ReaderParts
<1>2. IF r.field \in K THEN t = Refused ELSE t = ReadGlobal(u, r)
  <2>1. t = ReadRecord(s, r) /\ L = K \cup {r.field} /\ r.field \notin HaveKeydata
    BY <1>0 DEF AnyGlobal, HaveKeydata
  <2>. HIDE DEF s, u
  <2>2. IF r.field \in K THEN t = Refused
        ELSE t = ReadGlobal(WithKeyset(s, s.keyset \cup {r.field}), r)
    BY <1>1, <2>1 DEF ReadRecord, WithKeyset
  <2>. QED
    BY ONLY <1>1, <2>1, <2>2
<1>3. p = Whole(p.version, p.tx, p.txVersion, p.fallback, p.mods, p.inputs, p.outputs)
  BY <1>0 DEF GlobalSoFar, Readable, PsbtShape, Whole
<1>4. ASSUME ReadGlobal(u, r) = WithPsbt(u, q), r.field \notin {"INPUT_COUNT", "OUTPUT_COUNT"},
             r.field \notin K, GlobalTaken(p, K, r)
      PROVE  t = Reader("global", 1, L, jc, kc, q)
  <2>1. jc = ic /\ kc = oc
    BY <1>0, <1>4 DEF InCountOf, OutCountOf
  <2>. HIDE DEF u
  <2>. QED
    BY <1>1, <1>2, <1>4, <2>1
<1>5. CASE r.field = "VERSION"
  <2>0. q = Whole(v, p.tx, p.txVersion, p.fallback, p.mods, p.inputs, p.outputs)
    BY <1>0, <1>5 DEF NewGlobals
  <2>1. q = [p EXCEPT !.version = v]
    BY <1>3, <2>0 DEF Whole
  <2>2. IF v \in {0, 2} THEN ReadGlobal(u, r) = WithPsbt(u, q) ELSE ReadGlobal(u, r) = Refused
    <3>. HIDE DEF u
    <3>. QED
      BY <1>1, <1>5, <2>1 DEF ReadGlobal, WithPsbt
  <2>. HIDE DEF u
  <2>. QED
    BY <1>2, <1>4, <1>5, <2>2 DEF GlobalTaken
<1>6. CASE r.field = "TX_VERSION"
  <2>0. q = Whole(p.version, p.tx, v, p.fallback, p.mods, p.inputs, p.outputs)
    BY <1>0, <1>6 DEF NewGlobals
  <2>1. q = [p EXCEPT !.txVersion = v]
    BY <1>3, <2>0 DEF Whole
  <2>2. ReadGlobal(u, r) = WithPsbt(u, q)
    <3>. HIDE DEF u
    <3>. QED
      BY <1>1, <1>6, <2>1 DEF ReadGlobal, WithPsbt
  <2>. HIDE DEF u
  <2>. QED
    BY <1>2, <1>4, <1>6, <2>2 DEF GlobalTaken
<1>7. CASE r.field = "FALLBACK_LOCKTIME"
  <2>0. q = Whole(p.version, p.tx, p.txVersion, v, p.mods, p.inputs, p.outputs)
    BY <1>0, <1>7 DEF NewGlobals
  <2>1. q = [p EXCEPT !.fallback = v]
    BY <1>3, <2>0 DEF Whole
  <2>2. ReadGlobal(u, r) = WithPsbt(u, q)
    <3>. HIDE DEF u
    <3>. QED
      BY <1>1, <1>7, <2>1 DEF ReadGlobal, WithPsbt
  <2>. HIDE DEF u
  <2>. QED
    BY <1>2, <1>4, <1>7, <2>2 DEF GlobalTaken
<1>8. CASE r.field = "TX_MODIFIABLE"
  <2>0. q = Whole(p.version, p.tx, p.txVersion, p.fallback, v, p.inputs, p.outputs)
    BY <1>0, <1>8 DEF NewGlobals
  <2>1. q = [p EXCEPT !.mods = v]
    BY <1>3, <2>0 DEF Whole
  <2>2. IF v \subseteq Flags THEN ReadGlobal(u, r) = WithPsbt(u, q)
        ELSE ReadGlobal(u, r) = Refused
    <3>. HIDE DEF u
    <3>. QED
      BY <1>1, <1>8, <2>1 DEF ReadGlobal, WithPsbt
  <2>. HIDE DEF u
  <2>. QED
    BY <1>2, <1>4, <1>8, <2>2 DEF GlobalTaken
<1>9. CASE r.field = "UNSIGNED_TX"
  <2>. DEFINE ins == [n \in 1..Len(v.inputs) |-> EmptyInput]
              outs == [n \in 1..Len(v.outputs) |-> EmptyOutput]
  <2>0. q = Whole(p.version, v, p.txVersion, p.fallback, p.mods, ins, outs)
    BY <1>0, <1>9 DEF NewGlobals
  <2>1. SetGlobalTx(p, v) = [p EXCEPT !.tx = v, !.inputs = ins, !.outputs = outs]
    BY DEF SetGlobalTx
  <2>. HIDE DEF ins, outs
  <2>2. SetGlobalTx(p, v) = q
    BY <1>3, <2>0, <2>1 DEF Whole
  <2>3. CanSetGlobalTx(p) <=> p.version = 0 /\ p.tx = None
    BY <1>0 DEF CanSetGlobalTx, IsValid, GlobalSoFar
  <2>4. IF CanSetGlobalTx(p) THEN ReadGlobal(u, r) = WithPsbt(u, q)
        ELSE ReadGlobal(u, r) = Refused
    <3>. HIDE DEF u
    <3>. QED
      BY <1>1, <1>9, <2>2 DEF ReadGlobal, WithPsbt
  <2>5. r.field \in K <=> p.tx # None
    BY <1>0, <1>9 DEF GlobalSoFar
  <2>. HIDE DEF u
  <2>. QED
    BY <1>2, <1>4, <1>9, <2>3, <2>4, <2>5 DEF GlobalTaken
<1>10. q = p \/ r.field \notin {"INPUT_COUNT", "OUTPUT_COUNT"}
  BY <1>0, <1>3 DEF NewGlobals
<1>11. CASE r.field = "INPUT_COUNT"
  <2>1. ReadGlobal(u, r) = [u EXCEPT !.inCount = v]
    BY <1>11 DEF ReadGlobal
  <2>2. [u EXCEPT !.inCount = v] = Reader("global", 1, L, v, oc, p)
    <3>. HIDE DEF v
    <3>. QED
      BY DEF Reader
  <2>3. jc = v /\ kc = oc
    BY <1>0, <1>11 DEF InCountOf, OutCountOf
  <2>. HIDE DEF u
  <2>. QED
    BY <1>2, <1>10, <1>11, <2>1, <2>2, <2>3 DEF GlobalTaken
<1>12. CASE r.field = "OUTPUT_COUNT"
  <2>1. ReadGlobal(u, r) = [u EXCEPT !.outCount = v]
    BY <1>12 DEF ReadGlobal
  <2>2. [u EXCEPT !.outCount = v] = Reader("global", 1, L, ic, v, p)
    <3>. HIDE DEF v
    <3>. QED
      BY DEF Reader
  <2>3. jc = ic /\ kc = v
    BY <1>0, <1>12 DEF InCountOf, OutCountOf
  <2>. HIDE DEF u
  <2>. QED
    BY <1>2, <1>10, <1>12, <2>1, <2>2, <2>3 DEF GlobalTaken
<1>. QED
  BY <1>0, <1>5, <1>6, <1>7, <1>8, <1>9, <1>11, <1>12 DEF AnyGlobal

LEMMA GlobalRecordInGlobals ==
    ASSUME NEW K, NEW ic \in Nat, NEW oc \in Nat, NEW p, GlobalSoFar(p, K),
           NEW r, AnyGlobal(r),
           NEW t, t = ReadRecord(Reader("global", 1, K, ic, oc, p), r)
    PROVE  t.section = "refused" \/ InGlobals(t)
<1>. DEFINE L == K \cup {r.field}
            q == NewGlobals(p, r)
            jc == InCountOf(ic, r)
            kc == OutCountOf(oc, r)
<1>1. PutIntoGlobals(p, ic, oc, K, r, L, q, jc, kc, t)
  BY DEF PutIntoGlobals
<1>2. jc \in Nat /\ kc \in Nat
  BY DEF InCountOf, OutCountOf, AnyGlobal
<1>3. GlobalTaken(p, K, r) => GlobalSoFar(q, L)
  BY NewGlobalsAreGlobals
<1>. HIDE DEF L, q, jc, kc
<1>4. /\ GlobalTaken(p, K, r) => t = Reader("global", 1, L, jc, kc, q)
      /\ ~GlobalTaken(p, K, r) => t = Refused
  BY ONLY <1>1, GlobalIsTaken
<1>. QED
  BY <1>2, <1>3, <1>4, RefusedIs DEF InGlobals

-----------------------------------------------------------------------------
(* A record, and the end of a map.                                         *)

LEMMA GlobalsDoneStay ==
    ASSUME NEW p, NEW q, NEW lax \in BOOLEAN, SameBut(q, p), GlobalsDone(p, lax),
           Len(q.inputs) = Len(p.inputs), Len(q.outputs) = Len(p.outputs)
    PROVE  GlobalsDone(q, lax) /\ q.version = p.version
<1>1. IsValid(p) => IsValid(q)
  BY DEF SameBut, IsValid
<1>. QED
  BY <1>1 DEF SameBut, GlobalsDone

LEMMA InputRecordInInputs ==
    ASSUME NEW at, NEW K, NEW ic, NEW oc, NEW p, NEW lax \in BOOLEAN,
           InputsSoFar(p, at, K, lax), NEW r, AnyInput(r),
           NEW t, t = ReadRecord(Reader("input", at, K, ic, oc, p), r)
    PROVE  t.section = "refused" \/ InInputs(t, lax)
<1>. DEFINE I == Len(p.inputs)
            in == p.inputs[at]
            new == NewInput(in, r)
            q == WithInput(p, at, new)
            L == K \cup {r.field}
<1>1. /\ PsbtShape(p) /\ Readable(p) /\ GlobalsDone(p, lax) /\ at \in 1..I /\ I \in Nat
      /\ at \in DOMAIN p.inputs /\ InputShape(in) /\ InputValues(in) /\ InputSoFar(in, K)
  BY ShapeParts DEF InputsSoFar, Readable
<1>2. \/ t.section = "refused"
      \/ /\ InputRecord(r) /\ (r.field = "REQUIRED_TIME_LOCKTIME" => r.value # 0)
         /\ t = Reader("input", at, L, ic, oc, q)
  <2>1. PutIntoInput(p, at, ic, oc, K, in, r, new, L, q, t)
    BY <1>1 DEF PutIntoInput
  <2>. HIDE DEF new, in, L, q
  <2>2. /\ InputTaken(in, K, r) => t = Reader("input", at, L, ic, oc, q)
        /\ ~InputTaken(in, K, r) => t = Refused
    BY ONLY <2>1, InputIsTaken
  <2>3. InputRecord(r) /\ r.field = "REQUIRED_TIME_LOCKTIME" => r.value # 0
    BY MinTimestampAssumption DEF InputRecord
  <2>. QED
    BY <2>2, <2>3, RefusedIs DEF InputTaken
<1>3. ASSUME InputRecord(r), r.field = "REQUIRED_TIME_LOCKTIME" => r.value # 0
      PROVE  InputsSoFar(q, at, L, lax)
  <2>1. InputShape(new) /\ InputValues(new) /\ InputSoFar(new, L)
    <3>1. new = NewInput(in, r)
      OBVIOUS
    <3>. HIDE DEF new, in
    <3>. QED
      BY <1>1, <1>3, <3>1, InputRecordKeeps
  <2>2. /\ PsbtShape(q) /\ SameBut(q, p) /\ q.outputs = p.outputs
        /\ Len(q.inputs) = Len(p.inputs) /\ q.inputs[at] = new
        /\ \A n \in 1..Len(p.inputs) : n # at => q.inputs[n] = p.inputs[n]
    <3>1. q = WithInput(p, at, new) /\ at \in DOMAIN p.inputs /\ PsbtShape(p)
      BY <1>1
    <3>. HIDE DEF q, new
    <3>. QED
      BY ONLY <3>1, WithInputParts
  <2>. HIDE DEF q, new, in, L
  <2>3. Readable(q)
    BY <1>1, <2>1, <2>2 DEF Readable, SameBut
  <2>4. GlobalsDone(q, lax) /\ q.version = p.version
    BY <1>1, <2>2, GlobalsDoneStay
  <2>5. ~(at < at)
    BY <1>1
  <2>. QED
    BY <1>1, <2>1, <2>2, <2>3, <2>4, <2>5 DEF InputsSoFar
<1>. HIDE DEF q, L
<1>. QED
  BY <1>2, <1>3 DEF InInputs

LEMMA OutputRecordInOutputs ==
    ASSUME NEW at, NEW K, NEW ic, NEW oc, NEW p, NEW lax \in BOOLEAN,
           OutputsSoFar(p, at, K, lax), NEW r, AnyOutput(r),
           NEW t, t = ReadRecord(Reader("output", at, K, ic, oc, p), r)
    PROVE  t.section = "refused" \/ InOutputs(t, lax)
<1>. DEFINE O == Len(p.outputs)
            out == p.outputs[at]
            new == NewOutput(out, r)
            q == WithOutput(p, at, new)
            L == K \cup {r.field}
<1>1. /\ PsbtShape(p) /\ Readable(p) /\ GlobalsDone(p, lax) /\ at \in 1..O /\ O \in Nat
      /\ at \in DOMAIN p.outputs /\ OutputShape(out) /\ OutputSoFar(out, K)
  BY ShapeParts DEF OutputsSoFar, Readable
<1>2. t.section = "refused" \/ t = Reader("output", at, L, ic, oc, q)
  <2>1. PutIntoOutput(p, at, ic, oc, K, out, r, new, L, q, t)
    BY <1>1 DEF PutIntoOutput
  <2>. HIDE DEF new, out, L, q
  <2>2. /\ r.field \notin K => t = Reader("output", at, L, ic, oc, q)
        /\ r.field \in K => t = Refused
    BY ONLY <2>1, OutputIsTaken
  <2>. QED
    BY <2>2, RefusedIs
<1>3. OutputsSoFar(q, at, L, lax)
  <2>1. OutputShape(new) /\ OutputSoFar(new, L)
    <3>1. new = NewOutput(out, r)
      OBVIOUS
    <3>. HIDE DEF new, out
    <3>. QED
      BY <1>1, <3>1, OutputRecordKeeps DEF AnyOutput
  <2>2. /\ PsbtShape(q) /\ SameBut(q, p) /\ q.inputs = p.inputs
        /\ Len(q.outputs) = Len(p.outputs) /\ q.outputs[at] = new
        /\ \A n \in 1..Len(p.outputs) : n # at => q.outputs[n] = p.outputs[n]
    <3>1. q = WithOutput(p, at, new) /\ at \in DOMAIN p.outputs /\ PsbtShape(p)
      BY <1>1
    <3>. HIDE DEF q, new
    <3>. QED
      BY ONLY <3>1, WithOutputParts
  <2>. HIDE DEF q, new, out, L
  <2>3. Readable(q)
    BY <1>1, <2>1, <2>2 DEF Readable, SameBut
  <2>4. GlobalsDone(q, lax) /\ q.version = p.version
    BY <1>1, <2>2, GlobalsDoneStay
  <2>5. ~(at < at)
    BY <1>1
  <2>. QED
    BY <1>1, <2>1, <2>2, <2>3, <2>4, <2>5 DEF OutputsSoFar
<1>. HIDE DEF q, L
<1>. QED
  BY <1>2, <1>3 DEF InOutputs

LEMMA InputEnds ==
    ASSUME NEW at, NEW K, NEW ic, NEW oc, NEW p, NEW lax \in BOOLEAN,
           InputsSoFar(p, at, K, lax),
           NEW t, t = EndMap(Reader("input", at, K, ic, oc, p), lax)
    PROVE  t.section = "refused" \/ InBody(t, lax)
<1>. DEFINE s == Reader("input", at, K, ic, oc, p)
            I == Len(p.inputs)
<1>1. s.section = "input" /\ s.psbt = p /\ s.at = at /\ s.keyset = K
  <2>1. s = Reader("input", at, K, ic, oc, p)
    OBVIOUS
  <2>. HIDE DEF s
  <2>. QED
    BY <2>1, ReaderParts
<1>2. /\ Readable(p) /\ GlobalsDone(p, lax) /\ at \in 1..I /\ I \in Nat
      /\ p.version \in {0, 2}
  BY ShapeParts DEF InputsSoFar, Readable
<1>. HIDE DEF s, I
<1>3. t = Refused \/ (t = Enter(s, at, 0) /\ FieldsOk(s, lax) /\ SighashOk(p.inputs[at]))
  <2>1. t = EndMap(s, lax)
    BY DEF s
  <2>. QED
    BY <1>1, <2>1 DEF EndMap
<1>4. ASSUME FieldsOk(s, lax), SighashOk(p.inputs[at])
      PROVE  lax \/ DoneInput(p.inputs[at], p.version)
  <2>1. CASE p.version = 0 /\ ~lax
    <3>1. Disallowed("input", 0) \cap K = {}
      BY <1>1, <1>4, <2>1 DEF FieldsOk
    <3>2. /\ "PREVIOUS_TXID" \notin K /\ "OUTPUT_INDEX" \notin K /\ "SEQUENCE" \notin K
          /\ "REQUIRED_TIME_LOCKTIME" \notin K /\ "REQUIRED_HEIGHT_LOCKTIME" \notin K
      BY <3>1 DEF Disallowed
    <3>3. NotPlaced(p.inputs[at])
      BY <3>2 DEF InputsSoFar, InputSoFar, NotPlaced
    <3>. QED
      BY <1>4, <3>3 DEF DoneInput
  <2>2. CASE p.version = 2
    BY <1>4, <2>2 DEF DoneInput
  <2>. QED
    BY <1>2, <2>1, <2>2
<1>5. ASSUME FieldsOk(s, lax), SighashOk(p.inputs[at])
      PROVE  InBody(Enter(s, at, 0), lax)
  <2>1. at \in Nat /\ at <= I
    BY <1>2
  <2>2. \A n \in 1..I : n <= at => n < at \/ n = at
    BY <1>2
  <2>3. /\ \A n \in 1..I : n <= at => lax \/ DoneInput(p.inputs[n], p.version)
        /\ \A n \in 1..I : at < n => p.inputs[n] \in {EmptyInput, BlankInput}
        /\ \A n \in 1..Len(p.outputs) : p.outputs[n] = EmptyOutput
    BY <1>4, <1>5, <2>2 DEF InputsSoFar, I
  <2>. QED
    BY <1>2, <2>1, <2>3, InputsAreEntered DEF s, I
<1>. QED
  BY <1>3, <1>5, RefusedIs

LEMMA OutputEnds ==
    ASSUME NEW at, NEW K, NEW ic, NEW oc, NEW p, NEW lax \in BOOLEAN,
           OutputsSoFar(p, at, K, lax),
           NEW t, t = EndMap(Reader("output", at, K, ic, oc, p), lax)
    PROVE  t.section = "refused" \/ InBody(t, lax)
<1>. DEFINE s == Reader("output", at, K, ic, oc, p)
            O == Len(p.outputs)
<1>1. s.section = "output" /\ s.psbt = p /\ s.at = at /\ s.keyset = K
  <2>1. s = Reader("output", at, K, ic, oc, p)
    OBVIOUS
  <2>. HIDE DEF s
  <2>. QED
    BY <2>1, ReaderParts
<1>2. /\ Readable(p) /\ GlobalsDone(p, lax) /\ at \in 1..O /\ O \in Nat
      /\ p.version \in {0, 2} /\ OutputShape(p.outputs[at])
  BY ShapeParts DEF OutputsSoFar, Readable
<1>. HIDE DEF s, O
<1>3. t = Refused \/ (t = Enter(s, Len(p.inputs), at) /\ FieldsOk(s, lax))
  <2>1. t = EndMap(s, lax)
    BY DEF s
  <2>. QED
    BY <1>1, <2>1 DEF EndMap
<1>4. ASSUME FieldsOk(s, lax) PROVE lax \/ DoneOutput(p.outputs[at], p.version)
  <2>1. CASE p.version = 0 /\ ~lax
    <3>1. Disallowed("output", 0) \cap K = {}
      BY <1>1, <1>4, <2>1 DEF FieldsOk
    <3>2. "AMOUNT" \notin K /\ "SCRIPT" \notin K
      BY <3>1 DEF Disallowed
    <3>3. p.outputs[at] = EmptyOutput
      BY <1>2, <3>2 DEF OutputsSoFar, OutputSoFar, OutputShape, EmptyOutput
    <3>. QED
      BY <2>1, <3>3 DEF DoneOutput
  <2>2. CASE p.version = 2 /\ ~lax
    <3>1. "AMOUNT" \in K
      BY <1>1, <1>4, <2>2 DEF FieldsOk, Mandatory
    <3>. QED
      BY <2>2, <3>1 DEF DoneOutput, OutputsSoFar, OutputSoFar
  <2>. QED
    BY <1>2, <2>1, <2>2
<1>5. ASSUME FieldsOk(s, lax) PROVE InBody(Enter(s, Len(p.inputs), at), lax)
  <2>1. at \in Nat /\ at <= O
    BY <1>2
  <2>2. \A n \in 1..O : n <= at => n < at \/ n = at
    BY <1>2
  <2>3. /\ \A n \in 1..Len(p.inputs) : lax \/ DoneInput(p.inputs[n], p.version)
        /\ \A n \in 1..O : n <= at => lax \/ DoneOutput(p.outputs[n], p.version)
        /\ \A n \in 1..O : at < n => p.outputs[n] = EmptyOutput
    BY <1>4, <1>5, <2>2 DEF OutputsSoFar, O
  <2>. QED
    BY <1>2, <2>1, <2>3, OutputsAreEntered DEF s, O
<1>. QED
  BY <1>3, <1>5, RefusedIs


LEMMA ArraysAreAllocated ==
    ASSUME NEW K, NEW ic, NEW oc, NEW p, PsbtShape(p), p.version # 0,
           NEW ins, ins = [n \in 1..ic |-> BlankInput],
           NEW outs, outs = [n \in 1..oc |-> EmptyOutput]
    PROVE  Allocated(Reader("global", 1, K, ic, oc, p))
             = Reader("global", 1, K, ic, oc,
                      Whole(p.version, p.tx, p.txVersion, p.fallback, p.mods, ins, outs))
<1>. DEFINE s == Reader("global", 1, K, ic, oc, p)
            q == Whole(p.version, p.tx, p.txVersion, p.fallback, p.mods, ins, outs)
            half == Whole(p.version, p.tx, p.txVersion, p.fallback, p.mods, ins, p.outputs)
<1>1. /\ s.psbt = p /\ s.inCount = ic /\ s.outCount = oc
      /\ WithPsbt(s, q) = Reader("global", 1, K, ic, oc, q)
  <2>1. s = Reader("global", 1, K, ic, oc, p)
    OBVIOUS
  <2>. HIDE DEF s, q
  <2>. QED
    BY <2>1, ReaderParts
<1>2. [EmptyInput EXCEPT !.sequence = FinalSequence] = BlankInput
  BY DEF BlankInput
<1>. HIDE DEF s, q
<1>3. Allocated(s)
        = AllocatedAs(s, [n \in 1..s.inCount |->
                             [EmptyInput EXCEPT !.sequence = FinalSequence]],
                      [n \in 1..s.outCount |-> EmptyOutput])
  <2>1. s.psbt.version # 0
    BY <1>1
  <2>. QED
    BY <2>1, Zenon DEF Allocated, AllocatedAs
<1>4. Allocated(s) = AllocatedAs(s, ins, outs)
  BY <1>1, <1>2, <1>3, Zenon
<1>5. WithArrays(p, ins, outs) = q
  <2>1. p = Whole(p.version, p.tx, p.txVersion, p.fallback, p.mods, p.inputs, p.outputs)
    BY DEF PsbtShape, Whole
  <2>2. [p EXCEPT !.inputs = ins] = half
    BY ONLY <2>1 DEF Whole
  <2>3. [half EXCEPT !.outputs = outs] = q
    BY ONLY <2>1 DEF Whole, q
  <2>. HIDE DEF half
  <2>. QED
    BY <2>2, <2>3 DEF WithArrays
<1>6. AllocatedAs(s, ins, outs) = WithPsbt(s, WithArrays(s.psbt, ins, outs))
  <2>1. s = Reader("global", 1, K, ic, oc, p)
        /\ p = Whole(p.version, p.tx, p.txVersion, p.fallback, p.mods, p.inputs, p.outputs)
    BY DEF s, PsbtShape, Whole
  <2>. QED
    BY <2>1 DEF AllocatedAs, WithPsbt, WithArrays, Reader, Whole
<1>. QED
  BY <1>1, <1>4, <1>5, <1>6, Zenon DEF s, q

LEMMA GlobalEnds ==
    ASSUME NEW K, NEW ic \in Nat, NEW oc \in Nat, NEW p, NEW lax \in BOOLEAN,
           GlobalSoFar(p, K),
           NEW t, t = EndMap(Reader("global", 1, K, ic, oc, p), lax)
    PROVE  t.section = "refused" \/ InBody(t, lax)
<1>. DEFINE s == Reader("global", 1, K, ic, oc, p)
<1>1. s.section = "global" /\ s.psbt = p /\ s.keyset = K
  <2>1. s = Reader("global", 1, K, ic, oc, p)
    OBVIOUS
  <2>. HIDE DEF s
  <2>. QED
    BY <2>1, ReaderParts
<1>2. Readable(p) /\ PsbtShape(p) /\ p.version \in {0, 2}
  BY DEF GlobalSoFar, Readable
<1>. HIDE DEF s
<1>3. \/ t = Refused
      \/ /\ t = Enter(Allocated(s), 0, 0) /\ FieldsOk(s, lax)
         /\ ~(p.version = 2 /\ p.txVersion < 2)
  <2>1. t = EndMap(s, lax)
    BY DEF s
  <2>. QED
    BY <1>1, <2>1 DEF EndMap
<1>. SUFFICES ASSUME FieldsOk(s, lax), ~(p.version = 2 /\ p.txVersion < 2)
              PROVE  InBody(Enter(Allocated(s), 0, 0), lax)
  BY <1>3, RefusedIs
<1>4. CASE p.version = 0
  <2>1. Allocated(s) = s
    BY <1>1, <1>4 DEF Allocated
  <2>2. GlobalsDone(p, lax)
    <3>1. CASE lax
      BY <1>4, <3>1 DEF GlobalsDone
    <3>2. CASE ~lax
      <4>1. /\ Mandatory("global", 0) \subseteq K
            /\ Disallowed("global", 0) \cap K = {}
        BY <1>1, <1>4, <3>2 DEF FieldsOk
      <4>2. /\ "UNSIGNED_TX" \in K /\ "TX_VERSION" \notin K
            /\ "FALLBACK_LOCKTIME" \notin K /\ "TX_MODIFIABLE" \notin K
        BY <4>1 DEF Mandatory, Disallowed
      <4>3. IsValid(p)
        BY <1>4 DEF GlobalSoFar, IsValid
      <4>. QED
        BY <1>4, <4>2, <4>3 DEF GlobalSoFar, GlobalsDone
    <3>. QED
      BY <3>1, <3>2
  <2>3. Len(p.inputs) \in Nat
    BY <1>2, ShapeParts
  <2>4. /\ 0 \in Nat /\ 0 <= Len(p.inputs) /\ \A n \in 1..Len(p.inputs) : ~(n <= 0)
        /\ \A n \in 1..Len(p.inputs) : p.inputs[n] \in {EmptyInput, BlankInput}
        /\ \A n \in 1..Len(p.outputs) : p.outputs[n] = EmptyOutput
    BY <2>3 DEF GlobalSoFar
  <2>. QED
    BY <1>2, <2>1, <2>2, <2>4, InputsAreEntered DEF s
<1>5. CASE p.version = 2
  <2>. DEFINE ins == [n \in 1..ic |-> BlankInput]
              outs == [n \in 1..oc |-> EmptyOutput]
              q == Whole(p.version, p.tx, p.txVersion, p.fallback, p.mods, ins, outs)
  <2>0. ins = [n \in 1..ic |-> BlankInput] /\ outs = [n \in 1..oc |-> EmptyOutput]
    OBVIOUS
  <2>1. /\ ins \in Seq(Range(ins)) /\ Len(ins) = ic
        /\ \A n \in 1..ic : ins[n] = BlankInput
        /\ outs \in Seq(Range(outs)) /\ Len(outs) = oc
        /\ \A n \in 1..oc : outs[n] = EmptyOutput
    <3>. HIDE DEF ins, outs
    <3>1. ins \in Seq(Range(ins)) /\ Len(ins) = ic /\ \A n \in 1..ic : ins[n] = BlankInput
      BY <2>0, AllOne, ZenonT(60)
    <3>2. outs \in Seq(Range(outs)) /\ Len(outs) = oc /\ \A n \in 1..oc : outs[n] = EmptyOutput
      BY <2>0, AllOne, ZenonT(60)
    <3>. QED
      BY <3>1, <3>2
  <2>. HIDE DEF ins, outs
  <2>2. Allocated(s) = Reader("global", 1, K, ic, oc, q)
    <3>. HIDE DEF q
    <3>1. p.version # 0
      BY <1>5
    <3>. QED
      BY <1>2, <2>0, <3>1, ArraysAreAllocated DEF s, q
  <2>3. /\ SameBut(q, p) /\ q.inputs = ins /\ q.outputs = outs
        /\ q = Whole(q.version, q.tx, q.txVersion, q.fallback, q.mods, q.inputs, q.outputs)
    BY DEF SameBut, Whole
  <2>. HIDE DEF q
  <2>4. PsbtShape(q)
    BY <2>1, <2>3 DEF PsbtShape, Whole
  <2>5. Readable(q)
    BY <1>2, <2>1, <2>3, <2>4, EmptyPartsAre DEF SameBut, Readable
  <2>6. GlobalsDone(q, lax)
    <3>1. CASE lax
      BY <1>5, <2>3, <3>1 DEF SameBut, GlobalsDone
    <3>2. CASE ~lax
      <4>1. Disallowed("global", 2) \cap K = {}
        BY <1>1, <1>5, <3>2 DEF FieldsOk
      <4>2. "UNSIGNED_TX" \notin K
        BY <4>1 DEF Disallowed
      <4>3. IsValid(q)
        BY <1>5, <2>3, <4>2 DEF SameBut, GlobalSoFar, IsValid
      <4>. QED
        BY <1>5, <2>3, <4>3 DEF SameBut, GlobalsDone
    <3>. QED
      BY <3>1, <3>2
  <2>7. /\ 0 \in Nat /\ 0 <= Len(q.inputs) /\ \A n \in 1..Len(q.inputs) : ~(n <= 0)
        /\ \A n \in 1..Len(q.inputs) : q.inputs[n] \in {EmptyInput, BlankInput}
        /\ \A n \in 1..Len(q.outputs) : q.outputs[n] = EmptyOutput
    BY <2>1, <2>3
  <2>. QED
    BY <2>2, <2>5, <2>6, <2>7, InputsAreEntered
<1>. QED
  BY <1>2, <1>4, <1>5

-----------------------------------------------------------------------------
(* The reader's invariant: where it is, and what it has read by then.      *)

ReaderInv ==
    /\ loose \in BOOLEAN
    /\ \/ reader.section = "refused"
       \/ InGlobals(reader)
       \/ InBody(reader, loose)

LEMMA SectionsAre ==
    /\ \A s : InGlobals(s) => s.section = "global"
    /\ \A s, lax : InInputs(s, lax) => s.section = "input"
    /\ \A s, lax : InOutputs(s, lax) => s.section = "output"
    /\ \A s, lax : AtEnd(s, lax) => s.section = "end"
BY ReaderParts DEF InGlobals, InInputs, InOutputs, AtEnd

LEMMA ReaderStarts == ReaderInit => ReaderInv
<1>. SUFFICES ASSUME ReaderInit PROVE ReaderInv
  OBVIOUS
<1>. DEFINE p == Globals(0, 2, None, {})
<1>1. reader = Reader("global", 1, {}, 0, 0, p)
  <2>1. Fields({}) = {}
    BY DEF Fields
  <2>. QED
    BY <2>1, StartIsGlobal DEF ReaderInit, GlobalState
<1>2. /\ p.version = 0 /\ p.tx = None /\ p.txVersion = 2 /\ p.fallback = None
      /\ p.mods = {} /\ p.inputs = <<>> /\ p.outputs = <<>>
      /\ p = Whole(p.version, p.tx, p.txVersion, p.fallback, p.mods, p.inputs, p.outputs)
  BY DEF Globals, Whole
<1>. HIDE DEF p
<1>3. PsbtShape(p)
  <2>1. <<>> \in Seq(Range(p.inputs)) /\ <<>> \in Seq(Range(p.outputs))
    OBVIOUS
  <2>. QED
    BY <1>2, <2>1 DEF PsbtShape, Whole
<1>4. Len(p.inputs) = 0 /\ Len(p.outputs) = 0 /\ \A n \in Nat : ~(n \in 1..0)
  BY <1>2
<1>5. Readable(p)
  BY <1>2, <1>3, <1>4 DEF Readable
<1>6. GlobalSoFar(p, {})
  BY <1>2, <1>4, <1>5 DEF GlobalSoFar
<1>7. InGlobals(reader)
  BY <1>1, <1>6 DEF InGlobals
<1>. QED
  BY <1>7 DEF ReaderInv, ReaderInit

LEMMA RecordKeepsReading ==
    ASSUME ReaderInv, NEW r \in Records[reader.section], Put(r) PROVE ReaderInv'
<1>. DEFINE t == ReadRecord(reader, r)
<1>1. loose' = loose /\ reader' = t /\ reader.section \notin {"refused", "end"}
  BY DEF Put, Reading
<1>. HIDE DEF t
<1>2. t.section = "refused" \/ InGlobals(t) \/ InInputs(t, loose) \/ InOutputs(t, loose)
  <2>1. CASE InGlobals(reader)
    <3>1. AnyGlobal(r)
      BY <2>1, SectionsAre, RecordsAssumption DEF AnyGlobal
    <3>2. PICK K, ic, oc, p :
             /\ reader = Reader("global", 1, K, ic, oc, p)
             /\ ic \in Nat /\ oc \in Nat /\ GlobalSoFar(p, K)
      BY <2>1 DEF InGlobals
    <3>3. t = ReadRecord(Reader("global", 1, K, ic, oc, p), r)
      BY <3>2 DEF t
    <3>. QED
      BY <3>1, <3>2, <3>3, GlobalRecordInGlobals
  <2>2. CASE InInputs(reader, loose)
    <3>1. AnyInput(r)
      BY <2>2, SectionsAre, RecordsAssumption DEF AnyInput, PlainInputFields
    <3>2. PICK at, K, ic, oc, p :
             reader = Reader("input", at, K, ic, oc, p) /\ InputsSoFar(p, at, K, loose)
      BY <2>2 DEF InInputs
    <3>3. t = ReadRecord(Reader("input", at, K, ic, oc, p), r) /\ loose \in BOOLEAN
      BY <3>2 DEF t, ReaderInv
    <3>. QED
      BY <3>1, <3>2, <3>3, InputRecordInInputs
  <2>3. CASE InOutputs(reader, loose)
    <3>1. AnyOutput(r)
      BY <2>3, SectionsAre, RecordsAssumption DEF AnyOutput
    <3>2. PICK at, K, ic, oc, p :
             reader = Reader("output", at, K, ic, oc, p) /\ OutputsSoFar(p, at, K, loose)
      BY <2>3 DEF InOutputs
    <3>3. t = ReadRecord(Reader("output", at, K, ic, oc, p), r) /\ loose \in BOOLEAN
      BY <3>2 DEF t, ReaderInv
    <3>. QED
      BY <3>1, <3>2, <3>3, OutputRecordInOutputs
  <2>. QED
    BY <1>1, <2>1, <2>2, <2>3, SectionsAre DEF ReaderInv, InBody
<1>. QED
  BY <1>1, <1>2 DEF ReaderInv, InBody

LEMMA SeparatorKeepsReading == ASSUME ReaderInv, Separator PROVE ReaderInv'
<1>. DEFINE t == EndMap(reader, loose)
<1>1. loose' = loose /\ reader' = t /\ reader.section \notin {"refused", "end"}
  BY DEF Separator, Reading
<1>. HIDE DEF t
<1>2. t.section = "refused" \/ InBody(t, loose)
  <2>1. CASE InGlobals(reader)
    <3>2. PICK K, ic, oc, p :
             /\ reader = Reader("global", 1, K, ic, oc, p)
             /\ ic \in Nat /\ oc \in Nat /\ GlobalSoFar(p, K)
      BY <2>1 DEF InGlobals
    <3>3. t = EndMap(Reader("global", 1, K, ic, oc, p), loose) /\ loose \in BOOLEAN
      BY <3>2 DEF t, ReaderInv
    <3>. QED
      BY <3>2, <3>3, GlobalEnds
  <2>2. CASE InInputs(reader, loose)
    <3>2. PICK at, K, ic, oc, p :
             reader = Reader("input", at, K, ic, oc, p) /\ InputsSoFar(p, at, K, loose)
      BY <2>2 DEF InInputs
    <3>3. t = EndMap(Reader("input", at, K, ic, oc, p), loose) /\ loose \in BOOLEAN
      BY <3>2 DEF t, ReaderInv
    <3>. QED
      BY <3>2, <3>3, InputEnds
  <2>3. CASE InOutputs(reader, loose)
    <3>2. PICK at, K, ic, oc, p :
             reader = Reader("output", at, K, ic, oc, p) /\ OutputsSoFar(p, at, K, loose)
      BY <2>3 DEF InOutputs
    <3>3. t = EndMap(Reader("output", at, K, ic, oc, p), loose) /\ loose \in BOOLEAN
      BY <3>2 DEF t, ReaderInv
    <3>. QED
      BY <3>2, <3>3, OutputEnds
  <2>. QED
    BY <1>1, <2>1, <2>2, <2>3, SectionsAre DEF ReaderInv, InBody
<1>. QED
  BY <1>1, <1>2 DEF ReaderInv

LEMMA TrailKeepsReading == ASSUME ReaderInv, Trail PROVE ReaderInv'
<1>1. /\ loose' = loose /\ reader.section = "end"
      /\ reader' = [reader EXCEPT !.trailing = TRUE]
  BY DEF Trail, ReadMap
<1>2. AtEnd(reader, loose)
  BY <1>1, SectionsAre DEF ReaderInv, InBody
<1>3. reader'.section = "end" /\ reader'.psbt = reader.psbt
  BY <1>1
<1>4. AtEnd(reader', loose)
  BY <1>2, <1>3 DEF AtEnd
<1>. QED
  BY <1>1, <1>4 DEF ReaderInv, InBody


LEMMA ReaderKeeps == ReaderInv /\ [ReaderNext]_readerVars => ReaderInv'
<1>. SUFFICES ASSUME ReaderInv, [ReaderNext]_readerVars PROVE ReaderInv'
  OBVIOUS
<1>1. CASE Reading /\ \E r \in Records[reader.section] : Put(r)
  BY <1>1, RecordKeepsReading
<1>2. CASE Separator
  BY <1>2, SeparatorKeepsReading
<1>3. CASE Trail
  BY <1>3, TrailKeepsReading
<1>4. CASE UNCHANGED readerVars
  BY <1>4 DEF readerVars, ReaderInv, InGlobals, InBody, InInputs, InOutputs, AtEnd
<1>. QED
  BY <1>1, <1>2, <1>3, <1>4 DEF ReaderNext

LEMMA ReaderReads == ReaderSpec => []ReaderInv
<1>. QED
  BY ReaderStarts, ReaderKeeps, PTL DEF ReaderSpec

LEMMA WhatIsRead ==
    ASSUME ReaderInv, NEW p, p = Read(FALSE), p # None
    PROVE  WholeRead(p, loose) /\ loose \in BOOLEAN
<1>1. reader.section = "end" /\ p = reader.psbt
  BY DEF Read, Finished
<1>. QED
  BY <1>1, SectionsAre DEF ReaderInv, InBody, AtEnd

LEMMA ReadIsWritable == ASSUME NEW p, NEW lax, WholeRead(p, lax) PROVE Writable(p)
BY DEF WholeRead, Readable, GlobalsDone, Writable, OutputShape

(* Whatever a reader was given, what it makes of it is written and read    *)
(* again as it was: wally_psbt_to_bytes and wally_psbt_from_bytes lose     *)
(* nothing but what a finalized input gives up.                            *)
THEOREM ReadIsReadBack == ReaderSpec => []WrittenIsReadBack
<1>1. ReaderInv => WrittenIsReadBack
  <2>. SUFFICES ASSUME ReaderInv PROVE WrittenIsReadBack
    OBVIOUS
  <2>. DEFINE p == Read(FALSE)
  <2>1. ASSUME p # None PROVE Writable(p)
    <3>1. p = Read(FALSE)
      OBVIOUS
    <3>. HIDE DEF p
    <3>. QED
      BY <2>1, <3>1, WhatIsRead, ReadIsWritable
  <2>. HIDE DEF p
  <2>2. ASSUME p # None, NEW redundant \in BOOLEAN PROVE RoundTrips(p, redundant)
    BY <2>1, <2>2, WrittenIsReadAgain
  <2>. QED
    BY <2>2 DEF WrittenIsReadBack, p
<1>. QED
  BY <1>1, ReaderReads, PTL

LEMMA NotPlacedIsKept ==
    ASSUME NEW p, PsbtShape(p), p.version = 0, p.txVersion = 2, p.fallback = None,
           p.mods = {}, \A n \in 1..Len(p.inputs) : InputShape(p.inputs[n]) /\ NotPlaced(p.inputs[n]),
           \A n \in 1..Len(p.outputs) : p.outputs[n] = EmptyOutput
    PROVE  WrittenPart(p, TRUE) = p
<1>. DEFINE w == WrittenPart(p, TRUE)
            I == Len(p.inputs)
            O == Len(p.outputs)
<1>1. w = WrittenPart(p, TRUE)
  OBVIOUS
<1>. HIDE DEF w
<1>2. /\ PsbtShape(w) /\ w.version = p.version /\ w.tx = p.tx
      /\ w.inputs = [n \in 1..Len(p.inputs) |-> WrittenInput(p, p.inputs[n], TRUE)]
      /\ w.txVersion = 2 /\ w.fallback = None /\ w.mods = {}
      /\ w.outputs = [n \in 1..Len(p.outputs) |-> EmptyOutput]
  <2>. DEFINE yes == TRUE
  <2>1. PsbtShape(p) /\ p.version \in {0, 2} /\ yes \in BOOLEAN /\ w = WrittenPart(p, yes)
    BY <1>1
  <2>. HIDE DEF yes
  <2>2. /\ PsbtShape(w) /\ w.version = p.version /\ w.tx = p.tx
        /\ w.inputs = [n \in 1..Len(p.inputs) |-> WrittenInput(p, p.inputs[n], yes)]
        /\ p.version = 0 => /\ w.txVersion = 2 /\ w.fallback = None /\ w.mods = {}
                            /\ w.outputs = [n \in 1..Len(p.outputs) |-> EmptyOutput]
    BY ONLY <2>1, WrittenFields
  <2>. QED
    BY <2>2 DEF yes
<1>3. I \in Nat /\ DOMAIN p.inputs = 1..I /\ O \in Nat /\ DOMAIN p.outputs = 1..O
  BY ShapeParts
<1>4. ASSUME NEW n \in 1..I PROVE WrittenInput(p, p.inputs[n], TRUE) = p.inputs[n]
  <2>. DEFINE in == p.inputs[n]
              u == Unplaced(in)
  <2>1. InputShape(in) /\ NotPlaced(in)
    OBVIOUS
  <2>2. WrittenInput(p, in, TRUE) = u
    BY DEF WrittenInput, Unplaced
  <2>. HIDE DEF in
  <2>3. InputShape(u) /\ NotPlaced(u) /\ SamePartial(u, in) /\ SameRest(u, in)
    BY <2>1, UnplacedFields
  <2>. HIDE DEF u
  <2>4. u = in
    BY <2>1, <2>3 DEF InputShape, NotPlaced, SamePartial, SameRest
  <2>. QED
    BY <2>2, <2>4 DEF in
<1>5. w.inputs = p.inputs
  <2>. DEFINE f == w.inputs
              g == p.inputs
  <2>1. /\ f = [n \in 1..I |-> f[n]] /\ \A n \in 1..I : f[n] = g[n]
    <3>1. f = [n \in 1..I |-> WrittenInput(p, p.inputs[n], TRUE)]
      BY <1>2
    <3>. HIDE DEF f, I
    <3>. QED
      BY <1>4, <3>1 DEF I
  <2>2. g = [n \in 1..I |-> g[n]]
    BY <1>3 DEF PsbtShape
  <2>. HIDE DEF f, g, I
  <2>3. f = g
    BY <2>1, <2>2, SameOn
  <2>. QED
    BY <2>3 DEF f, g
<1>6. w.outputs = p.outputs
  <2>. DEFINE f == w.outputs
              g == p.outputs
  <2>1. /\ f = [n \in 1..O |-> f[n]] /\ \A n \in 1..O : f[n] = g[n]
    <3>1. f = [n \in 1..O |-> EmptyOutput]
      BY <1>2
    <3>. HIDE DEF f, O
    <3>. QED
      BY <3>1 DEF O
  <2>2. g = [n \in 1..O |-> g[n]]
    BY <1>3 DEF PsbtShape
  <2>. HIDE DEF f, g, O
  <2>3. f = g
    BY <2>1, <2>2, SameOn
  <2>. QED
    BY <2>3 DEF f, g
<1>7. w = p
  BY <1>2, <1>5, <1>6 DEF PsbtShape
<1>. QED
  BY <1>1, <1>7

(* A PSBT read without the flag LOOSE is one that the interface makes.     *)
THEOREM StrictReaderIsSound == ReaderSpec => []StrictIsSound
<1>1. ReaderInv => StrictIsSound
  <2>. SUFFICES ASSUME ReaderInv PROVE StrictIsSound
    OBVIOUS
  <2>. DEFINE p == Read(FALSE)
  <2>. SUFFICES ASSUME p # None, ~loose
                PROVE  /\ IsValid(p) /\ Consistent(p)
                       /\ CanSerialize(p) \/ (p.version = 2 /\ Anonymous(p))
                       /\ p.version = 0 => WrittenPart(p, TRUE) = p
    BY DEF StrictIsSound
  <2>1. WholeRead(p, FALSE)
    <3>1. p = Read(FALSE)
      OBVIOUS
    <3>. HIDE DEF p
    <3>2. WholeRead(p, loose) /\ loose \in BOOLEAN
      BY <3>1, WhatIsRead
    <3>. QED
      BY <3>2 DEF WholeRead, GlobalsDone
  <2>. HIDE DEF p
  <2>2. /\ IsValid(p) /\ PsbtShape(p) /\ p.version \in {0, 2}
        /\ p.version = 0 => p.txVersion = 2 /\ p.fallback = None /\ p.mods = {}
        /\ \A n \in 1..Len(p.inputs) :
              InputShape(p.inputs[n]) /\ DoneInput(p.inputs[n], p.version)
        /\ \A n \in 1..Len(p.outputs) : DoneOutput(p.outputs[n], p.version)
    BY <2>1 DEF WholeRead, GlobalsDone, Readable
  <2>3. Consistent(p)
    BY <2>2 DEF Consistent, DoneInput
  <2>4. CanSerialize(p) \/ (p.version = 2 /\ Anonymous(p))
    BY <2>2 DEF CanSerialize, Anonymous, DoneOutput
  <2>5. ASSUME p.version = 0 PROVE WrittenPart(p, TRUE) = p
    <3>1. /\ \A n \in 1..Len(p.inputs) : InputShape(p.inputs[n]) /\ NotPlaced(p.inputs[n])
          /\ \A n \in 1..Len(p.outputs) : p.outputs[n] = EmptyOutput
      BY <2>2, <2>5 DEF DoneInput, DoneOutput
    <3>. QED
      BY <2>2, <2>5, <3>1, NotPlacedIsKept
  <2>. QED
    BY <2>2, <2>3, <2>4, <2>5
<1>. QED
  BY <1>1, ReaderReads, PTL

-----------------------------------------------------------------------------
(* Two records of an input, in either order.                               *)

(* An input with a record taken into it, field by field.                   *)
TakenInto(new, in, r) ==
    /\ InputShape(new)
    /\ new.txid = IF r.field = "PREVIOUS_TXID" THEN r.value ELSE in.txid
    /\ new.index = IF r.field = "OUTPUT_INDEX" THEN r.value ELSE in.index
    /\ new.sequence = IF r.field = "SEQUENCE" THEN r.value ELSE in.sequence
    /\ new.time = IF r.field = "REQUIRED_TIME_LOCKTIME" THEN r.value ELSE in.time
    /\ new.height = IF r.field = "REQUIRED_HEIGHT_LOCKTIME" THEN r.value ELSE in.height
    /\ new.sighash = IF r.field = "SIGHASH_TYPE" THEN r.value ELSE in.sighash
    /\ new.utxo = IF r.field = "WITNESS_UTXO" THEN r.value ELSE in.utxo
    /\ new.script = IF r.field = "WITNESS_SCRIPT" THEN r.value ELSE in.script
    /\ new.final = IF r.field = "FINAL_SCRIPTWITNESS" THEN r.value ELSE in.final
    /\ new.keypaths = IF r.field = "BIP32_DERIVATION" THEN in.keypaths \cup {r.key}
                      ELSE in.keypaths
    /\ \A k \in Keys :
          new.sigs[k] = IF r.field = "PARTIAL_SIG" /\ r.key = k THEN r.value
                        ELSE in.sigs[k]

LEMMA NewInputParts ==
    ASSUME NEW in, InputShape(in), NEW r, InputRecord(r), NEW new, new = NewInput(in, r)
    PROVE  TakenInto(new, in, r)
<1>1. CASE r.field = "PREVIOUS_TXID"
  <2>1. new = [in EXCEPT !.txid = r.value]
    BY <1>1 DEF NewInput
  <2>. QED
    BY <1>1, <2>1 DEF InputShape, TakenInto
<1>2. CASE r.field = "OUTPUT_INDEX"
  <2>1. new = [in EXCEPT !.index = r.value]
    BY <1>2 DEF NewInput
  <2>. QED
    BY <1>2, <2>1 DEF InputShape, TakenInto
<1>3. CASE r.field = "SEQUENCE"
  <2>1. new = [in EXCEPT !.sequence = r.value]
    BY <1>3 DEF NewInput
  <2>. QED
    BY <1>3, <2>1 DEF InputShape, TakenInto
<1>4. CASE r.field = "REQUIRED_TIME_LOCKTIME"
  <2>1. new = [in EXCEPT !.time = r.value]
    BY <1>4 DEF NewInput
  <2>. QED
    BY <1>4, <2>1 DEF InputShape, TakenInto
<1>5. CASE r.field = "REQUIRED_HEIGHT_LOCKTIME"
  <2>1. new = [in EXCEPT !.height = r.value]
    BY <1>5 DEF NewInput
  <2>. QED
    BY <1>5, <2>1 DEF InputShape, TakenInto
<1>6. CASE r.field = "SIGHASH_TYPE"
  <2>1. new = [in EXCEPT !.sighash = r.value]
    BY <1>6 DEF NewInput
  <2>. QED
    BY <1>6, <2>1 DEF InputShape, TakenInto
<1>7. CASE r.field = "WITNESS_UTXO"
  <2>1. new = [in EXCEPT !.utxo = r.value]
    BY <1>7 DEF NewInput
  <2>. QED
    BY <1>7, <2>1 DEF InputShape, TakenInto
<1>8. CASE r.field = "WITNESS_SCRIPT"
  <2>1. new = [in EXCEPT !.script = r.value]
    BY <1>8 DEF NewInput
  <2>. QED
    BY <1>8, <2>1 DEF InputShape, TakenInto
<1>9. CASE r.field = "FINAL_SCRIPTWITNESS"
  <2>1. new = [in EXCEPT !.final = r.value]
    BY <1>9 DEF NewInput
  <2>. QED
    BY <1>9, <2>1 DEF InputShape, TakenInto
<1>10. CASE r.field = "PARTIAL_SIG"
  <2>1. new = [in EXCEPT !.sigs = [in.sigs EXCEPT ![r.key] = r.value]]
    BY <1>10 DEF NewInput
  <2>2. r.key \in Keys
    BY <1>10 DEF InputRecord, HaveKeydata
  <2>3. new.sigs = [k \in Keys |-> IF k = r.key THEN r.value ELSE in.sigs[k]]
    BY <2>1, <2>2 DEF InputShape
  <2>4. InputShape(new)
    BY <2>1, <2>3 DEF InputShape
  <2>. QED
    BY <1>10, <2>1, <2>3, <2>4 DEF InputShape, TakenInto
<1>11. CASE r.field = "BIP32_DERIVATION"
  <2>1. new = [in EXCEPT !.keypaths = in.keypaths \cup {r.key}]
    BY <1>11 DEF NewInput
  <2>. QED
    BY <1>11, <2>1 DEF InputShape, TakenInto
<1>. QED
  BY <1>1, <1>2, <1>3, <1>4, <1>5, <1>6, <1>7, <1>8, <1>9, <1>10, <1>11 DEF InputRecord, PlainInputFields, HaveKeydata

LEMMA NewInputsCommute ==
    ASSUME NEW in, InputShape(in), NEW r1, InputRecord(r1), NEW r2, InputRecord(r2),
           r1.field # r2.field \/ (r1.field \in HaveKeydata /\ r1.key # r2.key)
    PROVE  NewInput(NewInput(in, r1), r2) = NewInput(NewInput(in, r2), r1)
<1>. DEFINE a == NewInput(in, r1)
            b == NewInput(in, r2)
            ab == NewInput(a, r2)
            ba == NewInput(b, r1)
<1>1. a = NewInput(in, r1) /\ b = NewInput(in, r2)
      /\ ab = NewInput(a, r2) /\ ba = NewInput(b, r1)
  OBVIOUS
<1>. HIDE DEF a, b, ab, ba
<1>2. TakenInto(a, in, r1) /\ TakenInto(b, in, r2)
  BY <1>1, NewInputParts
<1>3. TakenInto(ab, a, r2) /\ TakenInto(ba, b, r1)
  <2>1. InputShape(a) /\ InputShape(b)
    BY <1>2 DEF TakenInto
  <2>. QED
    BY <1>1, <2>1, NewInputParts
<1>4. ab.txid = ba.txid
  BY <1>2, <1>3 DEF TakenInto, HaveKeydata
<1>5. ab.index = ba.index
  BY <1>2, <1>3 DEF TakenInto, HaveKeydata
<1>6. ab.sequence = ba.sequence
  BY <1>2, <1>3 DEF TakenInto, HaveKeydata
<1>7. ab.time = ba.time
  BY <1>2, <1>3 DEF TakenInto, HaveKeydata
<1>8. ab.height = ba.height
  BY <1>2, <1>3 DEF TakenInto, HaveKeydata
<1>9. ab.sighash = ba.sighash
  BY <1>2, <1>3 DEF TakenInto, HaveKeydata
<1>10. ab.utxo = ba.utxo
  BY <1>2, <1>3 DEF TakenInto, HaveKeydata
<1>11. ab.script = ba.script
  BY <1>2, <1>3 DEF TakenInto, HaveKeydata
<1>12. ab.final = ba.final
  BY <1>2, <1>3 DEF TakenInto, HaveKeydata
<1>13. ab.keypaths = ba.keypaths
  BY <1>2, <1>3 DEF TakenInto, HaveKeydata
<1>14. ab.sigs = ba.sigs
  <2>3. \A k \in Keys : ab.sigs[k] = ba.sigs[k]
    BY <1>2, <1>3 DEF TakenInto, HaveKeydata
  <2>. DEFINE f == ab.sigs
              g == ba.sigs
  <2>4. f = [k \in Keys |-> f[k]] /\ g = [k \in Keys |-> g[k]] /\ \A k \in Keys : f[k] = g[k]
    BY <1>3, <2>3 DEF InputShape, TakenInto
  <2>. HIDE DEF f, g
  <2>5. f = g
    BY <2>4, SameOn
  <2>. QED
    BY <2>5 DEF f, g
<1>15. ab = ba
  BY <1>3, <1>4, <1>5, <1>6, <1>7, <1>8, <1>9, <1>10, <1>11, <1>12, <1>13, <1>14 DEF InputShape, TakenInto
<1>. QED
  BY <1>15 DEF a, b, ab, ba


LEMMA InputsTaken ==
    ASSUME NEW p, PsbtShape(p), NEW i \in DOMAIN p.inputs, NEW ic, NEW oc, NEW K,
           NEW in, in = p.inputs[i],
           NEW r1, AnyInput(r1), NEW r2, AnyInput(r2), NEW t,
           t = ReadRecord(ReadRecord(Reader("input", i, K, ic, oc, p), r1), r2)
    PROVE  IF InputTaken(in, K, r1) /\ InputTaken(NewInput(in, r1), K \cup {r1.field}, r2)
           THEN t = Reader("input", i, (K \cup {r1.field}) \cup {r2.field}, ic, oc,
                           WithInput(p, i, NewInput(NewInput(in, r1), r2)))
           ELSE t = Refused
<1>. DEFINE a == NewInput(in, r1)
            ab == NewInput(a, r2)
            L == K \cup {r1.field}
            M == L \cup {r2.field}
            q == WithInput(p, i, a)
            w == WithInput(q, i, ab)
            s1 == ReadRecord(Reader("input", i, K, ic, oc, p), r1)
<1>0. /\ a = NewInput(in, r1) /\ ab = NewInput(a, r2) /\ q = WithInput(p, i, a)
      /\ L = K \cup {r1.field} /\ M = L \cup {r2.field} /\ w = WithInput(q, i, ab)
      /\ s1 = ReadRecord(Reader("input", i, K, ic, oc, p), r1) /\ t = ReadRecord(s1, r2)
  OBVIOUS
<1>. HIDE DEF a, ab, q, s1, L, M, w
<1>1. /\ InputTaken(in, K, r1) => s1 = Reader("input", i, L, ic, oc, q)
      /\ ~InputTaken(in, K, r1) => s1 = Refused
  <2>1. PutIntoInput(p, i, ic, oc, K, in, r1, a, L, q, s1)
    BY <1>0 DEF PutIntoInput
  <2>. QED
    BY ONLY <2>1, InputIsTaken
<1>2. CASE InputTaken(in, K, r1)
  <2>1. /\ PsbtShape(q) /\ q.inputs[i] = a /\ i \in DOMAIN q.inputs
        /\ w = WithInput(p, i, ab)
    <3>1. q = WithInput(p, i, a) /\ i \in DOMAIN p.inputs /\ PsbtShape(p)
      BY <1>0
    <3>2. PsbtShape(q) /\ Len(q.inputs) = Len(p.inputs) /\ q.inputs[i] = a
      BY ONLY <3>1, WithInputParts
    <3>3. i \in DOMAIN q.inputs
      BY <3>1, <3>2, ShapeParts
    <3>4. WithInput(q, i, ab) = WithInput(p, i, ab)
      BY <3>1 DEF WithInput, PsbtShape
    <3>. QED
      BY <1>0, <3>2, <3>3, <3>4
  <2>2. PutIntoInput(q, i, ic, oc, L, a, r2, ab, M, w, t)
    BY <1>0, <1>1, <1>2, <2>1 DEF PutIntoInput
  <2>3. /\ InputTaken(a, L, r2) => t = Reader("input", i, M, ic, oc, w)
        /\ ~InputTaken(a, L, r2) => t = Refused
    BY ONLY <2>2, InputIsTaken
  <2>. QED
    BY <1>2, <2>1, <2>3 DEF a, ab, L, M
<1>3. CASE ~InputTaken(in, K, r1)
  BY <1>0, <1>1, <1>3, NothingAfterRefusal
<1>. QED
  BY <1>2, <1>3

LEMMA InputsTakenEither ==
    ASSUME NEW in, InputShape(in), NEW K, NEW r1, AnyInput(r1), NEW r2, AnyInput(r2),
           r1.field = "PARTIAL_SIG" => r1.value # None,
           r2.field = "PARTIAL_SIG" => r2.value # None,
           InputTaken(in, K, r1), InputTaken(NewInput(in, r1), K \cup {r1.field}, r2)
    PROVE  /\ InputTaken(in, K, r2)
           /\ InputTaken(NewInput(in, r2), K \cup {r2.field}, r1)
           /\ r1.field # r2.field \/ (r1.field \in HaveKeydata /\ r1.key # r2.key)
<1>. DEFINE a == NewInput(in, r1)
            b == NewInput(in, r2)
<1>0. a = NewInput(in, r1) /\ b = NewInput(in, r2)
  OBVIOUS
<1>. HIDE DEF a, b
<1>1. InputRecord(r1) /\ InputRecord(r2)
  BY DEF InputTaken
<1>2. TakenInto(a, in, r1) /\ TakenInto(b, in, r2)
  BY <1>0, <1>1, NewInputParts
<1>3. InputTaken(a, K \cup {r1.field}, r2)
  BY <1>0
<1>4. /\ r1.field = r2.field => r1.field \in HaveKeydata
      /\ r2.field \notin K \ HaveKeydata /\ r1.field \notin (K \cup {r2.field}) \ HaveKeydata
  BY <1>3 DEF InputTaken
<1>5. r1.key \in Keys \/ r1.field \notin HaveKeydata
  BY DEF AnyInput
<1>6. r2.key \in Keys \/ r2.field \notin HaveKeydata
  BY DEF AnyInput
<1>7. ASSUME r2.field = "PARTIAL_SIG"
      PROVE  in.sigs[r2.key] = None /\ (r1.field = "PARTIAL_SIG" => r1.key # r2.key)
  <2>1. a.sigs[r2.key] = None /\ r2.key \in Keys
    BY <1>3, <1>6, <1>7 DEF InputTaken, HaveKeydata
  <2>. QED
    BY <1>2, <2>1 DEF TakenInto
<1>8. ASSUME r2.field = "BIP32_DERIVATION"
      PROVE  r2.key \notin in.keypaths /\ (r1.field = "BIP32_DERIVATION" => r1.key # r2.key)
  <2>1. r2.key \notin a.keypaths
    BY <1>3, <1>8 DEF InputTaken
  <2>. QED
    BY <1>2, <2>1 DEF TakenInto
<1>9. InputTaken(in, K, r2)
  BY <1>1, <1>4, <1>7, <1>8 DEF InputTaken
<1>10. r1.field # r2.field \/ (r1.field \in HaveKeydata /\ r1.key # r2.key)
  BY <1>4, <1>7, <1>8 DEF HaveKeydata
<1>11. ASSUME r1.field = "PARTIAL_SIG" PROVE b.sigs[r1.key] = None
  <2>1. in.sigs[r1.key] = None /\ r1.key \in Keys
    BY <1>5, <1>11 DEF InputTaken, HaveKeydata
  <2>. QED
    BY <1>2, <1>7, <1>11, <2>1 DEF TakenInto
<1>12. ASSUME r1.field = "BIP32_DERIVATION" PROVE r1.key \notin b.keypaths
  <2>1. r1.key \notin in.keypaths
    BY <1>12 DEF InputTaken
  <2>. QED
    BY <1>2, <1>8, <1>12, <2>1 DEF TakenInto
<1>13. InputTaken(b, K \cup {r2.field}, r1)
  BY <1>1, <1>4, <1>11, <1>12 DEF InputTaken
<1>. QED
  BY <1>0, <1>9, <1>10, <1>13

LEMMA InputRecordsCommute ==
    ASSUME NEW p, PsbtShape(p), NEW i \in DOMAIN p.inputs, NEW ic, NEW oc, NEW K,
           InputShape(p.inputs[i]),
           NEW r1, AnyInput(r1), r1.field = "PARTIAL_SIG" => r1.value # None,
           NEW r2, AnyInput(r2), r2.field = "PARTIAL_SIG" => r2.value # None,
           NEW s, s = Reader("input", i, K, ic, oc, p)
    PROVE  ReadRecord(ReadRecord(s, r1), r2) = ReadRecord(ReadRecord(s, r2), r1)
<1>. DEFINE in == p.inputs[i]
            a == NewInput(in, r1)
            b == NewInput(in, r2)
            both == InputTaken(in, K, r1) /\ InputTaken(a, K \cup {r1.field}, r2)
            other == InputTaken(in, K, r2) /\ InputTaken(b, K \cup {r2.field}, r1)
            t == ReadRecord(ReadRecord(s, r1), r2)
            u == ReadRecord(ReadRecord(s, r2), r1)
            new == NewInput(a, r2)
            wen == NewInput(b, r1)
<1>1. in = p.inputs[i] /\ t = ReadRecord(ReadRecord(s, r1), r2)
      /\ u = ReadRecord(ReadRecord(s, r2), r1) /\ InputShape(in)
  OBVIOUS
<1>. HIDE DEF in, t, u
<1>2. IF both THEN t = Reader("input", i, (K \cup {r1.field}) \cup {r2.field}, ic, oc,
                              WithInput(p, i, new))
      ELSE t = Refused
  BY <1>1, InputsTaken
<1>3. IF other THEN u = Reader("input", i, (K \cup {r2.field}) \cup {r1.field}, ic, oc,
                               WithInput(p, i, wen))
      ELSE u = Refused
  BY <1>1, InputsTaken
<1>4. both => other /\ (r1.field # r2.field \/ (r1.field \in HaveKeydata /\ r1.key # r2.key))
  BY <1>1, InputsTakenEither
<1>5. other => both
  BY <1>1, InputsTakenEither
<1>6. both => new = wen
  <2>1. both => InputRecord(r1) /\ InputRecord(r2)
    BY DEF InputTaken
  <2>. QED
    BY <1>1, <1>4, <2>1, NewInputsCommute
<1>7. (K \cup {r1.field}) \cup {r2.field} = (K \cup {r2.field}) \cup {r1.field}
  OBVIOUS
<1>. HIDE DEF both, other, new, wen
<1>8. t = u
  BY <1>2, <1>3, <1>4, <1>5, <1>6, <1>7
<1>. QED
  BY <1>1, <1>8

-----------------------------------------------------------------------------
(* Two records of an output.                                               *)

LEMMA OutputsTaken ==
    ASSUME NEW p, PsbtShape(p), NEW i \in DOMAIN p.outputs, NEW ic, NEW oc, NEW K,
           NEW out, out = p.outputs[i],
           NEW r1, AnyOutput(r1), NEW r2, AnyOutput(r2), NEW t,
           t = ReadRecord(ReadRecord(Reader("output", i, K, ic, oc, p), r1), r2)
    PROVE  IF r1.field \notin K /\ r2.field \notin K \cup {r1.field}
           THEN t = Reader("output", i, (K \cup {r1.field}) \cup {r2.field}, ic, oc,
                           WithOutput(p, i, NewOutput(NewOutput(out, r1), r2)))
           ELSE t = Refused
<1>. DEFINE a == NewOutput(out, r1)
            ab == NewOutput(a, r2)
            L == K \cup {r1.field}
            M == L \cup {r2.field}
            q == WithOutput(p, i, a)
            w == WithOutput(q, i, ab)
            s1 == ReadRecord(Reader("output", i, K, ic, oc, p), r1)
<1>0. /\ a = NewOutput(out, r1) /\ ab = NewOutput(a, r2) /\ q = WithOutput(p, i, a)
      /\ L = K \cup {r1.field} /\ M = L \cup {r2.field} /\ w = WithOutput(q, i, ab)
      /\ s1 = ReadRecord(Reader("output", i, K, ic, oc, p), r1) /\ t = ReadRecord(s1, r2)
  OBVIOUS
<1>. HIDE DEF a, ab, q, s1, L, M, w
<1>1. /\ r1.field \notin K => s1 = Reader("output", i, L, ic, oc, q)
      /\ r1.field \in K => s1 = Refused
  <2>1. PutIntoOutput(p, i, ic, oc, K, out, r1, a, L, q, s1)
    BY <1>0 DEF PutIntoOutput
  <2>. QED
    BY ONLY <2>1, OutputIsTaken
<1>2. CASE r1.field \notin K
  <2>1. /\ PsbtShape(q) /\ q.outputs[i] = a /\ i \in DOMAIN q.outputs
        /\ w = WithOutput(p, i, ab)
    <3>1. q = WithOutput(p, i, a) /\ i \in DOMAIN p.outputs /\ PsbtShape(p)
      BY <1>0
    <3>2. PsbtShape(q) /\ Len(q.outputs) = Len(p.outputs) /\ q.outputs[i] = a
      BY ONLY <3>1, WithOutputParts
    <3>3. i \in DOMAIN q.outputs
      BY <3>1, <3>2, ShapeParts
    <3>4. WithOutput(q, i, ab) = WithOutput(p, i, ab)
      BY <3>1 DEF WithOutput, PsbtShape
    <3>. QED
      BY <1>0, <3>2, <3>3, <3>4
  <2>2. PutIntoOutput(q, i, ic, oc, L, a, r2, ab, M, w, t)
    BY <1>0, <1>1, <1>2, <2>1 DEF PutIntoOutput
  <2>3. /\ r2.field \notin L => t = Reader("output", i, M, ic, oc, w)
        /\ r2.field \in L => t = Refused
    BY ONLY <2>2, OutputIsTaken
  <2>. QED
    BY <1>2, <2>1, <2>3 DEF a, ab, L, M
<1>3. CASE r1.field \in K
  BY <1>0, <1>1, <1>3, NothingAfterRefusal
<1>. QED
  BY <1>2, <1>3

LEMMA OutputRecordsCommute ==
    ASSUME NEW p, PsbtShape(p), NEW i \in DOMAIN p.outputs, NEW ic, NEW oc, NEW K,
           OutputShape(p.outputs[i]), NEW r1, AnyOutput(r1), NEW r2, AnyOutput(r2),
           NEW s, s = Reader("output", i, K, ic, oc, p)
    PROVE  ReadRecord(ReadRecord(s, r1), r2) = ReadRecord(ReadRecord(s, r2), r1)
<1>. DEFINE out == p.outputs[i]
            t == ReadRecord(ReadRecord(s, r1), r2)
            u == ReadRecord(ReadRecord(s, r2), r1)
            new == NewOutput(NewOutput(out, r1), r2)
            wen == NewOutput(NewOutput(out, r2), r1)
            taken == r1.field \notin K /\ r2.field \notin K \cup {r1.field}
            other == r2.field \notin K /\ r1.field \notin K \cup {r2.field}
<1>1. out = p.outputs[i] /\ t = ReadRecord(ReadRecord(s, r1), r2)
      /\ u = ReadRecord(ReadRecord(s, r2), r1) /\ OutputShape(out)
  OBVIOUS
<1>. HIDE DEF out, t, u
<1>2. IF taken THEN t = Reader("output", i, (K \cup {r1.field}) \cup {r2.field}, ic, oc,
                               WithOutput(p, i, new))
      ELSE t = Refused
  <2>1. /\ PsbtShape(p) /\ i \in DOMAIN p.outputs /\ out = p.outputs[i]
        /\ AnyOutput(r1) /\ AnyOutput(r2)
        /\ t = ReadRecord(ReadRecord(Reader("output", i, K, ic, oc, p), r1), r2)
    BY <1>1
  <2>. QED
    BY ONLY <2>1, OutputsTaken, SMTT(30) DEF taken, new
<1>3. IF other THEN u = Reader("output", i, (K \cup {r2.field}) \cup {r1.field}, ic, oc,
                               WithOutput(p, i, wen))
      ELSE u = Refused
  BY <1>1, OutputsTaken, SMTT(30)
<1>4. r1.field # r2.field => new = wen
  <2>1. CASE r1.field = "AMOUNT" /\ r2.field = "SCRIPT"
    BY <1>1, <2>1 DEF NewOutput, OutputShape
  <2>2. CASE r1.field = "SCRIPT" /\ r2.field = "AMOUNT"
    BY <1>1, <2>2 DEF NewOutput, OutputShape
  <2>. QED
    BY <2>1, <2>2 DEF AnyOutput
<1>5. (taken <=> other) /\ (taken => r1.field # r2.field)
  OBVIOUS
<1>7. (K \cup {r1.field}) \cup {r2.field} = (K \cup {r2.field}) \cup {r1.field}
  OBVIOUS
<1>. HIDE DEF new, wen, taken, other
<1>8. t = u
  BY <1>2, <1>3, <1>4, <1>5, <1>7
<1>. QED
  BY <1>1, <1>8

LEMMA NewGlobalsCommute ==
    ASSUME NEW p, NEW r1, NEW r2, r1.field # r2.field
    PROVE  NewGlobals(NewGlobals(p, r1), r2) = NewGlobals(NewGlobals(p, r2), r1)
<1>. DEFINE a == NewGlobals(p, r1)
            b == NewGlobals(p, r2)
            ab == NewGlobals(a, r2)
            ba == NewGlobals(b, r1)
<1>1. a = NewGlobals(p, r1) /\ b = NewGlobals(p, r2)
      /\ ab = NewGlobals(a, r2) /\ ba = NewGlobals(b, r1)
  OBVIOUS
<1>. HIDE DEF a, b, ab, ba
<1>2. GlobalsInto(a, p, r1) /\ GlobalsInto(b, p, r2)
  BY <1>1, NewGlobalsParts
<1>3. GlobalsInto(ab, a, r2) /\ GlobalsInto(ba, b, r1)
  BY <1>1, NewGlobalsParts
<1>4. ab.version = ba.version
  BY <1>2, <1>3 DEF GlobalsInto
<1>5. ab.tx = ba.tx
  BY <1>2, <1>3 DEF GlobalsInto
<1>6. ab.txVersion = ba.txVersion
  BY <1>2, <1>3 DEF GlobalsInto
<1>7. ab.fallback = ba.fallback
  BY <1>2, <1>3 DEF GlobalsInto
<1>8. ab.mods = ba.mods
  BY <1>2, <1>3 DEF GlobalsInto
<1>9. ab.inputs = ba.inputs
  BY <1>2, <1>3 DEF GlobalsInto
<1>10. ab.outputs = ba.outputs
  BY <1>2, <1>3 DEF GlobalsInto
<1>11. ab = ba
  BY <1>2, <1>3, <1>4, <1>5, <1>6, <1>7, <1>8, <1>9, <1>10 DEF GlobalsInto
<1>. QED
  BY <1>11 DEF a, b, ab, ba

GlobalsTakenBoth(p, K, r1, r2) ==
    GlobalTaken(p, K, r1) /\ GlobalTaken(NewGlobals(p, r1), K \cup {r1.field}, r2)

LEMMA GlobalsTaken ==
    ASSUME NEW p, NEW ic, NEW oc, NEW K, GlobalSoFar(p, K),
           NEW r1, AnyGlobal(r1), NEW r2, AnyGlobal(r2), NEW t,
           t = ReadRecord(ReadRecord(Reader("global", 1, K, ic, oc, p), r1), r2)
    PROVE  IF GlobalsTakenBoth(p, K, r1, r2)
           THEN t = Reader("global", 1, (K \cup {r1.field}) \cup {r2.field},
                           InCountOf(InCountOf(ic, r1), r2),
                           OutCountOf(OutCountOf(oc, r1), r2),
                           NewGlobals(NewGlobals(p, r1), r2))
           ELSE t = Refused
<1>. DEFINE q == NewGlobals(p, r1)
            w == NewGlobals(q, r2)
            L == K \cup {r1.field}
            M == L \cup {r2.field}
            jc == InCountOf(ic, r1)
            kc == OutCountOf(oc, r1)
            mc == InCountOf(jc, r2)
            nc == OutCountOf(kc, r2)
            s1 == ReadRecord(Reader("global", 1, K, ic, oc, p), r1)
<1>0. /\ q = NewGlobals(p, r1) /\ w = NewGlobals(q, r2) /\ L = K \cup {r1.field}
      /\ M = L \cup {r2.field} /\ jc = InCountOf(ic, r1) /\ kc = OutCountOf(oc, r1)
      /\ mc = InCountOf(jc, r2) /\ nc = OutCountOf(kc, r2)
      /\ s1 = ReadRecord(Reader("global", 1, K, ic, oc, p), r1) /\ t = ReadRecord(s1, r2)
  OBVIOUS
<1>. HIDE DEF q, w, L, M, jc, kc, mc, nc, s1
<1>1. /\ GlobalTaken(p, K, r1) => s1 = Reader("global", 1, L, jc, kc, q)
      /\ ~GlobalTaken(p, K, r1) => s1 = Refused
  <2>1. PutIntoGlobals(p, ic, oc, K, r1, L, q, jc, kc, s1)
    BY <1>0 DEF PutIntoGlobals
  <2>. QED
    BY ONLY <2>1, GlobalIsTaken
<1>2. CASE GlobalTaken(p, K, r1)
  <2>1. GlobalSoFar(q, L)
    BY <1>0, <1>2, NewGlobalsAreGlobals
  <2>2. PutIntoGlobals(q, jc, kc, L, r2, M, w, mc, nc, t)
    BY <1>0, <1>1, <1>2, <2>1 DEF PutIntoGlobals
  <2>3. /\ GlobalTaken(q, L, r2) => t = Reader("global", 1, M, mc, nc, w)
        /\ ~GlobalTaken(q, L, r2) => t = Refused
    BY ONLY <2>2, GlobalIsTaken
  <2>. QED
    BY <1>2, <2>3 DEF q, w, L, M, jc, kc, mc, nc, GlobalsTakenBoth
<1>3. CASE ~GlobalTaken(p, K, r1)
  BY <1>0, <1>1, <1>3, NothingAfterRefusal DEF GlobalsTakenBoth
<1>. QED
  BY <1>2, <1>3

LEMMA GlobalsTakenEither ==
    ASSUME NEW p, NEW K, NEW r1, NEW r2, ~Contradict(r1, r2), GlobalsTakenBoth(p, K, r1, r2)
    PROVE  GlobalsTakenBoth(p, K, r2, r1) /\ r1.field # r2.field
<1>. DEFINE a == NewGlobals(p, r1)
            b == NewGlobals(p, r2)
<1>1. a = NewGlobals(p, r1) /\ b = NewGlobals(p, r2)
  OBVIOUS
<1>. HIDE DEF a, b
<1>2. GlobalsInto(a, p, r1) /\ GlobalsInto(b, p, r2)
  BY <1>1, NewGlobalsParts
<1>3. GlobalTaken(p, K, r1) /\ GlobalTaken(a, K \cup {r1.field}, r2)
  BY <1>1 DEF GlobalsTakenBoth
<1>4. r1.field # r2.field
  BY <1>3 DEF GlobalTaken
<1>5. GlobalTaken(p, K, r2)
  BY <1>2, <1>3 DEF GlobalTaken, GlobalsInto, Contradict
<1>6. GlobalTaken(b, K \cup {r2.field}, r1)
  BY <1>2, <1>3, <1>4 DEF GlobalTaken, GlobalsInto, Contradict
<1>. QED
  BY <1>1, <1>4, <1>5, <1>6 DEF GlobalsTakenBoth

LEMMA CountsCommute ==
    ASSUME NEW r1, NEW r2, r1.field # r2.field, NEW c
    PROVE  /\ InCountOf(InCountOf(c, r1), r2) = InCountOf(InCountOf(c, r2), r1)
           /\ OutCountOf(OutCountOf(c, r1), r2) = OutCountOf(OutCountOf(c, r2), r1)
BY DEF InCountOf, OutCountOf

LEMMA GlobalRecordsCommute ==
    ASSUME NEW p, NEW ic, NEW oc, NEW K, GlobalSoFar(p, K),
           NEW r1, AnyGlobal(r1), NEW r2, AnyGlobal(r2), ~Contradict(r1, r2),
           NEW s, s = Reader("global", 1, K, ic, oc, p)
    PROVE  ReadRecord(ReadRecord(s, r1), r2) = ReadRecord(ReadRecord(s, r2), r1)
<1>. DEFINE t == ReadRecord(ReadRecord(s, r1), r2)
            u == ReadRecord(ReadRecord(s, r2), r1)
            new == NewGlobals(NewGlobals(p, r1), r2)
            wen == NewGlobals(NewGlobals(p, r2), r1)
            ins1 == InCountOf(InCountOf(ic, r1), r2)
            ins2 == InCountOf(InCountOf(ic, r2), r1)
            outs1 == OutCountOf(OutCountOf(oc, r1), r2)
            outs2 == OutCountOf(OutCountOf(oc, r2), r1)
<1>1. /\ t = ReadRecord(ReadRecord(Reader("global", 1, K, ic, oc, p), r1), r2)
      /\ u = ReadRecord(ReadRecord(Reader("global", 1, K, ic, oc, p), r2), r1)
  OBVIOUS
<1>. HIDE DEF t, u
<1>2. IF GlobalsTakenBoth(p, K, r1, r2)
      THEN t = Reader("global", 1, (K \cup {r1.field}) \cup {r2.field}, ins1, outs1, new)
      ELSE t = Refused
  BY <1>1, GlobalsTaken
<1>3. IF GlobalsTakenBoth(p, K, r2, r1)
      THEN u = Reader("global", 1, (K \cup {r2.field}) \cup {r1.field}, ins2, outs2, wen)
      ELSE u = Refused
  BY <1>1, GlobalsTaken
<1>4. GlobalsTakenBoth(p, K, r1, r2) => GlobalsTakenBoth(p, K, r2, r1) /\ r1.field # r2.field
  BY GlobalsTakenEither
<1>5. GlobalsTakenBoth(p, K, r2, r1) => GlobalsTakenBoth(p, K, r1, r2)
  <2>1. ~Contradict(r2, r1)
    BY DEF Contradict
  <2>. QED
    BY <2>1, GlobalsTakenEither
<1>6. r1.field # r2.field => new = wen /\ ins1 = ins2 /\ outs1 = outs2
  BY NewGlobalsCommute, CountsCommute
<1>7. (K \cup {r1.field}) \cup {r2.field} = (K \cup {r2.field}) \cup {r1.field}
  OBVIOUS
<1>. HIDE DEF new, wen, ins1, ins2, outs1, outs2
<1>8. t = u
  BY <1>2, <1>3, <1>4, <1>5, <1>6, <1>7
<1>. QED
  BY <1>8 DEF t, u

(* In a map that is being read, whatever the reader has read by then, two  *)
(* records may come in either order: pull_psbt_input, pull_psbt_output and *)
(* the loop over the globals do not depend on it.                          *)
THEOREM RecordsAlwaysCommute == ReaderSpec => []RecordsCommute
<1>1. ReaderInv => RecordsCommute
  <2>. SUFFICES ASSUME ReaderInv, Reading, NEW r1 \in Records[reader.section],
                       NEW r2 \in Records[reader.section], ~Contradict(r1, r2)
                PROVE  ReadRecord(ReadRecord(reader, r1), r2)
                         = ReadRecord(ReadRecord(reader, r2), r1)
    BY DEF RecordsCommute
  <2>1. CASE InGlobals(reader)
    <3>1. AnyGlobal(r1) /\ AnyGlobal(r2)
      BY <2>1, SectionsAre, RecordsAssumption DEF AnyGlobal
    <3>2. PICK K, ic, oc, p :
             /\ reader = Reader("global", 1, K, ic, oc, p)
             /\ ic \in Nat /\ oc \in Nat /\ GlobalSoFar(p, K)
      BY <2>1 DEF InGlobals
    <3>. QED
      BY <3>1, <3>2, GlobalRecordsCommute
  <2>2. CASE InInputs(reader, loose)
    <3>1. /\ AnyInput(r1) /\ (r1.field = "PARTIAL_SIG" => r1.value # None)
          /\ AnyInput(r2) /\ (r2.field = "PARTIAL_SIG" => r2.value # None)
      BY <2>2, SectionsAre, RecordsAssumption DEF AnyInput, PlainInputFields
    <3>2. PICK at, K, ic, oc, p :
             reader = Reader("input", at, K, ic, oc, p) /\ InputsSoFar(p, at, K, loose)
      BY <2>2 DEF InInputs
    <3>3. PsbtShape(p) /\ at \in DOMAIN p.inputs /\ InputShape(p.inputs[at])
      BY <3>2, ShapeParts DEF InputsSoFar, Readable
    <3>. QED
      BY <3>1, <3>2, <3>3, InputRecordsCommute
  <2>3. CASE InOutputs(reader, loose)
    <3>1. AnyOutput(r1) /\ AnyOutput(r2)
      BY <2>3, SectionsAre, RecordsAssumption DEF AnyOutput
    <3>2. PICK at, K, ic, oc, p :
             reader = Reader("output", at, K, ic, oc, p) /\ OutputsSoFar(p, at, K, loose)
      BY <2>3 DEF InOutputs
    <3>3. PsbtShape(p) /\ at \in DOMAIN p.outputs /\ OutputShape(p.outputs[at])
      BY <3>2, ShapeParts DEF OutputsSoFar, Readable
    <3>. QED
      BY <3>1, <3>2, <3>3, OutputRecordsCommute
  <2>. QED
    BY <2>1, <2>2, <2>3, SectionsAre DEF ReaderInv, InBody, Reading, AtEnd
<1>. QED
  BY <1>1, ReaderReads, PTL
=============================================================================
