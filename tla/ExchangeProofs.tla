---------------------------- MODULE ExchangeProofs ----------------------------
(***************************************************************************)
(* Proofs about ExchangeSpec of module PsbtWorkflow: copies of one PSBT    *)
(* that are signed, sent, cloned, converted, combined and finalized apart  *)
(* stay PSBTs of one transaction.  Every signature in them is one of that  *)
(* transaction, and so is every final witness.                             *)
(***************************************************************************)
EXTENDS PsbtProofs, PsbtReaderProofs

-----------------------------------------------------------------------------
(* The outputs that are spent.                                             *)

SpendsKey(utxo, code) ==
    utxo.script = code /\ \E k \in Keys : code = P2wpkh(k)
SpendsMultisig(utxo, code) ==
    /\ utxo.script = P2wsh(code) /\ code \in WitnessScripts
    /\ \E n \in Nat, ks \in Seq(Keys) : code = Multisig(n, ks)
SpendsCsv(utxo, code) ==
    /\ utxo.script = P2wsh(code) /\ code \in WitnessScripts
    /\ \E k \in Keys, l \in Keys, b \in Nat, o \in BOOLEAN : code = Csv2of2(k, l, b, o)

Known(utxo) ==
    /\ utxo \in TxOutSet /\ CodeOf(utxo) \in Codes
    /\ \/ SpendsKey(utxo, CodeOf(utxo))
       \/ SpendsMultisig(utxo, CodeOf(utxo))
       \/ SpendsCsv(utxo, CodeOf(utxo))

LEMMA PrevoutIsKnown ==
    ASSUME PrevoutsKnown, ScriptsKnown, NEW outpoint \in DOMAIN Prevouts
    PROVE  Known(Prevouts[outpoint])
<1>. DEFINE utxo == Prevouts[outpoint]
            spk == utxo.script
<1>1. /\ utxo \in TxOutSet
      /\ \/ spk.type = "p2wpkh" /\ Range(spk.keys) \subseteq Keys
         \/ /\ spk = P2wsh(spk.of) /\ spk.of \in WitnessScripts
            /\ Range(spk.of.keys) \subseteq Keys
  BY DEF PrevoutsKnown
<1>2. spk.type = "p2wpkh" => spk = P2wpkh(spk.keys[1])
  BY DEF ScriptsKnown
<1>3. spk \in ScriptPKs
  <2>1. utxo \in AllOuts
    BY DEF AllOuts, Range
  <2>. QED
    BY <2>1 DEF ScriptPKs
<1>. SUFFICES Known(utxo)
  OBVIOUS
<1>. HIDE DEF utxo
<1>4. CASE spk.type = "p2wpkh"
  <2>1. spk = P2wpkh(spk.keys[1]) /\ CodeOf(utxo) = spk
    BY <1>2, <1>4 DEF CodeOf
  <2>2. spk.keys[1] \in Keys
    <3>1. Range(spk.keys) \subseteq Keys
      BY <1>1, <1>4 DEF P2wsh
    <3>2. spk.keys = <<spk.keys[1]>>
      BY <2>1 DEF P2wpkh
    <3>3. 1 \in DOMAIN spk.keys
      BY <3>2
    <3>. QED
      BY <3>1, <3>3 DEF Range
  <2>3. SpendsKey(utxo, CodeOf(utxo))
    BY <2>1, <2>2 DEF SpendsKey
  <2>. QED
    BY <1>1, <1>3, <2>1, <2>3 DEF Known, Codes
<1>5. CASE spk = P2wsh(spk.of) /\ spk.of \in WitnessScripts
  <2>1. CodeOf(utxo) = spk.of
    BY <1>5 DEF CodeOf, P2wsh
  <2>. DEFINE code == spk.of
  <2>2. \/ /\ code = Multisig(code.threshold, code.keys)
           /\ code.threshold \in Nat /\ code.keys \in Seq(Keys)
        \/ /\ code = Csv2of2(code.keys[1], code.keys[2], code.blocks, code.optimized)
           /\ Range(code.keys) \subseteq Keys
           /\ code.blocks \in Nat /\ code.optimized \in BOOLEAN
    BY <1>5 DEF ScriptsKnown
  <2>3. utxo.script = P2wsh(code) /\ code \in WitnessScripts
    BY <1>5
  <2>. HIDE DEF code
  <2>4. SpendsMultisig(utxo, code) \/ SpendsCsv(utxo, code)
    <3>1. CASE /\ code = Multisig(code.threshold, code.keys)
               /\ code.threshold \in Nat /\ code.keys \in Seq(Keys)
      BY <2>3, <3>1 DEF SpendsMultisig
    <3>2. CASE /\ code = Csv2of2(code.keys[1], code.keys[2], code.blocks, code.optimized)
               /\ Range(code.keys) \subseteq Keys
               /\ code.blocks \in Nat /\ code.optimized \in BOOLEAN
      <4>1. code.keys = <<code.keys[1], code.keys[2]>>
        BY <3>2 DEF Csv2of2
      <4>2. 1 \in DOMAIN code.keys /\ 2 \in DOMAIN code.keys
        BY <4>1
      <4>3. code.keys[1] \in Keys /\ code.keys[2] \in Keys
        BY <3>2, <4>2 DEF Range
      <4>. QED
        BY <2>3, <3>2, <4>3 DEF SpendsCsv
    <3>. QED
      BY <2>2, <3>1, <3>2
  <2>. QED
    BY <1>1, <2>1, <2>3, <2>4 DEF Known, Codes, code
<1>. QED
  BY <1>1, <1>4, <1>5

LEMMA SpentIsKnown ==
    ASSUME PrevoutsKnown, ScriptsKnown, NEW tx \in Txs, NEW i \in 1..Len(tx.inputs)
    PROVE  Known(Prevouts[Outpoint(tx.inputs[i])])
<1>1. tx.inputs \in Seq(TxInSet)
  BY PartsAssumption DEF TxSet
<1>2. tx.inputs[i] \in AllIns
  BY <1>1 DEF AllIns, Range
<1>3. Outpoint(tx.inputs[i]) \in DOMAIN Prevouts
  BY <1>2 DEF PrevoutsKnown
<1>. QED
  BY <1>3, PrevoutIsKnown

(* get_scriptcode finds the script of the output, or none.                 *)
LEMMA ScriptCodeIs ==
    ASSUME NEW in, Known(in.utxo), in.script \in {None, CodeOf(in.utxo)},
           ScriptCode(in) # None
    PROVE  ScriptCode(in) = CodeOf(in.utxo)
<1>1. CASE SpendsKey(in.utxo, CodeOf(in.utxo))
  <2>1. in.utxo.script.type = "p2wpkh"
    BY <1>1 DEF SpendsKey, P2wpkh
  <2>. QED
    BY <2>1 DEF ScriptCode, CodeOf
<1>2. CASE in.utxo.script = P2wsh(CodeOf(in.utxo))
  <2>1. in.utxo.script.type = "p2wsh"
    BY <1>2 DEF P2wsh
  <2>2. ScriptCode(in) = in.script
    BY <2>1 DEF ScriptCode
  <2>. QED
    BY <2>2
<1>. QED
  BY <1>1, <1>2 DEF Known, SpendsMultisig, SpendsCsv

-----------------------------------------------------------------------------
(* An input of a copy.                                                     *)

KeysOf(utxo) == Range(CodeOf(utxo).keys)
SignedBy(tx, i, utxo, sig, k) == SigOk(tx, i, utxo, CodeOf(utxo), sig, k)

CopyInput(tx, i, in) ==
    /\ in \in InputSet /\ in.time = 0 /\ in.height = 0
    /\ in.utxo = Prevouts[Outpoint(tx.inputs[i])]
    /\ in.script \in {None, CodeOf(in.utxo)}
    /\ in.keypaths \subseteq KeysOf(in.utxo)
    /\ Signers(in) \subseteq KeysOf(in.utxo)
    /\ \A k \in Signers(in) : SignedBy(tx, i, in.utxo, in.sigs[k], k)
    /\ in.final # None => WitnessOk(tx, i, in.utxo, in.final)

(* What an input is made of that has each of its parts from either of two. *)
Between(a, b, in) ==
    /\ in.time = 0 /\ in.height = 0 /\ in.utxo = a.utxo
    /\ in.script \in {None, a.script, b.script}
    /\ in.keypaths \subseteq a.keypaths \cup b.keypaths
    /\ \A k \in Keys : in.sigs[k] \in {None, a.sigs[k], b.sigs[k]}
    /\ in.final \in {None, a.final, b.final}

LEMMA BetweenIsCopy ==
    ASSUME NEW tx, NEW i, NEW a, CopyInput(tx, i, a), NEW b, CopyInput(tx, i, b),
           NEW in \in InputSet, Between(a, b, in)
    PROVE  CopyInput(tx, i, in)
<1>1. /\ a.utxo = Prevouts[Outpoint(tx.inputs[i])] /\ b.utxo = a.utxo /\ in.utxo = a.utxo
  BY DEF CopyInput, Between
<1>2. in.script \in {None, CodeOf(in.utxo)} /\ in.keypaths \subseteq KeysOf(in.utxo)
  BY <1>1 DEF CopyInput, Between
<1>3. ASSUME NEW k \in Signers(in)
      PROVE  k \in KeysOf(in.utxo) /\ SignedBy(tx, i, in.utxo, in.sigs[k], k)
  <2>1. k \in Keys /\ in.sigs[k] # None
    BY <1>3 DEF Signers
  <2>2. CASE in.sigs[k] = a.sigs[k]
    <3>1. k \in Signers(a)
      BY <2>1, <2>2 DEF Signers
    <3>. QED
      BY <1>1, <2>2, <3>1 DEF CopyInput
  <2>3. CASE in.sigs[k] = b.sigs[k]
    <3>1. k \in Signers(b)
      BY <2>1, <2>3 DEF Signers
    <3>. QED
      BY <1>1, <2>3, <3>1 DEF CopyInput
  <2>. QED
    BY <2>1, <2>2, <2>3 DEF Between
<1>4. in.final # None => WitnessOk(tx, i, in.utxo, in.final)
  BY <1>1 DEF CopyInput, Between
<1>. QED
  BY <1>1, <1>2, <1>3, <1>4 DEF CopyInput, Between

(* A hash of a signature message.                                          *)
LEMMA HashTyped ==
    ASSUME NEW tx \in TxSet, NEW i \in 1..Len(tx.inputs), NEW utxo \in TxOutSet,
           NEW code \in Codes, NEW sighash \in Sighashes
    PROVE  SignatureHash(tx, i, utxo, code, sighash) \in HashSet
<1>1. /\ tx.version \in Nat /\ tx.locktime \in Nat /\ tx.outputs \in Seq(TxOutSet)
      /\ tx.inputs \in Seq(TxInSet) /\ Len(tx.inputs) \in Nat /\ tx.inputs[i] \in TxInSet
      /\ Len(tx.outputs) \in Nat /\ i \in Nat
  BY DEF TxSet
<1>2. \A in \in TxInSet : Outpoint(in) \in Outpoints /\ in.sequence \in Nat
  BY DEF TxInSet, Outpoint, Outpoints
<1>3. (IF sighash.acp THEN None ELSE [n \in 1..Len(tx.inputs) |-> Outpoint(tx.inputs[n])])
        \in Seq(Outpoints) \cup {None}
  <2>1. [n \in 1..Len(tx.inputs) |-> Outpoint(tx.inputs[n])] \in Seq(Outpoints)
    BY <1>1, <1>2
  <2>. QED
    BY <2>1, Zenon
<1>4. (IF sighash.acp \/ sighash.type # "ALL" THEN None
       ELSE [n \in 1..Len(tx.inputs) |-> tx.inputs[n].sequence])
        \in Seq(Nat) \cup {None}
  <2>1. [n \in 1..Len(tx.inputs) |-> tx.inputs[n].sequence] \in Seq(Nat)
    BY <1>1, <1>2
  <2>. QED
    BY <2>1, Zenon
<1>5. HashedOutputs(tx, i, sighash) \in Seq(TxOutSet) \cup {None}
  BY <1>1 DEF HashedOutputs
<1>6. utxo.satoshi \in Nat
  BY DEF TxOutSet
<1>. QED
  BY <1>1, <1>2, <1>3, <1>4, <1>5, <1>6, Zenon DEF SignatureHash, HashSet

(* A signature of the transaction, as the signer makes it.                 *)
LEMMA SignatureIsGood ==
    ASSUME NEW tx \in TxSet, NEW i \in 1..Len(tx.inputs), NEW utxo, Known(utxo),
           NEW k \in Keys, NEW sighash \in Sighashes, NEW sig,
           sig = [key |-> k,
                  hash |-> SignatureHash(tx, i, utxo, CodeOf(utxo), sighash)]
    PROVE  /\ sig \in SigSet /\ sig.key = k
           /\ sig # None => SignedBy(tx, i, utxo, sig, k)
<1>. DEFINE hash == SignatureHash(tx, i, utxo, CodeOf(utxo), sighash)
<1>1. hash \in HashSet
  BY HashTyped DEF Known
<1>2. hash.sighash = sighash
  BY DEF SignatureHash
<1>. HIDE DEF hash
<1>3. sig.key = k /\ sig.hash = hash /\ sig \in SigSet
  BY <1>1 DEF SigSet, hash
<1>. QED
  BY <1>2, <1>3, Zenon DEF SignedBy, SigOk, hash

LEMMA SignedIsCopy ==
    ASSUME NEW tx, NEW i, NEW in, CopyInput(tx, i, in), NEW sig \in SigSet,
           sig.key \in Keys, sig.key \in KeysOf(in.utxo),
           sig # None => SignedBy(tx, i, in.utxo, sig, sig.key)
    PROVE  /\ CopyInput(tx, i, AddSignature(in, sig))
           /\ SameTxIn(AddSignature(in, sig), in)
<1>. DEFINE sigs == [in.sigs EXCEPT ![sig.key] = IF @ = None THEN sig ELSE @]
            new == AddSignature(in, sig)
<1>1. in \in InputSet /\ in.sigs \in [Keys -> SigSet \cup {None}]
  BY DEF CopyInput, InputSet
<1>2. /\ sigs \in [Keys -> SigSet \cup {None}]
      /\ \A k \in Keys : sigs[k] = in.sigs[k] \/ (k = sig.key /\ sigs[k] = sig)
  BY <1>1
<1>3. new = [in EXCEPT !.sigs = sigs]
  BY <1>1 DEF AddSignature
<1>. HIDE DEF sigs
<1>4. /\ new \in InputSet /\ new.sigs = sigs /\ SameTxIn(new, in)
      /\ new.time = in.time /\ new.height = in.height /\ new.utxo = in.utxo
      /\ new.script = in.script /\ new.keypaths = in.keypaths /\ new.final = in.final
  BY <1>1, <1>2, <1>3 DEF InputSet, SameTxIn
<1>. HIDE DEF new
<1>5. ASSUME NEW k \in Signers(new)
      PROVE  k \in KeysOf(in.utxo) /\ SignedBy(tx, i, in.utxo, new.sigs[k], k)
  <2>1. k \in Keys /\ sigs[k] # None
    BY <1>4, <1>5 DEF Signers
  <2>2. CASE sigs[k] = in.sigs[k]
    <3>1. k \in Signers(in)
      BY <2>1, <2>2 DEF Signers
    <3>. QED
      BY <1>4, <2>2, <3>1 DEF CopyInput
  <2>3. CASE k = sig.key /\ sigs[k] = sig
    BY <1>4, <2>1, <2>3
  <2>. QED
    BY <1>2, <2>1, <2>2, <2>3
<1>6. CopyInput(tx, i, new)
  BY <1>4, <1>5 DEF CopyInput
<1>. QED
  BY <1>4, <1>6 DEF new

(* wally_psbt_input_set_sighash, what the writer leaves out, and what the  *)
(* finalizer clears.                                                       *)
LEMMA SighashIsCopy ==
    ASSUME NEW tx, NEW i, NEW in, CopyInput(tx, i, in), NEW sighash \in Sighashes \cup {None},
           NEW new, new = [in EXCEPT !.sighash = sighash]
    PROVE  CopyInput(tx, i, new) /\ SameTxIn(new, in)
<1>1. in \in InputSet
  BY DEF CopyInput
<1>2. new \in InputSet /\ SameTxIn(new, in) /\ Between(in, in, new)
  BY <1>1 DEF InputSet, SameTxIn, Between, CopyInput
<1>. QED
  BY <1>2, BetweenIsCopy

LEMMA ClearedIsCopy ==
    ASSUME NEW tx, NEW i, NEW in, CopyInput(tx, i, in)
    PROVE  CopyInput(tx, i, Cleared(in)) /\ SameTxIn(Cleared(in), in)
<1>1. in \in InputSet /\ in.time = 0 /\ in.height = 0
  BY DEF CopyInput
<1>2. NoSigs \in [Keys -> SigSet \cup {None}] /\ \A k \in Keys : NoSigs[k] = None
  BY DEF NoSigs
<1>. DEFINE new == Cleared(in)
<1>3. /\ new \in InputSet /\ SameTxIn(new, in) /\ new.sigs = NoSigs
      /\ new.time = 0 /\ new.height = 0 /\ new.utxo = in.utxo
      /\ new.script = None /\ new.keypaths = {} /\ new.final = in.final
  BY <1>1, <1>2 DEF Cleared, InputSet, SameTxIn
<1>. HIDE DEF new
<1>4. Between(in, in, new)
  BY <1>2, <1>3 DEF Between
<1>5. CopyInput(tx, i, new)
  BY <1>3, <1>4, BetweenIsCopy
<1>. QED
  BY <1>3, <1>5 DEF new

(* combine_input and the combination of signatures.                        *)
LEMMA CombinedIsCopy ==
    ASSUME NEW tx, NEW i, NEW a, CopyInput(tx, i, a), NEW b, CopyInput(tx, i, b)
    PROVE  CopyInput(tx, i, CombineInput(a, b))
<1>. DEFINE new == CombineInput(a, b)
<1>1. a \in InputSet /\ b \in InputSet
  BY DEF CopyInput
<1>2. /\ CombineSigMap(a.sigs, b.sigs) \in [Keys -> SigSet \cup {None}]
      /\ \A k \in Keys : CombineSigMap(a.sigs, b.sigs)[k] \in {a.sigs[k], b.sigs[k]}
  BY <1>1 DEF CombineSigMap, Pick, InputSet
<1>3. /\ new.time = Pick(a.time, b.time, 0) /\ new.height = Pick(a.height, b.height, 0)
      /\ new.utxo = Pick(a.utxo, b.utxo, None)
      /\ new.script = Pick(a.script, b.script, None)
      /\ new.keypaths = a.keypaths \cup b.keypaths
      /\ new.sigs = CombineSigMap(a.sigs, b.sigs)
      /\ new.final = Pick(a.final, b.final, None)
  BY DEF CombineInput
<1>4. new \in InputSet
  <2>1. /\ a.txid \in TxIds /\ b.txid \in TxIds /\ a.index \in Nat /\ b.index \in Nat
        /\ a.sequence \in Nat /\ b.sequence \in Nat
        /\ a.time \in Nat /\ b.time \in Nat /\ a.height \in Nat /\ b.height \in Nat
        /\ a.sighash \in Sighashes \cup {None} /\ b.sighash \in Sighashes \cup {None}
        /\ a.utxo \in TxOutSet \cup {None} /\ b.utxo \in TxOutSet \cup {None}
        /\ a.script \in WitnessScripts \cup {None} /\ b.script \in WitnessScripts \cup {None}
        /\ a.keypaths \cup b.keypaths \in SUBSET Keys
        /\ a.final \in FinalSet \cup {None} /\ b.final \in FinalSet \cup {None}
    BY <1>1 DEF InputSet
  <2>2. \A S : \A x \in S, y \in S : \A unset : Pick(x, y, unset) \in S
    BY DEF Pick
  <2>3. (IF a.txid = None THEN b.index ELSE a.index) \in Nat
    BY <2>1
  <2>. QED
    BY <1>2, <2>1, <2>2, <2>3, Zenon DEF CombineInput, InputSet
<1>. HIDE DEF new
<1>5. Between(a, b, new)
  <2>1. a.utxo = b.utxo /\ a.time = 0 /\ a.height = 0 /\ b.time = 0 /\ b.height = 0
    BY DEF CopyInput
  <2>2. new.time = 0 /\ new.height = 0 /\ new.utxo = a.utxo
    BY <1>3, <2>1 DEF Pick
  <2>3. new.script \in {a.script, b.script} /\ new.final \in {a.final, b.final}
    BY <1>3 DEF Pick
  <2>4. /\ new.keypaths \subseteq a.keypaths \cup b.keypaths
        /\ \A k \in Keys : new.sigs[k] \in {a.sigs[k], b.sigs[k]}
    BY <1>2, <1>3, Zenon
  <2>. QED
    BY ONLY <2>2, <2>3, <2>4 DEF Between
<1>. QED
  BY <1>4, <1>5, BetweenIsCopy DEF new

LEMMA CombinedSigsIsCopy ==
    ASSUME NEW tx, NEW i, NEW a, CopyInput(tx, i, a), NEW b, CopyInput(tx, i, b),
           NEW new, new = [a EXCEPT !.sigs = CombineSigMap(a.sigs, b.sigs)]
    PROVE  CopyInput(tx, i, new) /\ SameTxIn(new, a)
<1>1. a \in InputSet /\ b \in InputSet /\ a.time = 0 /\ a.height = 0
  BY DEF CopyInput
<1>. DEFINE sigs == CombineSigMap(a.sigs, b.sigs)
<1>2. /\ sigs \in [Keys -> SigSet \cup {None}]
      /\ \A k \in Keys : sigs[k] \in {a.sigs[k], b.sigs[k]}
  BY <1>1 DEF CombineSigMap, Pick, InputSet
<1>. HIDE DEF sigs
<1>3. /\ new \in InputSet /\ SameTxIn(new, a) /\ new.sigs = sigs
      /\ new.time = 0 /\ new.height = 0 /\ new.utxo = a.utxo
      /\ new.script = a.script /\ new.keypaths = a.keypaths /\ new.final = a.final
  BY <1>1, <1>2 DEF InputSet, SameTxIn, sigs
<1>4. Between(a, b, new)
  BY <1>2, <1>3 DEF Between
<1>. QED
  BY <1>3, <1>4, BetweenIsCopy

-----------------------------------------------------------------------------
(* The finalizer.                                                          *)

Below(S, m) == {l \in S : l < m}

LEMMA BelowEnds ==
    ASSUME NEW N \in Nat, NEW S, S \subseteq 1..N
    PROVE  Below(S, 0) = {} /\ Below(S, N + 1) = S
<1>1. \A l \in S : ~(l < 0) /\ l < N + 1
  OBVIOUS
<1>. QED
  BY ONLY <1>1 DEF Below

LEMMA BelowGrows ==
    ASSUME NEW S, S \subseteq Nat, NEW m \in Nat
    PROVE  /\ m \in S => Below(S, m + 1) = Below(S, m) \cup {m}
           /\ m \notin S => Below(S, m + 1) = Below(S, m)
           /\ m \notin Below(S, m)
<1>1. \A l \in S : l < m + 1 <=> l < m \/ l = m
  OBVIOUS
<1>2. ~(m < m)
  OBVIOUS
<1>. QED
  BY ONLY <1>1, <1>2 DEF Below

LEMMA PositionsAreCounted ==
    ASSUME NEW N \in Nat, NEW S, S \subseteq 1..N
    PROVE  /\ IsFiniteSet(S) /\ Cardinality(S) \in Nat
           /\ \A n \in 1..Cardinality(S) : \E m \in S : Cardinality(Below(S, m)) = n - 1
<1>1. IsFiniteSet(S)
  <2>1. IsFiniteSet(1..N)
    BY FS_Interval
  <2>. QED
    BY <2>1, FS_Subset
<1>2. \A m : IsFiniteSet(Below(S, m)) /\ Cardinality(Below(S, m)) \in Nat
  <2>1. \A m : Below(S, m) \subseteq S
    BY DEF Below
  <2>2. \A m : IsFiniteSet(Below(S, m))
    BY <1>1, <2>1, FS_Subset
  <2>. QED
    BY <2>2, FS_CardinalityType
<1>0. S \subseteq Nat
  OBVIOUS
<1>. DEFINE Seen(M) == \A n \in 1..Cardinality(Below(S, M)) :
                          \E m \in S : Cardinality(Below(S, m)) = n - 1
            T == {M \in Nat : Seen(M)}
<1>3. Seen(0)
  <2>1. Below(S, 0) = {}
    BY BelowEnds
  <2>2. Cardinality(Below(S, 0)) = 0
    BY <2>1, FS_EmptySet
  <2>. QED
    BY <2>2
<1>4. ASSUME NEW M \in Nat, Seen(M) PROVE Seen(M + 1)
  <2>. DEFINE old == Below(S, M)
              new == Below(S, M + 1)
  <2>. SUFFICES ASSUME NEW n \in 1..Cardinality(new)
                PROVE  \E m \in S : Cardinality(Below(S, m)) = n - 1
    OBVIOUS
  <2>0. /\ M \in S => new = old \cup {M}
        /\ M \notin S => new = old
        /\ M \notin old
    BY <1>0, BelowGrows
  <2>3. \A l \in 1..Cardinality(old) : \E m \in S : Cardinality(Below(S, m)) = l - 1
    BY <1>4
  <2>4. IsFiniteSet(old) /\ Cardinality(old) \in Nat
    BY <1>2
  <2>. HIDE DEF new
  <2>1. CASE M \in S
    <3>. SUFFICES ASSUME n \notin 1..Cardinality(old)
                  PROVE  Cardinality(old) = n - 1
      BY <2>1, <2>3
    <3>. HIDE DEF old
    <3>1. new = old \cup {M}
      BY <2>0, <2>1
    <3>2. Cardinality(new) = Cardinality(old) + 1
      BY <2>0, <2>4, <3>1, FS_AddElement
    <3>. QED
      BY <2>4, <3>2
  <2>2. CASE M \notin S
    <3>1. new = old
      BY <2>0, <2>2
    <3>. QED
      BY <2>3, <3>1
  <2>. QED
    BY <2>1, <2>2
<1>. HIDE DEF Seen
<1>5. N + 1 \in T
  <2>1. 0 \in T /\ \A M \in Nat : M \in T => M + 1 \in T
    BY <1>3, <1>4
  <2>. HIDE DEF T
  <2>. QED
    BY <2>1, Totals!NaturalInduction
<1>6. Below(S, N + 1) = S
  BY BelowEnds
<1>. QED
  BY <1>1, <1>2, <1>5, <1>6 DEF Seen

LEMMA NthInOrder ==
    ASSUME NEW N \in Nat, NEW S, S \subseteq 1..N
    PROVE  /\ \A n \in 1..Cardinality(S) : NthOf(S, n) \in S
           /\ \A m \in 1..Cardinality(S), n \in 1..Cardinality(S) :
                m < n => NthOf(S, m) < NthOf(S, n)
<1>1. ASSUME NEW n \in 1..Cardinality(S)
      PROVE  NthOf(S, n) \in S /\ Cardinality(Below(S, NthOf(S, n))) = n - 1
  <2>1. \E m \in S : Cardinality({l \in S : l < m}) = n - 1
    BY PositionsAreCounted DEF Below
  <2>. QED
    BY <2>1 DEF NthOf, Below
<1>2. IsFiniteSet(S) /\ Cardinality(S) \in Nat
  BY PositionsAreCounted
<1>3. ASSUME NEW m \in 1..Cardinality(S), NEW n \in 1..Cardinality(S), m < n,
             ~(NthOf(S, m) < NthOf(S, n))
      PROVE  FALSE
  <2>1. NthOf(S, m) \in S /\ NthOf(S, n) \in S
    BY <1>1
  <2>2. \A l \in S : l < NthOf(S, n) => l < NthOf(S, m)
    <3>1. \A l \in S : l \in Int
      OBVIOUS
    <3>2. \A x \in Int, y \in Int, l \in Int : ~(x < y) /\ l < y => l < x
      OBVIOUS
    <3>. QED
      BY ONLY <1>3, <2>1, <3>1, <3>2
  <2>3. Below(S, NthOf(S, n)) \subseteq Below(S, NthOf(S, m))
    BY <2>2 DEF Below
  <2>4. IsFiniteSet(Below(S, NthOf(S, m)))
    <3>1. Below(S, NthOf(S, m)) \subseteq S
      BY DEF Below
    <3>. QED
      BY <1>2, <3>1, FS_Subset
  <2>5. Cardinality(Below(S, NthOf(S, n))) <= Cardinality(Below(S, NthOf(S, m)))
    BY <2>3, <2>4, FS_Subset
  <2>6. /\ Cardinality(Below(S, NthOf(S, n))) = n - 1
        /\ Cardinality(Below(S, NthOf(S, m))) = m - 1
    BY <1>1
  <2>7. m \in Int /\ n \in Int
    BY <1>2
  <2>. QED
    BY ONLY <1>3, <2>5, <2>6, <2>7
<1>. QED
  BY <1>1, <1>3

LEMMA MultisigIsMet ==
    ASSUME NEW tx, NEW i, NEW in, CopyInput(tx, i, in),
           NEW code, code = CodeOf(in.utxo), SpendsMultisig(in.utxo, code),
           NEW final, final = FinalizeMultisig(in, code), final # None
    PROVE  final \in FinalSet /\ WitnessOk(tx, i, in.utxo, final)
<1>1. PICK n \in Nat, ks \in Seq(Keys) : code = Multisig(n, ks)
  BY DEF SpendsMultisig
<1>2. code.type = "multisig" /\ code.threshold = n /\ code.keys = ks
  BY <1>1 DEF Multisig
<1>3. in.utxo.script = P2wsh(code) /\ code \in Codes
  BY DEF SpendsMultisig, Codes
<1>. DEFINE N == Len(ks)
            S == {m \in 1..N : ks[m] \in Signers(in)}
            sigs == [m \in 1..n |-> in.sigs[ks[NthOf(S, m)]]]
            f == [m \in 1..n |-> NthOf(S, m)]
<1>4. N \in Nat /\ S \subseteq 1..N
  OBVIOUS
<1>5. SignedPositions(in, code) = S
  BY <1>2 DEF SignedPositions
<1>6. ~(Cardinality(S) < n) /\ final = Witness(code, sigs)
  BY <1>2, <1>5 DEF FinalizeMultisig
<1>7. \A m \in S : ks[m] \in Signers(in)
  OBVIOUS
<1>. HIDE DEF S
<1>8. Cardinality(S) \in Nat
  BY <1>4, PositionsAreCounted
<1>9. \A m \in 1..n : m \in 1..Cardinality(S)
  BY <1>6, <1>8
<1>10. /\ \A m \in 1..n : NthOf(S, m) \in S
       /\ \A l \in 1..n, m \in 1..n : l < m => NthOf(S, l) < NthOf(S, m)
  <2>1. /\ \A m \in 1..Cardinality(S) : NthOf(S, m) \in S
        /\ \A l \in 1..Cardinality(S), m \in 1..Cardinality(S) :
             l < m => NthOf(S, l) < NthOf(S, m)
    BY <1>4, NthInOrder
  <2>. QED
    BY <1>9, <2>1
<1>11. /\ f \in [1..n -> 1..N]
       /\ \A l \in 1..n, m \in 1..n : l < m => f[l] < f[m]
  BY <1>4, <1>10
<1>12. \A m \in 1..n : f[m] = NthOf(S, m)
  OBVIOUS
<1>. HIDE DEF f
<1>13. \A m \in 1..n : /\ sigs[m] = in.sigs[ks[f[m]]]
                       /\ ks[f[m]] \in Signers(in) /\ ks[f[m]] \in Keys
  BY <1>7, <1>10, <1>12 DEF Signers
<1>14. \A m \in 1..n : /\ sigs[m] \in SigSet \cup {None}
                       /\ SigOk(tx, i, in.utxo, code, sigs[m], ks[f[m]])
  BY <1>13 DEF CopyInput, InputSet, SignedBy
<1>15. sigs \in Seq(SigSet \cup {None}) /\ Len(sigs) = n
  BY <1>14
<1>. HIDE DEF sigs
<1>16. final \in FinalSet
  BY <1>3, <1>6, <1>15 DEF Witness, FinalSet
<1>17. MultisigOk(tx, i, in.utxo, code, sigs)
  <2>1. f \in [1..Len(sigs) -> 1..Len(code.keys)]
    BY <1>2, <1>11, <1>15
  <2>2. \A m, l \in 1..Len(sigs) : m < l => f[m] < f[l]
    BY <1>11, <1>15
  <2>3. \A m \in 1..Len(sigs) : SigOk(tx, i, in.utxo, code, sigs[m], code.keys[f[m]])
    BY <1>2, <1>14, <1>15
  <2>. QED
    BY <1>2, <1>15, <2>1, <2>2, <2>3 DEF MultisigOk
<1>18. final.script = code /\ final.sigs = sigs
  BY <1>6 DEF Witness
<1>19. WitnessOk(tx, i, in.utxo, final)
  BY <1>2, <1>3, <1>17, <1>18, "multisig" # "p2wpkh" DEF WitnessOk
<1>. QED
  BY <1>16, <1>19

LEMMA KeyIsMet ==
    ASSUME NEW tx, NEW i, NEW in, CopyInput(tx, i, in),
           NEW code, code = CodeOf(in.utxo), code \in Codes, SpendsKey(in.utxo, code),
           NEW final, final = FinalizeP2wpkh(in), final # None
    PROVE  final \in FinalSet /\ WitnessOk(tx, i, in.utxo, final)
<1>1. PICK k \in Keys : code = P2wpkh(k)
  BY DEF SpendsKey
<1>2. code.type = "p2wpkh" /\ code.keys = <<k>> /\ in.utxo.script = code
  BY <1>1 DEF P2wpkh, SpendsKey
<1>3. Cardinality(Signers(in)) = 1
  BY DEF FinalizeP2wpkh
<1>4. Signers(in) # {}
  BY <1>3, FS_EmptySet
<1>. DEFINE l == CHOOSE l \in Signers(in) : TRUE
<1>5. l \in Signers(in)
  BY <1>4
<1>6. final = Witness(code, <<in.sigs[l]>>)
  BY <1>2, <1>3 DEF FinalizeP2wpkh
<1>. HIDE DEF l
<1>7. l = k /\ k \in Signers(in)
  <2>1. KeysOf(in.utxo) = {k}
    BY <1>2 DEF KeysOf, Range
  <2>. QED
    BY <1>5, <2>1 DEF CopyInput
<1>8. in.sigs[k] \in SigSet \cup {None} /\ SigOk(tx, i, in.utxo, code, in.sigs[k], k)
  BY <1>7 DEF CopyInput, InputSet, SignedBy
<1>. DEFINE sigs == <<in.sigs[k]>>
<1>9. sigs \in Seq(SigSet \cup {None}) /\ Len(sigs) = 1 /\ sigs[1] = in.sigs[k]
  BY <1>8
<1>10. final.script = code /\ final.sigs = sigs
  BY <1>6, <1>7 DEF Witness
<1>11. final \in FinalSet
  BY <1>6, <1>7, <1>9 DEF Witness, FinalSet
<1>12. code.keys[1] = k
  BY <1>2
<1>. HIDE DEF sigs
<1>13. WitnessOk(tx, i, in.utxo, final)
  BY <1>2, <1>8, <1>9, <1>10, <1>12 DEF WitnessOk
<1>. QED
  BY <1>11, <1>13

(* The version and the sequence the finalizer goes by.                     *)
LocksOf(tx, p, i) ==
    TxVersion(p) = tx.version /\ SequenceOf(p, i) = tx.inputs[i].sequence

LEMMA CsvIsMet ==
    ASSUME NEW tx, NEW p, NEW i, LocksOf(tx, p, i), NEW in, in = p.inputs[i],
           CopyInput(tx, i, in),
           NEW code, code = CodeOf(in.utxo), SpendsCsv(in.utxo, code),
           NEW final, final = FinalizeCsv2of2(p, i, code), final # None
    PROVE  final \in FinalSet /\ WitnessOk(tx, i, in.utxo, final)
<1>1. PICK k \in Keys, l \in Keys, b \in Nat, o \in BOOLEAN : code = Csv2of2(k, l, b, o)
  BY DEF SpendsCsv
<1>2. /\ code.type = "csv2of2" /\ code.keys = <<k, l>>
      /\ code.blocks = b /\ code.optimized = o
  BY <1>1 DEF Csv2of2
<1>3. in.utxo.script = P2wsh(code) /\ code \in Codes
  BY DEF SpendsCsv, Codes
<1>4. code.keys[1] = k /\ code.keys[2] = l
  BY <1>2
<1>. DEFINE expired == CsvOk(tx, i, code.blocks)
            first == in.sigs[k]
            last == in.sigs[l]
<1>5. expired <=> TxVersion(p) >= 2 /\ CsvExpired(p, i, code.blocks)
  BY DEF LocksOf, CsvOk, CsvExpired
<1>6. /\ k \in Signers(in) => /\ first \in SigSet
                             /\ SigOk(tx, i, in.utxo, code, first, k)
      /\ l \in Signers(in) => /\ last \in SigSet
                             /\ SigOk(tx, i, in.utxo, code, last, l)
  BY DEF CopyInput, InputSet, SignedBy, Signers
<1>. HIDE DEF expired, first, last
<1>7. \/ /\ expired /\ code.optimized /\ k \in Signers(in)
         /\ final = Witness(code, <<None, first>>)
      \/ /\ expired /\ ~code.optimized /\ l \in Signers(in)
         /\ final = Witness(code, <<last>>)
      \/ /\ k \in Signers(in) /\ l \in Signers(in)
         /\ final = Witness(code, <<last, first>>)
  BY <1>4, <1>5, Zenon DEF FinalizeCsv2of2, first, last
<1>8. ASSUME NEW sigs \in Seq(SigSet \cup {None}), final = Witness(code, sigs),
             Csv2of2Ok(tx, i, in.utxo, code, sigs)
      PROVE  final \in FinalSet /\ WitnessOk(tx, i, in.utxo, final)
  <2>1. final \in FinalSet /\ final.script = code /\ final.sigs = sigs
    BY <1>3, <1>8 DEF Witness, FinalSet
  <2>. QED
    BY <1>2, <1>3, <1>8, <2>1 DEF WitnessOk
<1>9. CASE /\ expired /\ code.optimized /\ k \in Signers(in)
           /\ final = Witness(code, <<None, first>>)
  <2>. DEFINE sigs == <<None, first>>
  <2>1. /\ sigs \in Seq(SigSet \cup {None}) /\ Len(sigs) = 2
        /\ sigs[1] = None /\ sigs[2] = first
    BY <1>6, <1>9
  <2>. HIDE DEF sigs
  <2>2. Csv2of2Ok(tx, i, in.utxo, code, sigs)
    BY <1>4, <1>6, <1>9, <2>1 DEF Csv2of2Ok, expired
  <2>. QED
    BY <1>8, <1>9, <2>1, <2>2 DEF sigs
<1>10. CASE /\ expired /\ ~code.optimized /\ l \in Signers(in)
            /\ final = Witness(code, <<last>>)
  <2>. DEFINE sigs == <<last>>
  <2>1. sigs \in Seq(SigSet \cup {None}) /\ Len(sigs) = 1 /\ sigs[1] = last
    BY <1>6, <1>10
  <2>. HIDE DEF sigs
  <2>2. Csv2of2Ok(tx, i, in.utxo, code, sigs)
    BY <1>4, <1>6, <1>10, <2>1 DEF Csv2of2Ok, expired
  <2>. QED
    BY <1>8, <1>10, <2>1, <2>2 DEF sigs
<1>11. CASE /\ k \in Signers(in) /\ l \in Signers(in)
            /\ final = Witness(code, <<last, first>>)
  <2>. DEFINE sigs == <<last, first>>
  <2>1. /\ sigs \in Seq(SigSet \cup {None}) /\ Len(sigs) = 2
        /\ sigs[1] = last /\ sigs[2] = first
    BY <1>6, <1>11
  <2>. HIDE DEF sigs
  <2>2. Csv2of2Ok(tx, i, in.utxo, code, sigs)
    BY <1>4, <1>6, <1>11, <2>1 DEF Csv2of2Ok
  <2>. QED
    BY <1>8, <1>11, <2>1, <2>2 DEF sigs
<1>. QED
  BY <1>7, <1>9, <1>10, <1>11

LEMMA FinalIsMet ==
    ASSUME NEW tx, NEW p, NEW i, LocksOf(tx, p, i), NEW in, in = p.inputs[i],
           CopyInput(tx, i, in), Known(in.utxo),
           NEW final, final = FinalWitness(p, i), final # None
    PROVE  final \in FinalSet /\ WitnessOk(tx, i, in.utxo, final)
<1>. DEFINE code == CodeOf(in.utxo)
<1>1. SpentScript(in) \in {None, code, in.utxo.script}
  BY DEF SpentScript, CopyInput
<1>. HIDE DEF code
<1>2. CASE SpendsKey(in.utxo, code)
  <2>1. SpentScript(in).type = "p2wpkh" \/ SpentScript(in) = None
    BY <1>1, <1>2 DEF SpendsKey, P2wpkh
  <2>2. final = FinalizeP2wpkh(in)
    BY <2>1 DEF FinalWitness
  <2>. QED
    BY <1>2, <2>2, KeyIsMet DEF Known, code
<1>3. CASE SpendsMultisig(in.utxo, code)
  <2>1. code.type = "multisig" /\ in.utxo.script.type = "p2wsh"
    BY <1>3 DEF SpendsMultisig, Multisig, P2wsh
  <2>2. final = FinalizeMultisig(in, code)
    BY <1>1, <2>1 DEF FinalWitness
  <2>. QED
    BY <1>3, <2>2, MultisigIsMet DEF code
<1>4. CASE SpendsCsv(in.utxo, code)
  <2>1. code.type = "csv2of2" /\ in.utxo.script.type = "p2wsh"
    BY <1>4 DEF SpendsCsv, Csv2of2, P2wsh
  <2>2. final = FinalizeCsv2of2(p, i, code)
    BY <1>1, <2>1 DEF FinalWitness
  <2>. QED
    BY <1>4, <2>2, CsvIsMet DEF code
<1>. QED
  BY <1>2, <1>3, <1>4 DEF Known, code

LEMMA FinalizedIsCopy ==
    ASSUME NEW tx, NEW p, NEW i, LocksOf(tx, p, i),
           CopyInput(tx, i, p.inputs[i]), Known(p.inputs[i].utxo), NEW clear \in BOOLEAN
    PROVE  /\ CopyInput(tx, i, FinalizeInput(p, i, clear))
           /\ SameTxIn(FinalizeInput(p, i, clear), p.inputs[i])
<1>. DEFINE in == p.inputs[i]
            final == IF IsFinalized(in) THEN in.final ELSE FinalWitness(p, i)
            done == [in EXCEPT !.final = final]
<1>1. FinalizeInput(p, i, clear)
        = IF final = None THEN in ELSE IF clear THEN Cleared(done) ELSE done
  BY DEF FinalizeInput
<1>2. final # None => final \in FinalSet /\ WitnessOk(tx, i, in.utxo, final)
  <2>1. CASE IsFinalized(in)
    BY <2>1 DEF IsFinalized, CopyInput, InputSet
  <2>2. CASE ~IsFinalized(in)
    BY <2>2, FinalIsMet
  <2>. QED
    BY <2>1, <2>2
<1>3. in \in InputSet
  BY DEF CopyInput
<1>. HIDE DEF final
<1>4. final # None => /\ done \in InputSet /\ SameTxIn(done, in) /\ done.final = final
                      /\ done.time = in.time /\ done.height = in.height
                      /\ done.utxo = in.utxo /\ done.script = in.script
                      /\ done.keypaths = in.keypaths /\ done.sigs = in.sigs
  BY <1>2, <1>3 DEF InputSet, SameTxIn
<1>. HIDE DEF done
<1>5. final # None => CopyInput(tx, i, done)
  BY <1>2, <1>4 DEF CopyInput, Signers
<1>6. final # None => CopyInput(tx, i, Cleared(done)) /\ SameTxIn(Cleared(done), done)
  BY <1>5, ClearedIsCopy
<1>7. SameTxIn(in, in)
  BY DEF SameTxIn
<1>. QED
  BY <1>1, <1>4, <1>5, <1>6, <1>7 DEF SameTxIn

-----------------------------------------------------------------------------
(* A copy of a PSBT of tx.                                                 *)

Shell(tx, p) ==
    /\ p.version = 0 => /\ p.tx = tx
                        /\ \A n \in 1..Len(p.outputs) : p.outputs[n] = EmptyOutput
    /\ p.version = 2 => /\ p.tx = None /\ p.txVersion = tx.version
                        /\ \/ p.fallback = tx.locktime
                           \/ p.fallback = None /\ tx.locktime = 0
                        /\ p.outputs = tx.outputs
Placed(in, txin) ==
    in.txid = txin.txid /\ in.index = txin.index /\ in.sequence = txin.sequence

Copy(tx, p) ==
    /\ p \in PsbtSet /\ p.version \in Versions /\ Shell(tx, p)
    /\ Len(p.inputs) = Len(tx.inputs) /\ Len(p.outputs) = Len(tx.outputs)
    /\ \A i \in 1..Len(p.inputs) :
        /\ CopyInput(tx, i, p.inputs[i])
        /\ p.version = 2 => Placed(p.inputs[i], tx.inputs[i])

(* Only the inputs of p change.                                            *)
NewInputs(tx, p, ins) ==
    /\ ins = [n \in 1..Len(p.inputs) |-> ins[n]]
    /\ \A n \in 1..Len(p.inputs) :
        CopyInput(tx, n, ins[n]) /\ SameTxIn(ins[n], p.inputs[n])

LEMMA WithInputsIsCopy ==
    ASSUME NEW tx, NEW p, Copy(tx, p), NEW ins, NewInputs(tx, p, ins)
    PROVE  Copy(tx, [p EXCEPT !.inputs = ins])
<1>. DEFINE q == [p EXCEPT !.inputs = ins]
<1>1. p \in PsbtSet /\ p.inputs \in Seq(InputSet) /\ Len(p.inputs) \in Nat
  BY DEF Copy, PsbtSet
<1>2. ins \in Seq(InputSet) /\ Len(ins) = Len(p.inputs)
  <2>1. \A n \in 1..Len(p.inputs) : ins[n] \in InputSet
    BY DEF CopyInput, NewInputs
  <2>. QED
    BY <1>1, <2>1 DEF NewInputs
<1>3. /\ q \in PsbtSet /\ q.inputs = ins /\ q.version = p.version /\ q.tx = p.tx
      /\ q.txVersion = p.txVersion /\ q.fallback = p.fallback /\ q.outputs = p.outputs
  BY <1>1, <1>2 DEF PsbtSet
<1>. HIDE DEF q
<1>4. Shell(tx, q)
  BY <1>3 DEF Copy, Shell
<1>5. \A n \in 1..Len(q.inputs) :
        /\ CopyInput(tx, n, q.inputs[n])
        /\ q.version = 2 => Placed(q.inputs[n], tx.inputs[n])
  BY <1>2, <1>3, ZenonT(60) DEF Copy, Placed, SameTxIn, NewInputs
<1>. QED
  BY <1>2, <1>3, <1>4, <1>5 DEF Copy, q

LEMMA OneInputIsCopy ==
    ASSUME NEW tx, NEW p, Copy(tx, p), NEW i \in 1..Len(p.inputs),
           NEW in, CopyInput(tx, i, in), SameTxIn(in, p.inputs[i])
    PROVE  Copy(tx, [p EXCEPT !.inputs = [p.inputs EXCEPT ![i] = in]])
<1>. DEFINE ins == [p.inputs EXCEPT ![i] = in]
<1>1. p.inputs \in Seq(InputSet) /\ Len(p.inputs) \in Nat
  BY DEF Copy, PsbtSet
<1>2. ins = [n \in 1..Len(p.inputs) |-> ins[n]]
  BY <1>1
<1>3. \A n \in 1..Len(p.inputs) :
        CopyInput(tx, n, ins[n]) /\ SameTxIn(ins[n], p.inputs[n])
  BY <1>1 DEF Copy, SameTxIn
<1>. HIDE DEF ins
<1>4. NewInputs(tx, p, ins)
  BY <1>2, <1>3 DEF NewInputs
<1>5. Copy(tx, [p EXCEPT !.inputs = ins])
  BY <1>4, WithInputsIsCopy
<1>. QED
  BY <1>5 DEF ins

(* Every copy builds tx.                                                   *)
LEMMA CopyBuilds ==
    ASSUME AmountsFit, NEW tx \in Txs, NEW p, Copy(tx, p)
    PROVE  /\ IsValid(p) /\ CanBuildTx(p) /\ BuildTx(p) = tx
           /\ Inputs(p) = 1..Len(p.inputs) /\ (p.version = 0 => p.tx # None)
<1>1. tx \in TxSet /\ tx # None
  BY PartsAssumption, NoneIsNoTx
<1>2. /\ tx.version \in Nat /\ tx.locktime \in Nat
      /\ tx.inputs \in Seq(TxInSet) /\ tx.outputs \in Seq(TxOutSet)
      /\ tx = [version |-> tx.version, locktime |-> tx.locktime,
               inputs |-> tx.inputs, outputs |-> tx.outputs]
  BY <1>1 DEF TxSet
<1>3. /\ p \in PsbtSet /\ p.version \in {0, 2} /\ p.inputs \in Seq(InputSet)
      /\ Len(p.inputs) = Len(tx.inputs) /\ Len(p.outputs) = Len(tx.outputs)
      /\ Len(p.inputs) \in Nat
  BY DEF Copy, PsbtSet
<1>4. CASE p.version = 0
  BY <1>1, <1>3, <1>4 DEF Copy, Shell, IsValid, CanBuildTx, BuildTx, Inputs
<1>5. CASE p.version = 2
  <2>1. /\ p.tx = None /\ p.txVersion = tx.version /\ p.outputs = tx.outputs
        /\ p.fallback = tx.locktime \/ (p.fallback = None /\ tx.locktime = 0)
    BY <1>5 DEF Copy, Shell
  <2>2. GetLocktime(p) = tx.locktime
    <3>1. NoLocks(p)
      BY DEF Copy, CopyInput, NoLocks
    <3>2. GetLocktime(p) = IF p.fallback # None THEN p.fallback ELSE 0
      BY <1>3, <3>1, LocktimeIsFallback
    <3>. QED
      BY <1>2, <2>1, <3>2, NoneAssumption
  <2>3. CanAddAll(p.outputs)
    <3>1. tx.outputs \in Seq(SureOutput)
      BY OutputsAreSure
    <3>2. Len(tx.outputs) <= MaxOutputs
      BY DEF AmountsFit
    <3>. QED
      BY <2>1, <3>1, <3>2, AllAreAdded
  <2>4. \A n \in 1..Len(tx.outputs) :
          /\ tx.outputs[n] \in TxOutSet /\ tx.outputs[n].satoshi # None
          /\ TxOut(tx.outputs[n].script, tx.outputs[n].satoshi) = tx.outputs[n]
    <3>1. \A out \in TxOutSet : /\ out.satoshi # None
                                /\ TxOut(out.script, out.satoshi) = out
      BY NoneAssumption DEF TxOutSet, TxOut
    <3>2. \A n \in 1..Len(tx.outputs) : tx.outputs[n] \in TxOutSet
      BY <1>2
    <3>. QED
      BY <3>1, <3>2
  <2>5. CanBuildTx(p) /\ IsValid(p)
    BY <1>2, <1>5, <2>1, <2>2, <2>3, <2>4, NoneAssumption DEF CanBuildTx, IsValid
  <2>. DEFINE ins == [n \in 1..Len(p.inputs) |->
                       TxIn(p.inputs[n].txid, p.inputs[n].index, p.inputs[n].sequence)]
              outs == [n \in 1..Len(p.outputs) |->
                        TxOut(p.outputs[n].script, p.outputs[n].satoshi)]
  <2>6. ins = tx.inputs
    <3>1. \A n \in 1..Len(tx.inputs) : ins[n] = tx.inputs[n] /\ ins[n] \in TxInSet
      <4>1. \A in \in TxInSet : TxIn(in.txid, in.index, in.sequence) = in
        BY DEF TxInSet, TxIn
      <4>2. \A n \in 1..Len(tx.inputs) : tx.inputs[n] \in TxInSet
        BY <1>2
      <4>3. \A n \in 1..Len(tx.inputs) : Placed(p.inputs[n], tx.inputs[n])
        BY <1>3, <1>5 DEF Copy
      <4>. QED
        BY <1>3, <4>1, <4>2, <4>3 DEF Placed
    <3>2. ins \in [1..Len(p.inputs) -> TxInSet]
      BY <1>3, <3>1
    <3>. HIDE DEF ins
    <3>. QED
      BY <1>2, <1>3, <3>1, <3>2, SameSequence
  <2>7. outs = tx.outputs
    <3>1. \A n \in 1..Len(tx.outputs) : outs[n] = tx.outputs[n] /\ outs[n] \in TxOutSet
      BY <2>1, <2>4
    <3>2. outs \in [1..Len(tx.outputs) -> TxOutSet]
      BY <1>3, <3>1
    <3>. HIDE DEF outs
    <3>. QED
      BY <1>2, <3>1, <3>2, SameSequence
  <2>8. BuildTx(p) = Tx(p.txVersion, GetLocktime(p), ins, outs)
    BY <1>5 DEF BuildTx
  <2>. HIDE DEF ins, outs
  <2>9. BuildTx(p) = tx
    BY <1>2, <2>1, <2>2, <2>6, <2>7, <2>8 DEF Tx
  <2>. QED
    BY <1>5, <2>5, <2>9 DEF Inputs
<1>. QED
  BY <1>3, <1>4, <1>5

-----------------------------------------------------------------------------
(* What the holders of the copies do to them.                              *)

LEMMA SpendsKnownOutput ==
    ASSUME PrevoutsKnown, ScriptsKnown, NEW tx \in Txs, NEW p, Copy(tx, p),
           NEW i \in 1..Len(p.inputs)
    PROVE  Known(p.inputs[i].utxo) /\ i \in 1..Len(tx.inputs) /\ CopyInput(tx, i, p.inputs[i])
<1>1. Len(p.inputs) = Len(tx.inputs) /\ CopyInput(tx, i, p.inputs[i])
  BY DEF Copy
<1>2. Known(Prevouts[Outpoint(tx.inputs[i])])
  BY <1>1, SpentIsKnown
<1>. QED
  BY <1>1, <1>2 DEF CopyInput

LEMMA SigningIsCopy ==
    ASSUME AmountsFit, PrevoutsKnown, ScriptsKnown, NEW tx \in Txs, NEW p, Copy(tx, p),
           NEW k \in Keys
    PROVE  Copy(tx, SignBip32(p, k))
<1>. DEFINE wanted == {n \in 1..Len(p.inputs) : SignsInput(p.inputs[n], k)}
            failed == {n \in wanted : ScriptCode(p.inputs[n]) = None}
            signed == {n \in wanted : \A m \in failed : n < m}
            type(in) == IF in.sighash = None THEN SighashAll ELSE in.sighash
            new(n) == IF n \in signed
                      THEN AddSignature(p.inputs[n], Sign(p, n, k, type(p.inputs[n])))
                      ELSE p.inputs[n]
            ins == [n \in 1..Len(p.inputs) |-> new(n)]
<1>1. SignBip32(p, k) = [p EXCEPT !.inputs = ins]
  BY DEF SignBip32
<1>2. ASSUME NEW n \in 1..Len(p.inputs)
      PROVE  CopyInput(tx, n, new(n)) /\ SameTxIn(new(n), p.inputs[n])
  <2>. DEFINE in == p.inputs[n]
              sighash == type(in)
              sig == Sign(p, n, k, sighash)
  <2>1. Known(in.utxo) /\ n \in 1..Len(tx.inputs) /\ CopyInput(tx, n, in)
    BY SpendsKnownOutput
  <2>2. CASE n \notin signed
    BY <2>1, <2>2 DEF SameTxIn
  <2>3. CASE n \in signed
    <3>1. SignsInput(in, k) /\ ScriptCode(in) # None
      <4>1. n \in wanted /\ ~(n < n)
        BY <2>3
      <4>2. n \notin failed
        BY <2>3, <4>1
      <4>. QED
        BY <4>1, <4>2
    <3>2. ScriptCode(in) = CodeOf(in.utxo)
      BY <2>1, <3>1, ScriptCodeIs DEF CopyInput
    <3>3. k \in KeysOf(in.utxo)
      BY <2>1, <3>1 DEF SignsInput, CopyInput
    <3>4. sighash \in Sighashes
      <4>1. in.sighash \in Sighashes \cup {None}
        BY <2>1 DEF CopyInput, InputSet
      <4>. QED
        BY <4>1 DEF Sighashes, SighashAll, Sighash
    <3>5. BuildTx(p) = tx
      BY CopyBuilds
    <3>. HIDE DEF in, sighash
    <3>6. sig = [key |-> k,
                 hash |-> SignatureHash(tx, n, in.utxo, CodeOf(in.utxo), sighash)]
      BY <3>2, <3>5, Zenon DEF Sign, in
    <3>. HIDE DEF sig
    <3>7. tx \in TxSet
      BY PartsAssumption
    <3>8. /\ sig \in SigSet /\ sig.key = k
          /\ sig # None => SignedBy(tx, n, in.utxo, sig, k)
      BY <2>1, <3>4, <3>6, <3>7, SignatureIsGood
    <3>9. /\ CopyInput(tx, n, AddSignature(in, sig))
          /\ SameTxIn(AddSignature(in, sig), in)
      BY <2>1, <3>3, <3>8, SignedIsCopy
    <3>. QED
      BY <2>3, <3>9 DEF in, sig, sighash
  <2>. QED
    BY <2>2, <2>3
<1>. HIDE DEF new
<1>3. NewInputs(tx, p, ins)
  BY <1>2 DEF NewInputs
<1>. HIDE DEF ins
<1>4. Copy(tx, [p EXCEPT !.inputs = ins])
  BY <1>3, WithInputsIsCopy
<1>. QED
  BY <1>1, <1>4, Zenon

LEMMA SetSighashIsCopy ==
    ASSUME NEW tx, NEW p, Copy(tx, p), NEW i \in 1..Len(p.inputs),
           NEW sighash \in Sighashes \cup {None}
    PROVE  Copy(tx, [p EXCEPT !.inputs[i].sighash = sighash])
<1>. DEFINE in == [p.inputs[i] EXCEPT !.sighash = sighash]
<1>1. CopyInput(tx, i, in) /\ SameTxIn(in, p.inputs[i])
  <2>1. CopyInput(tx, i, p.inputs[i])
    BY DEF Copy
  <2>. QED
    BY <2>1, SighashIsCopy
<1>2. [p EXCEPT !.inputs[i].sighash = sighash]
        = [p EXCEPT !.inputs = [p.inputs EXCEPT ![i] = in]]
  OBVIOUS
<1>. HIDE DEF in
<1>3. Copy(tx, [p EXCEPT !.inputs = [p.inputs EXCEPT ![i] = in]])
  BY <1>1, OneInputIsCopy
<1>. QED
  BY <1>2, <1>3, Zenon

LEMMA FinalizeIsCopy ==
    ASSUME PrevoutsKnown, ScriptsKnown, NEW tx \in Txs, NEW p, Copy(tx, p),
           NEW clear \in BOOLEAN
    PROVE  /\ Copy(tx, Finalize(p, clear))
           /\ \A i \in 1..Len(p.inputs) :
                Copy(tx, [p EXCEPT !.inputs[i] = FinalizeInput(p, i, clear)])
<1>1. ASSUME NEW i \in 1..Len(p.inputs)
      PROVE  /\ CopyInput(tx, i, FinalizeInput(p, i, clear))
             /\ SameTxIn(FinalizeInput(p, i, clear), p.inputs[i])
  <2>1. /\ Known(p.inputs[i].utxo) /\ i \in 1..Len(tx.inputs)
        /\ CopyInput(tx, i, p.inputs[i])
    BY SpendsKnownOutput
  <2>2. LocksOf(tx, p, i)
    BY DEF LocksOf, TxVersion, SequenceOf, Copy, Shell, Placed, PsbtSet
  <2>. QED
    BY <2>1, <2>2, FinalizedIsCopy
<1>2. ASSUME NEW i \in 1..Len(p.inputs)
      PROVE  Copy(tx, [p EXCEPT !.inputs[i] = FinalizeInput(p, i, clear)])
  <2>1. [p EXCEPT !.inputs[i] = FinalizeInput(p, i, clear)]
          = [p EXCEPT !.inputs = [p.inputs EXCEPT ![i] = FinalizeInput(p, i, clear)]]
    OBVIOUS
  <2>2. Copy(tx, [p EXCEPT !.inputs = [p.inputs EXCEPT ![i] = FinalizeInput(p, i, clear)]])
    BY <1>1, OneInputIsCopy
  <2>. QED
    BY <2>1, <2>2, Zenon
<1>3. Copy(tx, Finalize(p, clear))
  <2>. DEFINE ins == [i \in 1..Len(p.inputs) |-> FinalizeInput(p, i, clear)]
  <2>1. NewInputs(tx, p, ins)
    BY <1>1 DEF NewInputs
  <2>2. Finalize(p, clear) = [p EXCEPT !.inputs = ins]
    BY DEF Finalize
  <2>. HIDE DEF ins
  <2>3. Copy(tx, [p EXCEPT !.inputs = ins])
    BY <2>1, WithInputsIsCopy
  <2>. QED
    BY <2>2, <2>3, Zenon
<1>. QED
  BY <1>2, <1>3

LEMMA CombineSigsIsCopy ==
    ASSUME NEW tx, NEW dst, Copy(tx, dst), NEW src, Copy(tx, src)
    PROVE  Copy(tx, CombineSigs(dst, SigsOnly(src)))
<1>. DEFINE new(n) == [dst.inputs[n] EXCEPT
                         !.sigs = CombineSigMap(dst.inputs[n].sigs, src.inputs[n].sigs)]
            ins == [n \in 1..Len(dst.inputs) |-> new(n)]
<1>1. Len(src.inputs) = Len(dst.inputs) /\ Len(src.inputs) \in Nat
  BY DEF Copy, PsbtSet
<1>2. \A n \in 1..Len(dst.inputs) : CopyInput(tx, n, dst.inputs[n]) /\ CopyInput(tx, n, src.inputs[n])
  BY <1>1 DEF Copy
<1>3. SigsOnly(src) = SigsPsbt(src)
  <2>1. \A n \in 1..Len(src.inputs) :
          src.inputs[n].sigs = [k \in Keys |-> src.inputs[n].sigs[k]]
    BY <1>1, <1>2 DEF CopyInput, InputSet
  <2>. QED
    BY <1>1, <2>1, SignaturesTravelAlone
<1>4. \A n \in 1..Len(dst.inputs) : SigsPsbt(src).inputs[n].sigs = src.inputs[n].sigs
  BY <1>1 DEF SigsPsbt, OnlySigs
<1>5. CombineSigs(dst, SigsOnly(src)) = [dst EXCEPT !.inputs = ins]
  <2>. DEFINE other(n) == [dst.inputs[n] EXCEPT
                !.sigs = CombineSigMap(dst.inputs[n].sigs, SigsPsbt(src).inputs[n].sigs)]
  <2>1. CombineSigs(dst, SigsPsbt(src))
          = [dst EXCEPT !.inputs = [n \in 1..Len(dst.inputs) |-> other(n)]]
    BY DEF CombineSigs
  <2>2. \A n \in 1..Len(dst.inputs) : other(n) = new(n)
    BY <1>4, Zenon
  <2>. HIDE DEF other, new
  <2>3. [n \in 1..Len(dst.inputs) |-> other(n)] = ins
    BY <2>2
  <2>. QED
    BY <1>3, <2>1, <2>3, Zenon
<1>6. \A n \in 1..Len(dst.inputs) : CopyInput(tx, n, new(n)) /\ SameTxIn(new(n), dst.inputs[n])
  BY <1>2, CombinedSigsIsCopy
<1>. HIDE DEF new
<1>7. NewInputs(tx, dst, ins)
  BY <1>6 DEF NewInputs
<1>. HIDE DEF ins
<1>8. Copy(tx, [dst EXCEPT !.inputs = ins])
  BY <1>7, WithInputsIsCopy
<1>. QED
  BY <1>5, <1>8, Zenon

(* What a merge of two copies is; the fields of one input.                 *)
Merged(a, b, n) ==
    /\ Signers(n) = Signers(a) \cup Signers(b)
    /\ \A k \in Signers(a) : n.sigs[k] = a.sigs[k]
    /\ n.keypaths = a.keypaths \cup b.keypaths
    /\ IsFinalized(n) <=> IsFinalized(a) \/ IsFinalized(b)
    /\ IsFinalized(a) => n.final = a.final
    /\ a.sighash # None => n.sighash = a.sighash

LEMMA InputsMerge ==
    ASSUME NEW a, NEW b
    PROVE  Merged(a, b, CombineInput(a, b))
<1>. DEFINE n == CombineInput(a, b)
<1>1. /\ \A k \in Keys : n.sigs[k] = IF a.sigs[k] = None THEN b.sigs[k] ELSE a.sigs[k]
      /\ n.keypaths = a.keypaths \cup b.keypaths
      /\ n.final = IF a.final = None THEN b.final ELSE a.final
      /\ n.sighash = IF a.sighash = None THEN b.sighash ELSE a.sighash
  BY DEF CombineInput, CombineSigMap, Pick
<1>. HIDE DEF n
<1>2. Signers(n) = Signers(a) \cup Signers(b)
  BY <1>1 DEF Signers
<1>3. \A k \in Signers(a) : n.sigs[k] = a.sigs[k]
  BY <1>1 DEF Signers
<1>4. /\ IsFinalized(n) <=> IsFinalized(a) \/ IsFinalized(b)
      /\ IsFinalized(a) => n.final = a.final
  BY <1>1 DEF IsFinalized
<1>5. Merged(a, b, n)
  BY <1>1, <1>2, <1>3, <1>4 DEF Merged
<1>. QED
  BY <1>5 DEF n

(* To combine the same input again changes nothing.                        *)
LEMMA CombinedAgain ==
    ASSUME NEW a, NEW b, SameOutpoint(a, b)
    PROVE  /\ CombineInput(CombineInput(a, b), b) = CombineInput(a, b)
           /\ SameOutpoint(CombineInput(a, b), b)
<1>. DEFINE n == CombineInput(a, b)
<1>1. \A x, y, unset : Pick(Pick(x, y, unset), y, unset) = Pick(x, y, unset)
  BY DEF Pick
<1>2. CombineSigMap(CombineSigMap(a.sigs, b.sigs), b.sigs) = CombineSigMap(a.sigs, b.sigs)
  <2>1. \A k \in Keys : CombineSigMap(a.sigs, b.sigs)[k] = Pick(a.sigs[k], b.sigs[k], None)
    BY DEF CombineSigMap
  <2>. QED
    BY <1>1, <2>1 DEF CombineSigMap
<1>3. /\ n.txid = Pick(a.txid, b.txid, None) /\ n.index = a.index
      /\ n.sequence = Pick(a.sequence, b.sequence, FinalSequence)
      /\ n.time = Pick(a.time, b.time, 0) /\ n.height = Pick(a.height, b.height, 0)
      /\ n.sighash = Pick(a.sighash, b.sighash, None)
      /\ n.utxo = Pick(a.utxo, b.utxo, None) /\ n.script = Pick(a.script, b.script, None)
      /\ n.keypaths = a.keypaths \cup b.keypaths
      /\ n.sigs = CombineSigMap(a.sigs, b.sigs) /\ n.final = Pick(a.final, b.final, None)
  BY DEF CombineInput, SameOutpoint
<1>4. SameOutpoint(n, b)
  BY <1>3 DEF SameOutpoint, Pick
<1>5. /\ (IF n.txid = None THEN b.index ELSE n.index) = n.index
      /\ n.keypaths \cup b.keypaths = n.keypaths
  BY <1>3, <1>4 DEF SameOutpoint
<1>6. n = [txid |-> n.txid, index |-> n.index, sequence |-> n.sequence,
           time |-> n.time, height |-> n.height, sighash |-> n.sighash,
           utxo |-> n.utxo, script |-> n.script, keypaths |-> n.keypaths,
           sigs |-> n.sigs, final |-> n.final]
  BY DEF CombineInput
<1>7. /\ Pick(n.txid, b.txid, None) = n.txid
      /\ Pick(n.sequence, b.sequence, FinalSequence) = n.sequence
      /\ Pick(n.time, b.time, 0) = n.time /\ Pick(n.height, b.height, 0) = n.height
      /\ Pick(n.sighash, b.sighash, None) = n.sighash
      /\ Pick(n.utxo, b.utxo, None) = n.utxo /\ Pick(n.script, b.script, None) = n.script
      /\ CombineSigMap(n.sigs, b.sigs) = n.sigs /\ Pick(n.final, b.final, None) = n.final
  BY <1>1, <1>2, <1>3
<1>. HIDE DEF n
<1>8. CombineInput(n, b) = n
  BY <1>5, <1>6, <1>7 DEF CombineInput
<1>. QED
  BY <1>4, <1>8 DEF n

LEMMA CombineIsCopy ==
    ASSUME NEW tx, NEW dst, Copy(tx, dst), NEW src, Copy(tx, src),
           src.version = dst.version, NEW forClone \in BOOLEAN
    PROVE  Copy(tx, Merge(dst, src, forClone))
<1>. DEFINE N == Len(dst.inputs)
            bad == {i \in 1..N :
                      ~CanCombineInput(dst.inputs[i], src.inputs[i], forClone)}
            new(i) == IF \A b \in bad : i < b THEN CombineInput(dst.inputs[i], src.inputs[i])
                      ELSE dst.inputs[i]
            ins == [i \in 1..N |-> new(i)]
            all == [i \in 1..Len(dst.outputs) |->
                      CombineOutput(dst.outputs[i], src.outputs[i])]
            outs == IF bad # {} THEN dst.outputs ELSE all
            fallback == Pick(dst.fallback, src.fallback, None)
            mods == dst.mods \cup src.mods
            q == Merge(dst, src, forClone)
<1>1. /\ dst \in PsbtSet /\ src \in PsbtSet /\ N \in Nat /\ N = Len(tx.inputs)
      /\ Len(src.inputs) = N /\ dst.version \in {0, 2}
      /\ dst.inputs \in Seq(InputSet) /\ dst.outputs \in Seq(OutputSet)
      /\ src.outputs \in Seq(OutputSet) /\ Len(src.outputs) = Len(dst.outputs)
      /\ fallback \in Nat \cup {None} /\ mods \subseteq Flags
  BY DEF Copy, PsbtSet, Pick
<1>2. q = [dst EXCEPT !.fallback = fallback, !.mods = mods, !.inputs = ins, !.outputs = outs]
  BY DEF Merge
<1>3. \A i \in 1..N : CopyInput(tx, i, dst.inputs[i]) /\ CopyInput(tx, i, src.inputs[i])
  BY <1>1 DEF Copy
<1>4. \A i \in 1..N : /\ CopyInput(tx, i, new(i)) /\ new(i) \in InputSet
                      /\ dst.version = 2 => Placed(new(i), tx.inputs[i])
  <2>. SUFFICES ASSUME NEW i \in 1..N
                PROVE  /\ CopyInput(tx, i, new(i))
                       /\ dst.version = 2 => Placed(new(i), tx.inputs[i])
    BY ZenonT(60) DEF CopyInput
  <2>. DEFINE a == dst.inputs[i]
              b == src.inputs[i]
  <2>1. CopyInput(tx, i, a) /\ CopyInput(tx, i, CombineInput(a, b))
    BY <1>3, CombinedIsCopy
  <2>2. dst.version = 2 => Placed(a, tx.inputs[i]) /\ Placed(b, tx.inputs[i])
    BY <1>1 DEF Copy
  <2>3. dst.version = 2 => Placed(CombineInput(a, b), tx.inputs[i])
    BY <2>2 DEF Placed, CombineInput, Pick
  <2>. HIDE DEF bad, a, b
  <2>. QED
    BY <2>1, <2>2, <2>3 DEF a, b
<1>. HIDE DEF bad, new
<1>5. ins \in Seq(InputSet) /\ Len(ins) = N /\ \A i \in 1..N : ins[i] = new(i)
  BY <1>1, <1>4
<1>6. outs = dst.outputs
  <2>1. dst.version = 0 => \A i \in 1..Len(dst.outputs) :
                             dst.outputs[i] = EmptyOutput /\ src.outputs[i] = EmptyOutput
    BY <1>1 DEF Copy, Shell
  <2>2. dst.version = 2 => dst.outputs = src.outputs
    BY DEF Copy, Shell
  <2>3. \A i \in 1..Len(dst.outputs) : dst.outputs[i] = src.outputs[i]
    BY <1>1, <2>1, <2>2
  <2>4. \A out \in OutputSet : CombineOutput(out, out) = out
    BY DEF OutputSet, CombineOutput, Pick
  <2>5. \A i \in 1..Len(dst.outputs) : all[i] = dst.outputs[i] /\ dst.outputs[i] \in OutputSet
    BY <1>1, <2>3, <2>4
  <2>6. all \in [1..Len(dst.outputs) -> OutputSet]
    BY <2>5
  <2>. HIDE DEF all
  <2>7. all = dst.outputs
    BY <1>1, <2>5, <2>6, SameSequence
  <2>. QED
    BY <2>7
<1>. HIDE DEF ins, outs, fallback, mods, q
<1>7. /\ q \in PsbtSet /\ q.version = dst.version /\ q.tx = dst.tx
      /\ q.txVersion = dst.txVersion /\ q.fallback = fallback
      /\ q.inputs = ins /\ q.outputs = dst.outputs /\ q.mods = mods
  BY <1>1, <1>2, <1>5, <1>6 DEF PsbtSet
<1>8. Shell(tx, q)
  BY <1>1, <1>7 DEF Copy, Shell, fallback, Pick
<1>9. Copy(tx, q)
  BY <1>1, <1>4, <1>5, <1>7, <1>8 DEF Copy
<1>. QED
  BY <1>9 DEF q

LEMMA CopyIsWritable ==
    ASSUME NoTxIsRaised, NEW tx \in Txs, NEW p, Copy(tx, p)
    PROVE  Writable(p)
<1>1. /\ p \in PsbtSet /\ p.version \in {0, 2} /\ p.mods \subseteq Flags
      /\ p.inputs \in Seq(InputSet) /\ p.outputs \in Seq(OutputSet)
  BY DEF Copy, PsbtSet
<1>2. PsbtShape(p)
  <2>1. p.inputs \in Seq(Range(p.inputs)) /\ p.outputs \in Seq(Range(p.outputs))
    BY <1>1 DEF Range
  <2>2. p = [version |-> p.version, tx |-> p.tx, txVersion |-> p.txVersion,
            fallback |-> p.fallback, mods |-> p.mods, inputs |-> p.inputs,
            outputs |-> p.outputs]
    BY <1>1 DEF PsbtSet
  <2>. QED
    BY <2>1, <2>2 DEF PsbtShape
<1>3. p.version = 2 => ~(p.txVersion < 2)
  BY DEF Copy, Shell, NoTxIsRaised
<1>4. \A n \in 1..Len(p.inputs) : InputShape(p.inputs[n]) /\ InputValues(p.inputs[n])
  <2>1. \A in \in InputSet : InputShape(in) /\ in.keypaths \subseteq Keys
    BY DEF InputSet, InputShape
  <2>. QED
    BY <2>1 DEF Copy, CopyInput, InputValues
<1>5. \A n \in 1..Len(p.outputs) :
        p.outputs[n] = [script |-> p.outputs[n].script, satoshi |-> p.outputs[n].satoshi]
  <2>1. \A out \in OutputSet : out = [script |-> out.script, satoshi |-> out.satoshi]
    BY DEF OutputSet
  <2>. QED
    BY <1>1, <2>1
<1>. QED
  BY <1>1, <1>2, <1>3, <1>4, <1>5 DEF Writable

LEMMA WrittenIsCopy ==
    ASSUME NoTxIsRaised, NEW tx \in Txs, NEW p, Copy(tx, p), NEW redundant \in BOOLEAN
    PROVE  Copy(tx, WrittenPart(p, redundant))
<1>. DEFINE w == WrittenPart(p, redundant)
            new(n) == WrittenInput(p, p.inputs[n], redundant)
<1>1. /\ p \in PsbtSet /\ p.version \in {0, 2} /\ p.inputs \in Seq(InputSet)
      /\ Len(p.inputs) = Len(tx.inputs) /\ Len(p.inputs) \in Nat
      /\ Len(p.outputs) = Len(tx.outputs) /\ Len(p.outputs) \in Nat
  BY DEF Copy, PsbtSet
<1>2. Writable(p)
  BY CopyIsWritable
<1>3. /\ PsbtShape(w) /\ w.version = p.version /\ w.tx = p.tx
      /\ w.inputs = [n \in 1..Len(p.inputs) |-> new(n)]
      /\ p.version = 2 => /\ w.txVersion = p.txVersion /\ w.fallback = p.fallback
                          /\ w.mods = p.mods /\ w.outputs = p.outputs
      /\ p.version = 0 => /\ w.txVersion = 2 /\ w.fallback = None /\ w.mods = {}
                          /\ w.outputs = [n \in 1..Len(p.outputs) |-> EmptyOutput]
  BY <1>2, WrittenFields DEF Writable
<1>4. ASSUME NEW n \in 1..Len(p.inputs)
      PROVE  /\ CopyInput(tx, n, new(n)) /\ new(n) \in InputSet
             /\ p.version = 2 => Placed(new(n), tx.inputs[n])
  <2>. DEFINE in == p.inputs[n]
              v == new(n)
  <2>1. CopyInput(tx, n, in) /\ InputShape(in) /\ in \in InputSet
    BY <1>2 DEF Copy, Writable, CopyInput
  <2>2. /\ InputShape(v) /\ SameRest(v, in)
        /\ IF Dropped(in, redundant) THEN NoPartial(v) ELSE SamePartial(v, in)
        /\ IF p.version = 0 THEN NotPlaced(v) ELSE SamePlace(v, in)
    BY <1>1, <2>1, WrittenInputFields
  <2>. HIDE DEF v, new
  <2>3. /\ v.txid \in TxIds /\ v.index \in Nat /\ v.sequence \in Nat
        /\ v.time = 0 /\ v.height = 0
    <3>1. CASE p.version = 0
      BY <2>2, <3>1, SequenceAssumption DEF NotPlaced, TxIds
    <3>2. CASE p.version # 0
      BY <2>1, <2>2, <3>2 DEF SamePlace, InputSet, CopyInput
    <3>. QED
      BY <3>1, <3>2
  <2>4. /\ v.utxo = in.utxo /\ v.final = in.final
        /\ v.sighash \in {None, in.sighash} /\ v.script \in {None, in.script}
        /\ v.keypaths \subseteq in.keypaths /\ v.sigs \in {NoSigs, in.sigs}
    BY <2>2 DEF SameRest, NoPartial, SamePartial
  <2>5. v \in InputSet
    <3>1. /\ v.sighash \in Sighashes \cup {None} /\ v.utxo \in TxOutSet \cup {None}
          /\ v.script \in WitnessScripts \cup {None} /\ v.keypaths \in SUBSET Keys
          /\ v.sigs \in [Keys -> SigSet \cup {None}]
          /\ v.final \in FinalSet \cup {None}
      BY <2>1, <2>4 DEF InputSet, NoSigs
    <3>2. v.time \in Nat /\ v.height \in Nat
      BY <2>3
    <3>3. v = [txid |-> v.txid, index |-> v.index, sequence |-> v.sequence,
             time |-> v.time, height |-> v.height, sighash |-> v.sighash,
             utxo |-> v.utxo, script |-> v.script, keypaths |-> v.keypaths,
             sigs |-> v.sigs, final |-> v.final]
      BY <2>2, Zenon DEF InputShape
    <3>. QED
      BY <2>3, <3>1, <3>2, <3>3 DEF InputSet
  <2>6. Between(in, in, v)
    <3>1. \A k \in Keys : v.sigs[k] \in {None, in.sigs[k]}
      BY <2>4 DEF NoSigs
    <3>. QED
      BY <2>3, <2>4, <3>1 DEF Between
  <2>7. CopyInput(tx, n, v)
    BY <2>1, <2>5, <2>6, BetweenIsCopy
  <2>8. p.version = 2 => Placed(v, tx.inputs[n])
    BY <1>1, <2>2 DEF Copy, SamePlace, Placed
  <2>. QED
    BY <2>5, <2>7, <2>8 DEF v
<1>. HIDE DEF w, new
<1>5. w.inputs \in Seq(InputSet) /\ Len(w.inputs) = Len(p.inputs)
      /\ \A n \in 1..Len(p.inputs) : w.inputs[n] = new(n)
  BY <1>1, <1>3, <1>4
<1>6. /\ w.outputs \in Seq(OutputSet) /\ Len(w.outputs) = Len(p.outputs)
      /\ p.version = 0 => \A n \in 1..Len(w.outputs) : w.outputs[n] = EmptyOutput
  <2>1. CASE p.version = 0
    BY <1>1, <1>3, <2>1, EmptyTyped
  <2>2. CASE p.version = 2
    BY <1>1, <1>3, <2>2 DEF PsbtSet
  <2>. QED
    BY <1>1, <2>1, <2>2
<1>7. w \in PsbtSet
  <2>1. /\ w.tx \in TxSet \cup {None} /\ w.txVersion \in Nat
        /\ w.fallback \in Nat \cup {None} /\ w.mods \in SUBSET Flags
    BY <1>1, <1>3 DEF PsbtSet
  <2>2. w = [version |-> w.version, tx |-> w.tx, txVersion |-> w.txVersion,
            fallback |-> w.fallback, mods |-> w.mods, inputs |-> w.inputs,
            outputs |-> w.outputs]
    BY <1>3, Zenon DEF PsbtShape
  <2>. QED
    BY <1>1, <1>3, <1>5, <1>6, <2>1, <2>2 DEF PsbtSet
<1>8. Shell(tx, w)
  BY <1>1, <1>3, <1>6 DEF Copy, Shell
<1>9. Copy(tx, w)
  BY <1>1, <1>3, <1>4, <1>5, <1>6, <1>7, <1>8 DEF Copy
<1>. QED
  BY <1>9 DEF w

LEMMA ReadIsCopy ==
    ASSUME NoTxIsRaised, NEW tx \in Txs, NEW p, Copy(tx, p), CanSerialize(p),
           NEW redundant \in BOOLEAN,
           NEW read, read = Parse(Serialize(p, redundant), FALSE, TRUE), read # None
    PROVE  Copy(tx, read)
<1>1. Writable(p) /\ Copy(tx, WrittenPart(p, redundant))
  BY CopyIsWritable, WrittenIsCopy
<1>2. ~(p.version = 0 /\ p.tx = None)
  BY PartsAssumption, NoneIsNoTx DEF Copy, Shell
<1>. DEFINE w == WrittenPart(p, redundant)
            lax == FALSE
<1>3. lax \in BOOLEAN /\ (lax \/ ~(p.version = 0 /\ p.tx = None))
  BY <1>2
<1>4. read = Parse(Serialize(p, redundant), lax, TRUE)
  OBVIOUS
<1>. HIDE DEF w, lax
<1>5. Parse(Serialize(p, redundant), lax, TRUE) = IF Consistent(w) THEN w ELSE None
  BY <1>1, <1>3, WrittenIsRead DEF w
<1>. QED
  BY <1>1, <1>4, <1>5 DEF w

LEMMA VersionIsCopy ==
    ASSUME AmountsFit, NoTxIsRaised, NEW tx \in Txs, NEW p, Copy(tx, p),
           NEW version \in Versions, CanSetVersion(p, version)
    PROVE  Copy(tx, SetVersion(p, version))
<1>1. /\ p \in PsbtSet /\ p.version \in {0, 2} /\ version \in {0, 2}
      /\ p.version # version /\ p.inputs \in Seq(InputSet)
      /\ Len(p.inputs) = Len(tx.inputs) /\ Len(p.inputs) \in Nat
      /\ Len(p.outputs) = Len(tx.outputs) /\ Len(p.outputs) \in Nat
  BY VersionsAssumption DEF Copy, PsbtSet, CanSetVersion
<1>2. /\ tx \in TxSet /\ tx # None /\ tx.version \in Nat /\ tx.locktime \in Nat
      /\ tx.inputs \in Seq(TxInSet) /\ tx.outputs \in Seq(TxOutSet)
      /\ \A n \in 1..Len(tx.inputs) : tx.inputs[n] \in AllIns
  BY PartsAssumption, NoneIsNoTx DEF TxSet, AllIns, Range
<1>3. \A n \in 1..Len(p.inputs) : /\ CopyInput(tx, n, p.inputs[n])
                                  /\ p.inputs[n] \in InputSet
  BY DEF Copy, CopyInput
<1>4. CASE version = 2
  <2>. DEFINE new(n) == [p.inputs[n] EXCEPT !.txid = p.tx.inputs[n].txid,
                             !.index = p.tx.inputs[n].index,
                             !.sequence = p.tx.inputs[n].sequence]
              ins == [n \in 1..Len(p.inputs) |-> new(n)]
              out(n) == [script |-> p.tx.outputs[n].script,
                         satoshi |-> p.tx.outputs[n].satoshi]
              outs == [n \in 1..Len(p.outputs) |-> out(n)]
              txVersion == IF p.tx.version < 2 THEN 2 ELSE p.tx.version
              fallback == IF p.tx.locktime = 0 THEN None ELSE p.tx.locktime
              mods == {"INPUTS", "OUTPUTS"}
              q == SetVersion(p, version)
  <2>1. p.tx = tx
    BY <1>1, <1>4 DEF Copy, Shell
  <2>2. q = [p EXCEPT !.version = 2, !.txVersion = txVersion, !.fallback = fallback,
                      !.mods = mods, !.inputs = ins, !.outputs = outs, !.tx = None]
    BY <1>4, Zenon DEF SetVersion, V0ToV2
  <2>3. ASSUME NEW n \in 1..Len(p.inputs)
        PROVE  /\ CopyInput(tx, n, new(n)) /\ new(n) \in InputSet
               /\ Placed(new(n), tx.inputs[n])
    <3>. DEFINE in == p.inputs[n]
                txin == tx.inputs[n]
                v == new(n)
    <3>1. txin.txid \in TxIds /\ txin.index \in Nat /\ txin.sequence \in Nat
      <4>1. txin \in AllIns /\ txin \in TxInSet
        BY <1>1, <1>2
      <4>. QED
        BY <4>1 DEF TxIds, TxInSet
    <3>2. v = [in EXCEPT !.txid = txin.txid, !.index = txin.index,
                         !.sequence = txin.sequence]
      BY <2>1
    <3>. HIDE DEF v, txin
    <3>3. /\ v \in InputSet /\ v.txid = txin.txid /\ v.index = txin.index
          /\ v.sequence = txin.sequence /\ v.time = in.time /\ v.height = in.height
          /\ v.utxo = in.utxo /\ v.script = in.script /\ v.keypaths = in.keypaths
          /\ v.sigs = in.sigs /\ v.final = in.final
      BY <1>3, <3>1, <3>2 DEF InputSet
    <3>4. Between(in, in, v)
      BY <1>3, <3>3 DEF Between, CopyInput
    <3>5. CopyInput(tx, n, v)
      BY <1>3, <3>3, <3>4, BetweenIsCopy
    <3>. QED
      BY <3>3, <3>5 DEF v, txin, Placed
  <2>. HIDE DEF new
  <2>4. ins \in Seq(InputSet) /\ Len(ins) = Len(p.inputs)
        /\ \A n \in 1..Len(p.inputs) : ins[n] = new(n)
    BY <1>1, <2>3
  <2>5. outs = tx.outputs /\ outs \in Seq(OutputSet)
    <3>1. \A o \in TxOutSet : /\ [script |-> o.script, satoshi |-> o.satoshi] = o
                              /\ o \in OutputSet
      BY DEF TxOutSet, OutputSet
    <3>2. \A n \in 1..Len(tx.outputs) : out(n) = tx.outputs[n] /\ out(n) \in OutputSet
      BY <1>2, <2>1, <3>1
    <3>. HIDE DEF out
    <3>3. \A n \in 1..Len(tx.outputs) : outs[n] = tx.outputs[n] /\ outs[n] \in OutputSet
      BY <1>1, <3>2
    <3>4. outs \in [1..Len(tx.outputs) -> OutputSet]
      BY <1>1, <3>2
    <3>5. outs \in [1..Len(tx.outputs) -> TxOutSet]
      BY <1>1, <1>2, <3>2
    <3>6. outs \in Seq(OutputSet)
      BY <1>1, <3>4
    <3>. HIDE DEF outs
    <3>. QED
      BY <1>2, <3>3, <3>5, <3>6, SameSequence, SMTT(30)
  <2>6. /\ txVersion = tx.version /\ mods \subseteq Flags
        /\ fallback \in Nat \cup {None}
        /\ fallback = tx.locktime \/ (fallback = None /\ tx.locktime = 0)
    BY <1>2, <1>4, <2>1 DEF NoTxIsRaised, Flags
  <2>. HIDE DEF ins, outs, txVersion, fallback, mods, q
  <2>7. /\ q \in PsbtSet /\ q.version = 2 /\ q.tx = None /\ q.txVersion = txVersion
        /\ q.fallback = fallback /\ q.inputs = ins /\ q.outputs = outs
    BY <1>1, <1>2, <2>2, <2>4, <2>5, <2>6 DEF PsbtSet
  <2>8. Shell(tx, q)
    BY <2>5, <2>6, <2>7 DEF Shell
  <2>9. Copy(tx, q)
    BY <1>1, <1>4, <2>3, <2>4, <2>5, <2>7, <2>8 DEF Copy
  <2>. QED
    BY <2>9 DEF q
<1>5. CASE version = 0
  <2>. DEFINE new(n) == [p.inputs[n] EXCEPT !.index = 0, !.sequence = 0,
                                            !.time = 0, !.height = 0]
              ins == [n \in 1..Len(p.inputs) |-> new(n)]
              outs == [n \in 1..Len(p.outputs) |-> EmptyOutput]
              q == SetVersion(p, version)
              built == BuildTx(p)
  <2>1. built = tx
    BY CopyBuilds
  <2>2. q = [p EXCEPT !.tx = built, !.inputs = ins, !.outputs = outs,
                      !.version = 0, !.txVersion = 0, !.fallback = None, !.mods = {}]
    <3>1. version # 2
      BY <1>5
    <3>. QED
      BY <3>1, Zenon DEF SetVersion, V2ToV0
  <2>3. ASSUME NEW n \in 1..Len(p.inputs)
        PROVE  CopyInput(tx, n, new(n)) /\ new(n) \in InputSet
    <3>. DEFINE in == p.inputs[n]
                v == new(n)
    <3>1. /\ v \in InputSet /\ v.time = 0 /\ v.height = 0
          /\ v.utxo = in.utxo /\ v.script = in.script /\ v.keypaths = in.keypaths
          /\ v.sigs = in.sigs /\ v.final = in.final
      BY <1>3 DEF InputSet
    <3>. HIDE DEF v
    <3>2. Between(in, in, v)
      BY <3>1 DEF Between
    <3>3. CopyInput(tx, n, v)
      BY <1>3, <3>1, <3>2, BetweenIsCopy
    <3>. QED
      BY <3>1, <3>3 DEF v
  <2>. HIDE DEF new
  <2>4. ins \in Seq(InputSet) /\ Len(ins) = Len(p.inputs)
        /\ \A n \in 1..Len(p.inputs) : ins[n] = new(n)
    BY <1>1, <2>3
  <2>5. /\ outs \in Seq(OutputSet) /\ Len(outs) = Len(tx.outputs)
        /\ \A n \in 1..Len(outs) : outs[n] = EmptyOutput
    BY <1>1, EmptyTyped
  <2>. HIDE DEF ins, outs, q, built
  <2>7. /\ q \in PsbtSet /\ q.version = 0 /\ q.tx = tx
        /\ q.inputs = ins /\ q.outputs = outs
    BY <1>1, <1>2, <2>1, <2>2, <2>4, <2>5 DEF PsbtSet
  <2>8. Shell(tx, q)
    BY <2>5, <2>7 DEF Shell
  <2>9. Copy(tx, q)
    BY <1>1, <1>5, <2>3, <2>4, <2>5, <2>7, <2>8 DEF Copy
  <2>. QED
    BY <2>9 DEF q
<1>. QED
  BY <1>1, <1>4, <1>5

-----------------------------------------------------------------------------
(* The first copy.                                                         *)

(* What Described makes of an input of p.                                  *)
DescribedInput(in, utxo) ==
    IF utxo.script.type = "p2wpkh"
    THEN [in EXCEPT !.utxo = utxo, !.keypaths = Range(utxo.script.keys)]
    ELSE [in EXCEPT !.utxo = utxo, !.script = utxo.script.of,
                    !.keypaths = Range(utxo.script.of.keys)]

Fresh(in) ==
    /\ in \in InputSet /\ in.time = 0 /\ in.height = 0 /\ in.script = None
    /\ in.sigs = NoSigs /\ in.final = None

LEMMA DescribedIsCopy ==
    ASSUME PrevoutsKnown, NEW tx, NEW i, Outpoint(tx.inputs[i]) \in DOMAIN Prevouts,
           NEW in, Fresh(in), NEW utxo, utxo = Prevouts[Outpoint(tx.inputs[i])]
    PROVE  /\ CopyInput(tx, i, DescribedInput(in, utxo))
           /\ SameTxIn(DescribedInput(in, utxo), in)
<1>1. /\ utxo \in TxOutSet
      /\ \/ utxo.script.type = "p2wpkh" /\ Range(utxo.script.keys) \subseteq Keys
         \/ /\ utxo.script = P2wsh(utxo.script.of)
            /\ utxo.script.of \in WitnessScripts
            /\ Range(utxo.script.of.keys) \subseteq Keys
  BY DEF PrevoutsKnown
<1>. DEFINE new == DescribedInput(in, utxo)
<1>2. /\ new \in InputSet /\ SameTxIn(new, in) /\ new.time = 0 /\ new.height = 0
      /\ new.utxo = utxo /\ new.script \in {None, CodeOf(utxo)}
      /\ new.keypaths = KeysOf(utxo) /\ new.sigs = NoSigs /\ new.final = None
  <2>1. CASE utxo.script.type = "p2wpkh"
    <3>1. Range(utxo.script.keys) \subseteq Keys /\ CodeOf(utxo) = utxo.script
      BY <1>1, <2>1 DEF P2wsh, CodeOf
    <3>2. new = [in EXCEPT !.utxo = utxo, !.keypaths = KeysOf(utxo)]
      BY <2>1, <3>1 DEF DescribedInput, KeysOf
    <3>. HIDE DEF new
    <3>. QED
      BY <1>1, <3>1, <3>2 DEF Fresh, InputSet, SameTxIn, KeysOf
  <2>2. CASE utxo.script.type # "p2wpkh"
    <3>1. /\ utxo.script.of \in WitnessScripts /\ Range(utxo.script.of.keys) \subseteq Keys
          /\ CodeOf(utxo) = utxo.script.of
      BY <1>1, <2>2 DEF P2wsh, CodeOf
    <3>2. new = [in EXCEPT !.utxo = utxo, !.script = CodeOf(utxo), !.keypaths = KeysOf(utxo)]
      BY <2>2, <3>1 DEF DescribedInput, KeysOf
    <3>. HIDE DEF new
    <3>. QED
      BY <1>1, <3>1, <3>2 DEF Fresh, InputSet, SameTxIn, KeysOf
  <2>. QED
    BY <2>1, <2>2
<1>3. Signers(new) = {}
  BY <1>2 DEF Signers, NoSigs
<1>. HIDE DEF new
<1>4. CopyInput(tx, i, new)
  BY <1>2, <1>3 DEF CopyInput
<1>. QED
  BY <1>2, <1>4 DEF new

LEMMA FromTxIs ==
    ASSUME NEW tx \in TxSet, NEW version \in {0, 2}, NEW p, p = FromTx(tx, version)
    PROVE  /\ p \in PsbtSet /\ p.version = version /\ Shell(tx, p)
           /\ Len(p.inputs) = Len(tx.inputs) /\ Len(p.outputs) = Len(tx.outputs)
           /\ \A n \in 1..Len(p.inputs) :
                /\ Fresh(p.inputs[n])
                /\ version = 2 => Placed(p.inputs[n], tx.inputs[n])
<1>. DEFINE base == InitPsbt(version)
            in(n) == InputFromTx(base, tx.inputs[n])
            out(n) == OutputFromTx(base, tx.outputs[n])
<1>1. p \in PsbtSet
  BY FromTxTyped
<1>2. /\ tx.inputs \in Seq(TxInSet) /\ tx.outputs \in Seq(TxOutSet)
      /\ Len(tx.inputs) \in Nat /\ Len(tx.outputs) \in Nat
  BY DEF TxSet
<1>3. base \in PsbtSet /\ base.version = version
  BY InitPsbtTyped DEF InitPsbt
<1>4. /\ p.version = version
      /\ version = 0 => /\ p.tx = tx
                        /\ p.inputs = [n \in 1..Len(tx.inputs) |-> EmptyInput]
                        /\ p.outputs = [n \in 1..Len(tx.outputs) |-> EmptyOutput]
      /\ version = 2 => /\ p.tx = None /\ p.txVersion = tx.version
                        /\ p.fallback = tx.locktime
                        /\ p.inputs = [n \in 1..Len(tx.inputs) |-> in(n)]
                        /\ p.outputs = [n \in 1..Len(tx.outputs) |-> out(n)]
  <2>1. CASE version = 0
    BY <2>1 DEF FromTx, SetGlobalTx, InitPsbt
  <2>2. CASE version = 2
    <3>. HIDE DEF in, out
    <3>1. base = [version |-> 2, tx |-> None, txVersion |-> 2, fallback |-> None,
                  mods |-> {"INPUTS", "OUTPUTS"}, inputs |-> <<>>, outputs |-> <<>>]
      BY <2>2 DEF InitPsbt
    <3>. DEFINE ins == [n \in 1..Len(tx.inputs) |-> in(n)]
                outs == [n \in 1..Len(tx.outputs) |-> out(n)]
    <3>2. p = [base EXCEPT !.inputs = ins, !.outputs = outs,
                           !.txVersion = tx.version, !.fallback = tx.locktime]
      BY <2>2 DEF FromTx, in, out
    <3>. HIDE DEF base, ins, outs
    <3>3. /\ p.version = 2 /\ p.tx = None /\ p.txVersion = tx.version
          /\ p.fallback = tx.locktime /\ p.inputs = ins /\ p.outputs = outs
      BY <3>1, <3>2
    <3>. QED
      BY <2>2, <3>3 DEF ins, outs
  <2>. QED
    BY <2>1, <2>2
<1>5. Fresh(EmptyInput)
  BY EmptyTyped DEF Fresh, EmptyInput
<1>6. ASSUME version = 2, NEW n \in 1..Len(tx.inputs)
      PROVE  Fresh(in(n)) /\ Placed(in(n), tx.inputs[n])
  <2>1. in(n) \in InputSet
    BY <1>2, <1>3, PartsTyped
  <2>2. in(n) = [EmptyInput EXCEPT !.txid = tx.inputs[n].txid,
                    !.index = tx.inputs[n].index, !.sequence = tx.inputs[n].sequence]
    BY <1>3, <1>6 DEF InputFromTx
  <2>3. /\ in(n).txid = tx.inputs[n].txid /\ in(n).index = tx.inputs[n].index
        /\ in(n).sequence = tx.inputs[n].sequence
        /\ in(n).time = 0 /\ in(n).height = 0 /\ in(n).script = None
        /\ in(n).sigs = NoSigs /\ in(n).final = None
    <3>. DEFINE new == [EmptyInput EXCEPT !.txid = tx.inputs[n].txid,
                    !.index = tx.inputs[n].index, !.sequence = tx.inputs[n].sequence]
    <3>1. /\ new.txid = tx.inputs[n].txid /\ new.index = tx.inputs[n].index
          /\ new.sequence = tx.inputs[n].sequence
          /\ new.time = 0 /\ new.height = 0 /\ new.script = None
          /\ new.sigs = NoSigs /\ new.final = None
      BY DEF EmptyInput
    <3>. QED
      BY <2>2, <3>1, Zenon
  <2>. QED
    BY <2>1, <2>3 DEF Fresh, Placed
<1>7. version = 2 => p.outputs = tx.outputs
  <2>. SUFFICES ASSUME version = 2 PROVE p.outputs = tx.outputs
    OBVIOUS
  <2>1. \A n \in 1..Len(tx.outputs) : out(n) = tx.outputs[n] /\ tx.outputs[n] \in TxOutSet
    <3>1. \A o \in TxOutSet : OutputFromTx(base, o) = o
      BY <1>3 DEF OutputFromTx, TxOutSet
    <3>. QED
      BY <1>2, <3>1
  <2>. DEFINE outs == [n \in 1..Len(tx.outputs) |-> out(n)]
  <2>. HIDE DEF out
  <2>2. outs \in [1..Len(tx.outputs) -> TxOutSet]
        /\ \A n \in 1..Len(tx.outputs) : outs[n] = tx.outputs[n]
    BY <2>1
  <2>3. p.outputs = outs
    BY <1>4
  <2>. HIDE DEF outs
  <2>4. outs = tx.outputs
    BY <1>2, <2>2, SameSequence
  <2>. QED
    BY <2>3, <2>4
<1>. HIDE DEF in, out, base
<1>8. CASE version = 0
  <2>1. Shell(tx, p)
    BY <1>2, <1>4, <1>8 DEF Shell
  <2>. QED
    BY <1>1, <1>2, <1>4, <1>5, <1>8, <2>1
<1>9. CASE version = 2
  <2>1. Shell(tx, p)
    BY <1>4, <1>7, <1>9 DEF Shell
  <2>. QED
    BY <1>1, <1>2, <1>4, <1>6, <1>7, <1>9, <2>1
<1>. QED
  BY <1>8, <1>9

LEMMA FirstCopy ==
    ASSUME PrevoutsKnown, NEW tx \in Txs, NEW version \in Versions
    PROVE  Copy(tx, Described(FromTx(tx, version)))
<1>. DEFINE p == FromTx(tx, version)
            utxo(n) == Prevouts[Outpoint(tx.inputs[n])]
            new(n) == DescribedInput(p.inputs[n], utxo(n))
            ins == [n \in 1..Len(p.inputs) |-> new(n)]
<1>1. /\ tx \in TxSet /\ version \in {0, 2} /\ tx.inputs \in Seq(TxInSet)
      /\ Len(tx.inputs) \in Nat
      /\ \A n \in 1..Len(tx.inputs) : Outpoint(tx.inputs[n]) \in DOMAIN Prevouts
  <2>1. tx \in TxSet /\ version \in {0, 2}
    BY PartsAssumption, VersionsAssumption
  <2>2. tx.inputs \in Seq(TxInSet)
    BY <2>1 DEF TxSet
  <2>3. \A n \in 1..Len(tx.inputs) : tx.inputs[n] \in AllIns
    BY <2>2 DEF AllIns, Range
  <2>. QED
    BY <2>1, <2>2, <2>3 DEF PrevoutsKnown
<1>. HIDE DEF p
<1>2. /\ p \in PsbtSet /\ p.version = version /\ Shell(tx, p)
      /\ Len(p.inputs) = Len(tx.inputs) /\ Len(p.outputs) = Len(tx.outputs)
      /\ \A n \in 1..Len(p.inputs) :
            /\ Fresh(p.inputs[n])
            /\ version = 2 => Placed(p.inputs[n], tx.inputs[n])
  BY <1>1, FromTxIs DEF p
<1>3. \A n \in 1..Len(p.inputs) : OutpointOf(p, n) = Outpoint(tx.inputs[n])
  BY <1>1, <1>2 DEF OutpointOf, Outpoint, Placed, Shell
<1>4. Described(p) = [p EXCEPT !.inputs = ins]
  <2>. DEFINE like(n) == DescribedInput(p.inputs[n], Prevouts[OutpointOf(p, n)])
  <2>1. Described(p) = [p EXCEPT !.inputs = [n \in 1..Len(p.inputs) |-> like(n)]]
    BY Zenon DEF Described, DescribedInput
  <2>2. \A n \in 1..Len(p.inputs) : like(n) = new(n)
    BY <1>3, Zenon
  <2>. HIDE DEF like, new
  <2>3. [n \in 1..Len(p.inputs) |-> like(n)] = ins
    BY <2>2, Zenon
  <2>. QED
    BY <2>1, <2>3, Zenon
<1>5. \A n \in 1..Len(p.inputs) :
        CopyInput(tx, n, new(n)) /\ SameTxIn(new(n), p.inputs[n])
  BY <1>1, <1>2, DescribedIsCopy
<1>. HIDE DEF new
<1>6. /\ p.inputs \in Seq(InputSet) /\ Len(p.inputs) \in Nat
  BY <1>2 DEF PsbtSet
<1>7. /\ ins \in Seq(InputSet) /\ Len(ins) = Len(p.inputs)
      /\ \A n \in 1..Len(p.inputs) : CopyInput(tx, n, ins[n]) /\ SameTxIn(ins[n], p.inputs[n])
  BY <1>5, <1>6 DEF CopyInput
<1>. DEFINE q == [p EXCEPT !.inputs = ins]
<1>. HIDE DEF ins
<1>8. /\ q \in PsbtSet /\ q.version = p.version /\ q.tx = p.tx
      /\ q.txVersion = p.txVersion /\ q.fallback = p.fallback /\ q.outputs = p.outputs
      /\ q.inputs = ins
  BY <1>2, <1>7 DEF PsbtSet
<1>. HIDE DEF q
<1>9. Copy(tx, q)
  <2>1. Shell(tx, q)
    BY <1>2, <1>8 DEF Shell
  <2>2. q.version = 2 => \A n \in 1..Len(q.inputs) : Placed(q.inputs[n], tx.inputs[n])
    BY <1>2, <1>7, <1>8 DEF Placed, SameTxIn
  <2>. QED
    BY <1>2, <1>7, <1>8, <2>1, <2>2 DEF Copy
<1>. QED
  BY <1>4, <1>9 DEF p, q

-----------------------------------------------------------------------------
(* The inductive invariant: there is a transaction that every live PSBT is *)
(* a copy of.                                                              *)

Copies(tx) == TypeOK /\ \A h \in Live : Copy(tx, psbt[h])
ExchangeInv == \E tx \in Txs : Copies(tx)

ExchangeAssumptions == AmountsFit /\ PrevoutsKnown /\ ScriptsKnown /\ NoTxIsRaised

LEMMA UpdateIsCopy ==
    ASSUME NEW tx, Copies(tx), NEW h \in Handles,
           NEW p, p = None \/ Copy(tx, p), Update(h, p)
    PROVE  Copies(tx)'
<1>1. /\ psbt \in [Handles -> PsbtSet \cup {None}]
      /\ psbt' = [psbt EXCEPT ![h] = p] /\ p \in PsbtSet \cup {None}
  BY DEF Copies, TypeOK, Update, Copy
<1>2. TypeOK'
  BY <1>1 DEF TypeOK
<1>3. ASSUME NEW g \in Handles, psbt'[g] # None PROVE Copy(tx, psbt'[g])
  BY <1>1, <1>3 DEF Copies, Live
<1>. QED
  BY <1>2, <1>3 DEF Copies, Live

LEMMA ReadyIsCopy == PrevoutsKnown /\ ReadyInit => ExchangeInv
<1>. SUFFICES ASSUME PrevoutsKnown, ReadyInit PROVE ExchangeInv
  OBVIOUS
<1>1. PICK h \in Handles, version \in Versions, tx \in Txs :
        psbt = [g \in Handles |->
            IF g = h THEN Described(FromTx(tx, version)) ELSE None]
  BY DEF ReadyInit
<1>. DEFINE p == Described(FromTx(tx, version))
<1>2. Copy(tx, p)
  BY FirstCopy
<1>. HIDE DEF p
<1>3. psbt = [g \in Handles |-> IF g = h THEN p ELSE None]
  BY <1>1 DEF p
<1>4. p \in PsbtSet
  BY <1>2 DEF Copy
<1>5. Copies(tx)
  BY <1>2, <1>3, <1>4 DEF Copies, TypeOK, Live
<1>. QED
  BY <1>5 DEF ExchangeInv

LEMMA AskedSighashes ==
    ASSUME PrevoutsKnown, NEW tx \in Txs, NEW h \in Live, Copy(tx, psbt[h]),
           NEW i \in 1..Len(psbt[h].inputs), NEW sighash \in SighashesFor(h, i)
    PROVE  sighash \in Sighashes
<1>. DEFINE p == psbt[h]
            type == Prevouts[Outpoint(tx.inputs[i])].script.type
<1>1. /\ p # None /\ Len(p.inputs) \in Nat /\ Len(p.inputs) = Len(tx.inputs)
      /\ OutpointOf(p, i) = Outpoint(tx.inputs[i])
  BY DEF Live, Copy, Shell, Placed, PsbtSet, OutpointOf, Outpoint
<1>2. Outpoint(tx.inputs[i]) \in DOMAIN Prevouts
  <2>1. tx.inputs \in Seq(TxInSet) /\ i \in 1..Len(tx.inputs)
    BY <1>1, PartsAssumption DEF TxSet
  <2>2. tx.inputs[i] \in AllIns
    BY <2>1 DEF AllIns, Range
  <2>. QED
    BY <2>2 DEF PrevoutsKnown
<1>3. type \in {"p2wpkh", "p2wsh"}
  <2>. DEFINE spk == Prevouts[Outpoint(tx.inputs[i])].script
  <2>1. spk.type = "p2wpkh" \/ spk = P2wsh(spk.of)
    BY <1>2, Zenon DEF PrevoutsKnown
  <2>2. \A s : P2wsh(s).type = "p2wsh"
    BY DEF P2wsh
  <2>. QED
    BY <2>1, <2>2, Zenon
<1>4. sighash \in UsedSighashes[type]
  <2>1. i <= Len(p.inputs)
    BY <1>1
  <2>. QED
    BY <1>1, <2>1, Zenon DEF SighashesFor
<1>. HIDE DEF type
<1>. QED
  BY <1>3, <1>4, SighashesAssumption

LEMMA StepIsCopy ==
    ASSUME ExchangeAssumptions, NEW tx \in Txs, Copies(tx), ExchangeNext
    PROVE  Copies(tx)'
<1>. USE DEF ExchangeAssumptions
<1>1. PICK h \in Handles :
        \/ \E k \in Keys : SignWith(h, k)
        \/ \E i \in 1..MaxInputs : \E sighash \in SighashesFor(h, i) \cup {None} :
                SetSighash(h, i, sighash)
        \/ \E g \in Handles :
            \/ CombineFrom(h, g)
            \/ CombineSigsFrom(h, g)
            \/ CloneTo(h, g)
            \/ \E redundant \in BOOLEAN : SendTo(h, g, redundant)
        \/ \E clear \in BOOLEAN :
            \/ FinalizeAll(h, clear)
            \/ \E i \in 1..MaxInputs : FinalizeOne(h, i, clear)
        \/ \E version \in Versions : ChangeVersion(h, version)
        \/ Free(h)
  BY DEF ExchangeNext
<1>2. \A g \in Live : /\ Copy(tx, psbt[g]) /\ g \in Handles
                      /\ Inputs(psbt[g]) = 1..Len(psbt[g].inputs)
  BY CopyBuilds DEF Copies, Live
<1>3. ASSUME NEW k \in Keys, SignWith(h, k) PROVE Copies(tx)'
  <2>1. h \in Live /\ Update(h, SignBip32(psbt[h], k))
    BY <1>3 DEF SignWith
  <2>2. Copy(tx, SignBip32(psbt[h], k))
    BY <1>2, <2>1, SigningIsCopy
  <2>. QED
    BY <2>1, <2>2, UpdateIsCopy
<1>4. ASSUME NEW i \in 1..MaxInputs, NEW sighash \in SighashesFor(h, i) \cup {None},
             SetSighash(h, i, sighash)
      PROVE  Copies(tx)'
  <2>. DEFINE p == [psbt[h] EXCEPT !.inputs[i].sighash = sighash]
  <2>1. h \in Live /\ i \in Inputs(psbt[h]) /\ Update(h, p)
    BY <1>4 DEF SetSighash
  <2>2. sighash \in Sighashes \cup {None}
    BY <1>2, <1>4, <2>1, AskedSighashes
  <2>3. Copy(tx, p)
    BY <1>2, <2>1, <2>2, SetSighashIsCopy
  <2>. HIDE DEF p
  <2>. QED
    BY <2>1, <2>3, UpdateIsCopy
<1>5. ASSUME NEW g \in Handles, CombineFrom(h, g) PROVE Copies(tx)'
  <2>1. /\ h \in Live /\ g \in Live /\ psbt[g].version = psbt[h].version
        /\ Update(h, Combine(psbt[h], psbt[g]))
    BY <1>5 DEF CombineFrom, CanCombine
  <2>2. Copy(tx, Combine(psbt[h], psbt[g]))
    BY <1>2, <2>1, CombineIsCopy DEF Combine
  <2>. QED
    BY <2>1, <2>2, UpdateIsCopy
<1>6. ASSUME NEW g \in Handles, CombineSigsFrom(h, g) PROVE Copies(tx)'
  <2>1. /\ h \in Live /\ g \in Live
        /\ Update(h, CombineSigs(psbt[h], SigsOnly(psbt[g])))
    BY <1>6 DEF CombineSigsFrom
  <2>2. Copy(tx, CombineSigs(psbt[h], SigsOnly(psbt[g])))
    BY <1>2, <2>1, CombineSigsIsCopy
  <2>. QED
    BY <2>1, <2>2, UpdateIsCopy
<1>7. ASSUME NEW g \in Handles, CloneTo(h, g) PROVE Copies(tx)'
  <2>1. h \in Live /\ Update(g, Clone(psbt[h]))
    BY <1>7 DEF CloneTo
  <2>2. Clone(psbt[h]) = psbt[h] /\ Copy(tx, psbt[h])
    BY <1>2, <2>1, CloneIsSame DEF Copy
  <2>3. Update(g, psbt[h])
    BY <2>1, <2>2, Zenon
  <2>. QED
    BY <2>2, <2>3, UpdateIsCopy
<1>8. ASSUME NEW g \in Handles, NEW redundant \in BOOLEAN, SendTo(h, g, redundant)
      PROVE  Copies(tx)'
  <2>. DEFINE read == Parse(Serialize(psbt[h], redundant), FALSE, TRUE)
  <2>1. h \in Live /\ CanSerialize(psbt[h]) /\ read # None /\ Update(g, read)
    BY <1>8, Zenon DEF SendTo
  <2>2. Copy(tx, read)
    <3>1. Copy(tx, psbt[h])
      BY <1>2, <2>1
    <3>. QED
      BY <2>1, <3>1, ReadIsCopy
  <2>. HIDE DEF read
  <2>. QED
    BY <2>1, <2>2, UpdateIsCopy
<1>9. ASSUME NEW clear \in BOOLEAN, FinalizeAll(h, clear) PROVE Copies(tx)'
  <2>1. h \in Live /\ Update(h, Finalize(psbt[h], clear))
    BY <1>9 DEF FinalizeAll
  <2>2. Copy(tx, Finalize(psbt[h], clear))
    BY <1>2, <2>1, FinalizeIsCopy
  <2>. QED
    BY <2>1, <2>2, UpdateIsCopy
<1>10. ASSUME NEW clear \in BOOLEAN, NEW i \in 1..MaxInputs, FinalizeOne(h, i, clear)
       PROVE  Copies(tx)'
  <2>. DEFINE p == [psbt[h] EXCEPT !.inputs[i] = FinalizeInput(psbt[h], i, clear)]
  <2>1. h \in Live /\ i \in Inputs(psbt[h]) /\ Update(h, p)
    BY <1>10 DEF FinalizeOne
  <2>2. Copy(tx, p)
    BY <1>2, <2>1, FinalizeIsCopy
  <2>. HIDE DEF p
  <2>. QED
    BY <2>1, <2>2, UpdateIsCopy
<1>11. ASSUME NEW version \in Versions, ChangeVersion(h, version) PROVE Copies(tx)'
  <2>1. /\ h \in Live /\ CanSetVersion(psbt[h], version)
        /\ Update(h, SetVersion(psbt[h], version))
    BY <1>11 DEF ChangeVersion
  <2>2. Copy(tx, SetVersion(psbt[h], version))
    BY <1>2, <2>1, VersionIsCopy
  <2>. QED
    BY <2>1, <2>2, UpdateIsCopy
<1>12. ASSUME Free(h) PROVE Copies(tx)'
  BY <1>12, UpdateIsCopy DEF Free
<1>. QED
  BY <1>1, <1>3, <1>4, <1>5, <1>6, <1>7, <1>8, <1>9, <1>10, <1>11, <1>12

LEMMA NextIsCopy == ExchangeAssumptions /\ ExchangeInv /\ [ExchangeNext]_vars => ExchangeInv'
<1>. SUFFICES ASSUME ExchangeAssumptions, ExchangeInv, [ExchangeNext]_vars
              PROVE  ExchangeInv'
  OBVIOUS
<1>1. PICK tx \in Txs : Copies(tx)
  BY DEF ExchangeInv
<1>2. CASE ExchangeNext
  BY <1>1, <1>2, StepIsCopy DEF ExchangeInv
<1>3. CASE UNCHANGED vars
  <2>1. Copies(tx)'
    BY <1>1, <1>3 DEF Copies, TypeOK, Live, vars
  <2>. QED
    BY <2>1 DEF ExchangeInv
<1>. QED
  BY <1>2, <1>3

-----------------------------------------------------------------------------
(* What the copies have in common.                                         *)

LEMMA CopiesVerify ==
    ExchangeAssumptions /\ ExchangeInv => SignaturesVerify /\ FinalWitnessesVerify
<1>. SUFFICES ASSUME ExchangeAssumptions, ExchangeInv
              PROVE  SignaturesVerify /\ FinalWitnessesVerify
  OBVIOUS
<1>1. PICK tx \in Txs : Copies(tx)
  BY DEF ExchangeInv
<1>2. ASSUME NEW h \in Live, NEW i \in Inputs(psbt[h])
      PROVE  /\ CopyInput(tx, i, psbt[h].inputs[i])
             /\ CanBuildTx(psbt[h]) /\ BuildTx(psbt[h]) = tx /\ i \in 1..Len(psbt[h].inputs)
  <2>1. Copy(tx, psbt[h])
    BY <1>1 DEF Copies
  <2>2. /\ CanBuildTx(psbt[h]) /\ BuildTx(psbt[h]) = tx
        /\ Inputs(psbt[h]) = 1..Len(psbt[h].inputs)
    BY <2>1, CopyBuilds DEF ExchangeAssumptions
  <2>3. i \in 1..Len(psbt[h].inputs)
    BY <2>2
  <2>. QED
    BY <2>1, <2>2, <2>3 DEF Copy
<1>3. SignaturesVerify
  BY <1>2 DEF SignaturesVerify, Verifies, CopyInput, SignedBy, CodeOf
<1>4. FinalWitnessesVerify
  <2>. SUFFICES ASSUME NEW h \in Live, NEW i \in Inputs(psbt[h]),
                       IsFinalized(psbt[h].inputs[i])
                PROVE  /\ CanExtract(psbt[h], TRUE)
                       /\ LET final == Extract(psbt[h])
                          IN WitnessOk(final.tx, i, psbt[h].inputs[i].utxo, final.witness[i])
    BY DEF FinalWitnessesVerify
  <2>1. Extract(psbt[h]).tx = tx /\ Extract(psbt[h]).witness[i] = psbt[h].inputs[i].final
    BY <1>2 DEF Extract
  <2>2. WitnessOk(tx, i, psbt[h].inputs[i].utxo, psbt[h].inputs[i].final)
    BY <1>2 DEF CopyInput, IsFinalized
  <2>3. CanExtract(psbt[h], TRUE)
    BY <1>2 DEF CanExtract
  <2>. QED
    BY <2>1, <2>2, <2>3
<1>. QED
  BY <1>3, <1>4

LEMMA CopiesCanCombine ==
    ASSUME AmountsFit, NEW tx \in Txs, NEW p, Copy(tx, p), NEW q, Copy(tx, q),
           p.version = q.version
    PROVE  CanCombine(p, q)
<1>1. CanBuildTx(p) /\ CanBuildTx(q) /\ BuildTx(p) = tx /\ BuildTx(q) = tx
  BY CopyBuilds
<1>2. GetId(p) = GetId(q)
  BY <1>1 DEF GetId
<1>. QED
  BY <1>1, <1>2 DEF CanCombine

(* A merge of PSBTs whose inputs match, field by field.                    *)
Matching(dst, src) ==
    \A i \in 1..Len(dst.inputs) : SameOutpoint(dst.inputs[i], src.inputs[i])

AllMerged(dst, src, q) ==
    /\ q.version = dst.version /\ q.tx = dst.tx /\ q.txVersion = dst.txVersion
    /\ q.fallback = Pick(dst.fallback, src.fallback, None)
    /\ q.mods = dst.mods \cup src.mods
    /\ q.inputs = [i \in 1..Len(dst.inputs) |->
                     CombineInput(dst.inputs[i], src.inputs[i])]
    /\ q.outputs = [i \in 1..Len(dst.outputs) |->
                     CombineOutput(dst.outputs[i], src.outputs[i])]

LEMMA MergedFields ==
    ASSUME NEW dst \in PsbtSet, NEW src, Matching(dst, src)
    PROVE  AllMerged(dst, src, Merge(dst, src, FALSE))
<1>. DEFINE N == Len(dst.inputs)
            bad == {i \in 1..N :
                      ~CanCombineInput(dst.inputs[i], src.inputs[i], FALSE)}
            new(i) == CombineInput(dst.inputs[i], src.inputs[i])
            ins == [i \in 1..N |-> IF \A b \in bad : i < b THEN new(i) ELSE dst.inputs[i]]
            outs == [i \in 1..Len(dst.outputs) |->
                      CombineOutput(dst.outputs[i], src.outputs[i])]
            some == IF bad # {} THEN dst.outputs ELSE outs
            fallback == Pick(dst.fallback, src.fallback, None)
            mods == dst.mods \cup src.mods
            q == Merge(dst, src, FALSE)
<1>1. bad = {}
  BY DEF Matching, CanCombineInput
<1>2. q = [dst EXCEPT !.fallback = fallback, !.mods = mods, !.inputs = ins,
                      !.outputs = some]
  BY DEF Merge
<1>. HIDE DEF bad, new
<1>3. ins = [i \in 1..N |-> new(i)]
  BY <1>1
<1>. HIDE DEF outs
<1>4. some = outs
  BY <1>1
<1>. HIDE DEF ins, some, fallback, mods, q
<1>5. /\ q.version = dst.version /\ q.tx = dst.tx /\ q.txVersion = dst.txVersion
      /\ q.fallback = fallback /\ q.mods = mods /\ q.inputs = ins /\ q.outputs = some
  BY <1>2 DEF PsbtSet
<1>. QED
  BY <1>3, <1>4, <1>5, Zenon DEF fallback, mods, outs, new, q, AllMerged

LEMMA MergedAgain ==
    ASSUME NEW dst \in PsbtSet, NEW src, Matching(dst, src),
           NEW q \in PsbtSet, q = Merge(dst, src, FALSE)
    PROVE  Merge(q, src, FALSE) = q
<1>. DEFINE N == Len(dst.inputs)
            new(i) == CombineInput(dst.inputs[i], src.inputs[i])
            newout(i) == CombineOutput(dst.outputs[i], src.outputs[i])
            again == Merge(q, src, FALSE)
<1>0. AllMerged(dst, src, q)
  BY MergedFields
<1>1. /\ q.fallback = Pick(dst.fallback, src.fallback, None)
      /\ q.mods = dst.mods \cup src.mods
      /\ q.inputs = [i \in 1..N |-> new(i)]
      /\ q.outputs = [i \in 1..Len(dst.outputs) |-> newout(i)]
  BY <1>0, Zenon DEF AllMerged
<1>2. N \in Nat /\ Len(dst.outputs) \in Nat
  BY DEF PsbtSet
<1>3. \A i \in 1..N : /\ CombineInput(new(i), src.inputs[i]) = new(i)
                      /\ SameOutpoint(new(i), src.inputs[i])
  BY CombinedAgain DEF Matching
<1>4. \A i \in 1..Len(dst.outputs) : CombineOutput(newout(i), src.outputs[i]) = newout(i)
  BY DEF CombineOutput, Pick
<1>. HIDE DEF new, newout
<1>5. /\ Len(q.inputs) = N /\ Len(q.outputs) = Len(dst.outputs)
      /\ \A i \in 1..N : q.inputs[i] = new(i)
      /\ \A i \in 1..Len(dst.outputs) : q.outputs[i] = newout(i)
  <2>1. Len([i \in 1..N |-> new(i)]) = N
    BY <1>2
  <2>2. Len([i \in 1..Len(dst.outputs) |-> newout(i)]) = Len(dst.outputs)
    BY <1>2
  <2>. QED
    BY <1>1, <2>1, <2>2, Zenon
<1>6. Matching(q, src)
  BY <1>3, <1>5 DEF Matching
<1>7. /\ again.version = q.version /\ again.tx = q.tx /\ again.txVersion = q.txVersion
      /\ again.fallback = Pick(q.fallback, src.fallback, None)
      /\ again.mods = q.mods \cup src.mods
      /\ again.inputs = [i \in 1..Len(q.inputs) |-> CombineInput(q.inputs[i], src.inputs[i])]
      /\ again.outputs = [i \in 1..Len(q.outputs) |->
                            CombineOutput(q.outputs[i], src.outputs[i])]
  <2>1. AllMerged(q, src, again)
    BY <1>6, MergedFields
  <2>. HIDE DEF again
  <2>. QED
    BY <2>1, Zenon DEF AllMerged
<1>8. again.inputs = q.inputs
  <2>1. \A i \in 1..Len(q.inputs) : CombineInput(q.inputs[i], src.inputs[i]) = new(i)
    BY <1>3, <1>5
  <2>2. again.inputs = [i \in 1..Len(q.inputs) |-> new(i)]
    BY <1>7, <2>1, Zenon
  <2>. QED
    BY <1>1, <1>5, <2>2, Zenon
<1>9. again.outputs = q.outputs
  <2>1. \A i \in 1..Len(q.outputs) : CombineOutput(q.outputs[i], src.outputs[i]) = newout(i)
    BY <1>4, <1>5
  <2>2. again.outputs = [i \in 1..Len(q.outputs) |-> newout(i)]
    BY <1>7, <2>1, Zenon
  <2>. QED
    BY <1>1, <1>5, <2>2, Zenon
<1>10. again.fallback = q.fallback /\ again.mods = q.mods
  BY <1>1, <1>7 DEF Pick
<1>11. /\ again = [version |-> again.version, tx |-> again.tx, txVersion |-> again.txVersion,
            fallback |-> again.fallback, mods |-> again.mods, inputs |-> again.inputs,
            outputs |-> again.outputs]
       /\ q = [version |-> q.version, tx |-> q.tx, txVersion |-> q.txVersion,
            fallback |-> q.fallback, mods |-> q.mods, inputs |-> q.inputs,
            outputs |-> q.outputs]
  <2>. DEFINE fallback == again.fallback
              mods == again.mods
              ins == again.inputs
              outs == again.outputs
  <2>1. \E f, m, i, o : again = [q EXCEPT !.fallback = f, !.mods = m, !.inputs = i, !.outputs = o]
    BY DEF Merge
  <2>. QED
    BY <2>1 DEF PsbtSet
<1>. HIDE DEF again
<1>12. again = q
  BY <1>7, <1>8, <1>9, <1>10, <1>11, Zenon
<1>. QED
  BY <1>12 DEF again

LEMMA CombineUnites ==
    ASSUME AmountsFit, NEW tx \in Txs, NEW dst, Copy(tx, dst), NEW src, Copy(tx, src),
           src.version = dst.version, Matching(dst, src),
           NEW new, new = Combine(dst, src), NEW back, back = Combine(src, dst)
    PROVE  /\ Combine(new, src) = new /\ BuildTx(new) = BuildTx(dst)
           /\ new.mods = back.mods
           /\ \A i \in 1..Len(dst.inputs) :
                /\ Merged(dst.inputs[i], src.inputs[i], new.inputs[i])
                /\ Merged(src.inputs[i], dst.inputs[i], back.inputs[i])
<1>1. /\ dst \in PsbtSet /\ src \in PsbtSet
      /\ Len(src.inputs) = Len(dst.inputs) /\ Len(dst.inputs) \in Nat
  BY DEF Copy, PsbtSet
<1>2. Copy(tx, new) /\ new = Merge(dst, src, FALSE) /\ back = Merge(src, dst, FALSE)
  BY CombineIsCopy DEF Combine
<1>3. new \in PsbtSet /\ BuildTx(new) = tx /\ BuildTx(dst) = tx
  BY <1>2, CopyBuilds DEF Copy
<1>4. Combine(new, src) = new
  BY <1>1, <1>2, <1>3, MergedAgain, ZenonT(60) DEF Combine
<1>5. Matching(src, dst)
  BY <1>1 DEF Matching, SameOutpoint
<1>6. /\ new.mods = dst.mods \cup src.mods
      /\ new.inputs = [i \in 1..Len(dst.inputs) |->
                          CombineInput(dst.inputs[i], src.inputs[i])]
  <2>1. AllMerged(dst, src, new)
    BY <1>1, <1>2, MergedFields
  <2>. QED
    BY <2>1, Zenon DEF AllMerged
<1>7. /\ back.mods = src.mods \cup dst.mods
      /\ back.inputs = [i \in 1..Len(src.inputs) |->
                          CombineInput(src.inputs[i], dst.inputs[i])]
  <2>1. AllMerged(src, dst, back)
    BY <1>1, <1>2, <1>5, MergedFields
  <2>. QED
    BY <2>1, Zenon DEF AllMerged
<1>8. ASSUME NEW i \in 1..Len(dst.inputs)
      PROVE  /\ Merged(dst.inputs[i], src.inputs[i], new.inputs[i])
             /\ Merged(src.inputs[i], dst.inputs[i], back.inputs[i])
  <2>1. /\ new.inputs[i] = CombineInput(dst.inputs[i], src.inputs[i])
        /\ back.inputs[i] = CombineInput(src.inputs[i], dst.inputs[i])
    BY <1>1, <1>6, <1>7
  <2>. QED
    BY <2>1, InputsMerge
<1>9. new.mods = back.mods
  BY <1>6, <1>7
<1>. QED
  BY <1>3, <1>4, <1>8, <1>9

LEMMA CopiesUnite ==
    ExchangeAssumptions /\ ExchangeInv => CopiesCombine /\ CombineIsUnion
<1>. SUFFICES ASSUME ExchangeAssumptions, ExchangeInv
              PROVE  CopiesCombine /\ CombineIsUnion
  OBVIOUS
<1>1. PICK tx \in Txs : Copies(tx)
  BY DEF ExchangeInv
<1>2. \A h \in Live : Copy(tx, psbt[h])
  BY <1>1 DEF Copies
<1>3. CopiesCombine
  BY <1>2, CopiesCanCombine DEF CopiesCombine, ExchangeAssumptions
<1>4. ASSUME NEW g \in Live, NEW h \in Live,
             CanCombine(psbt[g], psbt[h]), InputsMatch(g, h)
      PROVE  LET dst == psbt[g]
                 src == psbt[h]
                 new == Combine(dst, src)
                 back == Combine(src, dst)
             IN /\ Combine(new, src) = new
                /\ BuildTx(new) = BuildTx(dst)
                /\ new.mods = back.mods
                /\ \A i \in 1..Len(dst.inputs) :
                    LET d == dst.inputs[i]
                        n == new.inputs[i]
                        b == back.inputs[i]
                    IN /\ Signers(n) = Signers(b)
                       /\ \A k \in Signers(d) : n.sigs[k] = d.sigs[k]
                       /\ n.keypaths = b.keypaths
                       /\ IsFinalized(n) = IsFinalized(b)
                       /\ IsFinalized(d) => n.final = d.final
                       /\ d.sighash # None => n.sighash = d.sighash
  <2>. DEFINE dst == psbt[g]
              src == psbt[h]
              new == Combine(dst, src)
              back == Combine(src, dst)
  <2>1. Copy(tx, dst) /\ Copy(tx, src) /\ src.version = dst.version
    BY <1>2, <1>4 DEF CanCombine
  <2>2. Matching(dst, src)
    <3>1. Inputs(dst) = 1..Len(dst.inputs)
      BY <2>1, CopyBuilds DEF ExchangeAssumptions
    <3>. QED
      BY <1>4, <3>1 DEF InputsMatch, CanCombineInput, Matching
  <2>. HIDE DEF new, back, dst, src
  <2>3. /\ Combine(new, src) = new /\ BuildTx(new) = BuildTx(dst)
        /\ new.mods = back.mods
        /\ \A i \in 1..Len(dst.inputs) :
            /\ Merged(dst.inputs[i], src.inputs[i], new.inputs[i])
            /\ Merged(src.inputs[i], dst.inputs[i], back.inputs[i])
    BY <2>1, <2>2, CombineUnites DEF ExchangeAssumptions, new, back
  <2>4. ASSUME NEW d, NEW s, NEW n, NEW b, Merged(d, s, n), Merged(s, d, b)
        PROVE  /\ Signers(n) = Signers(b)
               /\ \A k \in Signers(d) : n.sigs[k] = d.sigs[k]
               /\ n.keypaths = b.keypaths
               /\ IsFinalized(n) = IsFinalized(b)
               /\ IsFinalized(d) => n.final = d.final
               /\ d.sighash # None => n.sighash = d.sighash
    <3>1. IsFinalized(n) \in BOOLEAN /\ IsFinalized(b) \in BOOLEAN
      BY DEF IsFinalized
    <3>2. IsFinalized(n) = IsFinalized(b)
      BY <2>4, <3>1 DEF Merged
    <3>. QED
      BY <2>4, <3>2 DEF Merged
  <2>5. \A i \in 1..Len(dst.inputs) :
          /\ Signers(new.inputs[i]) = Signers(back.inputs[i])
          /\ \A k \in Signers(dst.inputs[i]) : new.inputs[i].sigs[k] = dst.inputs[i].sigs[k]
          /\ new.inputs[i].keypaths = back.inputs[i].keypaths
          /\ IsFinalized(new.inputs[i]) = IsFinalized(back.inputs[i])
          /\ IsFinalized(dst.inputs[i]) => new.inputs[i].final = dst.inputs[i].final
          /\ dst.inputs[i].sighash # None => new.inputs[i].sighash = dst.inputs[i].sighash
    BY <2>3, <2>4
  <2>. QED
    BY <2>3, <2>5, Zenon DEF new, back, dst, src
<1>5. CombineIsUnion
  BY <1>4, Zenon DEF CombineIsUnion
<1>. QED
  BY <1>3, <1>5

-----------------------------------------------------------------------------
(* The invariant holds of every reachable state.                           *)
LEMMA ExchangeKeepsCopies ==
    ASSUME ExchangeAssumptions
    PROVE  ExchangeSpec => []ExchangeInv
<1>1. ReadyInit => ExchangeInv
  BY ReadyIsCopy DEF ExchangeAssumptions
<1>2. ExchangeInv /\ [ExchangeNext]_vars => ExchangeInv'
  BY NextIsCopy
<1>. QED
  BY <1>1, <1>2, PTL DEF ExchangeSpec

(* Every signature of every copy is one of the transaction that the copy   *)
(* builds, although copies take over signatures that were made from        *)
(* others, of another version, or that came without the transaction.       *)
THEOREM ExchangedSignaturesVerify ==
    ASSUME AmountsFit, PrevoutsKnown, ScriptsKnown, NoTxIsRaised
    PROVE  ExchangeSpec => []SignaturesVerify
<1>1. ExchangeAssumptions
  BY DEF ExchangeAssumptions
<1>2. ExchangeSpec => []ExchangeInv
  BY <1>1, ExchangeKeepsCopies
<1>3. ExchangeInv => SignaturesVerify
  BY <1>1, CopiesVerify
<1>. QED
  BY <1>2, <1>3, PTL

(* A copy with a finalized input can be extracted, and the witness that    *)
(* wally_psbt_finalize_input made, of this copy or of one that was         *)
(* combined with it, satisfies the script it spends.                       *)
THEOREM WitnessesVerify ==
    ASSUME AmountsFit, PrevoutsKnown, ScriptsKnown, NoTxIsRaised
    PROVE  ExchangeSpec => []FinalWitnessesVerify
<1>1. ExchangeAssumptions
  BY DEF ExchangeAssumptions
<1>2. ExchangeSpec => []ExchangeInv
  BY <1>1, ExchangeKeepsCopies
<1>3. ExchangeInv => FinalWitnessesVerify
  BY <1>1, CopiesVerify
<1>. QED
  BY <1>2, <1>3, PTL

(* wally_psbt_get_id of two copies of the same version is the same: they   *)
(* can be combined.                                                        *)
THEOREM CopiesStayCombinable ==
    ASSUME AmountsFit, PrevoutsKnown, ScriptsKnown, NoTxIsRaised
    PROVE  ExchangeSpec => []CopiesCombine
<1>1. ExchangeAssumptions
  BY DEF ExchangeAssumptions
<1>2. ExchangeSpec => []ExchangeInv
  BY <1>1, ExchangeKeepsCopies
<1>3. ExchangeInv => CopiesCombine
  BY <1>1, CopiesUnite
<1>. QED
  BY <1>2, <1>3, PTL

(* Combining copies whose inputs match makes the union of what they hold,  *)
(* the destination's own data first, and to combine again changes nothing. *)
THEOREM CombiningUnites ==
    ASSUME AmountsFit, PrevoutsKnown, ScriptsKnown, NoTxIsRaised
    PROVE  ExchangeSpec => []CombineIsUnion
<1>1. ExchangeAssumptions
  BY DEF ExchangeAssumptions
<1>2. ExchangeSpec => []ExchangeInv
  BY <1>1, ExchangeKeepsCopies
<1>3. ExchangeInv => CombineIsUnion
  BY <1>1, CopiesUnite
<1>. QED
  BY <1>2, <1>3, PTL
=============================================================================
