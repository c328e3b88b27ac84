------------------------------ MODULE TxFormat ------------------------------
(***************************************************************************)
(* Transactions as bytes (src/transaction.c): tx_to_bytes writes them,     *)
(* tx_get_lengths says beforehand how long that will be, analyze_tx checks *)
(* bytes from anywhere and tx_from_bytes reads what was checked, without   *)
(* looking at the bounds again.  Four walks over one format, for Bitcoin   *)
(* and Elements, each with its own code.                                   *)
(*                                                                         *)
(* Bytes are numbers and the format is to scale: a version, a txid, an     *)
(* index, a sequence, an amount or a locktime is one byte, blinding nonce  *)
(* and entropy are one each, and a commitment has CtLen bytes.  What has a *)
(* length written before it keeps that: a misread length is a misread of   *)
(* all that follows.  A missing script, commitment or proof is <<>>.       *)
(***************************************************************************)
EXTENDS Integers, Sequences, SequencesExt

CONSTANTS
    None,         \* a NULL witness stack
    VarintTag,    \* numbers from here on have this byte in front of them
    ExplicitLen,  \* WALLY_TX_ASSET_CT_VALUE_UNBLIND_LEN
    CtLen,        \* WALLY_TX_ASSET_CT_LEN, of all other commitments
    SatoshiMax    \* WALLY_SATOSHI_MAX

ASSUME SizesAssumption ==
    /\ VarintTag \in Nat \ {0, 1} /\ SatoshiMax \in Nat
    /\ CtLen \in Nat /\ ExplicitLen \in 2..CtLen - 1

(* An output index is below 2; the two bits above it are flags, and all    *)
(* ones with a txid of zeros is a coinbase.                                *)
PeginFlag     == 2
IssuanceFlag  == 4
IndexMask     == 2
CoinbaseIndex == 7
Flagged(index, flag) == (index \div flag) % 2 = 1
IsCoinbase(txhash, index) == txhash = 0 /\ index = CoinbaseIndex

(* First bytes of commitments.                                             *)
EmptyPrefix    == 0
ExplicitPrefix == 1
NoncePrefixes  == {2, 3}
ValuePrefixes  == {4, 5}
AssetPrefixes  == {6, 7}

-----------------------------------------------------------------------------
(* Inputs and outputs are made of arguments in several ways; `features`    *)
(* says what they then are.                                                *)
FeatureIf(feature, condition) == IF condition THEN {feature} ELSE {}
Cleared(nonce) == IF nonce = <<>> THEN <<0, 0>> ELSE nonce

MakeInput(a, elements, issuance) ==
    LET coinbase == IsCoinbase(a.txhash, a.index)
        flags == elements /\ ~coinbase
    IN [txhash |-> a.txhash, sequence |-> a.sequence, script |-> a.script,
        index |-> IF flags THEN a.index % IndexMask ELSE a.index,
        features |-> FeatureIf("ELEMENTS", elements) \cup FeatureIf("COINBASE", coinbase)
                     \cup FeatureIf("ISSUANCE", issuance)
                     \cup FeatureIf("PEGIN", flags /\ Flagged(a.index, PeginFlag)),
        nonce |-> Cleared(a.nonce), amount |-> a.amount, keys |-> a.keys,
        amountproof |-> a.amountproof, keysproof |-> a.keysproof,
        witness |-> a.witness, pegin |-> a.pegin]

(* tx_elements_input_init: an issuance is what has a nonce.                *)
InitInput(a, elements) == MakeInput(a, elements, elements /\ a.nonce # <<>>)

(* tx_add_elements_raw_input_at: an issuance is what is flagged so.        *)
RawInput(a, elements) ==
    MakeInput(a, elements,
        /\ elements /\ ~IsCoinbase(a.txhash, a.index)
        /\ Flagged(a.index, IssuanceFlag))

(* tx_elements_output_init and tx_add_elements_raw_output_at               *)
CanMakeOutput(a, elements) == elements \/ a.satoshi <= SatoshiMax
MakeOutputUnset(a, elements) ==
    [satoshi |-> -1, script |-> a.script,
     features |-> FeatureIf("ELEMENTS", elements), asset |-> a.asset, value |-> a.value,
     nonce |-> a.nonce, surjectionproof |-> a.surjectionproof,
     rangeproof |-> a.rangeproof]
MakeOutput(a, elements) ==
    [satoshi |-> IF elements THEN -1 ELSE a.satoshi, script |-> a.script,
     features |-> FeatureIf("ELEMENTS", elements), asset |-> a.asset, value |-> a.value,
     nonce |-> a.nonce, surjectionproof |-> a.surjectionproof,
     rangeproof |-> a.rangeproof]

IsElementsPart(part) == "ELEMENTS" \in part.features

(* is_valid_elements_tx                                                    *)
IsElements(tx) ==
    /\ tx.inputs # <<>> \/ tx.outputs # <<>>
    /\ \A i \in DOMAIN tx.inputs : IsElementsPart(tx.inputs[i])
    /\ \A i \in DOMAIN tx.outputs : IsElementsPart(tx.outputs[i])

-----------------------------------------------------------------------------
(* How long the parts will be.                                             *)
Each(Op(_), parts) == [i \in DOMAIN parts |-> Op(parts[i])]
Sum(lengths) == FoldLeft(LAMBDA n, length : n + length, 0, lengths)
Total(Length(_), parts) == Sum(Each(Length, parts))

VarintLength(n) == IF n < VarintTag THEN 1 ELSE 2
VarbuffLength(bytes) == VarintLength(Len(bytes)) + Len(bytes)

(* get_commitment_len; 0 is an error                                       *)
CommitmentLength(bytes, explicit, prefixes) ==
    IF bytes = <<>> \/ bytes[1] = EmptyPrefix THEN 1
    ELSE IF bytes[1] = ExplicitPrefix THEN explicit
    ELSE IF bytes[1] \in prefixes THEN CtLen ELSE 0
ValueLength(bytes) == CommitmentLength(bytes, ExplicitLen, ValuePrefixes)

(* get_txin_issuance_size                                                  *)
IssuanceLength(in) ==
    IF "ISSUANCE" \in in.features
    THEN Len(in.nonce) + ValueLength(in.amount) + ValueLength(in.keys) ELSE 0

InputLength(in) == 3 + VarbuffLength(in.script) + IssuanceLength(in)

(* txout_get_serialized_len                                                *)
OutputLength(out) ==
    VarbuffLength(out.script)
    + IF IsElementsPart(out)
      THEN CommitmentLength(out.asset, CtLen, AssetPrefixes) + ValueLength(out.value)
           + CommitmentLength(out.nonce, CtLen, NoncePrefixes)
      ELSE 1

StackLength(stack) ==
    IF stack = None THEN 1 ELSE VarintLength(Len(stack)) + Total(VarbuffLength, stack)
InputWitnessLengthNoPegin(in) ==
    VarbuffLength(in.amountproof) + VarbuffLength(in.keysproof) + StackLength(in.witness)
InputWitnessLength(in) ==
    VarbuffLength(in.amountproof) + VarbuffLength(in.keysproof)
    + StackLength(in.witness) + StackLength(in.pegin)
ProofsLength(out) == VarbuffLength(out.surjectionproof) + VarbuffLength(out.rangeproof)

(* wally_tx_get_witness_count: whether there is any                        *)
HasWitness(tx) ==
    \/ \E i \in DOMAIN tx.inputs :
        LET in == tx.inputs[i]
        IN in.witness # None \/ in.pegin # None \/ in.amountproof # <<>> \/ in.keysproof # <<>>
    \/ \E i \in DOMAIN tx.outputs :
        tx.outputs[i].surjectionproof # <<>> \/ tx.outputs[i].rangeproof # <<>>

(* tx_get_lengths                                                          *)
HasLength(tx) == \A i \in DOMAIN tx.outputs : IsElementsPart(tx.outputs[i]) = IsElements(tx)
BaseSize(tx) ==
    2 + (IF IsElements(tx) THEN 1 ELSE 0)
    + VarintLength(Len(tx.inputs)) + Total(InputLength, tx.inputs)
    + VarintLength(Len(tx.outputs)) + Total(OutputLength, tx.outputs)
WitnessSize(tx) ==
    IF ~HasWitness(tx) THEN 0
    ELSE IF IsElements(tx)
    THEN Total(InputWitnessLength, tx.inputs) + Total(ProofsLength, tx.outputs)
    ELSE 2 + Total(LAMBDA in : StackLength(in.witness), tx.inputs)

(* wally_tx_get_length, wally_tx_get_weight, wally_tx_get_vsize            *)
GetLength(tx, flags) ==
    BaseSize(tx) + IF "USE_WITNESS" \in flags THEN WitnessSize(tx) ELSE 0
Weight(tx) == 4 * BaseSize(tx) + WitnessSize(tx)
Vsize(tx) == (Weight(tx) + 3) \div 4

(* wally_tx_get_elements_weight_discount                                   *)
OutputDiscount(out) ==
    (ProofsLength(out) - 2)
    + (IF Len(out.value) = CtLen THEN 4 * CtLen - 4 * ExplicitLen ELSE 0)
    + (IF Len(out.nonce) = CtLen THEN 4 * CtLen - 4 ELSE 0)
WeightDiscount(tx) ==
    IF IsElements(tx) THEN Total(OutputDiscount, tx.outputs) ELSE 0

-----------------------------------------------------------------------------
(* What calls make.  A commitment that is set is as long as its prefix     *)
(* says, which is left to the callers.                                     *)
Buffers == Seq(Nat)
Commitments(explicit, prefixes) ==
    {bytes \in Buffers :
        bytes = <<>> \/ CommitmentLength(bytes, explicit, prefixes) = Len(bytes)}
StackSet == {None} \cup Seq(Buffers)

InputArgSet ==
    [txhash : Nat, index : Nat, sequence : Nat, script : Buffers,
     nonce : {<<>>} \cup [1..2 -> Nat],  \* BYTES_INVALID_N refuses another length
     amount : Commitments(ExplicitLen, ValuePrefixes),
     keys : Commitments(ExplicitLen, ValuePrefixes),
     amountproof : Buffers, keysproof : Buffers, witness : StackSet, pegin : StackSet]
InputSet ==
    [txhash : Nat, index : Nat, sequence : Nat, script : Buffers, nonce : Buffers,
     features : SUBSET {"ELEMENTS", "COINBASE", "ISSUANCE", "PEGIN"},
     amount : Commitments(ExplicitLen, ValuePrefixes),
     keys : Commitments(ExplicitLen, ValuePrefixes),
     amountproof : Buffers, keysproof : Buffers, witness : StackSet, pegin : StackSet]

(* wally_tx_output_init gives no commitments.                              *)
OutputArgSet(elements) ==
    [satoshi : IF elements THEN {-1} \cup Nat ELSE Nat, script : Buffers,
     asset : IF elements THEN Commitments(CtLen, AssetPrefixes) ELSE {<<>>},
     value : IF elements THEN Commitments(ExplicitLen, ValuePrefixes) ELSE {<<>>},
     nonce : IF elements THEN Commitments(CtLen, NoncePrefixes) ELSE {<<>>},
     surjectionproof : Buffers, rangeproof : Buffers]
OutputSet(elements) ==
    [satoshi : IF elements THEN {-1} ELSE Nat, script : Buffers,
     features : {FeatureIf("ELEMENTS", elements)},
     asset : Commitments(CtLen, AssetPrefixes),
     value : Commitments(ExplicitLen, ValuePrefixes),
     nonce : Commitments(CtLen, NoncePrefixes),
     surjectionproof : Buffers, rangeproof : Buffers]

TxSet ==
    [version : Nat, locktime : Nat, inputs : Seq(InputSet),
     outputs : Seq(OutputSet(TRUE) \cup OutputSet(FALSE))]

-----------------------------------------------------------------------------
(* What is written.                                                        *)
Joined(pieces) == FoldLeft(LAMBDA bytes, piece : bytes \o piece, <<>>, pieces)
Concat(Bytes(_), parts) == Joined(Each(Bytes, parts))

VarintToBytes(n) == IF n < VarintTag THEN <<n>> ELSE <<VarintTag, n>>
VarbuffToBytes(bytes) == VarintToBytes(Len(bytes)) \o bytes
(* confidential_value_to_bytes                                             *)
CommitmentToBytes(bytes) == IF bytes = <<>> THEN <<EmptyPrefix>> ELSE bytes
StackToBytes(stack) ==
    IF stack = None THEN <<0>> ELSE VarintToBytes(Len(stack)) \o Concat(VarbuffToBytes, stack)

(* An issuance that is a peg-in as well is written as an issuance.         *)
IndexToByte(in) ==
    IF "ISSUANCE" \in in.features THEN in.index + IssuanceFlag
    ELSE IF "PEGIN" \in in.features THEN in.index + PeginFlag
    ELSE in.index

InputToBytes(in) ==
    <<in.txhash, IndexToByte(in)>> \o VarbuffToBytes(in.script) \o <<in.sequence>>
    \o IF "ISSUANCE" \in in.features
       THEN in.nonce \o CommitmentToBytes(in.amount) \o CommitmentToBytes(in.keys)
       ELSE <<>>

OutputToBytes(out) ==
    (IF IsElementsPart(out)
     THEN CommitmentToBytes(out.asset) \o CommitmentToBytes(out.value)
          \o CommitmentToBytes(out.nonce)
     ELSE <<out.satoshi>>)
    \o VarbuffToBytes(out.script)

InputWitnessToBytesSwapped(in) ==
    VarbuffToBytes(in.keysproof) \o VarbuffToBytes(in.amountproof)
    \o StackToBytes(in.witness) \o StackToBytes(in.pegin)
InputWitnessToBytes(in) ==
    VarbuffToBytes(in.amountproof) \o VarbuffToBytes(in.keysproof)
    \o StackToBytes(in.witness) \o StackToBytes(in.pegin)
ProofsToBytes(out) == VarbuffToBytes(out.surjectionproof) \o VarbuffToBytes(out.rangeproof)

(* tx_to_bytes: a transaction without inputs is written before BIP 144 or  *)
(* not at all, since the count of its inputs would be taken for a marker.  *)
CanWrite(tx, flags) ==
    /\ HasLength(tx)
    /\ tx.inputs = <<>> \/ tx.outputs = <<>> => "ALLOW_PARTIAL" \in flags
    /\ tx.inputs = <<>> => "PRE_BIP144" \in flags
    /\ IsElements(tx) \/ \A i \in DOMAIN tx.inputs : "ISSUANCE" \notin tx.inputs[i].features

WritesWitness(tx, flags) ==
    "USE_WITNESS" \in flags /\ tx.inputs # <<>> /\ HasWitness(tx)

ToBytes(tx, flags) ==
    LET elements == IsElements(tx)
        witness == WritesWitness(tx, flags)
    IN <<tx.version>>
       \o (CASE elements -> <<IF witness THEN 1 ELSE 0>>
             [] ~elements /\ witness -> <<0, 1>>
             [] OTHER -> <<>>)
       \o VarintToBytes(Len(tx.inputs)) \o Concat(InputToBytes, tx.inputs)
       \o VarintToBytes(Len(tx.outputs)) \o Concat(OutputToBytes, tx.outputs)
       \o (IF witness /\ ~elements
           THEN Concat(LAMBDA in : StackToBytes(in.witness), tx.inputs) ELSE <<>>)
       \o <<tx.locktime>>
       \o (IF witness /\ elements
           THEN Concat(InputWitnessToBytes, tx.inputs) \o Concat(ProofsToBytes, tx.outputs)
           ELSE <<>>)
=============================================================================
