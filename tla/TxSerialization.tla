-------------------------- MODULE TxSerialization --------------------------
(***************************************************************************)
(* A caller builds a transaction for one network, writes it, and reads it  *)
(* again, it or whatever became of the bytes on their way.                 *)
(***************************************************************************)
EXTENDS TxParser

CONSTANTS
    InputArgs, OutputArgs,  \* [network -> the arguments a caller has], TRUE is Elements
    Stacks,                 \* witness stacks to set
    MaxInputs, MaxOutputs,
    MaxDamaged,             \* bytes are damaged only if there are no more than this
    Bytes                   \* what a byte may change into

ASSUME ArgsAssumption ==
    /\ \A e \in BOOLEAN :
        InputArgs[e] \subseteq InputArgSet /\ OutputArgs[e] \subseteq OutputArgSet(e)
    /\ Stacks \subseteq StackSet
    /\ MaxInputs \in Nat /\ MaxOutputs \in Nat /\ Bytes \subseteq Nat

VARIABLES
    elements,  \* the caller's network
    tx,
    wire       \* the bytes under way, those flags they were written with that
               \* they show, and what happened to them; or None
vars == <<elements, tx, wire>>

WriteFlags == SUBSET {"USE_WITNESS", "ALLOW_PARTIAL", "PRE_BIP144"}
AllReadFlags == SUBSET {"USE_ELEMENTS", "PRE_BIP144"}

TypeOK ==
    /\ elements \in BOOLEAN
    /\ tx \in TxSet
    /\ wire \in {None} \cup [bytes : Buffers, flags : WriteFlags,
                            damage : {"none", "cut", "changed"}]

EmptyTx == [version |-> 2, locktime |-> 7, inputs |-> <<>>, outputs |-> <<>>]

Init == elements \in BOOLEAN /\ tx = EmptyTx /\ wire = None

Building == wire = None

AddInput(i, a, raw) ==
    /\ Building
    /\ Len(tx.inputs) < MaxInputs
    /\ i \in 1..Len(tx.inputs) + 1
    /\ tx' = [tx EXCEPT !.inputs = InsertAt(@, i,
                 IF raw THEN RawInput(a, elements) ELSE InitInput(a, elements))]
    /\ UNCHANGED <<elements, wire>>

RemoveInput(i) ==
    /\ Building
    /\ tx' = [tx EXCEPT !.inputs = RemoveAt(@, i)]
    /\ UNCHANGED <<elements, wire>>

(* wally_tx_add_output_at: the total of a Bitcoin transaction is bounded.  *)
TotalSatoshi(outputs) == Total(LAMBDA out : out.satoshi, outputs)
AddOutput(i, a) ==
    /\ Building
    /\ Len(tx.outputs) < MaxOutputs
    /\ i \in 1..Len(tx.outputs) + 1
    /\ CanMakeOutput(a, elements)
    /\ (elements \/ TotalSatoshi(tx.outputs) + a.satoshi <= SatoshiMax)
    /\ tx' = [tx EXCEPT !.outputs = InsertAt(@, i, MakeOutput(a, elements))]
    /\ UNCHANGED <<elements, wire>>

RemoveOutput(i) ==
    /\ Building
    /\ tx' = [tx EXCEPT !.outputs = RemoveAt(@, i)]
    /\ UNCHANGED <<elements, wire>>

(* wally_tx_set_input_witness                                              *)
SetInputWitness(i, stack) ==
    /\ Building
    /\ tx' = [tx EXCEPT !.inputs[i].witness = stack]
    /\ UNCHANGED <<elements, wire>>

Write(flags) ==
    /\ Building
    /\ CanWrite(tx, flags)
    /\ wire' = [bytes |-> ToBytes(tx, flags), flags |-> flags \cap {"USE_WITNESS"},
                damage |-> "none"]
    /\ UNCHANGED <<elements, tx>>

Damage(bytes, damage) ==
    /\ wire.damage = "none"
    /\ wire' = [wire EXCEPT !.bytes = bytes, !.damage = damage]
    /\ UNCHANGED <<elements, tx>>
Cut(n) == Damage(SubSeq(wire.bytes, 1, n), "cut")
Change(p, byte) == byte # wire.bytes[p] /\ Damage([wire.bytes EXCEPT ![p] = byte], "changed")

(* What a reader must know of what was written: the network, and whether   *)
(* there may be no inputs.  Bytes without witnesses are the same before    *)
(* BIP 144 and since.                                                      *)
ReadFlags(t, flags) ==
    IF IsElements(t) THEN {{"USE_ELEMENTS"}}
    ELSE IF t.inputs = <<>> THEN {{"PRE_BIP144"}}
    ELSE IF WritesWitness(t, flags) THEN {{}} ELSE {{}, {"PRE_BIP144"}}

Read(flags) ==
    /\ wire.damage = "none"
    /\ flags \in ReadFlags(tx, wire.flags)
    /\ Analyze(wire.bytes, flags).end # Refused
    /\ tx' = FromBytes(wire.bytes, flags).tx
    /\ tx' # None
    /\ wire' = None
    /\ UNCHANGED elements

BuildNext ==
    \/ \E i \in 1..MaxInputs, a \in InputArgs[elements], raw \in BOOLEAN : AddInput(i, a, raw)
    \/ \E i \in 1..Len(tx.inputs) : RemoveInput(i)
    \/ \E i \in 1..MaxOutputs, a \in OutputArgs[elements] : AddOutput(i, a)
    \/ \E i \in 1..Len(tx.outputs) : RemoveOutput(i)
    \/ \E i \in 1..Len(tx.inputs), stack \in Stacks : SetInputWitness(i, stack)
    \/ \E flags \in WriteFlags : Write(flags)
WireNext ==
    \/ /\ Len(wire.bytes) <= MaxDamaged
       /\ \E n \in 0..Len(wire.bytes) - 1 : Cut(n)
    \/ /\ Len(wire.bytes) <= MaxDamaged
       /\ \E p \in 1..Len(wire.bytes), byte \in Bytes : Change(p, byte)
    \/ \E flags \in AllReadFlags : Read(flags)
Next == BuildNext \/ (wire # None /\ WireNext)
Spec == Init /\ [][Next]_vars

-----------------------------------------------------------------------------
(* With all outputs explicit and no proofs (ELIP 200).                     *)
Explicit(t) ==
    [t EXCEPT !.outputs = [i \in DOMAIN t.outputs |->
        [t.outputs[i] EXCEPT !.value = IF Len(@) = CtLen THEN [n \in 1..ExplicitLen |-> ExplicitPrefix] ELSE @,
                     !.nonce = <<>>, !.surjectionproof = <<>>, !.rangeproof = <<>>]]]

(* The length computed for a transaction is that of its bytes, whatever it *)
(* is made of and whichever flags are given: wally_tx_to_bytes writes into *)
(* a buffer of that length and looks at it no more.  Sizes and weight add  *)
(* up to the same bytes, and the discount of a confidential transaction is *)
(* what it weighs more than one with explicit outputs, as long as that one *)
(* has a witness too.  Left out: the witness of a transaction without      *)
(* inputs, which is counted and not written.                               *)
LengthIsExact ==
    Building =>
        /\ \A flags \in WriteFlags :
            CanWrite(tx, flags) /\ (tx.inputs # <<>> \/ "USE_WITNESS" \notin flags) =>
                Len(ToBytes(tx, flags)) = GetLength(tx, flags)
        /\ tx.inputs # <<>> =>
            LET long == Len(ToBytes(tx, {"USE_WITNESS"}))
            IN /\ Weight(tx) = 3 * Len(ToBytes(tx, {})) + long
               /\ Vsize(tx) <= long
        /\ IsElements(tx) /\ HasWitness(Explicit(tx)) =>
            Weight(tx) - WeightDiscount(tx) = Weight(Explicit(tx))

(* What bytes keep of a transaction: with witnesses all but that a stack   *)
(* without items is none at all; and of an issuance only if it is one.     *)
Stack(stack) == IF stack = <<>> THEN None ELSE stack
Kept(t, flags) ==
    LET witness == WritesWitness(t, flags)
        proofs == witness /\ IsElements(t)
    IN [t EXCEPT
        !.inputs = [i \in DOMAIN t.inputs |->
            LET in == t.inputs[i]
                issuance == "ISSUANCE" \in in.features
            IN [in EXCEPT
                !.nonce = IF issuance THEN @ ELSE Cleared(<<>>),
                !.amount = IF issuance THEN @ ELSE <<>>,
                !.keys = IF issuance THEN @ ELSE <<>>,
                !.amountproof = IF proofs THEN @ ELSE <<>>,
                !.keysproof = IF proofs THEN @ ELSE <<>>,
                !.witness = IF witness THEN Stack(@) ELSE None,
                !.pegin = IF proofs THEN Stack(@) ELSE None]],
        !.outputs = [i \in DOMAIN t.outputs |->
            [t.outputs[i] EXCEPT !.surjectionproof = IF proofs THEN @ ELSE <<>>,
                         !.rangeproof = IF proofs THEN @ ELSE <<>>]]]

ReadBack(bytes, flags, t) ==
    Analyze(bytes, flags).end = Len(bytes) /\ FromBytes(bytes, flags).tx = t
RoundTrips(t) ==
    \A flags \in WriteFlags : CanWrite(t, flags) =>
        \A f \in ReadFlags(t, flags) : ReadBack(ToBytes(t, flags), f, Kept(t, flags))

(* Two transactions are written alike if one has an issuance that is a     *)
(* peg-in or a coinbase as well, which no bytes say, or a commitment with  *)
(* the first byte of those that are missing.                               *)
Shows(commitment) == commitment = <<>> \/ commitment[1] # EmptyPrefix
Unambiguous(t) ==
    /\ \A i \in DOMAIN t.inputs :
        LET in == t.inputs[i]
        IN "ISSUANCE" \in in.features =>
            {"PEGIN", "COINBASE"} \cap in.features = {} /\ Shows(in.amount) /\ Shows(in.keys)
    /\ \A i \in DOMAIN t.outputs :
        LET out == t.outputs[i] IN Shows(out.asset) /\ Shows(out.value) /\ Shows(out.nonce)

CanRoundTrip(t) == t # None /\ Unambiguous(t) => RoundTrips(t)

(* What is written is read back, for every transaction that calls can make *)
(* and for every transaction that can be read, from whatever bytes, as     *)
(* long as bytes can say what it is.  If the end is missing they are       *)
(* refused: no part passes for a whole.                                    *)
BytesAreReadBack ==
    /\ Building => CanRoundTrip(tx)
    /\ ~Building => \A flags \in AllReadFlags :
        Analyze(wire.bytes, flags).end # Refused =>
            CanRoundTrip(FromBytes(wire.bytes, flags).tx)
    /\ ~Building /\ wire.damage = "cut" /\ Unambiguous(tx) =>
        \A flags \in ReadFlags(tx, wire.flags) : Analyze(wire.bytes, flags).end = Refused

EndsAt(read, end) ==
    end # Refused =>
        /\ end <= Len(wire.bytes)
        /\ IF read.tx = None THEN read.end <= end ELSE read.end = end

(* The parser, which does not look at the end of the bytes, ends where the *)
(* analysis said it would, or before it if an amount is too large, and     *)
(* that is never behind them, whatever the bytes are.                      *)
ParserStaysInside ==
    ~Building => \A flags \in AllReadFlags :
        EndsAt(FromBytes(wire.bytes, flags), Analyze(wire.bytes, flags).end)
=============================================================================
