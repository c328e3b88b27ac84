------------------------------ MODULE TxParser ------------------------------
(***************************************************************************)
(* analyze_tx and tx_from_bytes.  A position is the number of bytes that   *)
(* are behind it; Refused stands for WALLY_EINVAL and stays refused.       *)
(***************************************************************************)
EXTENDS TxFormat

Refused == -1

(* n times what Do does.                                                   *)
Repeat(Do(_), start, n) ==
    LET done[k \in 0..n] == IF k = 0 THEN start ELSE Do(done[k - 1]) IN done[n]

(* ensure_n, and going there                                               *)
Skip(bytes, p, n) == IF p # Refused /\ n <= Len(bytes) - p THEN p + n ELSE Refused

(* ensure_varint                                                           *)
EnsureVarint(bytes, p) ==
    LET one == Skip(bytes, p, 1)
        two == Skip(bytes, p, 2)
    IN CASE one # Refused /\ bytes[one] # VarintTag -> [value |-> bytes[one], end |-> one]
         [] one # Refused /\ bytes[one] = VarintTag /\ two # Refused ->
                [value |-> bytes[two], end |-> two]
         [] OTHER -> [value |-> 0, end |-> Refused]

(* ensure_varbuff, and what is behind it                                   *)
EnsureVarbuff(bytes, p) ==
    LET length == EnsureVarint(bytes, p) IN Skip(bytes, length.end, length.value)

(* ensure_commitment                                                       *)
EnsureCommitment(bytes, p, explicit, prefixes) ==
    LET prefix == Skip(bytes, p, 1)
    IN IF prefix = Refused THEN Refused
       ELSE IF bytes[prefix] = EmptyPrefix THEN prefix
       ELSE IF bytes[prefix] = ExplicitPrefix THEN Skip(bytes, p, explicit)
       ELSE IF bytes[prefix] \in prefixes THEN Skip(bytes, p, CtLen) ELSE Refused
EnsureValue(bytes, p) == EnsureCommitment(bytes, p, ExplicitLen, ValuePrefixes)

EnsureItems(bytes, p, n) == Repeat(LAMBDA q : EnsureVarbuff(bytes, q), p, n)
EnsureStack(bytes, p) ==
    LET count == EnsureVarint(bytes, p) IN EnsureItems(bytes, count.end, count.value)

EnsureInputOfCoinbase(bytes, p, elements) ==
    LET outpoint == Skip(bytes, p, 2)
        sequence == Skip(bytes, EnsureVarbuff(bytes, outpoint), 1)
        amount == EnsureValue(bytes, Skip(bytes, sequence, 2))
    IN IF outpoint = Refused THEN Refused
       ELSE IF elements /\ Flagged(bytes[outpoint], IssuanceFlag) THEN EnsureValue(bytes, amount) ELSE sequence
EnsureInput(bytes, p, elements) ==
    LET outpoint == Skip(bytes, p, 2)
        sequence == Skip(bytes, EnsureVarbuff(bytes, outpoint), 1)
        amount == EnsureValue(bytes, Skip(bytes, sequence, 2))
    IN IF outpoint = Refused THEN Refused
       ELSE IF /\ elements /\ Flagged(bytes[outpoint], IssuanceFlag)
               /\ ~IsCoinbase(bytes[p + 1], bytes[outpoint])
       THEN EnsureValue(bytes, amount) ELSE sequence

EnsureOutput(bytes, p, elements) ==
    LET asset == EnsureCommitment(bytes, p, CtLen, AssetPrefixes)
        value == EnsureValue(bytes, asset)
    IN EnsureVarbuff(bytes,
           IF elements THEN EnsureCommitment(bytes, value, CtLen, NoncePrefixes)
           ELSE Skip(bytes, p, 1))

EnsureInputWitness(bytes, p) ==
    EnsureStack(bytes, EnsureStack(bytes, EnsureVarbuff(bytes, EnsureVarbuff(bytes, p))))
EnsureProofs(bytes, p) == EnsureVarbuff(bytes, EnsureVarbuff(bytes, p))

(* What precedes the inputs: where they begin, and whether there will be   *)
(* witnesses.  A count of inputs of 0 is the marker of BIP 144.            *)
Header(bytes, flags) ==
    LET elements == "USE_ELEMENTS" \in flags
    IN IF Len(bytes) < 3 \/ {"USE_ELEMENTS", "PRE_BIP144"} \subseteq flags
       THEN [end |-> Refused, witness |-> FALSE]
       ELSE IF elements THEN [end |-> 2, witness |-> bytes[2] # 0]
       ELSE IF "PRE_BIP144" \in flags \/ bytes[2] # 0 THEN [end |-> 1, witness |-> FALSE]
       ELSE [end |-> IF bytes[3] = 1 THEN 3 ELSE Refused, witness |-> TRUE]

(* What is behind n inputs, outputs, stacks ...                            *)
EnsureInputs(bytes, p, n, elements) ==
    Repeat(LAMBDA q : EnsureInput(bytes, q, elements), p, n)
EnsureOutputs(bytes, p, n, elements) ==
    Repeat(LAMBDA q : EnsureOutput(bytes, q, elements), p, n)
EnsureStacks(bytes, p, n) == Repeat(LAMBDA q : EnsureStack(bytes, q), p, n)
EnsureInputWitnesses(bytes, p, n) == Repeat(LAMBDA q : EnsureInputWitness(bytes, q), p, n)
EnsureAllProofs(bytes, p, n) == Repeat(LAMBDA q : EnsureProofs(bytes, q), p, n)

(* The locktime, which is behind a Bitcoin transaction's witnesses and     *)
(* before an Elements one's.                                               *)
EnsureRest(bytes, p, ins, outs, elements, witness) ==
    CASE ~witness -> Skip(bytes, p, 1)
      [] witness /\ ~elements -> Skip(bytes, EnsureStacks(bytes, p, ins), 1)
      [] OTHER -> EnsureAllProofs(bytes,
                      EnsureInputWitnesses(bytes, Skip(bytes, p, 1), ins), outs)

(* analyze_tx, in the order of the bytes                                   *)
AnalyzeOutputs(bytes, elements, witness, ins, outputs) ==
    [inputs |-> ins, outputs |-> outputs.value, witness |-> witness,
     end |-> EnsureRest(bytes, EnsureOutputs(bytes, outputs.end, outputs.value, elements),
                        ins, outputs.value, elements, witness)]
AnalyzeInputs(bytes, elements, witness, inputs) ==
    AnalyzeOutputs(bytes, elements, witness, inputs.value,
        EnsureVarint(bytes, EnsureInputs(bytes, inputs.end, inputs.value, elements)))
Analyze(bytes, flags) ==
    LET header == Header(bytes, flags)
    IN AnalyzeInputs(bytes, "USE_ELEMENTS" \in flags, header.witness,
                     EnsureVarint(bytes, header.end))

-----------------------------------------------------------------------------
(* tx_from_bytes does not look at the end again: what it would find behind *)
(* it is anything, here 0.                                                 *)
At(bytes, p) == IF p < Len(bytes) THEN bytes[p + 1] ELSE 0
Slice(bytes, p, n) == [i \in 1..n |-> At(bytes, p + i - 1)]

ReadVarint(bytes, p) ==
    IF At(bytes, p) = VarintTag THEN [value |-> At(bytes, p + 1), end |-> p + 2]
    ELSE [value |-> At(bytes, p), end |-> p + 1]
ReadVarbuff(bytes, p) ==
    LET length == ReadVarint(bytes, p)
    IN [value |-> Slice(bytes, length.end, length.value), end |-> length.end + length.value]

(* confidential_commitment_varint_from_bytes                               *)
ReadCommitment(bytes, p, explicit) ==
    LET length == IF At(bytes, p) = ExplicitPrefix THEN explicit
                  ELSE IF At(bytes, p) \in ValuePrefixes \cup AssetPrefixes \cup NoncePrefixes
                  THEN CtLen ELSE 0
    IN [value |-> Slice(bytes, p, length), end |-> p + IF length = 0 THEN 1 ELSE length]

Start(p) == [value |-> <<>>, end |-> p]
With(read, next) == [value |-> Append(read.value, next.value), end |-> next.end]

ReadItems(bytes, p, n) ==
    Repeat(LAMBDA r : With(r, ReadVarbuff(bytes, r.end)), Start(p), n)
ReadStack(bytes, p) ==
    LET count == ReadVarint(bytes, p)
        items == ReadItems(bytes, count.end, count.value)
    IN [value |-> IF count.value = 0 THEN None ELSE items.value, end |-> items.end]

ReadInput(bytes, p, elements) ==
    LET txhash == At(bytes, p)
        index == At(bytes, p + 1)
        script == ReadVarbuff(bytes, p + 2)
        plain == script.end + 1
        issuance == elements /\ Flagged(index, IssuanceFlag) /\ ~IsCoinbase(txhash, index)
        amount == ReadCommitment(bytes, plain + 2, ExplicitLen)
        keys == ReadCommitment(bytes, amount.end, ExplicitLen)
        in == [txhash |-> txhash, index |-> index, script |-> script.value,
               sequence |-> At(bytes, script.end),
               nonce |-> IF issuance THEN Slice(bytes, plain, 2) ELSE <<>>,
               amount |-> IF issuance THEN amount.value ELSE <<>>,
               keys |-> IF issuance THEN keys.value ELSE <<>>,
               amountproof |-> <<>>, keysproof |-> <<>>, witness |-> None, pegin |-> None]
    IN [value |-> InitInput(in, elements), end |-> IF issuance THEN keys.end ELSE plain]

ReadOutput(bytes, p, elements) ==
    LET asset == ReadCommitment(bytes, p, CtLen)
        value == ReadCommitment(bytes, asset.end, ExplicitLen)
        nonce == ReadCommitment(bytes, value.end, CtLen)
        script == ReadVarbuff(bytes, IF elements THEN nonce.end ELSE p + 1)
    IN [value |-> [satoshi |-> IF elements THEN -1 ELSE At(bytes, p), script |-> script.value,
                   asset |-> IF elements THEN asset.value ELSE <<>>,
                   value |-> IF elements THEN value.value ELSE <<>>,
                   nonce |-> IF elements THEN nonce.value ELSE <<>>,
                   surjectionproof |-> <<>>, rangeproof |-> <<>>],
        end |-> script.end]

ReadInputWitness(bytes, p) ==
    LET amount == ReadVarbuff(bytes, p)
        keys == ReadVarbuff(bytes, amount.end)
        witness == ReadStack(bytes, keys.end)
        pegin == ReadStack(bytes, witness.end)
    IN [value |-> [amountproof |-> amount.value, keysproof |-> keys.value,
                   witness |-> witness.value, pegin |-> pegin.value],
        end |-> pegin.end]
ReadProofs(bytes, p) ==
    LET surjection == ReadVarbuff(bytes, p)
        range == ReadVarbuff(bytes, surjection.end)
    IN [value |-> [surjectionproof |-> surjection.value, rangeproof |-> range.value],
        end |-> range.end]

(* The next n inputs, outputs, stacks ... and what is behind them.         *)
ReadInputs(bytes, p, n, elements) ==
    Repeat(LAMBDA r : With(r, ReadInput(bytes, r.end, elements)), Start(p), n)
ReadOutputs(bytes, p, n, elements) ==
    Repeat(LAMBDA r : With(r, ReadOutput(bytes, r.end, elements)), Start(p), n)
ReadStacks(bytes, p, n) ==
    Repeat(LAMBDA r : With(r, ReadStack(bytes, r.end)), Start(p), n)
ReadInputWitnesses(bytes, p, n) ==
    Repeat(LAMBDA r : With(r, ReadInputWitness(bytes, r.end)), Start(p), n)
ReadAllProofs(bytes, p, n) ==
    Repeat(LAMBDA r : With(r, ReadProofs(bytes, r.end)), Start(p), n)

(* The witnesses and the locktime, wherever it is.                         *)
WithWitness(in, stack) == [in EXCEPT !.witness = stack]
WithInputWitness(in, w) ==
    [in EXCEPT !.amountproof = w.amountproof, !.keysproof = w.keysproof,
               !.witness = w.witness, !.pegin = w.pegin]
WithProofs(out, proofs) ==
    [out EXCEPT !.surjectionproof = proofs.surjectionproof,
                !.rangeproof = proofs.rangeproof]
WithStacks(tx, bytes, stacks) ==
    [tx |-> [tx EXCEPT !.locktime = At(bytes, stacks.end),
                !.inputs = [n \in 1..Len(tx.inputs) |->
                                WithWitness(tx.inputs[n], stacks.value[n])]],
     end |-> stacks.end + 1]
WithWitnesses(tx, bytes, p) ==
    LET witnesses == ReadInputWitnesses(bytes, p + 1, Len(tx.inputs))
        proofs == ReadAllProofs(bytes, witnesses.end, Len(tx.outputs))
    IN [tx |-> [tx EXCEPT !.locktime = At(bytes, p),
                   !.inputs = [n \in 1..Len(tx.inputs) |->
                                   WithInputWitness(tx.inputs[n], witnesses.value[n])],
                   !.outputs = [n \in 1..Len(tx.outputs) |->
                                   WithProofs(tx.outputs[n], proofs.value[n])]],
        end |-> proofs.end]
ReadRest(tx, bytes, p, elements, witness) ==
    CASE ~witness -> [tx |-> [tx EXCEPT !.locktime = At(bytes, p)], end |-> p + 1]
      [] witness /\ ~elements ->
             WithStacks(tx, bytes, ReadStacks(bytes, p, Len(tx.inputs)))
      [] OTHER -> WithWitnesses(tx, bytes, p)

(* tx_from_bytes, of bytes that were analyzed: the transaction, None if an *)
(* amount is too large, and where the last byte was read.                  *)
BehindHeader(elements, witness) ==
    CASE elements -> 2 [] ~elements /\ witness -> 3 [] OTHER -> 1
Made(bytes, elements, analyzed, inputs, outputs) ==
    IF \A n \in DOMAIN outputs.value : CanMakeOutput(outputs.value[n], elements)
    THEN ReadRest([version |-> bytes[1], locktime |-> 0, inputs |-> inputs,
                   outputs |-> [n \in DOMAIN outputs.value |->
                                   MakeOutput(outputs.value[n], elements)]],
                  bytes, outputs.end, elements, analyzed.witness)
    ELSE [tx |-> None, end |-> outputs.end]
FromInputs(bytes, elements, analyzed, inputs) ==
    Made(bytes, elements, analyzed, inputs.value,
        ReadOutputs(bytes, ReadVarint(bytes, inputs.end).end, analyzed.outputs, elements))
FromAnalyzed(bytes, elements, analyzed) ==
    FromInputs(bytes, elements, analyzed,
        ReadInputs(bytes, ReadVarint(bytes, BehindHeader(elements, analyzed.witness)).end,
                   analyzed.inputs, elements))
FromBytes(bytes, flags) ==
    FromAnalyzed(bytes, "USE_ELEMENTS" \in flags, Analyze(bytes, flags))
=============================================================================
