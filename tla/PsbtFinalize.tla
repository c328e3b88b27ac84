---------------------------- MODULE PsbtFinalize ----------------------------
(***************************************************************************)
(* The finalizer and the extractor of src/psbt.c.  A final witness is the  *)
(* script it spends and the signatures it pushes, in order; None stands    *)
(* for an empty witness element.                                           *)
(***************************************************************************)
EXTENDS PsbtCombine

Witness(script, sigs) == [script |-> script, sigs |-> sigs]

(* The script wally_psbt_finalize_input goes by.                           *)
SpentScript(in) ==
    IF in.script # None THEN in.script
    ELSE IF in.utxo # None THEN in.utxo.script ELSE None

TxVersion(p) == IF p.version = 0 THEN p.tx.version ELSE p.txVersion
SequenceOf(p, i) ==
    IF p.version = 0 THEN p.tx.inputs[i].sequence ELSE p.inputs[i].sequence

(* is_input_csv_expired                                                    *)
CsvExpired(p, i, blocks) ==
    SequenceOf(p, i) \notin NotBlocks /\ blocks <= SequenceOf(p, i)

(* finalize_p2wpkh wants the only signature there is.                      *)
FinalizeP2wpkh(in) ==
    IF Cardinality(Signers(in)) # 1 THEN None
    ELSE Witness(in.utxo.script, <<in.sigs[CHOOSE k \in Signers(in) : TRUE]>>)

(* Where the keys of a multisig are that signed, and the n-th of them.     *)
SignedPositions(in, script) ==
    {m \in 1..Len(script.keys) : script.keys[m] \in Signers(in)}
NthOf(S, n) == CHOOSE m \in S : Cardinality({l \in S : l < m}) = n - 1

FinalizeMultisigAll(in, script) ==
    LET signed == SignedPositions(in, script)
    IN IF Cardinality(signed) < script.threshold THEN None
       ELSE Witness(script, [n \in 1..Cardinality(signed) |->
                in.sigs[script.keys[NthOf(signed, n)]]])

(* finalize_multisig takes the first signatures in the order of the keys   *)
(* in the script, as many as the threshold.                                *)
FinalizeMultisig(in, script) ==
    LET signed == SignedPositions(in, script)
    IN IF \/ Cardinality(Signers(in)) < script.threshold
          \/ Cardinality(signed) < script.threshold
       THEN None
       ELSE Witness(script, [n \in 1..script.threshold |->
                in.sigs[script.keys[NthOf(signed, n)]]])

FinalizeCsv2of2Unlocked(p, i, script) ==
    LET in == p.inputs[i]
        sig(n) == in.sigs[script.keys[n]]
    IN IF script.keys[2] \in Signers(in) /\ SequenceOf(p, i) \notin NotBlocks
       THEN Witness(script, <<sig(2)>>) ELSE None

(* finalize_csv2of2_1: both keys, or one of them once the lock is over.    *)
FinalizeCsv2of2(p, i, script) ==
    LET in == p.inputs[i]
        expired == TxVersion(p) >= 2 /\ CsvExpired(p, i, script.blocks)
        has(n) == script.keys[n] \in Signers(in)
        sig(n) == in.sigs[script.keys[n]]
    IN CASE expired /\ script.optimized /\ has(1) ->
                Witness(script, <<None, sig(1)>>)
         [] expired /\ ~script.optimized /\ has(2) -> Witness(script, <<sig(2)>>)
         [] ~expired /\ has(1) /\ has(2) -> Witness(script, <<sig(2), sig(1)>>)
         [] OTHER -> None

(* The switch of wally_psbt_finalize_input; p2wsh without its witness      *)
(* script is not implemented.                                              *)
FinalWitness(p, i) ==
    LET in == p.inputs[i]
        script == SpentScript(in)
    IN CASE script = None -> None
         [] script # None /\ script.type = "p2wpkh" -> FinalizeP2wpkh(in)
         [] script # None /\ script.type = "multisig" -> FinalizeMultisig(in, script)
         [] script # None /\ script.type = "csv2of2" -> FinalizeCsv2of2(p, i, script)
         [] OTHER -> None

Cleared(in) ==
    [in EXCEPT !.script = None, !.keypaths = {}, !.sigs = NoSigs, !.sighash = None]

(* wally_psbt_finalize_input; `clear` is FALSE for the flag NO_CLEAR.      *)
FinalizeInput(p, i, clear) ==
    LET final == IF IsFinalized(p.inputs[i]) THEN p.inputs[i].final
                 ELSE FinalWitness(p, i)
        done == [p.inputs[i] EXCEPT !.final = final]
    IN IF final = None THEN p.inputs[i]
       ELSE IF clear THEN Cleared(done) ELSE done

CanFinalize(p) == IsValid(p)

(* wally_psbt_finalize                                                     *)
Finalize(p, clear) ==
    [p EXCEPT !.inputs =
        [i \in 1..Len(p.inputs) |-> FinalizeInput(p, i, clear)]]

(* wally_psbt_extract: the transaction and its final witnesses.  `partial` *)
(* is the flag OPT_FINAL, which takes what is finalized already.           *)
CanExtract(p, partial) ==
    /\ CanBuildTx(p)
    /\ partial \/ \A i \in 1..Len(p.inputs) : IsFinalized(p.inputs[i])
Extract(p) == [tx |-> BuildTx(p),
               witness |-> [i \in 1..Len(p.inputs) |-> p.inputs[i].final]]

-----------------------------------------------------------------------------
(* What the network asks of a witness (consensus, not this code): every    *)
(* signature commits to this transaction, and the script is satisfied.     *)

SigOk(tx, i, utxo, code, sig, k) ==
    sig # None /\ sig.key = k
    /\ sig.hash = SignatureHash(tx, i, utxo, code, sig.hash.sighash)

(* A signature of key k in a PSBT is one of the script its input spends.   *)
Verifies(p, i, k) ==
    LET in == p.inputs[i]
        spk == in.utxo.script
    IN SigOk(BuildTx(p), i, in.utxo,
             IF spk.type = "p2wsh" THEN spk.of ELSE spk, in.sigs[k], k)

(* OP_CHECKMULTISIG takes the signatures in the order of the keys.         *)
MultisigOk(tx, i, utxo, script, sigs) ==
    /\ Len(sigs) = script.threshold
    /\ \E f \in [1..Len(sigs) -> 1..Len(script.keys)] :
        /\ \A m, n \in 1..Len(sigs) : m < n => f[m] < f[n]
        /\ \A n \in 1..Len(sigs) :
            SigOk(tx, i, utxo, script, sigs[n], script.keys[f[n]])

(* OP_CHECKSEQUENCEVERIFY of a number of blocks.                           *)
CsvOk(tx, i, blocks) ==
    /\ tx.version >= 2
    /\ tx.inputs[i].sequence \notin NotBlocks
    /\ blocks <= tx.inputs[i].sequence

(* Either script wants the last key and the first; after the lock the      *)
(* optimized one takes the first with an empty second, the other the last. *)
Csv2of2Ok(tx, i, utxo, script, sigs) ==
    LET ok(n, key) == n \in 1..Len(sigs)
                      /\ SigOk(tx, i, utxo, script, sigs[n], script.keys[key])
    IN \/ Len(sigs) = 2 /\ ok(1, 2) /\ ok(2, 1)
       \/ /\ CsvOk(tx, i, script.blocks)
          /\ IF script.optimized
             THEN Len(sigs) = 2 /\ sigs[1] = None /\ ok(2, 1)
             ELSE Len(sigs) = 1 /\ ok(1, 2)

WitnessOk(tx, i, utxo, witness) ==
    LET script == witness.script
        sigs == witness.sigs
    IN CASE script.type = "p2wpkh" ->
                /\ script = utxo.script /\ Len(sigs) = 1
                /\ SigOk(tx, i, utxo, script, sigs[1], script.keys[1])
         [] script.type = "multisig" ->
                utxo.script = P2wsh(script) /\ MultisigOk(tx, i, utxo, script, sigs)
         [] script.type = "csv2of2" ->
                utxo.script = P2wsh(script) /\ Csv2of2Ok(tx, i, utxo, script, sigs)
         [] OTHER -> FALSE
=============================================================================
