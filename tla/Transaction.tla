---------------------------- MODULE Transaction ----------------------------
(***************************************************************************)
(* struct wally_tx (src/transaction.c) and the BIP 143 signature message   *)
(* (src/tx_io.c), as operators on records.  A hash is what it commits to:  *)
(* two messages are equal exactly when the bytes that are hashed are.      *)
(*                                                                         *)
(* Positions count from 1; a txid, a script or a key is a value the        *)
(* operators only compare.  Transaction inputs carry no scriptSig and no   *)
(* witness: those of a PSBT never do.                                      *)
(***************************************************************************)
EXTENDS Naturals, SequencesExt

CONSTANTS
    None,       \* an absent pointer, an unset field, an all-zero hash
    MaxMoney    \* WALLY_SATOSHI_MAX

ASSUME MaxMoneyAssumption == MaxMoney \in Nat
ASSUME NoneAssumption == None \notin Nat

TxIn(txid, index, sequence) ==
    [txid |-> txid, index |-> index, sequence |-> sequence]
TxOut(script, satoshi) == [script |-> script, satoshi |-> satoshi]
Tx(version, locktime, inputs, outputs) ==
    [version |-> version, locktime |-> locktime,
     inputs |-> inputs, outputs |-> outputs]

Outpoint(in) == <<in.txid, in.index>>

(* wally_tx_get_total_output_satoshi                                       *)
TotalOutput(outputs) == FoldLeft(LAMBDA sum, out : sum + out.satoshi, 0, outputs)

(* is_valid_tx_output, and the running total wally_tx_add_output_at keeps  *)
(* within the money that exists.                                           *)
CanAddOutput(outputs, out) ==
    /\ out.satoshi <= MaxMoney
    /\ TotalOutput(outputs) + out.satoshi <= MaxMoney

(* What building a transaction out of outputs one by one accepts.          *)
CanAddAll(outputs) ==
    \A n \in 1..Len(outputs) : CanAddOutput(SubSeq(outputs, 1, n - 1), outputs[n])

-----------------------------------------------------------------------------
(* A signature hash type: WALLY_SIGHASH_ALL, NONE or SINGLE, and whether   *)
(* WALLY_SIGHASH_ANYONECANPAY is set.                                      *)
Sighash(type, acp) == [type |-> type, acp |-> acp]
SighashAll == Sighash("ALL", FALSE)
Sighashes == [type : {"ALL", "NONE", "SINGLE"}, acp : BOOLEAN]

(* The outputs that are hashed: SINGLE hashes the one at the position of   *)
(* the input, in the format of a list of one.                              *)
HashedOutputs(tx, i, sighash) ==
    CASE sighash.type = "ALL" -> tx.outputs
      [] sighash.type = "SINGLE" /\ i <= Len(tx.outputs) -> <<tx.outputs[i]>>
      [] OTHER -> None

(* bip143_signature_hash: what a signature of input i commits to, when it  *)
(* spends the output utxo and `code` is the script code.                   *)
SignatureHash(tx, i, utxo, code, sighash) ==
    [version   |-> tx.version,
     prevouts  |-> IF sighash.acp THEN None
                   ELSE [n \in 1..Len(tx.inputs) |-> Outpoint(tx.inputs[n])],
     sequences |-> IF sighash.acp \/ sighash.type # "ALL" THEN None
                   ELSE [n \in 1..Len(tx.inputs) |-> tx.inputs[n].sequence],
     outpoint  |-> Outpoint(tx.inputs[i]),
     code      |-> code,
     satoshi   |-> utxo.satoshi,
     sequence  |-> tx.inputs[i].sequence,
     outputs   |-> HashedOutputs(tx, i, sighash),
     locktime  |-> tx.locktime,
     sighash   |-> sighash]
=============================================================================
