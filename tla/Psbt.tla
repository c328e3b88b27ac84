-------------------------------- MODULE Psbt --------------------------------
(***************************************************************************)
(* struct wally_psbt (src/psbt.c) for Bitcoin inputs with a witness utxo,  *)
(* versions 0 and 2: what each call makes of a PSBT, as operators on       *)
(* records.  A call that the code refuses leaves the PSBT as it was; its   *)
(* guard is an operator named Can..., or the result is None.               *)
(*                                                                         *)
(* A version 0 PSBT keeps the transaction in `tx`; a version 2 PSBT has no *)
(* `tx` and keeps it in fields of itself, its inputs and its outputs.      *)
(* keypaths and signatures are maps whose order no call depends on.        *)
(***************************************************************************)
EXTENDS Transaction

CONSTANTS
    Keys,           \* public keys, each with its signer
    FinalSequence,  \* WALLY_TX_SEQUENCE_FINAL
    NotBlocks,      \* sequences with the opt-out or the time-based lock bit
    MinTimestamp    \* PSBT_LOCKTIME_MIN_TIMESTAMP: locktimes from it are times

ASSUME KeysAssumption == IsFiniteSet(Keys)
ASSUME SequenceAssumption == FinalSequence \in NotBlocks /\ NotBlocks \subseteq Nat
ASSUME MinTimestampAssumption == MinTimestamp \in Nat \ {0}

Flags == {"INPUTS", "OUTPUTS", "SINGLE"}    \* WALLY_PSBT_TXMOD_...

(* Scripts.  A p2wpkh output names its key; a p2wsh output the script it   *)
(* is the hash of.                                                         *)
P2wpkh(k)  == [type |-> "p2wpkh", keys |-> <<k>>]
P2wsh(s)   == [type |-> "p2wsh", of |-> s]
Multisig(n, ks) == [type |-> "multisig", threshold |-> n, keys |-> ks]
Csv2of2(first, second, blocks, optimized) ==
    [type |-> "csv2of2", keys |-> <<first, second>>, blocks |-> blocks,
     optimized |-> optimized]

NoSigs == [k \in Keys |-> None]

EmptyInput ==
    [txid |-> None, index |-> 0, sequence |-> 0,
     time |-> 0, height |-> 0,      \* required_locktime, required_lockheight
     sighash |-> None,              \* 0: not set
     utxo |-> None,                 \* witness_utxo
     script |-> None,               \* PSBT_IN_WITNESS_SCRIPT
     keypaths |-> {},
     sigs |-> NoSigs,               \* signatures, by key
     final |-> None]                \* final_witness
EmptyOutput == [script |-> None, satoshi |-> None]

(* psbt_init.  A flag that is set lets a constructor add and remove.       *)
InitPsbt(version) ==
    [version |-> version, tx |-> None, txVersion |-> 2, fallback |-> None,
     mods |-> {"INPUTS", "OUTPUTS"}, inputs |-> <<>>, outputs |-> <<>>]

-----------------------------------------------------------------------------
IsValid(p) ==
    IF p.version = 0
    THEN /\ Len(p.inputs)  = IF p.tx = None THEN 0 ELSE Len(p.tx.inputs)
         /\ Len(p.outputs) = IF p.tx = None THEN 0 ELSE Len(p.tx.outputs)
    ELSE p.version = 2 /\ p.tx = None

CanModify(p, flag) == p.version = 0 \/ flag \in p.mods

(* psbt_get_input and psbt_get_output accept these positions.              *)
Inputs(p) ==
    IF p.version = 0
    THEN IF p.tx = None THEN {}
         ELSE 1..Len(p.inputs) \cap 1..Len(p.tx.inputs)
    ELSE 1..Len(p.inputs)
Outputs(p) ==
    IF p.version = 0
    THEN IF p.tx = None THEN {}
         ELSE 1..Len(p.outputs) \cap 1..Len(p.tx.outputs)
    ELSE 1..Len(p.outputs)

IsFinalized(in) == in.final # None
Signers(in) == {k \in Keys : in.sigs[k] # None}

-----------------------------------------------------------------------------
(* The creator and the constructor.                                        *)

CanSetGlobalTx(p) == IsValid(p) /\ p.version = 0 /\ p.tx = None

SetGlobalTx(p, tx) ==
    [p EXCEPT !.tx = tx,
              !.inputs  = [n \in 1..Len(tx.inputs) |-> EmptyInput],
              !.outputs = [n \in 1..Len(tx.outputs) |-> EmptyOutput]]

(* psbt_input_from_tx_input and psbt_output_from_tx_output.                *)
InputFromTx(p, in) ==
    IF p.version = 0 THEN EmptyInput
    ELSE [EmptyInput EXCEPT !.txid = in.txid, !.index = in.index,
                            !.sequence = in.sequence]
OutputFromTx(p, out) ==
    IF p.version = 0 THEN EmptyOutput
    ELSE [script |-> out.script, satoshi |-> out.satoshi]

CanFromTx(tx, version) == version = 2 => tx.version >= 2

(* wally_psbt_from_tx                                                      *)
FromTx(tx, version) ==
    IF version = 0 THEN SetGlobalTx(InitPsbt(0), tx)
    ELSE LET p == InitPsbt(2)
         IN [p EXCEPT
              !.inputs  = [n \in 1..Len(tx.inputs) |-> InputFromTx(p, tx.inputs[n])],
              !.outputs = [n \in 1..Len(tx.outputs) |-> OutputFromTx(p, tx.outputs[n])],
              !.txVersion = tx.version,
              !.fallback = tx.locktime]

(* wally_psbt_add_tx_input_at before position i.                           *)
CanAddInput(p, i) ==
    /\ IsValid(p) /\ (p.version = 0 => p.tx # None)
    /\ i \in 1..(Len(p.inputs) + 1) /\ CanModify(p, "INPUTS")

AddInput(p, i, in) ==
    [p EXCEPT !.tx = IF p.version = 0
                     THEN [@ EXCEPT !.inputs = InsertAt(p.tx.inputs, i, in)] ELSE @,
              !.inputs = InsertAt(@, i, InputFromTx(p, in))]

CanRemoveInput(p, i) ==
    /\ IsValid(p) /\ (p.version = 0 => p.tx # None)
    /\ i \in 1..Len(p.inputs) /\ CanModify(p, "INPUTS")

IsSingle(in) == in.sighash # None /\ in.sighash.type = "SINGLE"

RemoveInputKeepsTx(p, i) == [p EXCEPT !.inputs = RemoveAt(@, i)]

(* wally_psbt_remove_input: the SINGLE flag goes with the last input whose *)
(* sighash field asks for it.                                              *)
RemoveInput(p, i) ==
    LET needSingle == \E n \in 1..Len(p.inputs) : n # i /\ IsSingle(p.inputs[n])
    IN [p EXCEPT
         !.tx = IF p.version = 0 THEN [@ EXCEPT !.inputs = RemoveAt(p.tx.inputs, i)] ELSE @,
         !.mods = IF p.version = 2 /\ IsSingle(p.inputs[i]) /\ ~needSingle
                  THEN @ \ {"SINGLE"} ELSE @,
         !.inputs = RemoveAt(@, i)]

CanAddOutputAt(p, i) ==
    /\ IsValid(p) /\ (p.version = 0 => p.tx # None)
    /\ i \in 1..(Len(p.outputs) + 1) /\ CanModify(p, "OUTPUTS")

(* wally_psbt_add_tx_output_at before position i.  When the transaction of *)
(* a version 0 PSBT refuses the output, the undo removes the output of     *)
(* that position all the same.                                             *)
AddOutput(p, i, out) ==
    IF p.version = 0 /\ ~CanAddOutput(p.tx.outputs, out)
    THEN IF i <= Len(p.tx.outputs)
         THEN [p EXCEPT !.tx.outputs = RemoveAt(@, i)] ELSE p
    ELSE [p EXCEPT !.tx = IF p.version = 0
                          THEN [@ EXCEPT !.outputs = InsertAt(p.tx.outputs, i, out)] ELSE @,
                   !.outputs = InsertAt(@, i, OutputFromTx(p, out))]

CanRemoveOutput(p, i) ==
    /\ IsValid(p) /\ (p.version = 0 => p.tx # None)
    /\ i \in 1..Len(p.outputs) /\ CanModify(p, "OUTPUTS")

RemoveOutput(p, i) ==
    [p EXCEPT !.tx = IF p.version = 0
                     THEN [@ EXCEPT !.outputs = RemoveAt(p.tx.outputs, i)] ELSE @,
              !.outputs = RemoveAt(@, i)]

-----------------------------------------------------------------------------
(* The transaction of a PSBT.                                              *)

OnlyTime(p)   == \E n \in 1..Len(p.inputs) : p.inputs[n].time # 0 /\ p.inputs[n].height = 0
OnlyHeight(p) == \E n \in 1..Len(p.inputs) : p.inputs[n].height # 0 /\ p.inputs[n].time = 0
MaxTime(p)    == Max({0} \cup {p.inputs[n].time : n \in 1..Len(p.inputs)})
MaxHeight(p)  == Max({0} \cup {p.inputs[n].height : n \in 1..Len(p.inputs)})

GetLocktimeNoConflict(p) ==
    IF MaxHeight(p) # 0 THEN MaxHeight(p)
    ELSE IF MaxTime(p) # 0 THEN MaxTime(p)
    ELSE IF p.fallback # None THEN p.fallback ELSE 0

(* wally_psbt_get_locktime; None when the lock types conflict.             *)
GetLocktime(p) ==
    CASE OnlyTime(p) /\ OnlyHeight(p)  -> None
      [] OnlyTime(p) /\ ~OnlyHeight(p) -> MaxTime(p)
      [] OnlyHeight(p) /\ ~OnlyTime(p) -> MaxHeight(p)
      [] OTHER -> IF MaxHeight(p) # 0 THEN MaxHeight(p)
                  ELSE IF MaxTime(p) # 0 THEN MaxTime(p)
                  ELSE IF p.fallback # None THEN p.fallback ELSE 0

CanBuildTxAnyLock(p) ==
    /\ IsValid(p)
    /\ p.version = 0 => p.tx # None
    /\ \A n \in 1..Len(p.outputs) : p.version = 2 => p.outputs[n].satoshi # None

CanBuildTx(p) ==
    /\ IsValid(p)
    /\ p.version = 0 => p.tx # None
    /\ p.version = 2 =>
        /\ GetLocktime(p) # None
        /\ \A n \in 1..Len(p.outputs) : p.outputs[n].satoshi # None
        /\ CanAddAll(p.outputs)

(* psbt_build_tx                                                           *)
BuildTx(p) ==
    IF p.version = 0 THEN p.tx
    ELSE Tx(p.txVersion, GetLocktime(p),
            [n \in 1..Len(p.inputs) |->
                TxIn(p.inputs[n].txid, p.inputs[n].index, p.inputs[n].sequence)],
            [n \in 1..Len(p.outputs) |->
                TxOut(p.outputs[n].script, p.outputs[n].satoshi)])

(* wally_psbt_get_id: locktimes, and the sequences of version 2, count for *)
(* nothing.                                                                *)
GetId(p) ==
    LET tx == BuildTx(p)
    IN [tx EXCEPT !.locktime = 0,
                  !.inputs = [n \in 1..Len(tx.inputs) |->
                      IF p.version = 2 THEN [@[n] EXCEPT !.sequence = 0] ELSE @[n]]]

-----------------------------------------------------------------------------
(* wally_psbt_set_version.  An upgrade of a version 0 PSBT that has no     *)
(* transaction reads through a null pointer: it is never made here.        *)

CanSetVersion(p, version) ==
    /\ IsValid(p) /\ p.version # version
    /\ version = 2 => p.tx # None
    /\ version = 0 => CanBuildTx(p)

V0ToV2NoFallback(p) ==
    [p EXCEPT
      !.version = 2, !.txVersion = p.tx.version, !.fallback = None,
      !.inputs = [n \in 1..Len(p.inputs) |->
          [@[n] EXCEPT !.txid = p.tx.inputs[n].txid,
                       !.index = p.tx.inputs[n].index,
                       !.sequence = p.tx.inputs[n].sequence]],
      !.outputs = p.tx.outputs,
      !.tx = None]

V0ToV2(p) ==
    [p EXCEPT
      !.version = 2,
      !.txVersion = IF p.tx.version < 2 THEN 2 ELSE p.tx.version,
      !.fallback = IF p.tx.locktime = 0 THEN None ELSE p.tx.locktime,
      !.mods = {"INPUTS", "OUTPUTS"},
      !.inputs = [n \in 1..Len(p.inputs) |->
          [@[n] EXCEPT !.txid = p.tx.inputs[n].txid,
                       !.index = p.tx.inputs[n].index,
                       !.sequence = p.tx.inputs[n].sequence]],
      !.outputs = [n \in 1..Len(p.outputs) |->
          [script |-> p.tx.outputs[n].script, satoshi |-> p.tx.outputs[n].satoshi]],
      !.tx = None]

V2ToV0ClearsFirst(p) ==
    LET cleared == [p EXCEPT
          !.inputs = [n \in 1..Len(p.inputs) |->
              [@[n] EXCEPT !.index = 0, !.sequence = 0, !.time = 0, !.height = 0]]]
    IN [cleared EXCEPT
         !.tx = BuildTx(cleared), !.outputs = [n \in 1..Len(p.outputs) |-> EmptyOutput],
         !.version = 0, !.txVersion = 0, !.fallback = None, !.mods = {}]

V2ToV0(p) ==
    [p EXCEPT
      !.tx = BuildTx(p),
      !.inputs = [n \in 1..Len(p.inputs) |->
          [@[n] EXCEPT !.index = 0, !.sequence = 0, !.time = 0, !.height = 0]],
      !.outputs = [n \in 1..Len(p.outputs) |-> EmptyOutput],
      !.version = 0, !.txVersion = 0, !.fallback = None, !.mods = {}]

SetVersion(p, version) == IF version = 2 THEN V0ToV2(p) ELSE V2ToV0(p)

-----------------------------------------------------------------------------
(* Signing.                                                                *)

(* get_signing_script and get_scriptcode: the script code of an input, or  *)
(* None when its utxo or its witness script is missing or does not match.  *)
ScriptCode(in) ==
    IF in.utxo = None THEN None
    ELSE IF in.utxo.script.type = "p2wpkh" THEN in.utxo.script
    ELSE IF in.utxo.script = P2wsh(in.script) THEN in.script
    ELSE None

(* A signature: the key that made it and what it commits to.               *)
Sign(p, i, k, sighash) ==
    [key |-> k, hash |-> SignatureHash(BuildTx(p), i, p.inputs[i].utxo,
                                       ScriptCode(p.inputs[i]), sighash)]

(* wally_psbt_input_set_sighash                                            *)
CanSetSighash(in, sighash) ==
    sighash # None => \A k \in Signers(in) : in.sigs[k].hash.sighash = sighash

(* wally_psbt_input_add_signature; the map ignores a second signature of   *)
(* the same key.                                                           *)
CanAddSignature(in, sighash) == in.sighash = None \/ in.sighash = sighash
AddSignature(in, sig) ==
    [in EXCEPT !.sigs[sig.key] = IF @ = None THEN sig ELSE @]

ModsAfterSingleOpen(mods, sighash) ==
    ((mods \ (IF sighash.acp THEN {} ELSE {"INPUTS"}))
           \ (IF sighash.type = "ALL" THEN {"OUTPUTS"} ELSE {}))
    \cup (IF sighash.type = "SINGLE" THEN {"SINGLE"} ELSE {})

ModsAfterNoSingle(mods, sighash) ==
    (mods \ (IF sighash.acp THEN {} ELSE {"INPUTS"}))
          \ (IF sighash.type = "NONE" THEN {} ELSE {"OUTPUTS"})

(* What wally_psbt_add_input_signature leaves modifiable.                  *)
ModsAfter(mods, sighash) ==
    ((mods \ (IF sighash.acp THEN {} ELSE {"INPUTS"}))
           \ (IF sighash.type = "NONE" THEN {} ELSE {"OUTPUTS"}))
    \cup (IF sighash.type = "SINGLE" THEN {"SINGLE"} ELSE {})

AddInputSignature(p, i, sig) ==
    [p EXCEPT !.inputs[i] = AddSignature(@, sig),
              !.mods = IF p.version = 2 THEN ModsAfter(@, sig.hash.sighash) ELSE @]

(* wally_psbt_sign_bip32 with a parent of key k: each input that lists the *)
(* key and has no signature of it, up to the first that cannot be signed.  *)
SignsInput(in, k) == k \in in.keypaths /\ k \notin Signers(in)

SignBip32(p, k) ==
    LET wanted == {n \in 1..Len(p.inputs) : SignsInput(p.inputs[n], k)}
        failed == {n \in wanted : ScriptCode(p.inputs[n]) = None}
        signed == {n \in wanted : \A m \in failed : n < m}
        type(in) == IF in.sighash = None THEN SighashAll ELSE in.sighash
    IN [p EXCEPT !.inputs = [n \in 1..Len(p.inputs) |->
            IF n \in signed THEN AddSignature(@[n], Sign(p, n, k, type(@[n])))
            ELSE @[n]]]
=============================================================================
