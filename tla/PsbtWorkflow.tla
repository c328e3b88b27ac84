---------------------------- MODULE PsbtWorkflow ----------------------------
(***************************************************************************)
(* Callers passing PSBTs around: every handle holds a PSBT or nothing, and *)
(* a step is one call of the PSBT interface on one or two handles.  A call *)
(* the code refuses without changing anything is a step that is not taken. *)
(*                                                                         *)
(* Three specifications use different calls of the same interface:         *)
(* ConstructSpec builds transactions and changes versions, SigningSpec     *)
(* signs while the transaction may still be modified, and ExchangeSpec     *)
(* hands copies of one PSBT to signers and combines what they return.      *)
(***************************************************************************)
EXTENDS PsbtFinalize, PsbtFormat

CONSTANTS
    Handles,       \* the struct wally_psbt objects of the callers
    Versions,      \* the PSBT versions they create and convert to
    Txs,           \* the transactions they make a PSBT from
    TxIns, TxOuts, \* the inputs and outputs they add
    MaxInputs, MaxOutputs,   \* bounds on what they add to one PSBT
    TxVersions, Fallbacks, Sequences, Times, Heights,
                   \* the values they set; a 0 of Times or Heights clears
    UsedSighashes, \* UsedSighashes[type]: the sighashes they sign with or
                   \* ask for where they spend an output of that type
    Prevouts,      \* Prevouts[outpoint]: the output it is
    WitnessScripts \* the witness scripts they know

ASSUME VersionsAssumption == Versions \subseteq {0, 2}
ASSUME SighashesAssumption ==
    UsedSighashes \in [{"p2wpkh", "p2wsh"} -> SUBSET Sighashes]

VARIABLE psbt      \* psbt[h]: the PSBT of handle h, or None
vars == <<psbt>>

Live == {h \in Handles : psbt[h] # None}

(* A call on the PSBT of h that makes p of it.                             *)
Update(h, p) == psbt' = [psbt EXCEPT ![h] = p]

-----------------------------------------------------------------------------
(* Creator and constructor.                                                *)

InitAlloc(h, version) ==
    psbt[h] = None /\ Update(h, InitPsbt(version))

CreateFromTx(h, tx, version) ==
    /\ psbt[h] = None /\ CanFromTx(tx, version)
    /\ Update(h, FromTx(tx, version))

SetTx(h, tx) ==
    /\ h \in Live /\ CanSetGlobalTx(psbt[h])
    /\ Update(h, SetGlobalTx(psbt[h], tx))

AddTxInputAt(h, i, in) ==
    /\ h \in Live /\ CanAddInput(psbt[h], i)
    /\ Len(psbt[h].inputs) < MaxInputs
    /\ Update(h, AddInput(psbt[h], i, in))

RemoveInputAt(h, i) ==
    /\ h \in Live /\ CanRemoveInput(psbt[h], i)
    /\ Update(h, RemoveInput(psbt[h], i))

AddTxOutputAt(h, i, out) ==
    /\ h \in Live /\ CanAddOutputAt(psbt[h], i)
    /\ Len(psbt[h].outputs) < MaxOutputs
    /\ Update(h, AddOutput(psbt[h], i, out))

RemoveOutputAt(h, i) ==
    /\ h \in Live /\ CanRemoveOutput(psbt[h], i)
    /\ Update(h, RemoveOutput(psbt[h], i))

ChangeVersion(h, version) ==
    /\ h \in Live /\ CanSetVersion(psbt[h], version)
    /\ Update(h, SetVersion(psbt[h], version))

-----------------------------------------------------------------------------
(* Setters.  Those of the transaction are for version 2 only, and none of  *)
(* them asks what is modifiable.                                           *)

IsV2(h) == h \in Live /\ psbt[h].version = 2

SetTxVersion(h, n) ==
    IsV2(h) /\ n >= 2 /\ Update(h, [psbt[h] EXCEPT !.txVersion = n])

SetFallback(h, n) == IsV2(h) /\ Update(h, [psbt[h] EXCEPT !.fallback = n])

SetModifiable(h, flags) == IsV2(h) /\ Update(h, [psbt[h] EXCEPT !.mods = flags])

SetSequence(h, i, n) ==
    /\ IsV2(h) /\ i \in Inputs(psbt[h])
    /\ Update(h, [psbt[h] EXCEPT !.inputs[i].sequence = n])

SetTime(h, i, n) ==
    /\ IsV2(h) /\ i \in Inputs(psbt[h])
    /\ n = 0 \/ n >= MinTimestamp
    /\ Update(h, [psbt[h] EXCEPT !.inputs[i].time = n])

SetHeight(h, i, n) ==
    /\ IsV2(h) /\ i \in Inputs(psbt[h])
    /\ n < MinTimestamp
    /\ Update(h, [psbt[h] EXCEPT !.inputs[i].height = n])

SetOutput(h, i, out) ==
    /\ IsV2(h) /\ i \in Outputs(psbt[h])
    /\ \/ Update(h, [psbt[h] EXCEPT !.outputs[i].satoshi = out.satoshi])
       \/ Update(h, [psbt[h] EXCEPT !.outputs[i].satoshi = None])
       \/ Update(h, [psbt[h] EXCEPT !.outputs[i].script = out.script])

-----------------------------------------------------------------------------
(* Updater.                                                                *)

OutpointOf(p, i) ==
    IF p.version = 0 THEN Outpoint(p.tx.inputs[i]) ELSE Outpoint(p.inputs[i])

(* wally_psbt_set_input_witness_utxo, with the output the input spends.    *)
SetWitnessUtxo(h, i) ==
    /\ h \in Live /\ i \in Inputs(psbt[h])
    /\ OutpointOf(psbt[h], i) \in DOMAIN Prevouts
    /\ Update(h, [psbt[h] EXCEPT !.inputs[i].utxo = Prevouts[OutpointOf(psbt[h], i)]])

(* wally_psbt_set_input_witness_script, with the script the utxo wants.    *)
SetWitnessScript(h, i, script) ==
    /\ h \in Live /\ i \in Inputs(psbt[h])
    /\ psbt[h].inputs[i].utxo # None
    /\ psbt[h].inputs[i].utxo.script = P2wsh(script)
    /\ Update(h, [psbt[h] EXCEPT !.inputs[i].script = script])

(* wally_psbt_add_input_keypath.                                           *)
AddKeypath(h, i, k) ==
    /\ h \in Live /\ i \in Inputs(psbt[h]) /\ IsValid(psbt[h])
    /\ CanModify(psbt[h], "INPUTS")
    /\ Update(h, [psbt[h] EXCEPT !.inputs[i].keypaths = @ \cup {k}])

(* wally_psbt_set_input_sighash                                            *)
SetSighash(h, i, sighash) ==
    /\ h \in Live /\ i \in Inputs(psbt[h])
    /\ CanSetSighash(psbt[h].inputs[i], sighash)
    /\ Update(h, [psbt[h] EXCEPT !.inputs[i].sighash = sighash])

-----------------------------------------------------------------------------
(* Signers, combiner, finalizer.                                           *)

(* wally_psbt_add_input_signature with a signature of the transaction as   *)
(* it is.                                                                  *)
SignExternally(h, i, k, sighash) ==
    /\ h \in Live /\ i \in Inputs(psbt[h])
    /\ CanBuildTx(psbt[h]) /\ ScriptCode(psbt[h].inputs[i]) # None
    /\ CanAddSignature(psbt[h].inputs[i], sighash)
    /\ Update(h, AddInputSignature(psbt[h], i, Sign(psbt[h], i, k, sighash)))

SignWith(h, k) ==
    /\ h \in Live /\ CanBuildTx(psbt[h])
    /\ Update(h, SignBip32(psbt[h], k))

CombineFrom(dst, src) ==
    /\ dst \in Live /\ src \in Live /\ dst # src
    /\ CanCombine(psbt[dst], psbt[src])
    /\ Update(dst, Combine(psbt[dst], psbt[src]))

(* The holder of src sends its signatures only.                            *)
CombineSigsFrom(dst, src) ==
    LET sent == SigsOnly(psbt[src])
    IN /\ dst \in Live /\ src \in Live /\ dst # src
       /\ sent # None /\ CanCombineSigs(psbt[dst], sent)
       /\ Update(dst, CombineSigs(psbt[dst], sent))

(* The holder of src serializes its PSBT for another to read.              *)
SendTo(src, dst, redundant) ==
    LET read == Parse(Serialize(psbt[src], redundant), FALSE, TRUE)
    IN /\ src \in Live /\ psbt[dst] = None
       /\ CanSerialize(psbt[src]) /\ read # None
       /\ Update(dst, read)

CloneTo(src, dst) ==
    /\ src \in Live /\ psbt[dst] = None
    /\ IsValid(psbt[src])
    /\ Update(dst, Clone(psbt[src]))

FinalizeAll(h, clear) ==
    /\ h \in Live /\ CanFinalize(psbt[h])
    /\ Update(h, Finalize(psbt[h], clear))

FinalizeOne(h, i, clear) ==
    /\ h \in Live /\ i \in Inputs(psbt[h]) /\ CanFinalize(psbt[h])
    /\ Update(h, [psbt[h] EXCEPT !.inputs[i] = FinalizeInput(psbt[h], i, clear)])

Free(h) == h \in Live /\ Update(h, None)

-----------------------------------------------------------------------------
ModifyTx(h) ==
    \/ \E i \in 1..MaxInputs, in \in TxIns : AddTxInputAt(h, i, in)
    \/ \E i \in 1..MaxInputs : RemoveInputAt(h, i)
    \/ \E i \in 1..MaxOutputs, out \in TxOuts : AddTxOutputAt(h, i, out)
    \/ \E i \in 1..MaxOutputs : RemoveOutputAt(h, i)

Create(h) ==
    \/ \E version \in Versions :
        \/ InitAlloc(h, version)
        \/ \E tx \in Txs : CreateFromTx(h, tx, version)
    \/ \E tx \in Txs : SetTx(h, tx)

SetFields(h) ==
    \/ \E n \in TxVersions : SetTxVersion(h, n)
    \/ \E n \in Fallbacks \cup {None} : SetFallback(h, n)
    \/ \E i \in 1..MaxInputs :
        \/ \E n \in Sequences : SetSequence(h, i, n)
        \/ \E n \in Times : SetTime(h, i, n)
        \/ \E n \in Heights : SetHeight(h, i, n)
    \/ \E i \in 1..MaxOutputs, out \in TxOuts : SetOutput(h, i, out)

SighashesFor(h, i) ==
    IF psbt[h] # None /\ i <= Len(psbt[h].inputs)
    THEN UsedSighashes[Prevouts[OutpointOf(psbt[h], i)].script.type] ELSE {}

Describe(h) ==
    \E i \in 1..MaxInputs :
        \/ SetWitnessUtxo(h, i)
        \/ \E script \in WitnessScripts : SetWitnessScript(h, i, script)
        \/ \E k \in Keys : AddKeypath(h, i, k)
        \/ \E sighash \in SighashesFor(h, i) \cup {None} : SetSighash(h, i, sighash)

EmptyInit == psbt = [h \in Handles |-> None]

(* Building and converting, nothing signed.                                *)
ConstructNext ==
    \E h \in Handles :
        \/ Create(h)
        \/ ModifyTx(h)
        \/ \E version \in Versions : ChangeVersion(h, version)
        \/ SetFields(h)
        \/ \E flags \in {{"INPUTS"}, {"INPUTS", "OUTPUTS"}} : SetModifiable(h, flags)
        \/ Free(h)
ConstructSpec == EmptyInit /\ [][ConstructNext]_vars

-----------------------------------------------------------------------------
(* A PSBT with its inputs described, ready to be signed.                   *)
Described(p) ==
    [p EXCEPT !.inputs = [i \in 1..Len(p.inputs) |->
        LET utxo == Prevouts[OutpointOf(p, i)]
        IN IF utxo.script.type = "p2wpkh"
           THEN [@[i] EXCEPT !.utxo = utxo, !.keypaths = Range(utxo.script.keys)]
           ELSE [@[i] EXCEPT !.utxo = utxo, !.script = utxo.script.of,
                             !.keypaths = Range(utxo.script.of.keys)]]]

ReadyInit ==
    \E h \in Handles, version \in Versions, tx \in Txs :
        psbt = [g \in Handles |->
            IF g = h THEN Described(FromTx(tx, version)) ELSE None]

(* Signatures are added while inputs and outputs still come and go.        *)
SigningNext ==
    \E h \in Handles :
        \/ ModifyTx(h)
        \/ Describe(h)
        \/ \E i \in 1..MaxInputs, k \in Keys : \E sighash \in SighashesFor(h, i) :
                SignExternally(h, i, k, sighash)
SigningSpec == ReadyInit /\ [][SigningNext]_vars

(* Copies are signed apart and combined.                                   *)
ExchangeNext ==
    \E h \in Handles :
        \/ \E k \in Keys : SignWith(h, k)
        \/ \E i \in 1..MaxInputs : \E sighash \in SighashesFor(h, i) \cup {None} :
                SetSighash(h, i, sighash)
        \/ \E g \in Handles :
            \/ CombineFrom(h, g)
            \/ CombineSigsFrom(h, g)
            \/ CloneTo(h, g)
            \/ \E redundant \in BOOLEAN : SendTo(h, g, redundant)
        \/ \E clear \in BOOLEAN :
            \/ FinalizeAll(h, clear)
            \/ \E i \in 1..MaxInputs : FinalizeOne(h, i, clear)
        \/ \E version \in Versions : ChangeVersion(h, version)
        \/ Free(h)
ExchangeSpec == ReadyInit /\ [][ExchangeNext]_vars

-----------------------------------------------------------------------------
AllIns    == TxIns \cup UNION {Range(tx.inputs) : tx \in Txs}
AllOuts   == TxOuts \cup Range(Prevouts) \cup UNION {Range(tx.outputs) : tx \in Txs}
TxIds     == {in.txid : in \in AllIns} \cup {None}
ScriptPKs == {out.script : out \in AllOuts}
Codes     == ScriptPKs \cup WitnessScripts

Outpoints == TxIds \X Nat
TxInSet   == [txid : TxIds, index : Nat, sequence : Nat]
TxOutSet  == [script : ScriptPKs, satoshi : Nat]
TxSet     == [version : Nat, locktime : Nat,
              inputs : Seq(TxInSet), outputs : Seq(TxOutSet)]
HashSet   == [version : Nat, prevouts : Seq(Outpoints) \cup {None},
              sequences : Seq(Nat) \cup {None}, outpoint : Outpoints,
              code : Codes, satoshi : Nat, sequence : Nat,
              outputs : Seq(TxOutSet) \cup {None}, locktime : Nat,
              sighash : Sighashes]
SigSet    == [key : Keys, hash : HashSet]
FinalSet  == [script : Codes, sigs : Seq(SigSet \cup {None})]
InputSet  == [txid : TxIds, index : Nat, sequence : Nat, time : Nat, height : Nat,
              sighash : Sighashes \cup {None},
              utxo : TxOutSet \cup {None}, script : WitnessScripts \cup {None},
              keypaths : SUBSET Keys,
              sigs : [Keys -> SigSet \cup {None}],
              final : FinalSet \cup {None}]
OutputSet == [script : ScriptPKs \cup {None}, satoshi : Nat \cup {None}]
PsbtSet   == [version : {0, 2}, tx : TxSet \cup {None}, txVersion : Nat,
              fallback : Nat \cup {None}, mods : SUBSET Flags,
              inputs : Seq(InputSet), outputs : Seq(OutputSet)]

ASSUME PartsAssumption ==
    TxIns \subseteq TxInSet /\ TxOuts \subseteq TxOutSet /\ Txs \subseteq TxSet
ASSUME NoneIsNoTx == None \notin TxSet
ASSUME FieldsAssumption ==
    /\ TxVersions \cup Fallbacks \cup Sequences \cup Times \cup Heights \subseteq Nat
    /\ MaxInputs \in Nat /\ MaxOutputs \in Nat

TypeOK == psbt \in [Handles -> PsbtSet \cup {None}]

(* The transaction of a PSBT never refuses an output: as many outputs as   *)
(* a PSBT gets pay no more than the money that exists, whichever they are. *)
(* When one is refused, the undo leaves a version 0 PSBT with fewer        *)
(* outputs in its transaction than it has itself.                          *)
Amounts == {out.satoshi : out \in TxOuts}
           \cup UNION {{out.satoshi : out \in Range(tx.outputs)} : tx \in Txs}
AmountsFit ==
    /\ \A tx \in Txs : Len(tx.outputs) <= MaxOutputs
    /\ \A n \in 0..MaxOutputs :
        \A outs \in [1..n -> [script : ScriptPKs, satoshi : Amounts]] :
            TotalOutput(outs) <= MaxMoney

(* The callers know the output that every input spends, and its script.    *)
PrevoutsKnown ==
    /\ \A in \in AllIns : Outpoint(in) \in DOMAIN Prevouts
    /\ \A outpoint \in DOMAIN Prevouts :
        LET utxo == Prevouts[outpoint]
            spk == utxo.script
        IN /\ utxo \in TxOutSet
           /\ \/ spk.type = "p2wpkh" /\ Range(spk.keys) \subseteq Keys
              \/ /\ spk = P2wsh(spk.of) /\ spk.of \in WitnessScripts
                 /\ Range(spk.of.keys) \subseteq Keys

(* A witness script is a multisig or a csv2of2, a p2wpkh output of one key.*)
ScriptsKnown ==
    /\ \A script \in WitnessScripts :
        IF script.type = "multisig"
        THEN /\ script = Multisig(script.threshold, script.keys)
             /\ script.threshold \in Nat /\ script.keys \in Seq(Keys)
        ELSE /\ script = Csv2of2(script.keys[1], script.keys[2],
                                script.blocks, script.optimized)
             /\ Range(script.keys) \subseteq Keys
             /\ script.blocks \in Nat /\ script.optimized \in BOOLEAN
    /\ \A outpoint \in DOMAIN Prevouts :
        LET spk == Prevouts[outpoint].script
        IN spk.type = "p2wpkh" => spk = P2wpkh(spk.keys[1])

(* wally_psbt_set_version raises a transaction of version 1 to version 2,  *)
(* and no signature of it survives that.                                   *)
NoTxIsRaised == 2 \in Versions => \A tx \in Txs : ~(tx.version < 2)

(* A SINGLE|ANYONECANPAY signature leaves the inputs modifiable and is of  *)
(* a position: an input before it moves it to another output.              *)
NoSingleMoves ==
    \A type \in DOMAIN UsedSighashes : Sighash("SINGLE", TRUE) \notin UsedSighashes[type]

(* Whatever was added, removed, converted, cloned or combined, a PSBT      *)
(* passes psbt_is_valid: version 0 has as many inputs and outputs as its   *)
(* transaction, version 2 has no transaction.                              *)
ValidPsbt == \A h \in Live : IsValid(psbt[h])

Satisfies(lock, in) ==
    \/ in.time = 0 /\ in.height = 0
    \/ in.height # 0 /\ lock < MinTimestamp /\ in.height <= lock
    \/ in.time # 0 /\ lock >= MinTimestamp /\ in.time <= lock

(* The locktime of a version 2 PSBT is the smallest that every input       *)
(* accepts, a height if there is one; the fallback if no input wants any;  *)
(* an error exactly when nothing satisfies all of them.                    *)
LeastLocktime(p) ==
    LET ins == Range(p.inputs)
        wanted == {in.height : in \in ins} \cup {in.time : in \in ins}
        good == {n \in wanted \ {0} : \A in \in ins : Satisfies(n, in)}
        heights == {n \in good : n < MinTimestamp}
    IN IF wanted \subseteq {0} THEN IF p.fallback = None THEN 0 ELSE p.fallback
       ELSE IF heights # {} THEN Min(heights)
       ELSE IF good # {} THEN Min(good) ELSE None
LocktimeSatisfiesInputs ==
    \A h \in Live : psbt[h].version = 2 => GetLocktime(psbt[h]) = LeastLocktime(psbt[h])

(* A PSBT that changes its version is still a PSBT of the same             *)
(* transaction: what is extracted before and after is equal, but for the   *)
(* transaction version, which version 2 raises to 2.                       *)
KeepsTx(h, version) ==
    LET old == BuildTx(psbt[h])
    IN /\ CanBuildTx(psbt'[h])
       /\ BuildTx(psbt'[h]) =
            [old EXCEPT !.version = IF version = 2 /\ @ < 2 THEN 2 ELSE @]
SetVersionKeepsTx ==
    [][\A h \in Handles, version \in Versions :
        ChangeVersion(h, version) => KeepsTx(h, version)]_vars

(* A clone is the same PSBT, although it is made by combining the original *)
(* into an empty one.                                                      *)
CloneIsEqual == \A h \in Live : IsValid(psbt[h]) => Clone(psbt[h]) = psbt[h]

(* Every signature a PSBT holds is one of the transaction the PSBT builds, *)
(* whatever was added, removed, converted or combined since it was made.   *)
SignaturesVerify ==
    \A h \in Live : \A i \in Inputs(psbt[h]) : \A k \in Signers(psbt[h].inputs[i]) :
        Verifies(psbt[h], i, k)

(* "SIGHASH_SINGLE signature is present" (include/wally_psbt.h): the flag  *)
(* of a version 2 PSBT says so.                                            *)
SingleFlagIsSet ==
    \A h \in Live : psbt[h].version = 2 =>
        \A i \in Inputs(psbt[h]) : \A k \in Signers(psbt[h].inputs[i]) :
            psbt[h].inputs[i].sigs[k].hash.sighash.type = "SINGLE"
                => "SINGLE" \in psbt[h].mods

(* What is flagged as modifiable is covered by no signature: inputs only   *)
(* when all of them are ANYONECANPAY, outputs only when all are NONE; and  *)
(* the presence of a SINGLE signature is flagged.                          *)
FlagsFollowSignatures ==
    /\ SingleFlagIsSet
    /\ \A h \in Live : psbt[h].version = 2 =>
        \A i \in Inputs(psbt[h]) : \A k \in Signers(psbt[h].inputs[i]) :
            LET sighash == psbt[h].inputs[i].sigs[k].hash.sighash
            IN /\ "INPUTS" \in psbt[h].mods => sighash.acp
               /\ "OUTPUTS" \in psbt[h].mods => sighash.type = "NONE"

(* A finalized input can be extracted and its witness satisfies its script *)
(* in the transaction that is: whatever signatures were collected, in      *)
(* whatever order, the finalizer took the right ones.                      *)
FinalWitnessesVerify ==
    \A h \in Live : \A i \in Inputs(psbt[h]) : IsFinalized(psbt[h].inputs[i]) =>
        /\ CanExtract(psbt[h], TRUE)
        /\ LET final == Extract(psbt[h])
           IN WitnessOk(final.tx, i, psbt[h].inputs[i].utxo, final.witness[i])

(* Copies of one PSBT stay combinable whatever their holders do to them.   *)
CopiesCombine ==
    \A g, h \in Live : psbt[g].version = psbt[h].version => CanCombine(psbt[g], psbt[h])

InputsMatch(g, h) ==
    \A i \in Inputs(psbt[g]) :
        CanCombineInput(psbt[g].inputs[i], psbt[h].inputs[i], FALSE)

(* Combining loses nothing and adds nothing of its own: what either PSBT   *)
(* holds the result holds, the destination's own data unchanged; to        *)
(* combine again or the other way round adds nothing; and the transaction  *)
(* stays the same.                                                         *)
CombineIsUnion ==
    \A g, h \in Live : CanCombine(psbt[g], psbt[h]) /\ InputsMatch(g, h) =>
        LET dst == psbt[g]
            src == psbt[h]
            new == Combine(dst, src)
            back == Combine(src, dst)
        IN /\ Combine(new, src) = new
           /\ BuildTx(new) = BuildTx(dst)
           /\ new.mods = back.mods
           /\ \A i \in 1..Len(dst.inputs) :
                LET d == dst.inputs[i]
                    n == new.inputs[i]
                    b == back.inputs[i]
                IN /\ Signers(n) = Signers(b)
                   /\ \A k \in Signers(d) : n.sigs[k] = d.sigs[k]
                   /\ n.keypaths = b.keypaths
                   /\ IsFinalized(n) = IsFinalized(b)
                   /\ IsFinalized(d) => n.final = d.final
                   /\ d.sighash # None => n.sighash = d.sighash
=============================================================================
