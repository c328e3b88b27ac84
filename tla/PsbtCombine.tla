---------------------------- MODULE PsbtCombine ----------------------------
(***************************************************************************)
(* The combiner of src/psbt.c: what wally_psbt_combine, the combination of *)
(* a signature-only PSBT and wally_psbt_clone_alloc make of a PSBT.  The   *)
(* three merge the same way: what the destination has stays, what it lacks *)
(* is copied.                                                              *)
(***************************************************************************)
EXTENDS Psbt

Pick(dst, src, unset) == IF dst = unset THEN src ELSE dst

CombineSigMapSrcWins(dst, src) == [k \in Keys |-> Pick(src[k], dst[k], None)]

(* wally_map_combine of the signatures.                                    *)
CombineSigMap(dst, src) == [k \in Keys |-> Pick(dst[k], src[k], None)]

(* combine_input fails for inputs of different outpoints, unless a clone   *)
(* has none yet.                                                           *)
SameOutpoint(dst, src) == dst.txid = src.txid /\ dst.index = src.index
CanCombineInput(dst, src, forClone) ==
    SameOutpoint(dst, src) \/ (forClone /\ dst.txid = None)

CombineInput(dst, src) ==
    [txid     |-> Pick(dst.txid, src.txid, None),
     index    |-> IF dst.txid = None THEN src.index ELSE dst.index,
     sequence |-> Pick(dst.sequence, src.sequence, FinalSequence),
     time     |-> Pick(dst.time, src.time, 0),
     height   |-> Pick(dst.height, src.height, 0),
     sighash  |-> Pick(dst.sighash, src.sighash, None),
     utxo     |-> Pick(dst.utxo, src.utxo, None),
     script   |-> Pick(dst.script, src.script, None),
     keypaths |-> dst.keypaths \cup src.keypaths,
     sigs     |-> CombineSigMap(dst.sigs, src.sigs),
     final    |-> Pick(dst.final, src.final, None)]

CombineOutput(dst, src) ==
    [script  |-> Pick(dst.script, src.script, None),
     satoshi |-> Pick(dst.satoshi, src.satoshi, None)]

(* psbt_combine.  It stops at the first input that does not match and      *)
(* keeps what it has merged until then.                                    *)
Merge(dst, src, forClone) ==
    LET n == Len(dst.inputs)
        bad == {i \in 1..n :
                  ~CanCombineInput(dst.inputs[i], src.inputs[i], forClone)}
    IN [dst EXCEPT
         !.fallback = Pick(@, src.fallback, None),
         !.mods = @ \cup src.mods,
         !.inputs = [i \in 1..n |->
             IF \A b \in bad : i < b THEN CombineInput(@[i], src.inputs[i]) ELSE @[i]],
         !.outputs = IF bad # {} THEN @
                     ELSE [i \in 1..Len(@) |-> CombineOutput(@[i], src.outputs[i])]]

(* wally_psbt_combine_ex, flags 0: only for PSBTs with the same id.        *)
CanCombine(dst, src) ==
    /\ CanBuildTx(dst) /\ CanBuildTx(src)
    /\ dst.version = src.version
    /\ GetId(dst) = GetId(src)

Combine(dst, src) == Merge(dst, src, FALSE)

(* psbt_combine_sigs, for WALLY_PSBT_COMBINE_SIGS: the source is a PSBT    *)
(* with nothing but signatures.  Nothing tells whether they are for the    *)
(* same transaction.                                                       *)
CanCombineSigs(dst, src) ==
    /\ IsValid(dst) /\ IsValid(src) /\ Len(dst.inputs) = Len(src.inputs)
    /\ src.version = 2 /\ src.outputs = <<>>

CombineSigs(dst, src) ==
    [dst EXCEPT !.inputs = [i \in 1..Len(dst.inputs) |->
        [dst.inputs[i] EXCEPT !.sigs =
            CombineSigMap(dst.inputs[i].sigs, src.inputs[i].sigs)]]]

BlankKeepsMods(p) ==
    [InitPsbt(p.version) EXCEPT
      !.txVersion = p.txVersion,
      !.inputs = [n \in 1..Len(p.inputs) |->
                     [EmptyInput EXCEPT !.sequence = FinalSequence]],
      !.outputs = [n \in 1..Len(p.outputs) |-> EmptyOutput]]

(* wally_psbt_clone_alloc: an initialised PSBT of the same shape, combined *)
(* with the original.                                                      *)
Blank(p) ==
    [InitPsbt(p.version) EXCEPT
      !.txVersion = p.txVersion,
      !.mods = {},
      !.inputs = [n \in 1..Len(p.inputs) |->
                     [EmptyInput EXCEPT !.sequence = FinalSequence]],
      !.outputs = [n \in 1..Len(p.outputs) |-> EmptyOutput]]

Clone(p) == [Merge(Blank(p), p, TRUE) EXCEPT !.tx = p.tx]
=============================================================================
