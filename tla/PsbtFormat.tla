----------------------------- MODULE PsbtFormat -----------------------------
(***************************************************************************)
(* The serialized PSBT of src/psbt.c: wally_psbt_to_bytes and              *)
(* wally_psbt_from_bytes.  A stream is the sequence of its maps, the one   *)
(* of the globals first, then one per input and one per output; a map is a *)
(* sequence of records.  A separator ends each map; a stream that ends     *)
(* early has too few maps, trailing data is one map too many.              *)
(*                                                                         *)
(* The fields are those of the PSBTs of module Psbt.  A record whose bytes *)
(* are malformed is refused wherever it is, and is left out here.          *)
(***************************************************************************)
EXTENDS PsbtCombine

Record(field, key, value) == [field |-> field, key |-> key, value |-> value]
Plain(field, value) == Record(field, None, value)

(* PSBT_..._HAVE_KEYDATA, which are also the repeatable ones.              *)
HaveKeydata == {"PARTIAL_SIG", "BIP32_DERIVATION"}

(* PSBT_..._MANDATORY_V0 and V2, PSBT_..._DISALLOWED_V0 and V2.            *)
Mandatory(section, version) ==
    CASE section = "global" /\ version = 0 -> {"UNSIGNED_TX"}
      [] section = "global" /\ version = 2 ->
            {"TX_VERSION", "INPUT_COUNT", "OUTPUT_COUNT"}
      [] section = "input"  /\ version = 2 -> {"PREVIOUS_TXID", "OUTPUT_INDEX"}
      [] section = "output" /\ version = 2 -> {"AMOUNT", "SCRIPT"}
      [] OTHER -> {}

Disallowed(section, version) ==
    CASE section = "global" /\ version = 0 ->
            {"TX_VERSION", "FALLBACK_LOCKTIME", "INPUT_COUNT", "OUTPUT_COUNT",
             "TX_MODIFIABLE"}
      [] section = "global" /\ version = 2 -> {"UNSIGNED_TX"}
      [] section = "input"  /\ version = 0 ->
            {"PREVIOUS_TXID", "OUTPUT_INDEX", "SEQUENCE",
             "REQUIRED_TIME_LOCKTIME", "REQUIRED_HEIGHT_LOCKTIME"}
      [] section = "output" /\ version = 0 -> {"AMOUNT", "SCRIPT"}
      [] OTHER -> {}

-----------------------------------------------------------------------------
(* Writing.                                                                *)

When(condition, record) == IF condition THEN <<record>> ELSE <<>>
Unless(field, value, unset) == When(value # unset, Plain(field, value))

GlobalMap(p) ==
    Unless("UNSIGNED_TX", p.tx, None)
    \o IF p.version = 0 THEN <<>>
       ELSE <<Plain("TX_VERSION", p.txVersion)>>
            \o Unless("FALLBACK_LOCKTIME", p.fallback, None)
            \o <<Plain("INPUT_COUNT", Len(p.inputs)),
                 Plain("OUTPUT_COUNT", Len(p.outputs))>>
            \o Unless("TX_MODIFIABLE", p.mods, {})
            \o <<Plain("VERSION", 2)>>

SigRecords(in) ==
    SetToSeq({Record("PARTIAL_SIG", k, in.sigs[k]) : k \in Signers(in)})
KeypathRecords(in) ==
    SetToSeq({Record("BIP32_DERIVATION", k, k) : k \in in.keypaths})

(* push_psbt_input: a finalized input is written without what it was       *)
(* finalized from, unless the flag REDUNDANT is given.                     *)
InputMap(p, in, redundant) ==
    Unless("WITNESS_UTXO", in.utxo, None)
    \o (IF IsFinalized(in) /\ ~redundant THEN <<>>
        ELSE SigRecords(in)
             \o Unless("SIGHASH_TYPE", in.sighash, None)
             \o Unless("WITNESS_SCRIPT", in.script, None)
             \o KeypathRecords(in))
    \o Unless("FINAL_SCRIPTWITNESS", in.final, None)
    \o IF p.version = 0 THEN <<>>
       ELSE <<Plain("PREVIOUS_TXID", in.txid), Plain("OUTPUT_INDEX", in.index)>>
            \o Unless("SEQUENCE", in.sequence, FinalSequence)
            \o Unless("REQUIRED_TIME_LOCKTIME", in.time, 0)
            \o Unless("REQUIRED_HEIGHT_LOCKTIME", in.height, 0)

OutputMap(p, out) ==
    IF p.version = 0 THEN <<>>
    ELSE <<Plain("AMOUNT", out.satoshi), Plain("SCRIPT", out.script)>>

(* What push_psbt_input and push_psbt_output ask for in version 2.         *)
CanSerialize(p) ==
    /\ IsValid(p)
    /\ p.version = 2 =>
        /\ \A n \in 1..Len(p.inputs) : p.inputs[n].txid # None
        /\ \A n \in 1..Len(p.outputs) :
            p.outputs[n].satoshi # None /\ p.outputs[n].script # None

SerializeDropsZeroFallback(p, redundant) ==
    <<GlobalMap([p EXCEPT !.fallback = IF @ = 0 THEN None ELSE @])>>
    \o [n \in 1..Len(p.inputs) |-> InputMap(p, p.inputs[n], redundant)]
    \o [n \in 1..Len(p.outputs) |-> OutputMap(p, p.outputs[n])]

(* wally_psbt_to_bytes                                                     *)
Serialize(p, redundant) ==
    <<GlobalMap(p)>>
    \o [n \in 1..Len(p.inputs) |-> InputMap(p, p.inputs[n], redundant)]
    \o [n \in 1..Len(p.outputs) |-> OutputMap(p, p.outputs[n])]

(* psbt_sigs_to_bytes: a version 2 stream with nothing but signatures.     *)
SerializeSigs(p) ==
    <<<<Plain("VERSION", 2), Plain("INPUT_COUNT", Len(p.inputs)),
        Plain("OUTPUT_COUNT", 0)>>>>
    \o [n \in 1..Len(p.inputs) |-> SigRecords(p.inputs[n])]

-----------------------------------------------------------------------------
(* Reading.  A reader is in the map of a section, the one of input or      *)
(* output `at`, of which it has seen the fields of `keyset`.               *)

StartReading ==
    [section |-> "global", at |-> 1, keyset |-> {}, inCount |-> 0, outCount |-> 0,
     psbt |-> [InitPsbt(0) EXCEPT !.mods = {}], trailing |-> FALSE]
Refused == [StartReading EXCEPT !.section = "refused"]

(* The `switch` of each section: what a record makes of what is read.      *)
ReadGlobal(s, r) ==
    LET p == s.psbt
        v == r.value
    IN CASE r.field = "UNSIGNED_TX" ->
                IF CanSetGlobalTx(p) THEN [s EXCEPT !.psbt = SetGlobalTx(p, v)]
                ELSE Refused
         [] r.field = "VERSION" ->
                IF v \in {0, 2} THEN [s EXCEPT !.psbt.version = v] ELSE Refused
         [] r.field = "TX_MODIFIABLE" ->
                IF v \subseteq Flags THEN [s EXCEPT !.psbt.mods = v] ELSE Refused
         [] r.field = "TX_VERSION" -> [s EXCEPT !.psbt.txVersion = v]
         [] r.field = "FALLBACK_LOCKTIME" -> [s EXCEPT !.psbt.fallback = v]
         [] r.field = "INPUT_COUNT" -> [s EXCEPT !.inCount = v]
         [] r.field = "OUTPUT_COUNT" -> [s EXCEPT !.outCount = v]

IsNewSignatureLastWins(in, r) == TRUE

(* pull_map_item: a key may be there once.                                 *)
IsNewSignature(in, r) == in.sigs[r.key] = None

ReadInput(s, r) ==
    LET in == s.psbt.inputs[s.at]
        Becomes(new) == [s EXCEPT !.psbt.inputs[s.at] = new]
        v == r.value
    IN CASE r.field = "PARTIAL_SIG" ->
                IF ~IsNewSignature(in, r) THEN Refused
                ELSE Becomes([in EXCEPT !.sigs[r.key] = v])
         [] r.field = "BIP32_DERIVATION" ->
                IF r.key \in in.keypaths THEN Refused
                ELSE Becomes([in EXCEPT !.keypaths = @ \cup {r.key}])
         [] r.field = "REQUIRED_TIME_LOCKTIME" ->
                IF v < MinTimestamp THEN Refused ELSE Becomes([in EXCEPT !.time = v])
         [] r.field = "REQUIRED_HEIGHT_LOCKTIME" ->
                IF v \notin 1..(MinTimestamp - 1) THEN Refused
                ELSE Becomes([in EXCEPT !.height = v])
         [] r.field = "WITNESS_UTXO" -> Becomes([in EXCEPT !.utxo = v])
         [] r.field = "SIGHASH_TYPE" -> Becomes([in EXCEPT !.sighash = v])
         [] r.field = "WITNESS_SCRIPT" -> Becomes([in EXCEPT !.script = v])
         [] r.field = "FINAL_SCRIPTWITNESS" -> Becomes([in EXCEPT !.final = v])
         [] r.field = "PREVIOUS_TXID" -> Becomes([in EXCEPT !.txid = v])
         [] r.field = "OUTPUT_INDEX" -> Becomes([in EXCEPT !.index = v])
         [] r.field = "SEQUENCE" -> Becomes([in EXCEPT !.sequence = v])

(* The script is None when it is empty, which is accepted and leaves the   *)
(* output without one.                                                     *)
ReadOutput(s, r) ==
    IF r.field = "AMOUNT" THEN [s EXCEPT !.psbt.outputs[s.at].satoshi = r.value]
    ELSE [s EXCEPT !.psbt.outputs[s.at].script = r.value]

(* A record of the map: no field twice unless its keys differ.             *)
ReadRecord(s, r) ==
    LET seen == [s EXCEPT !.keyset = @ \cup {r.field}]
    IN CASE r.field \in s.keyset \ HaveKeydata -> Refused
         [] s.section = "refused" -> s
         [] OTHER -> CASE s.section = "global" -> ReadGlobal(seen, r)
                       [] s.section = "input"  -> ReadInput(seen, r)
                       [] s.section = "output" -> ReadOutput(seen, r)

FieldsOkAnyDisallowed(s, loose) ==
    loose \/ Mandatory(s.section, s.psbt.version) \subseteq s.keyset

FieldsOk(s, loose) ==
    \/ loose
    \/ /\ Mandatory(s.section, s.psbt.version) \subseteq s.keyset
       /\ Disallowed(s.section, s.psbt.version) \cap s.keyset = {}

(* Where a reader goes on behind the first `ins` inputs and `outs` outputs.*)
(* Reading an input starts with a final sequence.                          *)
Enter(s, ins, outs) ==
    LET next == [s EXCEPT !.keyset = {}]
    IN CASE ins < Len(s.psbt.inputs) ->
                [next EXCEPT !.section = "input", !.at = ins + 1,
                             !.psbt.inputs[ins + 1].sequence = FinalSequence]
         [] ins = Len(s.psbt.inputs) /\ outs < Len(s.psbt.outputs) ->
                [next EXCEPT !.section = "output", !.at = outs + 1]
         [] OTHER -> [next EXCEPT !.section = "end", !.at = 1]

(* The arrays of a version 2 PSBT; a transaction read before its version   *)
(* stays in it.                                                            *)
Allocated(s) ==
    IF s.psbt.version = 0 THEN s
    ELSE [s EXCEPT !.psbt.inputs = [n \in 1..s.inCount |->
                        [EmptyInput EXCEPT !.sequence = FinalSequence]],
                   !.psbt.outputs = [n \in 1..s.outCount |-> EmptyOutput]]

(* The sighash is set again, so that it is checked against all signatures. *)
SighashOk(in) == in.sighash = None \/ CanSetSighash(in, in.sighash)

EndMap(s, loose) ==
    LET p == s.psbt
    IN CASE s.section \in {"refused", "end"} -> s
         [] s.section \notin {"refused", "end"} /\ ~FieldsOk(s, loose) -> Refused
         [] s.section = "global" /\ FieldsOk(s, loose) ->
                IF p.version = 2 /\ p.txVersion < 2 THEN Refused
                ELSE Enter(Allocated(s), 0, 0)
         [] s.section = "input" /\ FieldsOk(s, loose) ->
                IF SighashOk(p.inputs[s.at]) THEN Enter(s, s.at, 0) ELSE Refused
         [] s.section = "output" /\ FieldsOk(s, loose) ->
                Enter(s, Len(p.inputs), s.at)

ReadMap(s, records, loose) ==
    IF s.section = "end" THEN [s EXCEPT !.trailing = TRUE]
    ELSE EndMap(FoldLeft(ReadRecord, s, records), loose)

Finished(s, complete) ==
    IF s.section = "end" /\ ~(complete /\ s.trailing) THEN s.psbt ELSE None

(* wally_psbt_from_bytes with the flags LOOSE and COMPLETE; None when it   *)
(* refuses the stream.                                                     *)
Parse(stream, loose, complete) ==
    Finished(FoldLeft(LAMBDA s, m : ReadMap(s, m, loose), StartReading, stream),
             complete)

(* What a PSBT is made of a signature-only stream.                         *)
SigsOnly(p) == Parse(SerializeSigs(p), TRUE, TRUE)

-----------------------------------------------------------------------------
(* What survives writing: all of a version 2 PSBT, and of a version 0 PSBT *)
(* what is not a field of version 2; of a finalized input, unless the flag *)
(* REDUNDANT is given, only what the finalizer leaves.                     *)
WrittenInput(p, in, redundant) ==
    LET shown == IF IsFinalized(in) /\ ~redundant
                 THEN [in EXCEPT !.sigs = NoSigs, !.sighash = None,
                                 !.script = None, !.keypaths = {}]
                 ELSE in
    IN IF p.version = 2 THEN shown
       ELSE [shown EXCEPT !.txid = None, !.index = 0, !.sequence = FinalSequence,
                          !.time = 0, !.height = 0]
WrittenPart(p, redundant) ==
    LET shown == [p EXCEPT !.inputs = [n \in 1..Len(p.inputs) |->
                                          WrittenInput(p, @[n], redundant)]]
    IN IF p.version = 2 THEN shown
       ELSE [shown EXCEPT !.txVersion = 2, !.fallback = None, !.mods = {},
                          !.outputs = [n \in 1..Len(p.outputs) |-> EmptyOutput]]
Consistent(p) == \A n \in 1..Len(p.inputs) : SighashOk(p.inputs[n])

(* A PSBT that is written is read again as it was, but for what is not     *)
(* written: none of its fields is lost, and none takes another's place.    *)
(* Only a loose reader takes a version 0 PSBT without a transaction.       *)
RoundTrips(p, redundant) ==
    CanSerialize(p) /\ Consistent(WrittenPart(p, redundant)) =>
        \A loose \in {TRUE} \cup {p.version = 0 /\ p.tx = None} :
            Parse(Serialize(p, redundant), loose, TRUE) = WrittenPart(p, redundant)
=============================================================================
