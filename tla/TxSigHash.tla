----------------------------- MODULE TxSigHash -----------------------------
(***************************************************************************)
(* The messages that are signed (src/tx_io.c): pre-segwit, BIP 143 and     *)
(* BIP 341 with BIP 118, for Bitcoin and for Elements.                     *)
(*                                                                         *)
(* The code hashes one datum after the other; a message here is the        *)
(* sequence of them.  A datum that is a hash of its own may go through the *)
(* cache: it is a piece with the key under which the cache keeps it.       *)
(*                                                                         *)
(* What is signed is a record: tx, whether it is one of Elements, the      *)
(* output each input spends (utxos, or None where the caller has none),    *)
(* the issuance of each input or None, and the proofs of each output.      *)
(* Issuances and proofs are of Elements, whose amounts stand for the       *)
(* commitments to asset and value.                                         *)
(***************************************************************************)
EXTENDS Transaction

CONSTANTS
    Genesis,         \* the genesis block hash of Elements
    TaprootScripts   \* the scripts that scriptpubkey_is_p2tr accepts

(* A request for the hash of input i: the version of the signature, the    *)
(* script code (for taproot the leaf script, or None), the annex or None.  *)
Request(type, i, script, annex, keyVersion, sighash) ==
    [type |-> type, i |-> i, script |-> script, annex |-> annex,
     keyVersion |-> keyVersion, sighash |-> sighash]

(* `bit6` is WALLY_SIGHASH_ANYPREVOUT, which is RANGEPROOF for Elements.   *)
SighashEx(type, acp, bit6) == [type |-> type, acp |-> acp, bit6 |-> bit6]

(* A datum is named for what it is; `d` is TXIO_SHA256_D.                  *)
Datum(name, x)        == [key |-> None, data |-> (name :> x)]
Sha(name, d, list)    == [key |-> None, data |-> (name :> <<d, list>>)]
Cached(key, piece)    == [key |-> key, data |-> piece.data]
Shared(name, d, list) == Cached(<<name, d>>, Sha(name, d, list))
Zero(name) == Datum("zero_hash", name)
Opt(c, pieces) == IF c THEN pieces ELSE <<>>
Each(n, f(_)) == [k \in 1..n |-> f(k)]

-----------------------------------------------------------------------------
(* The hashes that are cached.                                             *)

ShaPrevouts(s, d) == Shared("PREVOUTS", d,
    Each(Len(s.tx.inputs), LAMBDA k : Outpoint(s.tx.inputs[k])))

ShaSequencesAsPrevouts(s, d) == Cached(<<"PREVOUTS", d>>, Sha("SEQUENCES", d,
    Each(Len(s.tx.inputs), LAMBDA k : s.tx.inputs[k].sequence)))
ShaSequences(s, d) == Shared("SEQUENCES", d,
    Each(Len(s.tx.inputs), LAMBDA k : s.tx.inputs[k].sequence))

ShaOutputs(s, d) == Shared("OUTPUTS", d, s.tx.outputs)

(* AMOUNTS, or ASSET_AMOUNTS for Elements.                                 *)
ShaAmounts(s) == Shared("AMOUNTS", FALSE,
    Each(Len(s.utxos), LAMBDA k : s.utxos[k].satoshi))

ShaScriptPubkeys(s) == Shared("SCRIPTPUBKEYS", FALSE,
    Each(Len(s.utxos), LAMBDA k : s.utxos[k].script))

IssuanceData(issuance)  == IF issuance = None THEN None ELSE issuance.data
IssuanceProof(issuance) == IF issuance = None THEN None ELSE issuance.proof

ShaIssuances(s, d) == Shared("ISSUANCES", d,
    Each(Len(s.issuances), LAMBDA k : IssuanceData(s.issuances[k])))

ShaIssuanceRangeproofs(s) == Shared("ISSUANCE_RANGEPROOFS", FALSE,
    Each(Len(s.issuances), LAMBDA k : IssuanceProof(s.issuances[k])))

ShaOutpointFlags(s) == Shared("OUTPOINT_FLAGS", FALSE,
    Each(Len(s.issuances), LAMBDA k : s.issuances[k] # None))

(* TXIO_SHA_OUTPUT_WITNESSES_D is TXIO_SHA_OUTPUTS with the double bit.    *)
ShaOutputWitnesses(s, d) ==
    Cached(<<IF d THEN "OUTPUTS" ELSE "OUTPUT_WITNESSES", d>>,
           Sha("OUTPUT_WITNESSES", d, s.proofs))

(* The annex and the leaf script are the keys of their own hashes.         *)
ShaAnnex(annex)   == Cached(<<"bytes", annex>>, Datum("annex", annex))
TapleafHash(leaf) == Cached(<<"bytes", leaf>>, Datum("tapleaf", leaf))
TapSighashCtx(s)  == Cached(<<"TAPSIGHASH_CTX", FALSE>>,
    Datum("TapSighash", IF s.elements THEN Genesis ELSE None))

-----------------------------------------------------------------------------
IsAcp(r)    == r.sighash.acp
IsNone(r)   == r.sighash.type = "NONE"
Singles(r)  == r.sighash.type = "SINGLE"
InRange(s, r) == r.i <= Len(s.tx.outputs)

SingleOutput(s, r, d)  == Sha("OUTPUTS", d, <<s.tx.outputs[r.i]>>)
SingleWitnessCached(s, r, d) == Shared("OUTPUT_WITNESSES", d, <<s.proofs[r.i]>>)
SingleWitnessFirst(s, r, d) == Sha("OUTPUT_WITNESSES", d, <<s.proofs[1]>>)
SingleWitness(s, r, d) == Sha("OUTPUT_WITNESSES", d, <<s.proofs[r.i]>>)

(* legacy_signature_hash; a SINGLE without its output is the number one.   *)
LegacyMessage(s, r) ==
    LET hashed == {k \in 1..Len(s.tx.inputs) : IsAcp(r) => k = r.i}
        hidesSequence(k) == k # r.i /\ (IsNone(r) \/ Singles(r))
        input(k) == [outpoint |-> Outpoint(s.tx.inputs[k]),
                     script   |-> IF k = r.i THEN r.script ELSE None,
                     sequence |-> IF hidesSequence(k) THEN 0 ELSE s.tx.inputs[k].sequence,
                     issuance |-> IssuanceData(s.issuances[k])]
        outputs == CASE IsNone(r) -> <<>>
                     [] Singles(r) -> Append([k \in 1..(r.i - 1) |-> None], s.tx.outputs[r.i])
                     [] OTHER -> s.tx.outputs
    IN IF Singles(r) /\ ~InRange(s, r) THEN <<Datum("hash", 1)>>
       ELSE <<Datum("version", s.tx.version),
              Datum("inputs", IF IsAcp(r) THEN <<input(r.i)>>
                              ELSE Each(Len(s.tx.inputs), input)),
              Datum("outputs", outputs),
              Datum("locktime", s.tx.locktime), Datum("sighash", r.sighash)>>

(* bip143_signature_hash                                                   *)
Bip143Message(s, r) ==
    LET own == s.tx.inputs[r.i]
        nothing == IsNone(r) \/ (Singles(r) /\ ~InRange(s, r))
    IN <<Datum("version", s.tx.version),
         IF IsAcp(r) THEN Zero("PREVOUTS") ELSE ShaPrevouts(s, TRUE),
         IF IsAcp(r) \/ Singles(r) \/ IsNone(r) THEN Zero("SEQUENCES")
         ELSE ShaSequences(s, TRUE)>>
       \o Opt(s.elements,
            <<IF IsAcp(r) THEN Zero("ISSUANCES") ELSE ShaIssuances(s, TRUE)>>)
       \o <<Datum("outpoint", Outpoint(own)), Datum("script", r.script),
            Datum("satoshi", s.utxos[r.i].satoshi), Datum("sequence", own.sequence)>>
       \o Opt(s.issuances[r.i] # None,
            <<Datum("issuance", IssuanceData(s.issuances[r.i]))>>)
       \o <<IF nothing THEN Zero("OUTPUTS")
            ELSE IF Singles(r) THEN SingleOutput(s, r, TRUE) ELSE ShaOutputs(s, TRUE)>>
       \o Opt(r.sighash.bit6,
            <<IF nothing THEN Zero("OUTPUT_WITNESSES")
              ELSE IF Singles(r) THEN SingleWitness(s, r, TRUE)
              ELSE ShaOutputWitnesses(s, TRUE)>>)
       \o <<Datum("locktime", s.tx.locktime), Datum("sighash", r.sighash)>>

(* bip341_signature_hash: ANYPREVOUT is bit 6 alone, ANYPREVOUTANYSCRIPT   *)
(* is bit 6 with ANYONECANPAY.                                             *)
IsApo(r)   == r.sighash.bit6 /\ ~IsAcp(r)
IsApoas(r) == r.sighash.bit6 /\ IsAcp(r)

OwnInputNoAmount(s, r) ==
    LET in == s.tx.inputs[r.i]
    IN IF IsApoas(r) THEN <<Datum("sequence", in.sequence)>>
       ELSE IF IsAcp(r) \/ IsApo(r)
       THEN Opt(IsAcp(r), <<Datum("outpoint", Outpoint(in))>>)
            \o <<Datum("scriptpubkey", s.utxos[r.i].script),
                 Datum("sequence", in.sequence)>>
       ELSE <<Datum("index", r.i)>>

OwnInput(s, r) ==
    LET in == s.tx.inputs[r.i]
        issuance == s.issuances[r.i]
    IN IF IsApoas(r) THEN <<Datum("sequence", in.sequence)>>
       ELSE IF IsAcp(r) \/ IsApo(r)
       THEN Opt(IsAcp(r) /\ s.elements, <<Datum("flag", issuance # None)>>)
            \o Opt(IsAcp(r), <<Datum("outpoint", Outpoint(in))>>)
            \o <<Datum("satoshi", s.utxos[r.i].satoshi),
                 Datum("scriptpubkey", s.utxos[r.i].script),
                 Datum("sequence", in.sequence)>>
            \o Opt(s.elements, <<Datum("issuance", IssuanceData(issuance))>>)
            \o Opt(issuance # None,
                 <<Sha("ISSUANCE_RANGEPROOFS", FALSE, <<IssuanceProof(issuance)>>)>>)
       ELSE <<Datum("index", r.i)>>

Bip341Message(s, r) ==
    LET all == ~IsAcp(r) /\ ~IsApo(r)
        allOutputs == ~IsNone(r) /\ ~Singles(r)
    IN <<TapSighashCtx(s), Datum("sighash", r.sighash),
         Datum("version", s.tx.version), Datum("locktime", s.tx.locktime)>>
       \o Opt(s.elements /\ ~IsAcp(r), <<ShaOutpointFlags(s)>>)
       \o Opt(all, <<ShaPrevouts(s, FALSE), ShaAmounts(s), ShaScriptPubkeys(s),
                     ShaSequences(s, FALSE)>>)
       \o Opt(all /\ s.elements, <<ShaIssuances(s, FALSE), ShaIssuanceRangeproofs(s)>>)
       \o Opt(allOutputs, <<ShaOutputs(s, FALSE)>>)
       \o Opt(allOutputs /\ s.elements, <<ShaOutputWitnesses(s, FALSE)>>)
       \o <<Datum("spend_type", <<r.script # None, r.annex # None>>)>>
       \o OwnInput(s, r)
       \o Opt(r.annex # None, <<ShaAnnex(r.annex)>>)
       \o Opt(Singles(r), <<SingleOutput(s, r, FALSE)>>)
       \o Opt(Singles(r) /\ s.elements, <<SingleWitness(s, r, FALSE)>>)
       \o Opt(r.script # None /\ ~IsApoas(r), <<TapleafHash(r.script)>>)
       \o Opt(r.script # None, <<Datum("key_version", r.keyVersion)>>)

-----------------------------------------------------------------------------
(* map_has_all for taproot requests that commit to every input.            *)
HasAll(s) == \A k \in 1..Len(s.utxos) : s.utxos[k] # None

(* The switch of wally_tx_get_input_signature_hash and the checks of the   *)
(* function it calls.                                                      *)
CanHash(s, r) ==
    /\ s.tx.inputs # <<>> /\ s.tx.outputs # <<>>
    /\ r.i \in 1..Len(s.tx.inputs)
    /\ r.sighash.bit6 =>
        IF r.type = "SW_V0" THEN s.elements
        ELSE r.type = "SW_V1" /\ r.keyVersion = 1 /\ ~s.elements
    /\ r.sighash.type = "DEFAULT" => ~r.sighash.acp /\ ~r.sighash.bit6
    /\ r.type = "SW_V0" => s.utxos[r.i] # None
    /\ r.type = "SW_V1" =>
        /\ Singles(r) => InRange(s, r)
        /\ IsAcp(r) \/ IsApo(r) \/ HasAll(s)
        /\ s.utxos[r.i] # None /\ s.utxos[r.i].script \in TaprootScripts

Message(s, r) ==
    CASE r.type = "PRE_SW" -> LegacyMessage(s, r)
      [] r.type = "SW_V0"  -> Bip143Message(s, r)
      [] r.type = "SW_V1"  -> Bip341Message(s, r)

(* What is hashed without a cache.                                         *)
Uncached(pieces) == [n \in 1..Len(pieces) |-> pieces[n].data]
=============================================================================
