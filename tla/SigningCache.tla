---------------------------- MODULE SigningCache ----------------------------
(***************************************************************************)
(* A transaction that is changed and whose inputs are hashed for signing,  *)
(* with the cache of partial hashes that wally_psbt_signing_cache_enable   *)
(* keeps in a PSBT and wally_tx_get_input_signature_hash fills.            *)
(*                                                                         *)
(* Callers follow include/wally_psbt.h:2617: after a change of what is     *)
(* signed they enable the cache again, or disable it, before they ask for  *)
(* another hash.                                                           *)
(***************************************************************************)
EXTENDS TxSigHash

CONSTANTS
    Subjects,      \* what there is to sign in the beginning
    Requests,      \* Requests[elements]: the hashes callers ask for
    Changes,       \* Changes[elements]: the fields callers change
    Numbers        \* the values they set them to

ASSUME SubjectsAssumption ==
    \A s \in Subjects : "elements" \in DOMAIN s /\ s.elements \in BOOLEAN
ASSUME RequestsAssumption ==
    \A elements \in BOOLEAN : \A r \in Requests[elements] :
        r.type \in {"PRE_SW", "SW_V0", "SW_V1"}

VARIABLES
    subject,   \* what is signed, see TxSigHash
    cache,     \* None, or a function from cache keys to hashes
    modified   \* the subject has changed since the cache was enabled

cacheVars == <<subject, cache, modified>>

-----------------------------------------------------------------------------
(* What the code hashes for a piece: with a cache, what is there under its *)
(* key, or else what the first piece of the message with this key put      *)
(* there.                                                                  *)
First(pieces, key) ==
    pieces[CHOOSE n \in 1..Len(pieces) :
        pieces[n].key = key /\ \A m \in 1..(n - 1) : pieces[m].key # key]

HashedPiece(c, pieces, n) ==
    LET key == pieces[n].key
    IN IF c = None \/ key = None THEN pieces[n].data
       ELSE IF key \in DOMAIN c THEN c[key]
       ELSE First(pieces, key).data

Hashed(c, pieces) == [n \in 1..Len(pieces) |-> HashedPiece(c, pieces, n)]

(* The cache after the hash, if every wally_map_add finds memory; one that *)
(* does not is ignored and leaves its hash to be computed again.           *)
Filled(c, pieces) ==
    LET keys == {pieces[n].key : n \in 1..Len(pieces)} \ {None}
    IN IF c = None THEN None
       ELSE [key \in DOMAIN c \cup keys |->
                IF key \in DOMAIN c THEN c[key] ELSE First(pieces, key).data]

-----------------------------------------------------------------------------
Init ==
    /\ subject \in Subjects
    /\ cache = None
    /\ modified = FALSE

Enable ==
    /\ cache' = <<>>      \* the function of empty domain
    /\ modified' = FALSE
    /\ UNCHANGED subject

Disable ==
    /\ cache # None
    /\ cache' = None
    /\ modified' = FALSE
    /\ UNCHANGED subject

GetHash(r) ==
    /\ CanHash(subject, r)
    /\ cache = None \/ ~modified
    /\ cache' = Filled(cache, Message(subject, r))
    /\ UNCHANGED <<subject, modified>>

(* A bound: a change of what is cached is followed by Enable or Disable    *)
(* before there is another one.                                            *)
Change(new) ==
    /\ new # subject /\ ~modified
    /\ subject' = new
    /\ modified' = (cache # None)
    /\ UNCHANGED cache

Changeable(field) == field \in Changes[subject.elements]

Modify(n) ==
    \/ Changeable("locktime") /\ Change([subject EXCEPT !.tx.locktime = n])
    \/ \E i \in 1..Len(subject.tx.inputs) :
        \/ /\ Changeable("sequence")
           /\ Change([subject EXCEPT !.tx.inputs[i].sequence = n])
        \/ /\ Changeable("utxo") /\ subject.utxos[i] # None
           /\ Change([subject EXCEPT !.utxos[i].satoshi = n])
        \/ /\ Changeable("issuance")
           /\ \/ Change([subject EXCEPT !.issuances[i] = None])
              \/ Change([subject EXCEPT !.issuances[i] = [data |-> n, proof |-> n]])
    \/ \E o \in 1..Len(subject.tx.outputs) :
        \/ /\ Changeable("satoshi")
           /\ Change([subject EXCEPT !.tx.outputs[o].satoshi = n])
        \/ Changeable("proof") /\ Change([subject EXCEPT !.proofs[o] = n])

SwapInputs ==
    Change([subject EXCEPT !.tx.inputs = Reverse(@), !.utxos = Reverse(@),
                           !.issuances = Reverse(@)])

Next ==
    \/ Enable
    \/ Disable
    \/ \E r \in Requests[subject.elements] : GetHash(r)
    \/ \E n \in Numbers : Modify(n)
    \/ SwapInputs

Spec == Init /\ [][Next]_cacheVars

-----------------------------------------------------------------------------
(* "An opaque cache for faster generation" (include/wally_transaction.h):  *)
(* whichever inputs were hashed before, for whichever signature versions   *)
(* and sighashes, the hash of any input is the one without the cache.      *)
CacheIsTransparent ==
    ~modified => \A r \in Requests[subject.elements] :
        CanHash(subject, r) =>
            LET pieces == Message(subject, r)
            IN Hashed(cache, pieces) = Uncached(pieces)

(* What CacheIsTransparent needs of the requests, because the code gives   *)
(* two different hashes one key: no BIP 143 hash is of all output          *)
(* witnesses (they are cached as OUTPUTS), and no annex is a leaf script.  *)
SeparateKeys(requests) ==
    /\ \A r \in requests :
        r.type = "SW_V0" /\ r.sighash.bit6 => IsNone(r) \/ Singles(r)
    /\ \A r, other \in requests :
        r.type = "SW_V1" /\ other.type = "SW_V1" /\ r.annex # None
        => r.annex # other.script

-----------------------------------------------------------------------------
(* What the BIPs say that a signature commits to, independently of how the *)
(* messages are put together.  A taproot signature commits to the outputs  *)
(* that all inputs spend, an older one to the amount of its own.           *)
CommittedInput(s, k) ==
    [outpoint |-> Outpoint(s.tx.inputs[k]), sequence |-> s.tx.inputs[k].sequence,
     issuance |-> s.issuances[k]]

Bip341Commits(s, r) ==
    LET own == CommittedInput(s, r.i)
        outputs == {k \in 1..Len(s.tx.outputs) :
                       r.sighash.type \in {"ALL", "DEFAULT"} \/ (Singles(r) /\ k = r.i)}
    IN [sighash |-> r.sighash, annex |-> r.annex, version |-> s.tx.version,
        locktime |-> s.tx.locktime,
        inputs |-> CASE IsApoas(r) -> own.sequence
                     [] IsApo(r) -> <<own.sequence, s.utxos[r.i]>>
                     [] IsAcp(r) /\ ~IsApoas(r) -> <<own, s.utxos[r.i]>>
                     [] OTHER -> <<r.i, s.utxos,
                            [k \in 1..Len(s.tx.inputs) |-> CommittedInput(s, k)]>>,
        outputs |-> [k \in outputs |-> <<s.tx.outputs[k], s.proofs[k]>>],
        leaf |-> IF IsApoas(r) THEN r.script # None ELSE r.script]

Bip143Commits(s, r) ==
    <<SignatureHash(s.tx, r.i, s.utxos[r.i], r.script, r.sighash),
      IF IsAcp(r) THEN IssuanceData(s.issuances[r.i])
      ELSE [k \in 1..Len(s.issuances) |-> IssuanceData(s.issuances[k])],
      IF r.sighash.bit6 /\ r.sighash.type \in {"ALL", "DEFAULT"} THEN s.proofs
      ELSE IF r.sighash.bit6 /\ Singles(r) /\ InRange(s, r) THEN s.proofs[r.i] ELSE None>>

LegacyCommits(s, r) ==
    LET inputs == s.tx.inputs
        hidden(k) == k # r.i /\ (IsNone(r) \/ Singles(r))
    IN IF Singles(r) /\ ~InRange(s, r) THEN "one"
       ELSE <<s.tx.version, s.tx.locktime, r.sighash, r.script,
              IF IsAcp(r) THEN <<Outpoint(inputs[r.i]), inputs[r.i].sequence>>
              ELSE <<r.i, [k \in 1..Len(inputs) |-> <<Outpoint(inputs[k]),
                            IF hidden(k) THEN 0 ELSE inputs[k].sequence>>]>>,
              IF IsNone(r) THEN None
              ELSE IF Singles(r) THEN s.tx.outputs[r.i] ELSE s.tx.outputs>>

Commits(s, r) ==
    CASE r.type = "PRE_SW" -> LegacyCommits(s, r)
      [] r.type = "SW_V0"  -> Bip143Commits(s, r)
      [] r.type = "SW_V1"  -> Bip341Commits(s, r)

(* A message says all that its signature is to commit to: no change of the *)
(* transaction that the sighash does not allow leaves a hash as it was.    *)
ChangesInvalidate ==
    [][subject' # subject => \A r \in Requests[subject.elements] :
        /\ CanHash(subject, r) /\ CanHash(subject', r)
        /\ Uncached(Message(subject, r)) = Uncached(Message(subject', r))
        => Commits(subject, r) = Commits(subject', r)]_cacheVars
=============================================================================
