# A TLA+ model of libwally-core

libwally-core is a C library of wallet primitives: transactions, partially
signed transactions (PSBT), scripts, descriptors, keys and encodings.  It keeps
no global state beyond hooks and a secp256k1 context, starts no threads and
calls back into its user only for allocation and randomness; what has state is
the objects callers hold.  What can go wrong is therefore not a race but a
*sequence of legal calls*: on one object (a PSBT that is modified after it is
signed), on several copies of it (PSBTs that travel between signers and are
combined), or half of a call (an item of several that fails).  The model is
about those sequences.

## 1. Inventory

| component | source | state | operations | hard behaviour |
|---|---|---|---|---|
| map | `map.c`, `wally_map.h` | ordered array of key/value items, optional verify function | init, clear, add, remove, replace, sort, combine, assign, find | duplicates, a loop that fails half way, sort order of byte keys, what verify covers |
| psbt | `psbt.c`, `wally_psbt.h` | version, global tx (v0) or tx fields (v2), modifiable flags, inputs and outputs of maps and fields, signing cache | create, from tx, add/remove input/output, setters, set version, sign, combine, combine signatures, clone, finalize, extract, parse, serialize | flags against signatures, merge order, conversions that lose or keep fields, locktime choice, undo of a failed add, finalizer branches |
| transaction | `transaction.c`, `wally_transaction.h` | inputs, outputs, witnesses | add/remove, totals, lengths and weights, write, analyze, read | total money bound; a length, a writer, a check and a reader that each walk the format with code of their own; flags in an index |
| signature hashes | `tx_io.c`, `tx_io.h` | a cache of partial hashes (a map) | legacy, BIP 143, BIP 341 and Elements messages | a cache that outlives the transaction it was computed from, keys that collide |
| coin selection | `coins.c` | none | exact-match branch and bound over asset amounts | the order of the search, the attempt limit, overflow of sums |
| script | `script.c` | none | classify, push, build scripts and witnesses, varints | minimal pushes, length boundaries |
| descriptor | `descriptor.c` | parsed tree, variant, multi-path index | parse, canonicalize, generate scripts and addresses | miniscript type rules, ranges and their maxima |
| bip32 | `bip32.c` | extended key | path parsing, derivation, serialization | hardened limits, wildcards, depth wrap |
| elements | `elements.c` | none | blinding, unblinding, surjection and range proofs | order of blinding factors |
| keys and signing | `sign.c`, `ecdh.c`, `wif.c` | none | wrap libsecp256k1 | - |
| anti-exfil | `anti_exfil.c` | none (the protocol is the callers') | commit, sign, verify | order of host and signer messages |
| encodings | `address.c`, `base_58.c`, `base_64.c`, `bech32.c`, `blech32.c`, `hex_.c` | none | encode, decode | checksums, lengths |
| mnemonics | `bip39.c`, `mnemonic.c`, `wordlist.c` | none | entropy to words and back | bit packing |
| ciphers, hashes, KDFs | `aes.c`, `hmac.c`, `pbkdf2.c`, `scrypt.c`, `bip38.c`, `bip85.c`, `symmetric.c` | none | cryptography | - |
| push/pull | `pullpush.c` | cursor and remaining length | bounded reads and writes | a cursor at its end |
| core | `internal.c` | allocation and randomness hooks, secp context | init, array growth, hash wrappers | allocation failure |
| bindings | `swig_java`, `swig_python`, `wasm_package` | none | generated wrappers | - |

**How they interact.**  A PSBT is made of maps: key paths, signatures, unknown
fields and (for taproot and PSET) most other fields of an input or output are
`wally_map`s, and combining PSBTs is combining maps.  A version 0 PSBT owns a
`wally_tx`; a version 2 PSBT builds one whenever an id, a hash or the final
transaction is asked for.  Signing builds that transaction, asks `tx_io.c` for
the message of an input and stores the signature in the input's map.  The
cache of partial hashes, when enabled, belongs to the PSBT and is also a map.

**What makes it correct.**

* map: a key occurs once; combine only adds; assign is all or nothing; sorting
  is canonical; what a map verifies it verifies always.
* psbt: a version 0 PSBT and its transaction agree on inputs and outputs; a
  signature in a PSBT signs the transaction the PSBT stands for as long as the
  library lets it change; combining copies of one PSBT is a union that is never
  refused; conversions keep the transaction; the locktime is one every input
  accepts; a clone equals its original; a final witness satisfies its script.
* signature hashes: with the cache or without it, the message is that of the
  transaction as it is now.
* transaction: the length computed is the length written; what is written is
  read back; the reader reads what was checked and nothing behind it.
* coin selection: a selection it returns reaches the target, and when one
  exists within the limit one is returned.
* psbt format: what is read is valid whatever the order of its records, and what
  is written is read back.
* elements: blinding balances whoever blinds what, in whatever order.
* descriptor: the script of a miniscript does what its type says, and is written
  completely into a buffer of the size that is asked for.

`PROJECT.json` lists the hazards this code is exposed to, each at its line, with
the properties that cover it.

## 2. Modules

```
KeyValueStore <--- implemented by --- WallyMap <--- WallyMapProofs
                                         ^
                                      MCWallyMap

Transaction <- Psbt <- PsbtCombine <- PsbtFormat <- PsbtReader <- MCPsbtReader
     ^                      ^             ^              ^
     |                      |             |       PsbtReaderProofs
     |                PsbtFinalize <- PsbtWorkflow <- MCPsbt
     |                                    ^
     |                                PsbtProofs
     |                                    |
  TxSigHash <------------------- SigningCache <- MCSigningCache

ExchangeProofs -> PsbtProofs, PsbtReaderProofs

MCPsetBlind -> PsetBlind <- ElementsProofs -> CoinSelect <- MCCoinSelect

TxFormat <- TxParser <- TxSerialization <- MCTxSerialization
                               ^
                        TxFormatProofs

MiniscriptTypes, ScriptMachine <- Miniscript <- MiniscriptProofs
                                      ^
                                 MCMiniscript

Folding: instances of it are in ElementsProofs, PsbtProofs, PsbtReaderProofs
         and TxFormatProofs
```

An arrow is an `EXTENDS`: the module at its tail extends the one it points to.  A module models what a call *does*; which calls are
made, in which order and with which arguments, is `PsbtWorkflow`'s,
`SigningCache`'s and `WallyMap`'s next-state relation.

| module | models | state and actions |
|---|---|---|
| `KeyValueStore` | what a map promises | partial functions; put, drop, merge, replace all |
| `WallyMap` | `map.c` 37-500 | `maps[m]` is the items array and whether there is a verify function; one action per call, except combine and assign, whose loops are one step per item (`JobItem`) because any item can fail (`job` is the running call, `tmp` the local result of assign, `ret` the return code) |
| `Transaction` | transactions, their amounts, BIP 143 messages of Bitcoin | operators only |
| `Psbt` | creating, modifying, converting, signing a PSBT | operators: each takes a PSBT record and returns the new one, with a `Can...` operator for the early returns |
| `PsbtCombine` | `wally_psbt_combine_ex`, clone | the same |
| `PsbtFinalize` | finalize and extract | the same |
| `PsbtFormat` | `wally_psbt_to_bytes` and `wally_psbt_from_bytes` | operators: a stream is a sequence of maps, a map a sequence of records; the fields mandatory and disallowed by version, duplicates, the signature and sighash checks, what a finalized input gives up |
| `PsbtReader` | reading a stream from anywhere | `reader` is the parser between two records, `loose` its flag; a step puts a record, ends a map or leaves trailing data |
| `PsbtWorkflow` | the callers: BIP 174 roles | `psbt[h]` is the object of handle h, or `None`; one action per API call. A PSBT is sent to another holder, and combined, by way of what `PsbtFormat` writes and reads |
| `PsetBlind` | `wally_psbt_blind`, the scalars of `elements.c`, combining of blinded outputs | `pset[h]` has the outputs with the fields that blinding sets, and the global scalars; an action is one owner's call, a clone or a combination |
| `MiniscriptTypes` | the `verify_*` functions and `node_verify_wrappers` of `descriptor.c` | operators from the types of the arguments to that of the fragment |
| `ScriptMachine` | Bitcoin script, external to the repository | `Runs`: the ends of all runs of a script, each with the witness it took |
| `Miniscript` | `analyze_miniscript`, the `generate_*` functions, `node_generation_size` | `node` is the expression parsed so far: type, size, and the script it writes for every length of buffer; a step puts a fragment with its other arguments and its wrappers around it |
| `TxFormat` | `tx_elements_input_init` and its raw twin, `tx_get_lengths` and what is computed from it, `tx_to_bytes` | operators on inputs, outputs and transactions |
| `TxParser` | `analyze_tx`, `tx_from_bytes` | operators on bytes and positions, one pair (`Ensure...`, `Read...`) for each thing that the two functions walk over |
| `TxSerialization` | a caller that builds, writes and reads | `tx` is the transaction, `wire` the bytes under way, which may be cut or changed |
| `TxSigHash` | the signature messages of `tx_io.c` | operators: a message is the sequence of data hashed, some of them under a cache key |
| `SigningCache` | one transaction that changes, and the cache | `subject`, `cache`, `modified` |
| `CoinSelect` | `wally_coinselect_assets` | one step per attempt of the loop; `next` is `v + 1`, `chosen` is `indices`, `best` is `best_score`, `best_sum` and `indices_out` |

**Abstractions.**  A hash is the data that was hashed; a signature is the pair of
a key and a hash, and is valid exactly for that pair; scripts and keys are
values with the structure the code looks at.  Amounts, locktimes and sequences
are small numbers; the three limits of the code that matter (`MaxMoney`,
`MinTimestamp`, `FinalSequence`) are constants.  What is left out of the PSBT
modules is listed in section 6.

**Mutant operators.**  Next to some definitions stands one that the module does
not use, such as `V0ToV2NoFallback` before `V0ToV2`: the form a plausible bug
would give it.  Put in its place it must break the property that
`PROJECT.json` names for it, which shows that the property depends on that code.

## 3. Runs

All bounds are constants of the `.cfg` files; every run is exhaustive.

| run | states | time | what it shows |
|---|---|---|---|
| `map` | 37 000 | 15 s | two maps, three keys (an integer, a byte string and a longer one that starts with it), four pairs of which one is refused by the verify function, two items at most: unique keys, combine appends only, a complete combine is complete, sorting is canonical, assign is all or nothing, and the refinement of `KeyValueStore` |
| `construct` | 257 000 | 50 s | one PSBT, versions 0 and 2, two inputs and outputs, times and heights set and cleared |
| `signing` | 109 000 | 15 s | signatures of ALL, SINGLE and NONE\|ANYONECANPAY while inputs and outputs come and go |
| `exchange` | 175 000 | 60 s | two copies, four kinds of script, both versions, two sighashes, sent through their serialization |
| `reader` | 157 000 | 15 s | every stream of at most one input and one output over 29 records, contradicting versions, counts, sighashes and signatures among them: any two records may be swapped, what is read strictly is valid, and what is read is read back when it is written |
| `blind` | 300 | 2 s | three owners of four inputs and six outputs on two copies: the scalars account for what is blinded at any time, and when every owner takes its turn every copy ends up blinded and balanced |
| `cache` | 56 000 | 60 s | Bitcoin and Elements; two inputs, one or two outputs, one field changed at a time |
| `coins` | 133 000 | 15 s | 18 808 problems: every descending list of up to five values of at most 4 |
| `tx_bytes` | 61 000 | 30 s | eight kinds of Elements inputs (plain, with a long script, coinbase, issuance, reissuance, peg-in, an issuance without its flag, a flag without its issuance) and three of Bitcoin, as many outputs of each, witness stacks that are missing, empty or long, every combination of the three flags; whole, cut off anywhere, or with any byte replaced by a count of zero or the tag of a longer number |
| `miniscript` | 30 000 | 60 s | every leaf with up to one wrapper, by itself and inside one and two fragments with one wrapper each, segwit and tapscript: the letters of a type against every run of the script; the size against every length of buffer |

Why the bounds are enough: two inputs tell "this input" from "another one" and
one output fewer lets SINGLE miss its output; two handles are a destination and
a source, and a clone, combine and further change of either is the only way
copies interact; a third key makes a 2 of 3 multisig choose; two items reach
every case of a gap, a tie and an append.  `MaxMoney` is large enough in
`construct` that the failing undo (section 5) is not reached.  In the construct run sequence 2 stands for a relative lock
of two blocks, 9 for the final sequence, and times start at 100.  `MaxAssets` 4
and `MaxScore` 15 are reached by the lists and ratios of `coins`.

A stream of one input and one output has every kind of map, and the records of a
map meet no other map's; the versions 0, 1 and 2 are one of each kind that the
reader tells apart.  The sequence of an input meets no other record; it is written and read in `exchange`.  In `blind`, owner "a" has two inputs, so that its scalars
count once for both; input 0 is there because its index is taken for "none" by
`combine_output`; the last output is not blinded.  A rule of miniscript looks at
its arguments' types only, so two fragments are what it takes for a wrong letter to
be relied on; a third brings no rule into a place where it was not.  `MaxSize` 16
leaves room for every pair of fragments, and buffers range from 0 to four bytes
more than that.  Opcodes and pushes keep one byte each; what a push carries is one
more, whatever its length: the code that decides what fits adds lengths and has
no other use for them.

In `tx_bytes` the format is to scale: an amount is a byte, a commitment three, and a
length of four or more takes a byte more to write.  Two inputs tell whose witness is
whose.  The 21 bytes up to which transactions are damaged hold an Elements transaction with an
input, an output, its witnesses and proofs.

**What callers are assumed to do.**  They pass the inputs' true previous
outputs; they build a transaction for one network, with commitments that are as long
as their first byte says, and no issuance or peg-in in a coinbase; they enable the signing cache again, or disable it, after a change
(`include/wally_psbt.h`, the comment of `wally_psbt_signing_cache_enable`); they
sort the values for coin selection in descending order (`OrderAssumption`) and these do not sum to
2^64; they do not convert a version 0 PSBT without a transaction (the code
would read through a NULL pointer).  In the runs they do not use
SINGLE|ANYONECANPAY, see section 5.

**Fairness and liveness.**  The library is a sequential callee: nothing in it
waits, and whether a PSBT is ever signed is its callers' decision.  One protocol
among the callers has an end that all of them rely on: blinding a PSET.
`AllEndBlinded` assumes that every owner that is given a copy calls
`wally_psbt_blind` on it some time (weak fairness of each owner on each copy:
once there is an output of its own to blind, this stays so until it does, since
nobody else's call takes it away) and nothing about the order.  It shows that no
owner has to be told that it is the last.  Cloning is not fair: copies need not
be made.  Termination of the coin search is visible in its attempt counter.  Runs
whose callers may stop for good (all PSBTs final or freed, streams that ended,
expressions of the greatest depth, a search that ended) say `CHECK_DEADLOCK
FALSE`.

**Miniscript: where the rules depart.**  Some rules of the code are not those of
miniscript, and a type that follows from them may claim what the script does not do
(section 5).  A node carries in `doubt` which of its letters such a rule has
reached; the properties are about the others, so that they show the rest of the
rules right.  `doubt` is a history variable: no step depends on it.

## 4. Proofs

`tlapm` proves all obligations of eight modules.  The theorems hold for every value of
the constants that the named `ASSUME`s allow: any number of keys, maps, inputs, outputs, owners or
values, scripts and commitments of any length, and any number of calls.  `PROJECT.json` lists them.
Every inductive invariant was first an `INVARIANT` of a run of TLC.

*`Folding`.*  Sums and loops of the code are folds, and a fold is a recursive function:
all a proof knows of it is that it is *some* function, with its equation if there is one.
The module proves that there is one for every finite set, by induction
(the theorems of the library on induction take a predicate, which no prover here can be given;
here a predicate is the set of natural numbers that have it), and from it: the equation of
the fold, that it has a type, that it depends on what it folds only, that a sum does
not depend on the order, and what a loop over a sequence does.  Operation, base and
order are its constants; a module that has a sum is an instance.  A loop that does not
start from a constant but goes on from where a reader is, is a fold with a base of its own
(`FoldFrom`): the fold of functions from bases to results.

*`WallyMapProofs`.*  The invariant is

    Inv == TypeOK /\ NoDuplicateKeys /\ UniqueKeys(tmp.items) /\ LoopInv

`NoDuplicateKeys` alone is not inductive: `wally_map_assign` builds its result in
a local map and then swaps it in, so that map has to be without duplicates
before it is anybody's.  `LoopInv` says of the running combine or assign that
every item before the loop index has its key in the destination; it is what
makes a complete combine complete, and it needs that nothing else touches the
maps while the loop runs (the library is not reentrant).  From `Inv` follow
`TypeCorrect`, `KeysAreUnique`, `CombineAppends`, `CombineCompletes` and
`AssignVerifies`.  The proof has one step for each action; lemmas say what
append, remove, replace and permute do to an array with unique keys.

`MapsAreStores` is the refinement of `KeyValueStore`: an array with unique keys is the
function `Lookup` of its items, and each action is a step of the store or a stutter
(a step of a loop is a put of one key, or nothing).  `SortingIsCanonical` is about
the order: `Before` compares kinds, bytes and lengths as `wally_map_sort` does, and the
proof shows that it is total and transitive on keys, so that two sorted arrays with the same keys are
equal position by position.

*The signing cache* (the last part of `PsbtProofs`).  The invariant is that what is in the cache is what its key
stands for: `Meant` gives for each key of the cache (one kind per hash of
`tx_io.c`, with the sighash bits that are part of the key) the data that would be hashed of the transaction as it
is.  Every message puts only that under a key and reads only that.  The theorem `CacheTransparent` has
a hypothesis: the requests of a caller have no two annexes, leaf scripts or rangeproofs whose keys are equal for
different data (`SeparateKeys`).  It is an `ASSUME` of the `cache` run, and what is false
in `cache_rangeproof`, the run of section 5 that shows two hashes under one key.

*`ElementsProofs`, coin selection.*  Four invariants, each on top of the one before.  `Inv` is
`TypeOK /\ InBounds` with the fact that a call keeps its arguments.  The lemma that matters is
`IncludesBeforeSentinel`: behind the last value nothing remains, so a branch there is either cut or has reached
the target, and no value is read past the end.  `SumInv` says that `sum` is the sum of what is
on the stack, and the same of the best selection; `SelectionsReach` follows.
`FindInv` says that until something is found the search is still on its *first descent*, taking the
values as they come (`InFirstDescent`), unless no selection reaches the target at all.  The
descent is not cut because its sum is the greatest that as many values can have,
for which the values must be in descending order (`OrderAssumption`, what
`include/wally_coinselection.h` asks of callers); and if it ends without the target, `NoneReaches`
shows that nothing does.  `SelectionIsFound` is that for every limit of attempts.
`BestInv` is about *all* selections at any time: one that reaches the target is either beaten (`Beats`)
or still `Ahead`, that is, it extends the first positions on the stack by positions behind the one that follows
there.  A step takes the branch under the whole stack off what is ahead, and each way to do so has its lemma:
what a cut drops cannot reach the target, has more values than the best score, or more than
may be returned (`CutIsBeaten`); behind a selection that is scored everything costs more
(`ConsiderBeats`); a selection with a value that is passed over has a twin, with the equal value before
it, that is *not* ahead any more and so is beaten (`SkippedHasTwin`).  That `Beats` is
kept when an exact selection gives way to another of the same score (section 5) is why it counts any
exact selection of that score, held or not.  `SelectionIsBest` follows, for all scores that do not wrap.

*`PsbtProofs`*, before the cache, has three parts.  First, `TypeInv`: each call keeps the type of every field, which needs that a
fresh output in the transaction has a script even if the PSBT's own has none
(`ConstructTypeCorrect`), and from it `CloneEqualsOriginal`: combining into an
empty PSBT replaces exactly the empty value of every field.  Second, `GoodInv`:
a PSBT is valid (`ValidPsbt`), an output of a transaction pays one of the amounts that callers ask for,
a version 0 PSBT has no locks of its own, and those of a version 2 PSBT are in their ranges.  `ValidPsbt`
alone is not inductive: whether a version 0 PSBT still has as many outputs as its
transaction depends on whether the next one is refused for the total.  The hypothesis `AmountsFit` says that the
outputs a PSBT can get never exceed the money bound; without it `ValidPsbt` is false (the undo
of section 5), so it is also an `ASSUME` of the runs.  `ConstructLeavesValid`, `LocktimeIsSatisfied` (with
the greatest lock as a fold over the inputs) and `VersionKeepsTx` follow.

Third, `SoundInv`, of version 2 PSBTs while they are signed: every signature that is held is
one of its key over the message of *this* transaction, input and sighash
(`Held`), and the flags cover what the signatures do.  Neither half is inductive without the other: a signature
stays good because the flags refuse what would change its message (`MessageIsKept`), and the flags
stay true because a signature that is added clears them.  Two more parts are needed: an input
that is signed is described by its true previous output, and no
input has a lock of its own, as then the locktime, which every message has, is the
fallback (`LocktimeIsFallback`).  The hypotheses of `SignaturesStayGood` and `FlagsStayTrue`: callers know
the outputs they spend (`PrevoutsKnown`) and do not use SINGLE|ANYONECANPAY (`NoSingleMoves`, section 5) -- both `ASSUME`s of
the runs -- and all PSBTs are of version 2: version 0 has no flags, and nothing refuses to change a
signed PSBT (`CanModify`).

*`PsbtReaderProofs`.*  The serialization, in three parts, each for every number of inputs and
outputs and every set of keys.

First, what is written is read.  The records of a map are read one by one; what makes this
a statement about the whole map is that the state of the reader after some of them is
a function of the *set* of records read (`InputMade`, `GlobalMade` and their states), and
`InputIsTaken`, `GlobalIsTaken` and `OutputIsTaken` are the step from a set to the set
with one record more: it is not a duplicate, and it is not refused.  `InputIsWritten` and its
like say of a map that was written that it has each field of the input once and nothing
else; maps follow each other as `Stage` says.  `WrittenIsReadAgain` is the result: any PSBT
that can be written, of version 0 or 2, is read as the part of it that is written, by the strict
and by the loose reader, if its signatures and sighashes agree, and is refused if they do not.
`SignaturesTravelAlone` is the same of a stream of signatures only.

Second, what any stream is read as.  `ReaderInv` has one disjunct for each place a reader
can be in: refused; among the globals, of which it has seen those in its key set, and has no
inputs and outputs yet; or in a body, with as many inputs and outputs as were
announced, of which those before the current one are finished (`Readable`) and the current
one agrees with the keys seen in its map.  That the key set and the fields agree is what is
needed beyond the PSBT itself: a field that is unset has not been seen, so that the checks at the end
of a map are about what was in it.  `StrictReaderIsSound` follows, and `ReadIsReadBack`: what a reader made of any
stream is a PSBT that the first part is about.

Third, `RecordsAlwaysCommute`: two records in either order lead to the same state, refusals included.
It needs `ReaderInv`: of states that no reader gets into it is false, such as an
input with a signature whose key the reader has not seen.  The proof is by the kind of the two records; the
signature and the sighash are the pair that looks at each other.

*`ExchangeProofs`.*  `SignaturesVerify` where copies are exchanged is not inductive, and no
strengthening that looks at one copy at a time makes it so: a copy takes over signatures, and whole
final witnesses, that were made from another one, perhaps of the other version or finalized in
part.  What they have in common is the transaction:

    ExchangeInv == \E tx \in Txs : TypeOK /\ \A h \in Live : Copy(tx, psbt[h])

`Copy` says of a PSBT that its fields are those of `tx` (`Shell`: as a transaction of its own
in version 0, spread over inputs and outputs in version 2), that each input knows the output
that it spends, has no script or the right one, and that every signature is one of
`tx` by a key of the script and every final witness one that satisfies the script in `tx`
(`CopyInput`).  It speaks of `tx`, never of the transaction that the copy builds: that
the two are equal is a consequence (`CopyBuilds`).  That is what lets `BetweenIsCopy` do most of
the work: an input that has each of its parts from either of two inputs of copies is one
of a copy itself, and so combining, clearing, setting a sighash and writing and reading are
each a line about where the parts come from.  The rest is the two places where something new is
made.  The signer asks for the message of the transaction as it is
(`SignedIsCopy`).  The finalizer takes the signatures of a multisig in the order of the
script's keys, the first `threshold` of them; that they satisfy the script, for any number
of keys, is that their positions ascend (`Below` counts the positions before one).
A PSBT that is sent is `WrittenIsReadAgain` and `SignaturesTravelAlone`.

From `ExchangeInv` follow all four properties of the `exchange` run:
`ExchangedSignaturesVerify`, `WitnessesVerify`, `CopiesStayCombinable` (two copies of one version
have the same id, that of `tx`) and `CombiningUnites`.  Their hypotheses are `AmountsFit` and `PrevoutsKnown`,
as above; `ScriptsKnown`, that the outputs spent are of the kinds that the finalizer is
modelled for; and `NoTxIsRaised`, that no transaction of version 1 meets a conversion: `wally_psbt_set_version`
raises it to version 2 (`psbt.c:4119`), which changes every message, and a signature that is
there already is lost.  All four are `ASSUME`s of `MCPsbt`, the last one of the transactions of
the `exchange` run.

*`ElementsProofs`, blinding.*  `AccountInv` is that on every copy the offsets of the blinded
outputs, less those of the inputs of owners that took their turn, add up to the sum of the global
scalars.  What makes it inductive is that an owner's turn changes both sides by the same: the sum over a
union of disjoint sets (the owner's outputs and the rest) is the sum of the sums, and the last
owner's turn leaves no scalar because everything has been used.  `BlindedCopiesBalance` follows.

*`MiniscriptProofs`.*  `TypeOK` of `Miniscript` says that a type that is returned is
one of the four and that no two of its properties exclude each other.  The code
tests this at the end of `node_verify_wrappers`, which returns early for a node
without wrappers.  `TypesAreConsistent` is that the test would never fail there, for
expressions of any depth and any leaves.  It is inductive as it stands: each
fragment has a lemma that its rule, given arguments whose types are consistent,
makes a consistent one (`AndorIsConsistent` to `ThreshIsConsistent`), and
`ParsedIsConsistent` adds the wrappers.

*`TxFormatProofs`.*  `tx_to_bytes` compares its buffer with a computed length once; then it
is up to each part that it writes what was counted for it: `InputLengthIsExact`,
`OutputLengthIsExact` and `ProofsLengthIsExact` of the parts, `LengthsAreExact` of the transaction,
where lengths are sums and bytes are joined by loops, both folds.  The parser walks over the bytes
twice, once to check and once to read; `ParserNeverLeaves` is that the second walk ends where the first
did or before.  The lemmas pair each `Ensure...` with its `Read...`, for any bytes, and the loops over
inputs, outputs and witnesses keep the pairs together.  `SerializationTypeCorrect` is what
ties them: whatever bytes are read, the result is a transaction that calls could have made, with
commitments as long as their first byte says, so that writing it again is exact as well.

`WrittenBytesAreReadBack` brings the writer in.  `Holds` says that a piece of the bytes is what was
written for a part; for each part a lemma shows that checking and reading it there end behind the
piece and give the part back (`VarintBack` up to `PartsBack` and `WholeBack`), the loops
over inputs, outputs and witnesses by an induction on how many have been read.  `WrittenPieces`
cuts all the bytes into these pieces, `HeaderBack` is that the marker of BIP 144
and the witness flag of Elements are not taken for something else, and `WrittenIsRead` is the
result.  `CutIsRefused` compares two readings: of the beginning of some bytes, what
is not refused ends at the same place as in all of them (`ByteAgrees` up to `AnalyzeAgrees`), but
all of them end where they end, so a beginning is refused.  The invariant, `SerializationInv`,
is stronger than `TypeOK` in two ways: all inputs and outputs are of one network
(`ShapedTxs`: otherwise the bytes would be those of neither), and the bytes under way, unless one
was changed, are a beginning of what is written for the transaction.  The hypothesis `Unambiguous` is what
bytes cannot say: whether an issuance is a peg-in or a coinbase too, or whether a commitment that begins
with the byte for a missing one is there.

**Assumptions.**  The named `ASSUME`s of `WallyMap`, `Transaction`, `Psbt`,
`PsbtReader`, `PsbtWorkflow`, `SigningCache`, `CoinSelect`, `PsetBlind`, `Miniscript`, `TxFormat` and
`TxSerialization` type the constants (TLC evaluates them in every run); `KeysAssumption` is that there are finitely
many public keys, `RecordsAssumption` that a record has one of the modelled fields and a value of
its kind; `OrderAssumption` and the hypotheses above are what
callers are asked for.

**Only model-checked.**

* `AllEndBlinded`: liveness, out of reach of the provers.
* What the letters of a miniscript type claim of its script: a run of a script is a
  fold over its opcodes, and every claim an induction over runs.
* `ChangesInvalidate`: it compares the messages of two transactions piece by piece, for every
  kind of signature and every change: a statement about the format of the messages, not about a
  state that calls could spoil.

## 5. Where code and documentation disagree

Runs that expect a violation:

| run | property | what happens |
|---|---|---|
| `cache_rangeproof` | `CacheIsTransparent` | two different hashes share one cache key |
| `script_buffer` | `WrittenIfItFits` | the last argument of and_v is given a byte less of the buffer than is left; a script of exactly the length that was computed for it, such as that of `and_v(v:older(144),pk(B))`, misses its last piece |

Disagreements without a run.  They were found with properties of this project, each in
an instance that allows the step, and the runs leave the step out:

* *Undo of an output* (`psbt.c:1986`): adding an output that the transaction refuses, its
  total being too large, undoes an addition that did not happen and takes out
  another output (`ValidPsbt` with `MaxMoney` 2).
* *SINGLE|ANYONECANPAY* (`psbt.c:1794`): INPUTS stays set, and an input inserted before
  the signed one invalidates its signature (`SignaturesVerify`).
* *The bip32 signer* (`psbt.c:4715`) does not update the modifiable flags
  (`FlagsFollowSignatures` in the exchange).
* *Txids* (`psbt.c:4166`): a PSBT converted from version 2 to 0 keeps its txids in its
  inputs and cannot be combined with one that was made in version 0, although the
  ids are equal (`CopiesCombine` is about copies of one PSBT).
* *Exact selections* (`coins.c:131`): one gives way to a later one with change of the same
  score, against the comment at `coins.c:47`.
* *Combining blinded outputs* (`psbt.c:3821`): "The source is fully blinded, either copy or verify
  the fields", but the loop ends before the ECDH public key, so the result is only
  partly blinded and its last blinder waits for ever (`CombinedIsBlinded` of `CombineSpec`,
  with `TwoOwners` and `OneEach` of `MCPsetBlind`).
* *A transaction without inputs* (`transaction.c:1998`): its length is computed with the
  witnesses that `tx_to_bytes` then decides not to write, and is returned as the
  number of bytes written (`include/wally_transaction.h:711`), with bytes at the end that were
  not (`LengthIsExact` without its condition on inputs).
* *A peg-in that issues* (`transaction.c:2045`): an input with both features is written with the
  flag of the issuance alone, and is no peg-in when read (`BytesAreReadBack` without
  `Unambiguous`).
* *Blinding one output at a time* (`psbt.c:5538`): the scalars of all of an owner's
  inputs are subtracted in every call, so the transaction does not balance.
* *thresh* (`descriptor.c:1180`) counts the arguments of its children with the test
  inverted: `thresh(1,pk(A))` has the zero-arg property.
* *andor* (`descriptor.c:961`) asks of its first argument B alone (`x_prop & need_x`), not
  B, d and u, and takes one argument for the whole where each part takes one
  (line 968).
* *multi_a* (`descriptor.c:845`) has n, whose topmost argument may be empty.
* *A number* other than 0 is typed as 1 (`descriptor.c:2974`).
* *d:* sets all of g, h, i, j and k whatever it wraps; *n:* and *j:* drop the locks.
* *A fragment that has no type* is returned if it has no wrapper (`descriptor.c:1259`
  returns before the test); nothing typed can be made of it, and it is left out of the
  model.

Seen while modelling, modelled as the code has it, without a run of their own:
an input is an issuance if it was given a nonce, or, by the raw calls, if its index has
the flag; a witness stack without items is written like none and counts as a
witness nevertheless; with PRE_BIP144 witnesses are still written as BIP 144 has it;
bytes behind a transaction are ignored;
`wally_map_replace` of a present key does not call the verify function; combining
copies a sighash into an input that has signatures of another one; the annex and
the leaf script are cache keys of their own hashes, so a leaf script equal to the
annex would get the annex's hash (the `cache` run's requests keep them apart);
the score of a coin selection is added in 32 bits, so `io_ratio` near 2^32 makes
a selection with change score 0 and cut off every other (`FindsBest` is stated
for scores that fit, `AlwaysFinds` for all).  The parser takes an empty output script (psbt.c:2572)
and a txid of zeros (psbt.c:2391), which the writer refuses (psbt.c:3182, 3302); a transaction read loosely before
VERSION 2 makes a PSBT that is not valid (psbt.c:2805), while the other order is
refused; a version 0 PSBT without a transaction is read only loosely; a finalized
input is written without its signatures unless the flag REDUNDANT is given;
`wally_psbt_blind` reads the blinding key of an output that has a blinder index
without looking whether there is one.

## 6. What is not modelled, and the plan

`PROJECT.json` lists every component with its status.  Of the PSBT: redeem scripts,
taproot fields and signing, the PSET fields that blinding does not touch,
proprietary, xpub and unknown fields (they are merged like key paths), other
scripts than p2wpkh and p2wsh of multisig and relative-lock 2 of 2; of a record
that is malformed only that it is refused.  Of descriptors: everything but
miniscript, and of miniscript the parsing of its text, key expressions, sorted
multisigs, other hashes than sha256, the limits of 520 and 10 000 bytes and
`PROP_X`.  Of transactions: the setters of
single fields, cloning and hex.  Allocation failure is modelled in the map only.

What remains, in the order of what it would add:

1. `Bip32`: derivation and path parsing: hardened limits, wildcards and multi-paths
   shared by `bip32.c` and `descriptor.c`.
2. The taproot trees of descriptors (`parse_taptree`, `compute_merkle_info`) and the
   script path fields of a PSBT.
3. `ScriptPush`: minimal pushes and script integers; `AntiExfil`: the host and signer protocol; the bit packing of `bip39.c` and
   `base_58.c` against reference definitions.
4. An abstract specification of the exchange (a growing set of signatures of one
   transaction) that `ExchangeSpec` implements.
5. Theorems: `SignaturesVerify` for a PSBT that is modified and exchanged, which no run
   combines; what the letters of a miniscript type claim, once scripts are data that the provers can
   do induction over.

The rest (elliptic curves, ciphers, hashes, encodings with a checksum, generated
bindings, vendored code) is either a pure function that test vectors settle or
cryptography, whose results a model checker can only take as given.
