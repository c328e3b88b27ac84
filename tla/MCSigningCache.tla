--------------------------- MODULE MCSigningCache ---------------------------
(* Instances of SigningCache for TLC.                                      *)
EXTENDS SigningCache

CONSTANTS t1, t2, p2tr, p2wpkh, code, leaf, reserved, genesis

Two(amount) == <<TxOut(p2tr, amount), TxOut(p2wpkh, 1)>>
Ins == <<TxIn(t1, 0, 1), TxIn(t2, 1, 1)>>

Subject(elements, outputs, utxos) ==
    [elements |-> elements, tx |-> Tx(2, 1, Ins, outputs), utxos |-> utxos,
     issuances |-> <<None, None>>, proofs |-> [o \in 1..Len(outputs) |-> 1]]

(* One output for two inputs, so that SINGLE can miss its output; and a    *)
(* caller that does not know the output the second input spends.           *)
SubjectsOf(elements) ==
    {Subject(elements, <<TxOut(p2wpkh, 1)>>, Two(1)),
     Subject(elements, <<TxOut(p2wpkh, 1), TxOut(p2tr, 1)>>, <<TxOut(p2tr, 1), None>>)}
MCSubjects == SubjectsOf(FALSE) \cup SubjectsOf(TRUE)
OnElements == SubjectsOf(TRUE)

Ask(type, script, annex, sighashes) ==
    {Request(type, i, script, annex, kv, sighash) :
        i \in 1..2, kv \in IF type = "SW_V1" /\ script # None THEN {1} ELSE {0},
        sighash \in sighashes}

AnyType(bits) ==
    {SighashEx(type, acp, b) :
        type \in {"ALL", "NONE", "SINGLE"}, acp \in BOOLEAN, b \in bits}
Default == {SighashEx("DEFAULT", FALSE, FALSE)}

BitcoinRequests ==
    Ask("PRE_SW", code, None, AnyType({FALSE}))
    \cup Ask("SW_V0", code, None, AnyType({FALSE}))
    \cup Ask("SW_V1", None, None, Default \cup AnyType({FALSE}))
    \cup Ask("SW_V1", leaf, reserved, AnyType(BOOLEAN))
ElementsRequests ==
    Ask("SW_V0", code, None, AnyType({FALSE}))
    \cup Ask("SW_V0", code, None, {SighashEx("SINGLE", FALSE, TRUE)})
    \cup Ask("SW_V1", None, None, Default \cup AnyType({FALSE}))
MCRequests == [elements \in BOOLEAN |->
    IF elements THEN ElementsRequests ELSE BitcoinRequests]
MCChanges == [elements \in BOOLEAN |->
    IF elements THEN {"locktime", "issuance", "proof"}
    ELSE {"sequence", "utxo", "satoshi"}]

(* The hypothesis under which the cache is proved transparent.             *)
ASSUME RequestsHaveSeparateKeys ==
    \A elements \in BOOLEAN : SeparateKeys(MCRequests[elements])

Both(x) == [elements \in BOOLEAN |-> x]
AnyChange == Both({"locktime", "issuance", "proof", "sequence", "utxo", "satoshi"})
RangeproofRequests == Both(Ask("SW_V0", code, None, {SighashEx("ALL", FALSE, TRUE)}))
=============================================================================
