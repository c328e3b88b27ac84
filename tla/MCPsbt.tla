------------------------------- MODULE MCPsbt -------------------------------
(* Instances of PsbtWorkflow for TLC.                                      *)
EXTENDS PsbtWorkflow

CONSTANTS k1, k2, k3, t1, t2, dest   \* keys, txids, an output's script

(* Amounts count from 0 to a MaxMoney of 3; sequence 9 is final, 2 is a    *)
(* lock of two blocks; locktimes from 100 are times.                       *)
multisig == Multisig(2, <<k1, k2, k3>>)
csv      == Csv2of2(k1, k2, 2, FALSE)
csvOpt   == Csv2of2(k1, k2, 2, TRUE)

in1 == TxIn(t1, 0, 9)
in2 == TxIn(t2, 1, 2)
out1 == TxOut(dest, 1)
out2 == TxOut(dest, 2)

MCPrevouts ==
    <<t1, 0>> :> TxOut(P2wsh(multisig), 3) @@ <<t2, 1>> :> TxOut(P2wpkh(k1), 2)
ScriptPrevouts ==
    <<t1, 0>> :> TxOut(P2wsh(multisig), 3)
    @@ <<t1, 1>> :> TxOut(P2wsh(csv), 3) @@ <<t2, 0>> :> TxOut(P2wsh(csvOpt), 3)
    @@ <<t2, 1>> :> TxOut(P2wpkh(k1), 3)
MixedPrevouts ==
    <<t1, 0>> :> TxOut(P2wsh(Multisig(1, <<k1, k2>>)), 3)
    @@ <<t2, 1>> :> TxOut(P2wpkh(k1), 2)

MCTxIns  == {in1, in2}
MCTxOuts == {out1, out2}
OneIn2   == {in2}
OneOut   == {out1}
TxV1V2   == {Tx(1, 5, <<in1>>, <<out1>>), Tx(2, 0, <<in2, in1>>, <<out2>>)}
JustIn1  == {Tx(2, 5, <<in1>>, <<out1>>)}
OneOf(in) == Tx(2, 5, <<in>>, <<out1>>)
ScriptTxs == {OneOf(in1), OneOf(TxIn(t2, 1, 9)),
              OneOf(TxIn(t1, 1, 2)), OneOf(TxIn(t1, 1, 9)),
              OneOf(TxIn(t2, 0, 2)), OneOf(TxIn(t2, 0, 1))}

MCScripts  == {multisig, Multisig(1, <<k1, k2>>), csv, csvOpt}
TwoKeyScripts == MCScripts \ {multisig}
NoTxParts  == {}
For(wpkh, wsh) == [type \in {"p2wpkh", "p2wsh"} |->
                       IF type = "p2wpkh" THEN wpkh ELSE wsh]
NoSighash  == For({}, {})
AllNone    == For({SighashAll, Sighash("NONE", TRUE)}, {SighashAll})
Unmoved    == LET all == {SighashAll, Sighash("SINGLE", FALSE), Sighash("NONE", TRUE)}
              IN For(all, all)
Symmetry == Permutations(Handles)

ASSUME NoOutputIsRefused == AmountsFit
ASSUME EveryInputIsKnown == PrevoutsKnown
ASSUME EveryScriptIsKnown == ScriptsKnown
ASSUME NoScriptTxIsRaised == \A tx \in ScriptTxs : ~(tx.version < 2)
ASSUME SingleStaysPut == NoSingleMoves
=============================================================================
