---------------------------- MODULE MCPsbtReader ----------------------------
(* Instance of PsbtReader for TLC: streams of at most one input and one    *)
(* output.                                                                 *)
EXTENDS PsbtReader

CONSTANTS k1, k2, t1, script

tx == Tx(2, 0, <<TxIn(t1, 0, 9)>>, <<TxOut(script, 1)>>)
NoTx == Tx(2, 0, <<>>, <<>>)
utxo == TxOut(P2wpkh(k1), 2)
final == [script |-> P2wpkh(k1), sigs |-> <<>>]

Sig(k, sighash) ==
    Record("PARTIAL_SIG", k,
           [key |-> k, hash |-> SignatureHash(tx, 1, utxo, utxo.script, sighash)])

MCRecords ==
    [global |-> {Plain("UNSIGNED_TX", tx), Plain("UNSIGNED_TX", NoTx)}
                \cup {Plain("VERSION", n) : n \in {0, 1, 2}}
                \cup {Plain("TX_VERSION", n) : n \in {1, 2}}
                \cup {Plain("FALLBACK_LOCKTIME", 0), Plain("TX_MODIFIABLE", {"RESERVED"})}
                \cup {Plain("INPUT_COUNT", n) : n \in {0, 1}}
                \cup {Plain("OUTPUT_COUNT", n) : n \in {0, 1}},
     input  |-> {Plain("PREVIOUS_TXID", t1), Plain("PREVIOUS_TXID", None),
                 Plain("OUTPUT_INDEX", 1),
                 Plain("FINAL_SCRIPTWITNESS", final)}
                \cup {Plain("REQUIRED_TIME_LOCKTIME", n) : n \in {99, 100}}
                \cup {Plain("REQUIRED_HEIGHT_LOCKTIME", n) : n \in {0, 7}}
                \cup {Plain("SIGHASH_TYPE", s) : s \in {SighashAll, Sighash("NONE", TRUE)}}
                \cup {Sig(k1, SighashAll), Sig(k1, Sighash("NONE", TRUE)),
                      Sig(k2, SighashAll)},
     output |-> {Plain("AMOUNT", 1), Plain("SCRIPT", script), Plain("SCRIPT", None)},
     end |-> {}, refused |-> {}]
=============================================================================
