------------------------- MODULE MCTxSerialization -------------------------
(* Instance of TxSerialization for TLC.  Scripts have no byte, one, or     *)
(* four: as many as take a longer number to count.                         *)
EXTENDS TxSerialization

PlainInput ==
    [txhash |-> 5, index |-> 1, script |-> <<>>, sequence |-> 6, nonce |-> <<>>,
     amount |-> <<>>, keys |-> <<>>, amountproof |-> <<>>, keysproof |-> <<>>,
     witness |-> None, pegin |-> None]
issuance  == [PlainInput EXCEPT !.index = 1 + IssuanceFlag, !.nonce = <<0, 3>>,
                                !.amount = <<1, 5>>]
reissued  == [PlainInput EXCEPT !.index = 1 + IssuanceFlag, !.nonce = <<5, 3>>,
                                !.amount = <<4, 5, 5>>, !.keys = <<5, 5, 5>>,
                                !.amountproof = <<1>>, !.keysproof = <<2, 3>>]
unflagged == [PlainInput EXCEPT !.nonce = <<0, 3>>, !.amount = <<1, 5>>]
flagged   == [PlainInput EXCEPT !.index = 1 + IssuanceFlag]
peggedIn  == [PlainInput EXCEPT !.index = 1 + PeginFlag, !.pegin = <<<<1>>, <<>>>>]
scripted  == [PlainInput EXCEPT !.script = <<1, 1, 1, 1>>, !.witness = <<>>]
coinbase  == [PlainInput EXCEPT !.txhash = 0, !.index = CoinbaseIndex, !.script = <<1>>]
MCInputArgs ==
    [e \in BOOLEAN |-> {PlainInput, scripted, coinbase}
        \cup IF e THEN {issuance, reissued, unflagged, flagged, peggedIn} ELSE {}]

PlainOutput ==
    [satoshi |-> 2, script |-> <<>>, asset |-> <<>>, value |-> <<>>, nonce |-> <<>>,
     surjectionproof |-> <<>>, rangeproof |-> <<>>]
fee     == [PlainOutput EXCEPT !.asset = <<1, 7, 7>>, !.value = <<1, 2>>]
unset   == [PlainOutput EXCEPT !.surjectionproof = <<1>>]
blinded == [PlainOutput EXCEPT !.asset = <<6, 7, 7>>, !.value = <<4, 2, 2>>,
                !.nonce = <<2, 6, 6>>, !.script = <<1>>,
                !.surjectionproof = <<1>>, !.rangeproof = <<1, 1, 1, 1>>]
MCOutputArgs ==
    [e \in BOOLEAN |-> IF e THEN {fee, unset, blinded}
        ELSE {PlainOutput, [PlainOutput EXCEPT !.satoshi = 0, !.script = <<1, 1, 1, 1>>],
              [PlainOutput EXCEPT !.satoshi = 5]}]

MCStacks == {None, <<<<1, 1, 1, 1>>, <<>>>>}
=============================================================================
