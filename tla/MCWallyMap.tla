----------------------------- MODULE MCWallyMap -----------------------------
(* Instances of WallyMap for TLC.                                          *)
EXTENDS WallyMap

CONSTANTS v1, v2

five  == IntKey(5)
short == ByteKey(<<1>>)
long  == ByteKey(<<1, 0>>)

MCKeys     == {five, short, long}
MCPairs    == {<<five, v1>>, <<short, v1>>, <<short, v2>>, <<long, v1>>}
MCVerified == MCPairs \ {<<short, v2>>}
=============================================================================
