---------------------------- MODULE MCPsetBlind ----------------------------
(* Instances of PsetBlind for TLC: inputs count from 0 as in the code, and *)
(* the last output is a fee, which is never blinded.                       *)
EXTENDS PsetBlind, TLC

ThreeOwners == 0 :> "a" @@ 1 :> "b" @@ 2 :> "a" @@ 3 :> "c"
SixOutputs == 1 :> 0 @@ 2 :> 1 @@ 3 :> 2 @@ 4 :> 3 @@ 5 :> 1 @@ 6 :> None

TwoOwners == 1 :> "a" @@ 2 :> "b"
OneEach == 1 :> 1 @@ 2 :> 2
=============================================================================
