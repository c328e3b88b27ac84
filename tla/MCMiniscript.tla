--------------------------- MODULE MCMiniscript ---------------------------
(* Small expressions: every leaf with up to one wrapper, by itself and     *)
(* inside one and two fragments, each of them with up to one wrapper.      *)
EXTENDS Miniscript

Short == {<<>>} \cup {<<w>> : w \in Wrappers}

Leaves(key) ==
    {<<"pk_k", key>>, <<"pk_h", key>>, <<"pk", key>>, <<"pkh", key>>,
     <<"older", "blocks">>, <<"after", "time">>, <<"sha256", "hash">>,
     <<"number", 0>>, <<"number", 1>>,
     <<"multi", <<1, <<key, "D">>>>>>, <<"multi_a", <<2, <<key, "D">>>>>>}

MCLeafForms == {<<l, w>> : l \in Leaves("A"), w \in Short}

MCOperandForms == <<
    {<<<<"pk", "B">>, w>> : w \in {<<>>, <<"s">>, <<"v">>}} \cup
    {<<<<"older", "seconds">>, w>> : w \in {<<>>, <<"v">>, <<"l">>}} \cup
    {<<<<"pk_k", "C">>, <<>>>>, <<<<"pk", "C">>, <<"a">>>>,
     <<<<"sha256", "hash">>, <<"s">>>>, <<<<"sha256", "hash">>, <<>>>>},
    {<<<<"pk", "D">>, w>> : w \in {<<>>, <<"s">>, <<"v">>}}>>

MCWrapStrings == <<Short, {<<>>, <<"s">>, <<"d">>, <<"j">>, <<"v">>}>>
=============================================================================
