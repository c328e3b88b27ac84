-------------------------- MODULE MiniscriptTypes --------------------------
(***************************************************************************)
(* The type and properties that src/descriptor.c gives a miniscript        *)
(* expression: node->type_properties as the set of the letters of its      *)
(* TYPE_* and PROP_* bits.                                                 *)
(*                                                                         *)
(*   B V K W   base, verify, key and wrapped expressions                   *)
(*   z o n     takes no argument, takes one, its top argument is not zero  *)
(*   d u       can be dissatisfied, leaves exactly 1 when satisfied        *)
(*   e f       one dissatisfaction, no dissatisfaction without a signature *)
(*   s m       needs a signature, has a non-malleable satisfaction         *)
(*   g h i j   relative time and height, absolute time and height locks    *)
(*   k         no two kinds of lock are mixed                              *)
(*                                                                         *)
(* PROP_X ("expensive verify") decides nothing and is left out.            *)
(***************************************************************************)
EXTENDS Naturals, Sequences, FiniteSets

Types == {"B", "V", "K", "W"}
Locks == {"g", "h", "i", "j"}
Letters == Types \cup Locks \cup
           {"z", "o", "n", "d", "u", "e", "f", "s", "m", "k"}

Refused == {}              \* no type and no property: WALLY_EINVAL

OP_0 == {"B", "z", "u", "d", "e", "m", "s", "k"}
OP_1 == {"B", "z", "u", "f", "m", "k"}

(* `props` if the condition holds, to be united with others.               *)
When(condition, props) == IF condition THEN props ELSE {}

HasTwoDifferentLockStates(x, y) ==
    \E kinds \in {{"g", "h"}, {"i", "j"}} :
        \E p \in kinds \cap x, q \in kinds \cap y : p # q

UnmixedAnyLocks(x, y) == x \cap y \cap {"k"}
Unmixed(x, y) ==
    When("k" \in x \cap y /\ ~HasTwoDifferentLockStates(x, y), {"k"})

-----------------------------------------------------------------------------
(* g_builtins and the verify functions of the fragments without children   *)

PkType    == {"B", "o", "n", "d", "u", "e", "m", "s", "k"}
PkhType   == PkType \ {"o"}
Pk_kType  == (PkType \ {"B"}) \cup {"K"}
Pk_hType  == Pk_kType \ {"o"}
MultiType == {"B", "n", "d", "u", "e", "m", "s", "k"}
HashTypeUnique == {"B", "o", "n", "d", "u", "e", "m", "k"}
HashType  == {"B", "o", "n", "d", "u", "m", "k"}
DelayType(lock) == {"B", "z", "f", "m", "k", lock}

(* A constant: any number that is not 0 is taken for OP_1.                 *)
NumberType(number) ==
    {"B", "z", "u", "m"} \cup
    (IF number # 0 THEN {"f"} ELSE {"d", "e", "s"})

-----------------------------------------------------------------------------
(* The verify functions of the fragments with children                     *)

(* Two that are both executed take one argument if one takes none.         *)
OneOfEither(x, y) == (x \cup y) \cap {"o"}
One(x, y) == When("z" \in x \cup y, (x \cup y) \cap {"o"})

AndorType(x, y, z) ==
    LET both == y \cap z
    IN  IF "B" \notin x \/ both \cap {"B", "K", "V"} = {} THEN Refused ELSE
        UNION {both \cap {"B", "K", "V", "u"},
               x \cap both \cap {"z"},
               (x \cup both) \cap {"o"},
               z \cap {"d"},
               (x \cup y \cup z) \cap Locks,
               When("s" \in x \/ "f" \in y,
                    (z \cap {"f"}) \cup (x \cap z \cap {"e"})),
               When("e" \in x /\ "s" \in x \cup y \cup z,
                    x \cap both \cap {"m"}),
               z \cap (x \cup y) \cap {"s"},
               When("k" \in z, Unmixed(x, y))}

AndVType(x, y) ==
    LET type == When("V" \in x, y \cap {"B", "K", "V"})
    IN  IF type = {} THEN Refused ELSE
        UNION {type,
               x \cap {"n"},
               y \cap {"u"},
               x \cap y \cap {"d", "m", "z"},
               (x \cup y) \cap ({"s"} \cup Locks),
               When("z" \in x, y \cap {"n"}),
               One(x, y),
               When("f" \in y \/ "s" \in x, {"f"}),
               Unmixed(x, y)}

AndBType(x, y) ==
    UNION {{"u"},
           When("W" \in y, x \cap {"B"}),
           x \cap y \cap {"d", "z", "m"},
           (x \cup y) \cap ({"s"} \cup Locks),
           x \cap {"n"},
           One(x, y),
           When("z" \in x, y \cap {"n"}),
           When("s" \in x \cap y, x \cap y \cap {"e"}),
           When(\/ "f" \in x \cap y
                \/ {"s", "f"} \subseteq x
                \/ {"s", "f"} \subseteq y, {"f"}),
           Unmixed(x, y)}

AndNType(x, y) == AndorType(x, y, OP_0)

OrBType(x, y) ==
    UNION {{"d", "u"},
           When({"B", "d"} \subseteq x /\ {"W", "d"} \subseteq y, {"B"}),
           x \cap y \cap {"z", "s", "e", "k"},
           (x \cup y) \cap Locks,
           One(x, y),
           When("s" \in x \cup y /\ "e" \in x \cap y, x \cap y \cap {"m"})}

(* or_c and or_d: the first is dissatisfied, or the second not executed.   *)
OrElseNotE(x, y) ==
    UNION {x \cap y \cap {"z", "s", "k"},
           (x \cup y) \cap Locks,
           When("z" \in y, x \cap {"o"}),
           When("s" \in x \cup y, x \cap y \cap {"m"})}
OrElse(x, y) ==
    UNION {x \cap y \cap {"z", "s", "k"},
           (x \cup y) \cap Locks,
           When("z" \in y, x \cap {"o"}),
           When("e" \in x /\ "s" \in x \cup y, x \cap y \cap {"m"})}

OrCTypeNotF(x, y) ==
    OrElse(x, y) \cup When({"B", "d", "u"} \subseteq x, y \cap {"V"})
OrCType(x, y) ==
    UNION {{"f"}, OrElse(x, y),
           When({"B", "d", "u"} \subseteq x, y \cap {"V"})}

OrDType(x, y) ==
    UNION {OrElse(x, y), x \cap y \cap {"e"}, y \cap {"u", "f", "d"},
           When({"B", "d", "u"} \subseteq x, y \cap {"B"})}

(* What an expression has if it has it whichever branch is executed.       *)
Either(x, y) == x \cap y \cap {"V", "B", "K", "u", "f", "s", "k"}

OrIType(x, y) ==
    IF x \cap y \cap {"V", "B", "K"} = {} THEN Refused ELSE
    UNION {Either(x, y),
           (x \cup y) \cap (Locks \cup {"d"}),
           When("z" \in x \cap y, {"o"}),
           When("f" \in x \cup y, (x \cup y) \cap {"e"}),
           When("s" \in x \cup y, x \cap y \cap {"m"})}

(* thresh(k, kids...).  `args` counts the children that have z, 2 each     *)
(* unless they have o as well.                                             *)
ThreshType(k, kids) ==
    LET All(p) == \A i \in DOMAIN kids : p \in kids[i]
        unsigned == Cardinality({i \in DOMAIN kids : "s" \notin kids[i]})
        Fits(i) == {"d", IF i = 1 THEN "B" ELSE "W"} \subseteq kids[i]
        before(i) == UNION {kids[j] \cap Locks : j \in 1..i - 1}
    IN  IF k \notin 1..Len(kids) \/ ~\A i \in DOMAIN kids : Fits(i)
        THEN Refused ELSE
        UNION {{"B", "d", "u"},
               When(\A i \in DOMAIN kids : "z" \notin kids[i], {"z"}),
               When(\E i \in DOMAIN kids :
                        /\ {"z", "o"} \subseteq kids[i]
                        /\ \A j \in DOMAIN kids \ {i} : "z" \notin kids[j],
                    {"o"}),
               When(All("e") /\ All("s"), {"e"}),
               When(All("e") /\ All("m") /\ unsigned <= k, {"m"}),
               When(unsigned < k, {"s"}),
               UNION {kids[i] \cap Locks : i \in DOMAIN kids},
               When(/\ All("k")
                    /\ k > 1 => \A i \in DOMAIN kids :
                           ~HasTwoDifferentLockStates(before(i), kids[i]),
                    {"k"})}

-----------------------------------------------------------------------------
(* node_verify_wrappers: one letter at a time, then the combinations that  *)
(* cannot be, for a node that has any wrapper.                             *)

Wrappers == {"a", "s", "c", "t", "d", "v", "j", "n", "l", "u"}

(* a and s leave an argument for later below what is on the stack.         *)
Moved(x) == (x \cap (Locks \cup {"u", "d", "f", "e", "m", "s", "k"})) \cup {"W"}
AltType(x) == When("B" \in x, Moved(x))
SwapTypeAny(x) == When("B" \in x, Moved(x))
SwapType(x) == When({"B", "o"} \subseteq x, Moved(x))

WrapType(letter, x, tapscript) ==
    CASE letter = "a" -> AltType(x)
      [] letter = "s" -> SwapType(x)
      [] letter = "c" /\ "K" \in x ->
            (x \ {"K", "z"}) \cup {"B", "u", "s"}
      [] letter = "t" -> AndVType(x, OP_1)
      [] letter = "d" /\ {"V", "z"} \subseteq x ->
            UNION {x \cap {"m", "s"}, {"B", "n", "o", "d", "k"}, Locks,
                   When("f" \in x, {"e"}), When(tapscript, {"u"})}
      [] letter = "v" /\ "B" \in x ->
            (x \cap (Locks \cup {"z", "o", "n", "m", "s", "k"})) \cup {"V", "f"}
      [] letter = "j" /\ {"B", "n"} \subseteq x ->
            (x \cap {"B", "o", "u", "m", "s"}) \cup {"n", "d"}
                \cup When("f" \in x, {"e"})
      [] letter = "n" /\ "B" \in x ->
            x \cap {"B", "z", "o", "n", "d", "f", "e", "m", "s"}
      [] letter = "l" -> OrIType(OP_0, x)
      [] letter = "u" -> OrIType(x, OP_0)
      [] OTHER -> Refused

(* What the last step of node_verify_wrappers lets through.                *)
OneType(x) == \E t \in Types : x \cap Types = {t}
Consistent(x) ==
    /\ OneType(x)
    /\ "z" \in x => "o" \notin x /\ "n" \notin x
    /\ "W" \in x => "n" \notin x
    /\ "V" \in x => "f" \in x /\ x \cap {"d", "u", "e"} = {}
    /\ "K" \in x => {"u", "s"} \subseteq x
    /\ "e" \in x => "d" \in x /\ "f" \notin x
    /\ "d" \in x => "f" \notin x
WellFormed(x) == Consistent(x) /\ ("z" \in x => "m" \in x)
=============================================================================
