---------------------------- MODULE Miniscript ----------------------------
(***************************************************************************)
(* src/descriptor.c: a miniscript expression is parsed from the inside     *)
(* out, each node typed by its verify function and wrappers, and a script  *)
(* generated from it into the caller's buffer.                             *)
(*                                                                         *)
(* A node is what its parent sees of it: its type, the size that is        *)
(* allocated for it, and the script it writes for every length of buffer.  *)
(* Scripts keep every opcode byte; what an opcode pushes is one byte       *)
(* longer or shorter than others only where that decides something.        *)
(***************************************************************************)
EXTENDS MiniscriptTypes, ScriptMachine

CONSTANTS
    LeafForms,       \* <<leaf, wrappers>>: what expressions start from
    OperandForms,    \* OperandForms[l]: the same, for the other arguments of
                     \* a fragment around l - 1 others
    WrapStrings,     \* WrapStrings[l]: the wrappers such a fragment may have
    MaxSize          \* bound: bytes of a script

MaxLevel == Len(OperandForms)       \* bound: fragments inside each other

LeafNames == {"pk_k", "pk_h", "pk", "pkh", "older", "after", "sha256",
              "number", "multi", "multi_a"}
AreLeaves(forms) == \A f \in forms : f[1][1] \in LeafNames

ASSUME FormsAssumption ==
    /\ MaxSize \in Nat /\ MaxLevel \in Nat
    /\ AreLeaves(LeafForms)
    /\ \A l \in 1..MaxLevel : AreLeaves(OperandForms[l])

Room == MaxSize + 4          \* a buffer that never runs short
MaxKeys == 2                 \* bound: keys of a multi, for 15 and 999

VARIABLES
    tapscript,       \* WALLY_MS_IS_TAPSCRIPT
    node             \* the expression parsed so far
vars == <<tapscript, node>>

-----------------------------------------------------------------------------
(* Writing into a buffer.  A piece that does not fit is not written, and   *)
(* its place keeps what was there; the length counts it all the same.      *)

Unwritten(n) == [i \in 1..n |-> "?"]

Piece(written, bytes, len) ==
    written \o (IF Len(written) + Len(bytes) <= len THEN bytes
                ELSE Unwritten(Len(bytes)))

(* A child is given what remains of the buffer, less one byte.             *)
Child(written, kid, len) ==
    written \o kid.out[IF Len(written) < len THEN len - Len(written) - 1 ELSE 0]

(* generate_concat, one argument and the opcodes before it at a time.      *)
Join(written, ops, kid, len) == Child(Piece(written, ops, len), kid, len)

Pieces(list, len) ==
    FoldLeft(LAMBDA written, bytes : Piece(written, bytes, len), <<>>, list)

(* generate_number: 0 to 16 are opcodes, others (the locks) are pushed.    *)
NumberBytes(number) ==
    IF number \in LockNumbers THEN <<"push", number>> ELSE <<number>>

-----------------------------------------------------------------------------
(* The fragments without children: type, size and script, in the pieces    *)
(* that are written one by one.                                            *)

Delay(op, lock, number) ==
    [type |-> DelayType(lock), size |-> 1 + Len(NumberBytes(number)),
     builtin |-> TRUE, pieces |-> <<NumberBytes(number), <<op>>>>]

KeyPush(key) == <<"push", key>>
Pk_h(key) == <<"DUP", "HASH160", "push", HashOf[key], "EQUALVERIFY">>

Multi(k, keys) ==
    [type |-> MultiType, builtin |-> TRUE,
     size |-> 1 + Len(keys) + MaxKeys + 5,
     pieces |-> <<<<Number(k)>>>> \o [i \in DOMAIN keys |-> KeyPush(keys[i])]
                \o <<<<Number(Len(keys))>>, <<"CHECKMULTISIG">>>>]
MultiA(k, keys) ==
    [type |-> MultiType, builtin |-> TRUE,
     size |-> 1 + Len(keys) + 3 * Len(keys) + 4,
     pieces |-> FlattenSeq([i \in DOMAIN keys |->
                    <<KeyPush(keys[i]),
                      <<IF i = 1 THEN "CHECKSIG" ELSE "CHECKSIGADD">>>>])
                \o <<<<Number(k)>>, <<"NUMEQUAL">>>>]

(* A leaf of the grammar; multi and multi_a each in its context only.      *)
Leaf(leaf) ==
    LET frag == leaf[1]  arg == leaf[2]
    IN  CASE frag = "pk_k" ->
                [type |-> Pk_kType, size |-> 2, builtin |-> TRUE,
                 pieces |-> <<KeyPush(arg)>>]
          [] frag = "pk_h" ->
                [type |-> Pk_hType, size |-> 6, builtin |-> TRUE,
                 pieces |-> <<Pk_h(arg)>>]
          [] frag = "pk" ->
                [type |-> PkType, size |-> 3, builtin |-> TRUE,
                 pieces |-> <<KeyPush(arg), <<"CHECKSIG">>>>]
          [] frag = "pkh" ->
                [type |-> PkhType, size |-> 7, builtin |-> TRUE,
                 pieces |-> <<Pk_h(arg), <<"CHECKSIG">>>>]
          [] frag = "older" ->
                Delay("CHECKSEQUENCEVERIFY", IF arg = "seconds" THEN "g" ELSE "h", arg)
          [] frag = "after" ->
                Delay("CHECKLOCKTIMEVERIFY", IF arg = "time" THEN "i" ELSE "j", arg)
          [] frag = "sha256" ->
                [type |-> HashType, size |-> 8, builtin |-> TRUE,
                 pieces |-> <<<<"SIZE", "push", "32", "EQUALVERIFY", "SHA256",
                                "push", arg, "EQUAL">>>>]
          [] frag = "number" ->
                [type |-> NumberType(arg), size |-> 1, builtin |-> FALSE,
                 pieces |-> <<<<IF arg = 0 THEN "0" ELSE Number(arg)>>>>]
          [] frag = "multi" -> Multi(arg[1], arg[2])
          [] frag = "multi_a" -> MultiA(arg[1], arg[2])

Allowed(leaf, tap) == leaf[1] # (IF tap THEN "multi" ELSE "multi_a")

-----------------------------------------------------------------------------
(* generate_inplace_wrappers and node_generation_size for one wrapper.     *)

Around(before, written, after, len) ==
    IF Len(before) + Len(written) + Len(after) <= len
    THEN before \o written \o after
    ELSE written \o Unwritten(Len(before) + Len(after))

WrapScript(letter, written, len) ==
    CASE letter = "a" -> Around(<<"TOALTSTACK">>, written, <<"FROMALTSTACK">>, len)
      [] letter = "s" -> Around(<<"SWAP">>, written, <<>>, len)
      [] letter = "c" -> Piece(written, <<"CHECKSIG">>, len)
      [] letter = "t" -> Piece(written, <<"1">>, len)
      [] letter = "d" -> Around(<<"DUP", "IF">>, written, <<"ENDIF">>, len)
      [] letter = "v" ->
            IF Len(written) >= len THEN written \o Unwritten(1)
            ELSE IF Last(written) \in DOMAIN VerifyForm
                 THEN Front(written) \o <<VerifyForm[Last(written)]>>
                 ELSE Piece(written, <<"VERIFY">>, len)
      [] letter = "j" -> Around(<<"SIZE", "0NOTEQUAL", "IF">>, written, <<"ENDIF">>, len)
      [] letter = "n" -> Piece(written, <<"0NOTEQUAL">>, len)
      [] letter = "l" -> Around(<<"IF", "0", "ELSE">>, written, <<"ENDIF">>, len)
      [] letter = "u" -> Around(<<"IF">>, written, <<"ELSE", "0", "ENDIF">>, len)

WrapSizeAlt(letter) == IF letter \in {"a", "s", "c", "t", "n", "v"} THEN 1
                       ELSE IF letter = "d" THEN 3 ELSE 4
WrapSize(letter) == CASE letter \in {"s", "c", "t", "n", "v"} -> 1
                      [] letter = "a" -> 2
                      [] letter = "d" -> 3
                      [] letter \in {"j", "l", "u"} -> 4

(* `doubt` remembers which claims of a type do not follow from the rules   *)
(* of miniscript, but from where the code departs from them:               *)
(*   "args"   which arguments it takes: thresh, andor, multi_a             *)
(*   "locks"  that locks are not mixed: d sets PROP_K whatever it wraps    *)
(*   "all"    any claim: the type of an argument did not allow its use     *)
WrapDoubt(letter, n) ==
    n.doubt \cup When(letter \in {"s", "d", "j"} /\ "args" \in n.doubt, {"all"})
            \cup When(letter = "d" /\ "k" \notin n.type, {"locks"})

Wrap(letter, n, tap) ==
    [type |-> WrapType(letter, n.type, tap), doubt |-> WrapDoubt(letter, n)]

(* The end of analyze_miniscript: the nodes that it can return.  One that  *)
(* has no type at all is returned too if it has no wrapper, but nothing    *)
(* that has a type can be made of it: it is left out.                      *)
Verified(n, wrappers, tap) ==
    LET bare == [type |-> n.type, doubt |-> n.doubt]
    IN  IF wrappers = <<>> THEN bare
        ELSE FoldRight(LAMBDA letter, m : Wrap(letter, m, tap), wrappers, bare)

Parsed(n, wrappers, tap) ==
    LET w == Verified(n, wrappers, tap)
        size == n.size + FoldLeft(LAMBDA sum, letter : sum + WrapSize(letter),
                                  0, wrappers)
    IN  IF \/ ~(IF wrappers = <<>> THEN OneType(w.type) ELSE WellFormed(w.type))
           \/ size > MaxSize
        THEN {}
        ELSE {[n EXCEPT !.type = w.type, !.doubt = w.doubt, !.size = size,
                        !.out = [len \in 0..Room |->
                            FoldRight(LAMBDA letter, script :
                                          WrapScript(letter, script, len),
                                      wrappers, @[len])]]}

LeafNode(leaf) ==
    LET l == Leaf(leaf)
    IN  [type |-> l.type, size |-> l.size, builtin |-> l.builtin, level |-> 0,
         out |-> [len \in 0..Room |-> Pieces(l.pieces, len)],
         keys |-> {k \in Keys : \E p \in ToSet(l.pieces) :
                      k \in ToSet(p) \/ HashOf[k] \in ToSet(p)},
         doubt |-> When(leaf[1] = "multi_a", {"args"})
                   \cup When(leaf[1] = "number" /\ leaf[2] \notin {0, 1}, {"all"})]

ParsedForms(forms, tap) ==
    UNION {Parsed(LeafNode(f[1]), f[2], tap) :
              f \in {g \in forms : Allowed(g[1], tap)}}

Operands == [tap \in BOOLEAN |->
                [l \in 1..MaxLevel |-> ParsedForms(OperandForms[l], tap)]]

-----------------------------------------------------------------------------
(* The fragments with children.                                            *)

Size(kids) == FoldLeft(LAMBDA sum, kid : sum + kid.size, 0, kids)

(* A fragment of this type, size and script around the nodes `kids`.  Each *)
(* key is used once, which the claims about signatures suppose.            *)
Built(type, size, out, kids, doubt) ==
    [type |-> type, size |-> size + Size(kids), builtin |-> TRUE,
     level |-> node.level + 1, out |-> out,
     keys |-> UNION {kids[i].keys : i \in DOMAIN kids},
     doubt |-> doubt \cup UNION {kids[i].doubt : i \in DOMAIN kids}]

KeysDiffer(kids) == \A i, j \in DOMAIN kids :
                        i # j => kids[i].keys \cap kids[j].keys = {}

(* Parse a fragment around kids, if its verify function does not refuse.   *)
Parse(type, size, out, kids, doubt) ==
    /\ OneType(type) /\ KeysDiffer(kids)
    /\ \E wrappers \in WrapStrings[node.level + 1] :
           node' \in Parsed(Built(type, size, out, kids, doubt), wrappers, tapscript)
    /\ UNCHANGED tapscript

(* The other arguments of a fragment around the node.                      *)
Others == Operands[tapscript][node.level + 1]

Template == [
    and_v |-> [size |-> 0, first |-> <<>>, middle |-> <<>>, last |-> <<>>],
    and_b |-> [size |-> 1, first |-> <<>>, middle |-> <<>>, last |-> <<"BOOLAND">>],
    and_n |-> [size |-> 4, first |-> <<>>, middle |-> <<"NOTIF", "0", "ELSE">>,
               last |-> <<"ENDIF">>],
    or_b  |-> [size |-> 1, first |-> <<>>, middle |-> <<>>, last |-> <<"BOOLOR">>],
    or_c  |-> [size |-> 2, first |-> <<>>, middle |-> <<"NOTIF">>,
               last |-> <<"ENDIF">>],
    or_d  |-> [size |-> 3, first |-> <<>>, middle |-> <<"IFDUP", "NOTIF">>,
               last |-> <<"ENDIF">>],
    or_i  |-> [size |-> 3, first |-> <<"IF">>, middle |-> <<"ELSE">>,
               last |-> <<"ENDIF">>]]

PairScript(frag, x, y, len) ==
    LET t == Template[frag]
    IN  Piece(Join(Join(<<>>, t.first, x, len), t.middle, y, len), t.last, len)

(* Where andor departs: it asks of its first argument B alone, and takes   *)
(* one argument for the whole where each part takes one.                   *)
AndorDoubt(x, y, z) ==
    When(~({"B", "d", "u"} \subseteq x), {"all"})
    \cup When(/\ "o" \in AndorType(x, y, z)
             /\ ~(\/ "o" \in x /\ "z" \in y \cap z
                  \/ "z" \in x /\ "o" \in y \cap z), {"args"})

PairType(frag, x, y) ==
    CASE frag = "and_v" -> AndVType(x, y)
      [] frag = "and_b" -> AndBType(x, y)
      [] frag = "and_n" -> AndNType(x, y)
      [] frag = "or_b" -> OrBType(x, y)
      [] frag = "or_c" -> OrCType(x, y)
      [] frag = "or_d" -> OrDType(x, y)
      [] frag = "or_i" -> OrIType(x, y)

Pair(frag, x, y) ==
    Parse(PairType(frag, x.type, y.type), Template[frag].size,
          [len \in 0..Room |-> PairScript(frag, x, y, len)], <<x, y>>,
          When(frag = "and_n", AndorDoubt(x.type, y.type, OP_0)))

(* [X] NOTIF [Z] ELSE [Y] ENDIF                                            *)
Andor(x, y, z) ==
    Parse(AndorType(x.type, y.type, z.type), 4,
          [len \in 0..Room |->
              Piece(Join(Join(Child(<<>>, x, len), <<"NOTIF">>, z, len),
                         <<"ELSE">>, y, len), <<"ENDIF">>, len)],
          <<x, y, z>>, AndorDoubt(x.type, y.type, z.type))

(* An ADD after every child but the first; it is left out if it would be   *)
(* the last byte of the buffer.                                            *)
ThreshScript(k, kids, len) ==
    LET AddKid(written, kid) ==
            LET w == Child(written, kid, len)
            IN  IF written = <<>> THEN w ELSE Piece(w, <<"ADD">>, len - 1)
        all == FoldLeft(AddKid, <<>>, kids)
        number == [out |-> [l \in 0..Room |-> Piece(<<>>, <<Number(k)>>, l)]]
    IN  Piece(Child(all, number, len), <<"EQUAL">>, len)

Thresh(k, kids) ==
    /\ \A i \in DOMAIN kids : kids[i].builtin
    /\ Parse(ThreshType(k, [i \in DOMAIN kids |-> kids[i].type]), Len(kids) + 2,
             [len \in 0..Room |-> ThreshScript(k, kids, len)], kids, {"args"})

Init == /\ tapscript \in BOOLEAN
        /\ node \in ParsedForms(LeafForms, tapscript)

Next == /\ node.level < MaxLevel
        /\ \E p, q \in Others :
             \/ \E frag \in DOMAIN Template : Pair(frag, node, p) \/ Pair(frag, p, node)
             \/ Andor(node, p, q) \/ Andor(p, node, q) \/ Andor(p, q, node)
             \/ \E kids \in {<<node>>, <<node, p>>, <<p, node>>, <<node, p, q>>,
                               <<p, node, q>>, <<p, q, node>>} :
                    \E k \in 1..Len(kids) : Thresh(k, kids)

Spec == Init /\ [][Next]_vars

-----------------------------------------------------------------------------
(* What the script of the node does for every witness.                     *)

Script == node.out[Room]
Ends(locks) ==
    Runs(IF "K" \in node.type THEN Append(Script, "CHECKSIG") ELSE Script,
         IF "W" \in node.type THEN <<"top">> ELSE <<>>, locks)

(* W leaves its result next to the element that was on the top.            *)
Result(end) == IF end.stack[1] = "top" THEN Last(end.stack) ELSE end.stack[1]

Sat(locks) == {e \in Ends(locks) : "V" \in node.type \/ Result(e) # ""}
Dsat(locks) == Ends(locks) \ Sat(locks)

Signed(end) == ToSet(end.taken) \cap Sigs # {}
Trusted(claims) == node.doubt \cap (claims \cup {"all"}) = {}

-----------------------------------------------------------------------------
(* Properties                                                              *)

(* Every node that is parsed has one of the types and no properties that   *)
(* exclude each other.  The code only looks after wrappers: without any,   *)
(* the rules of the fragment have to see to it.                            *)
TypeOK == /\ tapscript \in BOOLEAN
          /\ node.level \in 0..MaxLevel
          /\ Consistent(node.type)

(* A script that ends leaves what its type says: V nothing, B one element, *)
(* K a key that CHECKSIG accepts, W one next to that on the top; and every *)
(* branch that it opens it closes.  d can be dissatisfied without a        *)
(* signature; u leaves 1 when satisfied, as IF and a sum in thresh need it.*)
TypeHonoured ==
    Trusted({}) =>
        /\ \A end \in Ends(LockNumbers) :
               /\ end.alt = <<>> /\ end.branch = <<>>
               /\ CASE "V" \in node.type -> end.stack = <<>>
                    [] "W" \in node.type -> /\ Len(end.stack) = 2
                                            /\ "top" \in ToSet(end.stack)
                    [] OTHER -> Len(end.stack) = 1
        /\ "d" \in node.type => \E end \in Dsat(LockNumbers) : ~Signed(end)
        /\ "u" \in node.type => \A end \in Sat(LockNumbers) : Result(end) = "1"

(* z takes no argument, o exactly one, and n none that is zero on its top. *)
(* The wrappers s, d and j move or drop elements on the strength of it.    *)
ArgumentClaims ==
    Trusted({"args"}) =>
        /\ "z" \in node.type => \A end \in Ends(LockNumbers) : end.taken = <<>>
        /\ "o" \in node.type => \A end \in Ends(LockNumbers) : Len(end.taken) = 1
        /\ "n" \in node.type => \A end \in Sat(LockNumbers) :
                                    end.taken # <<>> /\ Last(end.taken) # ""

(* s cannot be satisfied without a signature, f not dissatisfied without   *)
(* one, and e in one way only, for which no preimage can be made up.       *)
SignatureClaims ==
    Trusted({}) =>
        /\ "s" \in node.type => \A end \in Sat(LockNumbers) : Signed(end)
        /\ "f" \in node.type => \A end \in Dsat(LockNumbers) : Signed(end)
        /\ "e" \in node.type =>
               \E end \in Dsat(LockNumbers) :
                   /\ "junk" \notin ToSet(end.taken)
                   /\ \A other \in Dsat(LockNumbers) : ~Signed(other) => other = end

(* m: whatever signatures and preimages its owners have, if these satisfy  *)
(* the expression they do so by a witness that nobody can turn into        *)
(* another with the signatures seen in it.                                 *)
NonMalleable ==
    "m" \in node.type /\ Trusted({}) =>
        LET sat == {end.taken : end \in Sat(LockNumbers)}
            Uses(w, what) == ToSet(w) \cap what
            secrets == {SigOf[k] : k \in node.keys} \cup {"preimage"}
        IN  \A have \in SUBSET secrets :
                LET mine == {w \in sat : Uses(w, Sigs \cup {"preimage"}) \subseteq have}
                IN  mine # {} =>
                        \E w \in mine :
                            /\ "junk" \notin ToSet(w)
                            /\ \A v \in mine : Uses(v, Sigs) \subseteq Uses(w, Sigs)
                                               => v = w

(* k: if an expression is satisfied with locks of all kinds expired, the   *)
(* same secrets satisfy it in a transaction, whose sequence is of one kind *)
(* and whose locktime is of one kind.                                      *)
LocksCanExpire ==
    "k" \in node.type /\ Trusted({"locks"}) =>
        LET Secrets(end) == ToSet(end.taken) \cap (Sigs \cup {"preimage"})
        IN  \A end \in Sat(LockNumbers) :
                \E sequence \in {"blocks", "seconds"}, locktime \in {"height", "time"} :
                    \E other \in Sat({sequence, locktime}) :
                        Secrets(other) \subseteq Secrets(end)

(* Whatever buffer it is given, generation reports at least the length of  *)
(* the script and at most what node_generation_size allocates; callers     *)
(* rely on it to find a buffer long enough.                                *)
SizeSuffices ==
    /\ ToSet(Script) \cap {"?"} = {}
    /\ \A len \in 0..Room : Len(node.out[len]) \in Len(Script)..node.size

(* A script whose length was reported to fit the buffer is all written.    *)
(* (generate_concat gives the last argument of and_v a byte too few.)      *)
WrittenIfItFits ==
    \A len \in 0..Room : Len(node.out[len]) <= len => node.out[len] = Script
=============================================================================
