--------------------------- MODULE ScriptMachine ---------------------------
(***************************************************************************)
(* What the opcodes that miniscript uses do: the part of the Bitcoin       *)
(* script interpreter against which the generated scripts are run.  It is  *)
(* not in this repository; the rules are those of consensus and of the     *)
(* standardness that miniscript relies on: the argument of IF is empty or  *)
(* 1, a signature that does not verify is empty, and so is the element     *)
(* that CHECKMULTISIG ignores.                                             *)
(*                                                                         *)
(* A script is run for every witness at once: an opcode that finds too few *)
(* elements on the stack takes any others from below, which the run        *)
(* remembers.  Its end tells exactly what the script takes and leaves.     *)
(***************************************************************************)
EXTENDS Naturals, SequencesExt

SigOf  == [A |-> "sigA", B |-> "sigB", C |-> "sigC", D |-> "sigD"]
HashOf == [A |-> "hashA", B |-> "hashB", C |-> "hashC", D |-> "hashD"]
Keys == DOMAIN SigOf
Sigs == {SigOf[k] : k \in Keys}

(* What a witness is made of; "junk" stands for 32 bytes that are not the  *)
(* preimage of any hash.                                                   *)
Elements == Sigs \cup Keys \cup {"", "1", "preimage", "junk"}

Numbers == <<"", "1", "2", "3", "4">>      \* what 0 to 4 are on the stack
LockNumbers == {"blocks", "seconds", "height", "time"}
Large == LockNumbers \cup {"32", "33", "71", "many"}
IsNumber(e) == e \in ToSet(Numbers) \cup Large
Value(e) == IF e \in Large THEN Len(Numbers)
            ELSE (CHOOSE i \in DOMAIN Numbers : Numbers[i] = e) - 1
Number(n) == IF n < Len(Numbers) THEN Numbers[n + 1] ELSE "many"
Truth(b) == Number(IF b THEN 1 ELSE 0)

SizeOf(e) == CASE e = "" -> "" [] e = "1" -> "1" [] e \in Sigs -> "71"
               [] e \in Keys -> "33" [] OTHER -> "32"

(* The opcodes that have a form that ends with OP_VERIFY.                  *)
VerifyForm == [EQUAL |-> "EQUALVERIFY", NUMEQUAL |-> "NUMEQUALVERIFY",
               CHECKSIG |-> "CHECKSIGVERIFY",
               CHECKMULTISIG |-> "CHECKMULTISIGVERIFY"]
WithVerify == {VerifyForm[op] : op \in DOMAIN VerifyForm}
Plain(op) == IF op \in WithVerify
             THEN CHOOSE p \in DOMAIN VerifyForm : VerifyForm[p] = op ELSE op

Unary  == {"DUP", "HASH160", "SHA256", "SIZE", "VERIFY", "IFDUP",
           "0NOTEQUAL", "CHECKSEQUENCEVERIFY", "CHECKLOCKTIMEVERIFY",
           "TOALTSTACK", "IF", "NOTIF"}
Binary == {"EQUAL", "NUMEQUAL", "SWAP", "BOOLAND", "BOOLOR", "ADD", "CHECKSIG"}

Arity(op, stack) ==
    CASE op \in Unary -> 1
      [] op \in Binary -> 2
      [] op = "CHECKSIGADD" -> 3
      [] op = "CHECKMULTISIG" ->       \* dummy, signatures, k, keys, n
            LET n == Value(Last(stack))
            IN  n + 3 + Value(stack[Len(stack) - n - 1])
      [] OTHER -> 0

(* The signatures `sigs` are by keys of `keys`, in their order.            *)
InOrder(sigs, keys) ==
    \E at \in [DOMAIN sigs -> DOMAIN keys] :
        /\ \A i, j \in DOMAIN sigs : i < j => at[i] < at[j]
        /\ \A i \in DOMAIN sigs : sigs[i] = SigOf[keys[at[i]]]

Checked(sig, key, no, yes) ==
    IF sig = "" THEN {<<no>>} ELSE IF sig = SigOf[key] THEN {<<yes>>} ELSE {}

Multisig(a) ==
    LET n == Value(Last(a))
        keys == SubSeq(a, Len(a) - n, Len(a) - 1)
        sigs == SubSeq(a, 2, Len(a) - n - 2)
    IN  IF a[1] # "" THEN {}
        ELSE IF \A i \in DOMAIN sigs : sigs[i] = "" THEN {<<"">>}
        ELSE IF InOrder(sigs, keys) THEN {<<"1">>} ELSE {}

(* What `op` leaves for its arguments, or nothing where the script fails.  *)
(* Whatever is no opcode is pushed.                                        *)
Effect(op, a, locks) ==
    CASE op = "0" -> {<<"">>}
      [] op = "DUP" -> {<<a[1], a[1]>>}
      [] op = "HASH160" ->
            {<<IF a[1] \in Keys THEN HashOf[a[1]] ELSE "another hash">>}
      [] op = "SHA256" ->
            {<<IF a[1] = "preimage" THEN "hash" ELSE "another hash">>}
      [] op = "SIZE" -> {<<a[1], SizeOf(a[1])>>}
      [] op = "VERIFY" -> IF a[1] # "" THEN {<<>>} ELSE {}
      [] op = "IFDUP" -> {IF a[1] # "" THEN <<a[1], a[1]>> ELSE a}
      [] op = "0NOTEQUAL" ->
            IF IsNumber(a[1]) THEN {<<Truth(a[1] # "")>>} ELSE {}
      [] op \in {"CHECKSEQUENCEVERIFY", "CHECKLOCKTIMEVERIFY"} ->
            IF a[1] \in locks THEN {a} ELSE {}
      [] op = "EQUAL" -> {<<Truth(a[1] = a[2])>>}
      [] op = "SWAP" -> {<<a[2], a[1]>>}
      [] op \in {"BOOLAND", "BOOLOR", "ADD", "NUMEQUAL"} ->
            IF ~(IsNumber(a[1]) /\ IsNumber(a[2])) THEN {} ELSE
            {<<CASE op = "BOOLAND" -> Truth(a[1] # "" /\ a[2] # "")
                 [] op = "BOOLOR" -> Truth(a[1] # "" \/ a[2] # "")
                 [] op = "NUMEQUAL" -> Truth(a[1] = a[2])
                 [] op = "ADD" -> Number(Value(a[1]) + Value(a[2]))>>}
      [] op = "CHECKSIG" ->
            IF a[2] \in Keys THEN Checked(a[1], a[2], "", "1") ELSE {}
      [] op = "CHECKSIGADD" ->
            IF IsNumber(a[2])
            THEN Checked(a[1], a[3], a[2], Number(Value(a[2]) + 1)) ELSE {}
      [] op = "CHECKMULTISIG" -> Multisig(a)
      [] op = "push" -> {<<>>}
      [] OTHER -> {<<op>>}

-----------------------------------------------------------------------------
(* A run: the main and the alternative stack, bottom first; whether the    *)
(* branch of each IF that is open is the one executed; what it took.       *)

Start(stack) == [stack |-> stack, alt |-> <<>>, branch |-> <<>>, taken |-> <<>>]

Executing(r) == \A i \in DOMAIN r.branch : r.branch[i]

(* r with at least n elements on the stack.                                *)
WithStack(r, n) ==
    IF Len(r.stack) >= n THEN {r}
    ELSE {[r EXCEPT !.stack = below \o @, !.taken = below \o @] :
              below \in [1..n - Len(r.stack) -> Elements]}

Branch(r, op) ==
    CASE op = "ELSE"  -> {[r EXCEPT !.branch = Front(@) \o <<~Last(@)>>]}
      [] op = "ENDIF" -> {[r EXCEPT !.branch = Front(@)]}
      [] ~Executing(r) ->                          \* IF or NOTIF
            {[r EXCEPT !.branch = Append(@, FALSE)]}
      [] OTHER ->
            {[s EXCEPT !.stack = Front(@),
                       !.branch = Append(@, (Last(s.stack) = "1") = (op = "IF"))] :
                s \in {t \in WithStack(r, 1) : Last(t.stack) \in {"", "1"}}}

Execute(r, op, locks) ==
    UNION {LET n == Len(s.stack) - Arity(Plain(op), s.stack)
               kept == SubSeq(s.stack, 1, n)
               args == SubSeq(s.stack, n + 1, Len(s.stack))
               left == Effect(Plain(op), args, locks)
           IN  CASE op = "TOALTSTACK" ->
                        {[s EXCEPT !.stack = kept, !.alt = @ \o args]}
                 [] op = "FROMALTSTACK" ->
                        {[s EXCEPT !.stack = @ \o <<Last(s.alt)>>, !.alt = Front(@)]}
                 [] op \in WithVerify ->
                        {[s EXCEPT !.stack = kept] : e \in left \ {<<"">>}}
                 [] OTHER -> {[s EXCEPT !.stack = kept \o e] : e \in left} :
           s \in WithStack(r, Arity(Plain(op), r.stack))}

Step(runs, op, locks) ==
    UNION {IF op \in {"IF", "NOTIF", "ELSE", "ENDIF"} THEN Branch(r, op)
           ELSE IF Executing(r) THEN Execute(r, op, locks) ELSE {r} : r \in runs}

(* The ends of the runs of a script while `locks` are the locks that have  *)
(* expired.                                                                *)
Runs(script, stack, locks) ==
    FoldLeft(LAMBDA runs, op : Step(runs, op, locks), {Start(stack)}, script)
=============================================================================
