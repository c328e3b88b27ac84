------------------------- MODULE MiniscriptProofs -------------------------
(***************************************************************************)
(* Whatever leaves, wrappers and fragments an expression is made of, the   *)
(* type that the verify functions of src/descriptor.c give it is one of    *)
(* the four, and no two of its properties exclude each other.              *)
(*                                                                         *)
(* The code tests this only for a node that has wrappers.  For the others  *)
(* it has to follow from the rule of their fragment and from the types of  *)
(* the arguments: one lemma for each rule says so.                         *)
(***************************************************************************)
EXTENDS Miniscript, TLAPS

-----------------------------------------------------------------------------
(* The rules                                                               *)

(* verify_andor_property: both branches that end have the type.            *)
LEMMA AndorIsConsistent ==
    ASSUME NEW x, NEW y, NEW z, Consistent(x), Consistent(y), Consistent(z),
           OneType(AndorType(x, y, z))
    PROVE  Consistent(AndorType(x, y, z))
BY DEF AndorType, Consistent, OneType, Types, Locks, When, Refused, Unmixed

(* verify_and_v_property: the second argument has the type.                *)
LEMMA AndVIsConsistent ==
    ASSUME NEW x, NEW y, Consistent(x), Consistent(y), OneType(AndVType(x, y))
    PROVE  Consistent(AndVType(x, y))
BY DEF AndVType, Consistent, OneType, Types, Locks, When, Refused, Unmixed, One

(* verify_and_b: B and W make a B.                                         *)
LEMMA AndBIsConsistent ==
    ASSUME NEW x, NEW y, Consistent(x), Consistent(y), OneType(AndBType(x, y))
    PROVE  Consistent(AndBType(x, y))
BY DEF AndBType, Consistent, OneType, Types, Locks, When, Unmixed, One

(* verify_and_n is andor with 0 as its last argument.                      *)
LEMMA AndNIsConsistent ==
    ASSUME NEW x, NEW y, Consistent(x), Consistent(y), OneType(AndNType(x, y))
    PROVE  Consistent(AndNType(x, y))
<1>1. Consistent(OP_0)
  BY DEF OP_0, Consistent, OneType, Types
<1> QED
  BY <1>1, AndorIsConsistent DEF AndNType

(* verify_or_b: one type only if both can be dissatisfied.                 *)
LEMMA OrBIsConsistent ==
    ASSUME NEW x, NEW y, Consistent(x), Consistent(y), OneType(OrBType(x, y))
    PROVE  Consistent(OrBType(x, y))
BY DEF OrBType, Consistent, OneType, Types, Locks, When, One

(* verify_or_c: f is given to what has the type V.                         *)
LEMMA OrCIsConsistent ==
    ASSUME NEW x, NEW y, Consistent(x), Consistent(y), OneType(OrCType(x, y))
    PROVE  Consistent(OrCType(x, y))
BY DEF OrCType, OrElse, Consistent, OneType, Types, Locks, When

(* verify_or_d: whether it can be dissatisfied is up to the second.        *)
LEMMA OrDIsConsistent ==
    ASSUME NEW x, NEW y, Consistent(x), Consistent(y), OneType(OrDType(x, y))
    PROVE  Consistent(OrDType(x, y))
BY DEF OrDType, OrElse, Consistent, OneType, Types, Locks, When

(* verify_or_i_property: d of one argument excludes f of both.             *)
LEMMA OrIIsConsistent ==
    ASSUME NEW x, NEW y, Consistent(x), Consistent(y), OneType(OrIType(x, y))
    PROVE  Consistent(OrIType(x, y))
BY DEF OrIType, Either, Consistent, OneType, Types, Locks, When, Refused

(* The rules of the fragments with two arguments, by name.                 *)
LEMMA PairIsConsistent ==
    ASSUME NEW frag \in DOMAIN Template, NEW x, NEW y,
           Consistent(x), Consistent(y), OneType(PairType(frag, x, y))
    PROVE  Consistent(PairType(frag, x, y))
<1>1. frag \in {"and_v", "and_b", "and_n", "or_b", "or_c", "or_d", "or_i"}
  BY DEF Template
<1> QED
  BY <1>1, AndVIsConsistent, AndBIsConsistent, AndNIsConsistent, OrBIsConsistent,
     OrCIsConsistent, OrDIsConsistent, OrIIsConsistent DEF PairType

(* verify_thresh: its z and o come from no child or from one child that    *)
(* has both, which a consistent one has not; e is given without f.         *)
LEMMA ThreshIsConsistent ==
    ASSUME NEW k, NEW kids, \A i \in DOMAIN kids : Consistent(kids[i]),
           OneType(ThreshType(k, kids))
    PROVE  Consistent(ThreshType(k, kids))
<1> DEFINE T == ThreshType(k, kids)
<1>1. T \subseteq {"B", "d", "u", "z", "o", "e", "m", "s", "k"} \cup Locks
  BY DEF ThreshType, When, Refused, Locks
<1>2. {"B", "d", "u"} \subseteq T
  BY DEF ThreshType, When, Refused, OneType, Types
<1>3. "z" \in T => "o" \notin T
  BY DEF ThreshType, When, Refused, Locks
<1> QED
  BY <1>1, <1>2, <1>3 DEF Consistent, OneType, Types, Locks

-----------------------------------------------------------------------------
(* Nodes                                                                   *)

(* The fragments without children, by name.                                *)
LEMMA LeafIsConsistent ==
    ASSUME NEW leaf, leaf[1] \in LeafNames
    PROVE  Consistent(Leaf(leaf).type)
<1> DEFINE T == Leaf(leaf).type
<1>1. CASE leaf[1] \in {"pk_k", "pk_h", "pk", "pkh"}
  <2>1. T \in {Pk_kType, Pk_hType, PkType, PkhType}
    BY <1>1 DEF Leaf
  <2> QED
    BY <2>1 DEF Pk_kType, Pk_hType, PkType, PkhType, Consistent, OneType, Types
<1>2. CASE leaf[1] \in {"older", "after"}
  <2>1. \E lock \in Locks : T = DelayType(lock)
    BY <1>2 DEF Leaf, Delay, Locks
  <2> QED
    BY <2>1 DEF DelayType, Locks, Consistent, OneType, Types
<1>3. CASE leaf[1] \in {"sha256", "multi", "multi_a"}
  <2>1. T \in {HashType, MultiType}
    BY <1>3 DEF Leaf, Multi, MultiA
  <2> QED
    BY <2>1 DEF HashType, MultiType, Consistent, OneType, Types
<1>4. CASE leaf[1] = "number"
  <2>1. T = NumberType(leaf[2])
    BY <1>4 DEF Leaf
  <2> QED
    BY <2>1 DEF NumberType, Consistent, OneType, Types
<1> QED
  BY <1>1, <1>2, <1>3, <1>4 DEF LeafNames

(* analyze_miniscript: with wrappers the type is tested at the end, and    *)
(* without any it is that of the fragment.                                 *)
LEMMA ParsedIsConsistent ==
    ASSUME NEW type, NEW size, NEW builtin, NEW level, NEW out, NEW keys,
           NEW doubt, NEW wrappers, NEW tap,
           OneType(type) => Consistent(type),
           NEW m \in Parsed([type |-> type, size |-> size, builtin |-> builtin,
                             level |-> level, out |-> out, keys |-> keys,
                             doubt |-> doubt], wrappers, tap)
    PROVE  Consistent(m.type) /\ m.level = level
<1> DEFINE n == [type |-> type, size |-> size, builtin |-> builtin,
                 level |-> level, out |-> out, keys |-> keys, doubt |-> doubt]
           w == Verified(n, wrappers, tap)
<1>1. m.type = w.type /\ m.level = level
  BY DEF Parsed
<1>2. IF wrappers = <<>> THEN OneType(w.type) ELSE WellFormed(w.type)
  BY DEF Parsed
<1>3. wrappers = <<>> => w.type = type
  BY DEF Verified
<1> QED
  BY <1>1, <1>2, <1>3 DEF WellFormed

LEMMA LeafNodeIsConsistent ==
    ASSUME NEW forms, AreLeaves(forms), NEW tap, NEW m \in ParsedForms(forms, tap)
    PROVE  Consistent(m.type) /\ m.level = 0
<1>1. PICK f \in forms : m \in Parsed(LeafNode(f[1]), f[2], tap)
  BY DEF ParsedForms
<1>2. Consistent(Leaf(f[1]).type)
  BY LeafIsConsistent DEF AreLeaves
<1> QED
  BY <1>1, <1>2, ParsedIsConsistent DEF LeafNode

-----------------------------------------------------------------------------
(* The specification                                                       *)

LEMMA OtherIsConsistent ==
    ASSUME TypeOK, node.level < MaxLevel, NEW p \in Others
    PROVE  Consistent(p.type)
<1>1. node.level + 1 \in 1..MaxLevel /\ tapscript \in BOOLEAN
  BY FormsAssumption DEF TypeOK
<1>2. p \in ParsedForms(OperandForms[node.level + 1], tapscript)
  BY <1>1 DEF Others, Operands
<1>3. AreLeaves(OperandForms[node.level + 1])
  BY <1>1, FormsAssumption
<1> QED
  BY <1>2, <1>3, LeafNodeIsConsistent

LEMMA InitIsConsistent == Init => TypeOK
BY LeafNodeIsConsistent, FormsAssumption DEF Init, TypeOK

LEMMA PairKeepsConsistent ==
    ASSUME TypeOK, node.level < MaxLevel, NEW frag \in DOMAIN Template,
           NEW x, NEW y, Consistent(x.type), Consistent(y.type), Pair(frag, x, y)
    PROVE  TypeOK'
<1>1. Consistent(PairType(frag, x.type, y.type))
  BY PairIsConsistent DEF Pair, Parse
<1>2. Consistent(node'.type) /\ node'.level = node.level + 1
  BY <1>1, ParsedIsConsistent DEF Pair, Parse, Built
<1> QED
  BY <1>2, FormsAssumption DEF TypeOK, Pair, Parse

LEMMA AndorKeepsConsistent ==
    ASSUME TypeOK, node.level < MaxLevel, NEW x, NEW y, NEW z,
           Consistent(x.type), Consistent(y.type), Consistent(z.type), Andor(x, y, z)
    PROVE  TypeOK'
<1>1. Consistent(AndorType(x.type, y.type, z.type))
  BY AndorIsConsistent DEF Andor, Parse
<1>2. Consistent(node'.type) /\ node'.level = node.level + 1
  BY <1>1, ParsedIsConsistent DEF Andor, Parse, Built
<1> QED
  BY <1>2, FormsAssumption DEF TypeOK, Andor, Parse

LEMMA ThreshKeepsConsistent ==
    ASSUME TypeOK, node.level < MaxLevel, NEW k, NEW kids,
           \A i \in DOMAIN kids : Consistent(kids[i].type), Thresh(k, kids)
    PROVE  TypeOK'
<1> DEFINE types == [i \in DOMAIN kids |-> kids[i].type]
<1>1. Consistent(ThreshType(k, types))
  BY ThreshIsConsistent DEF Thresh, Parse
<1>2. Consistent(node'.type) /\ node'.level = node.level + 1
  BY <1>1, ParsedIsConsistent DEF Thresh, Parse, Built
<1> QED
  BY <1>2, FormsAssumption DEF TypeOK, Thresh, Parse

(* Every expression that analyze_miniscript returns has one type, and none *)
(* of its properties excludes another: not takes no argument and takes     *)
(* one, not forced and dissatisfiable, not verify and unit.                *)
THEOREM TypesAreConsistent == Spec => []TypeOK
<1>1. TypeOK /\ [Next]_vars => TypeOK'
  <2> SUFFICES ASSUME TypeOK, [Next]_vars PROVE TypeOK'
    OBVIOUS
  <2>1. CASE UNCHANGED vars
    BY <2>1 DEF TypeOK, vars
  <2>2. CASE Next
    <3>1. node.level < MaxLevel /\ Consistent(node.type)
      BY <2>2 DEF Next, TypeOK
    <3>2. PICK p, q \in Others :
             \/ \E frag \in DOMAIN Template : Pair(frag, node, p) \/ Pair(frag, p, node)
             \/ Andor(node, p, q) \/ Andor(p, node, q) \/ Andor(p, q, node)
             \/ \E kids \in {<<node>>, <<node, p>>, <<p, node>>, <<node, p, q>>,
                               <<p, node, q>>, <<p, q, node>>} :
                    \E k \in 1..Len(kids) : Thresh(k, kids)
      BY <2>2 DEF Next
    <3>3. Consistent(p.type) /\ Consistent(q.type)
      BY <3>1, OtherIsConsistent
    <3>4. CASE \E frag \in DOMAIN Template : Pair(frag, node, p) \/ Pair(frag, p, node)
      BY <3>1, <3>3, <3>4, PairKeepsConsistent
    <3>5. CASE Andor(node, p, q) \/ Andor(p, node, q) \/ Andor(p, q, node)
      BY <3>1, <3>3, <3>5, AndorKeepsConsistent
    <3>6. CASE \E kids \in {<<node>>, <<node, p>>, <<p, node>>, <<node, p, q>>,
                               <<p, node, q>>, <<p, q, node>>} :
                    \E k \in 1..Len(kids) : Thresh(k, kids)
      BY <3>1, <3>3, <3>6, ThreshKeepsConsistent
    <3> QED
      BY <3>2, <3>4, <3>5, <3>6
  <2> QED
    BY <2>1, <2>2
<1> QED
  BY InitIsConsistent, <1>1, PTL DEF Spec
=============================================================================
