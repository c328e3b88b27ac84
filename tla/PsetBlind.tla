----------------------------- MODULE PsetBlind -----------------------------
(***************************************************************************)
(* wally_psbt_blind (src/psbt.c): the owners of the inputs of an Elements  *)
(* PSET blind its outputs, each those that name an input of its own, on    *)
(* copies that they clone and combine.  The network accepts the result     *)
(* only if the blinding factors of inputs and outputs cancel out: whoever  *)
(* blinds last computes the factor that makes them.  Until then the others *)
(* leave in the PSET a scalar, what they added less what they spend.       *)
(*                                                                         *)
(* A scalar, value * asset blinder + value blinder modulo the order of the *)
(* curve, is here a formal sum: how many times each input and each piece   *)
(* of entropy counts.  Sums of fresh entropy are never equal or zero by    *)
(* chance, so nothing else of the arithmetic shows.                        *)
(***************************************************************************)
EXTENDS Integers, FiniteSetsExt, Functions

CONSTANTS
    Handles,        \* the copies of the PSET
    Owner,          \* Owner[i]: who owns input i and knows its blinding factors
    Blinder,        \* Blinder[o]: the blinder index of output o, or None
    None

Inputs  == DOMAIN Owner
Outputs == DOMAIN Blinder
Parties == Range(Owner)

ASSUME BlinderAssumption ==
    /\ Outputs \subseteq Nat /\ Inputs \subseteq Nat
    /\ IsFiniteSet(Outputs) /\ IsFiniteSet(Inputs)
    /\ Blinder \in [Outputs -> Inputs \cup {None}]

(* The owner of an input that has no output to blind never says what its   *)
(* input adds, so every owner has one.                                     *)
ASSUME OwnersAssumption ==
    \A p \in Parties : \E o \in Outputs :
        Blinder[o] # None /\ Owner[Blinder[o]] = p

(* The name of the inputs' factors is none of a handle's entropy.          *)
ASSUME HandlesAssumption == "input" \notin Handles

VARIABLE pset    \* pset[h]: the copy of handle h, or None
blindVars == <<pset>>

-----------------------------------------------------------------------------
(* wally_asset_scalar_offset, and wally_ec_scalar_add_to and subtract_from *)

Atoms == ({"input"} \X Inputs) \cup (Handles \X Outputs)
Zero == [a \in Atoms |-> 0]
ScalarOffset(atom) == [Zero EXCEPT ![atom] = 1]
Plus(x, y)  == [a \in Atoms |-> x[a] + y[a]]
Minus(x, y) == [a \in Atoms |-> x[a] - y[a]]
Sum(scalars) == FoldSet(Plus, Zero, scalars)
Total(offset, S) == FoldFunctionOnSet(Plus, Zero, offset, S)

InputOffset == [i \in Inputs |-> ScalarOffset(<<"input", i>>)]
InputScalar(p) == Total(InputOffset, {i \in Inputs : Owner[i] = p})

(* PSET_OUT_BLINDING_FIELDS that blinding sets; the blinding key is there  *)
(* from the start.  `offset` is the scalar the commitments commit to.      *)
Commitments == {"VALUE_COMMITMENT", "ASSET_COMMITMENT", "VALUE_RANGEPROOF",
                "ASSET_SURJECTION_PROOF"}
BlindingFields == Commitments \cup {"ECDH_PUBKEY"}
Unblinded == [fields |-> {}, offset |-> None]
Blinded(offset) == [fields |-> BlindingFields, offset |-> offset]

(* psbt_output_get_blinding_state                                          *)
Required == {o \in Outputs : Blinder[o] # None}
IsFull(out) == BlindingFields \subseteq out.fields
Full(s) == {o \in Required : IsFull(s.outputs[o])}

-----------------------------------------------------------------------------
(* The outputs among `asked` that a call of p blinds.                      *)
Mine(s, p, asked) ==
    {o \in (asked \cap Required) \ Full(s) : Owner[Blinder[o]] = p}

FinalOffsetForgetsScalars(s, p, offset, mine) ==
    Minus(offset[Max(mine)], Minus(Total(offset, mine), InputScalar(p)))

(* compute_final_vbf: the last output takes what is missing.               *)
FinalOffset(s, p, offset, mine) ==
    Minus(Minus(offset[Max(mine)], Minus(Total(offset, mine), InputScalar(p))),
          Sum(s.scalars))

BlindAlwaysLeavesScalar(s, h, p, asked) ==
    LET mine == Mine(s, p, asked)
        offset == [o \in mine |-> ScalarOffset(<<h, o>>)]
        last == Full(s) \cup mine = Required
    IN [outputs |-> [o \in Outputs |->
            IF o \notin mine THEN s.outputs[o]
            ELSE IF last /\ o = Max(mine) THEN Blinded(FinalOffset(s, p, offset, mine))
            ELSE Blinded(offset[o])],
        scalars |-> s.scalars \cup {Minus(Total(offset, mine), InputScalar(p))}]

(* wally_psbt_blind by p, with entropy of handle h.                        *)
Blind(s, h, p, asked) ==
    LET mine == Mine(s, p, asked)
        offset == [o \in mine |-> ScalarOffset(<<h, o>>)]
        last == Full(s) \cup mine = Required
    IN [outputs |-> [o \in Outputs |->
            IF o \notin mine THEN s.outputs[o]
            ELSE IF last /\ o = Max(mine) THEN Blinded(FinalOffset(s, p, offset, mine))
            ELSE Blinded(offset[o])],
        scalars |-> IF last THEN {}
                    ELSE s.scalars \cup {Minus(Total(offset, mine), InputScalar(p))}]

(* combine_output: whether the outputs match, and what is made of them.    *)
(* A blinder index of 0 is taken for none.                                 *)
OutputsMatch(dst, src, o) ==
    /\ o \in Required => Blinder[o] # 0
    /\ IsFull(dst) /\ IsFull(src) => dst = src

CombineOutput(dst, src) ==
    IF IsFull(src) /\ ~IsFull(dst)
    THEN [fields |-> dst.fields \cup Commitments, offset |-> src.offset] ELSE dst

(* psbt_combine stops at the first output that does not match, and merges  *)
(* the scalars last.                                                       *)
Combine(dst, src) ==
    LET bad == {o \in Outputs : ~OutputsMatch(dst.outputs[o], src.outputs[o], o)}
    IN [outputs |-> [o \in Outputs |->
            IF \A b \in bad : o < b
            THEN CombineOutput(dst.outputs[o], src.outputs[o]) ELSE dst.outputs[o]],
        scalars |-> IF bad = {} THEN dst.scalars \cup src.scalars ELSE dst.scalars]

-----------------------------------------------------------------------------
Live == {h \in Handles : pset[h] # None}

BlindInit == \E h \in Handles :
    pset = [g \in Handles |->
        IF g = h THEN [outputs |-> [o \in Outputs |-> Unblinded], scalars |-> {}]
        ELSE None]

(* A call that finds nothing of p's to blind changes nothing.              *)
BlindOutputs(h, p, asked) ==
    /\ h \in Live /\ Mine(pset[h], p, asked) # {}
    /\ pset' = [pset EXCEPT ![h] = Blind(@, h, p, asked)]

BlindAll(h, p) == BlindOutputs(h, p, Outputs)      \* WALLY_PSET_BLIND_ALL

CloneTo(h, g) ==
    /\ h \in Live /\ pset[g] = None
    /\ pset' = [pset EXCEPT ![g] = pset[h]]

CombineFrom(h, g) ==
    /\ h \in Live /\ g \in Live /\ h # g
    /\ pset' = [pset EXCEPT ![h] = Combine(@, pset[g])]

(* Each owner blinds all of its outputs, in any order; copies go their own *)
(* ways.                                                                   *)
BlindNext ==
    \E h \in Handles :
        \/ \E p \in Parties : BlindAll(h, p)
        \/ \E g \in Handles : CloneTo(h, g)

(* Every owner that is given a copy blinds its outputs in it some time.    *)
Fairness == \A h \in Handles, p \in Parties : WF_blindVars(BlindAll(h, p))
BlindSpec == BlindInit /\ [][BlindNext]_blindVars /\ Fairness

(* Copies are blinded apart and combined.                                  *)
CombineSpec ==
    BlindInit /\ [][BlindNext \/ \E h, g \in Handles : CombineFrom(h, g)]_blindVars

-----------------------------------------------------------------------------
IsBlinded(s) == Full(s) = Required

(* What verifying a transaction asks of its commitments: that those of the *)
(* inputs and of the outputs have the same sum.                            *)
Balanced(s) ==
    Total(InputOffset, Inputs) = Total([o \in Required |-> s.outputs[o].offset], Required)

Blinders(s) == {Owner[Blinder[o]] : o \in Full(s)}
OutputTotal(s) == Total([o \in Full(s) |-> s.outputs[o].offset], Full(s))
InputTotal(s) == Total(InputOffset, {i \in Inputs : Owner[i] \in Blinders(s)})

IsDone(h) ==
    h \in Live /\ IsBlinded(pset[h]) /\ pset[h].scalars = {} /\ Balanced(pset[h])

(* At any time the scalars say by how much the outputs that are blinded    *)
(* exceed the inputs of the owners who blinded them.  A copy whose outputs *)
(* are all blinded balances, whoever blinded last and whatever it was left *)
(* by the others, and no scalar is left in it.                             *)
ScalarsAccount ==
    \A h \in Live :
        /\ Minus(OutputTotal(pset[h]), InputTotal(pset[h])) = Sum(pset[h].scalars)
        /\ IsBlinded(pset[h]) => IsDone(h)

(* When every owner takes its turn, each copy ends up blinded and          *)
(* balanced: the turns need no order and no owner needs to be told that    *)
(* it is the last.                                                         *)
AllEndBlinded == \A h \in Handles : h \in Live ~> IsDone(h)

(* "The source is fully blinded, either copy or verify the fields"         *)
(* (src/psbt.c): what is blinded in the source of a combination is blinded *)
(* in the result.                                                          *)
CombinedIsBlinded ==
    [][\A h, g \in Handles : CombineFrom(h, g)
            /\ (\A o \in Outputs : OutputsMatch(pset[h].outputs[o], pset[g].outputs[o], o))
        => Full(pset[g]) \subseteq Full(pset'[h])]_blindVars
=============================================================================
