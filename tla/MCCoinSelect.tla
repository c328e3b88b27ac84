---------------------------- MODULE MCCoinSelect ----------------------------
(* Every list of up to MaxLen values of at most MaxValue, from the largest *)
(* to the smallest, and every target up to one more than their sum.        *)
EXTENDS CoinSelect

CONSTANTS MaxLen, MaxValue, Ratios, Extra

Lists ==
    {vs \in BoundedSeq(0..MaxValue, MaxLen) :
        vs # <<>> /\ \A i \in 1..(Len(vs) - 1) : vs[i] >= vs[i + 1]}

(* Extra is what the caller allows beyond the fewest attempts.             *)
MCProblems ==
    UNION {[values : {vs}, target : 1..(SumFrom(vs, 1) + 1),
            attempts : {Len(vs) + 1 + e : e \in Extra}, ratio : Ratios] :
           vs \in Lists}
=============================================================================
