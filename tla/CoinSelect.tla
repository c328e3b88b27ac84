----------------------------- MODULE CoinSelect -----------------------------
(***************************************************************************)
(* wally_coinselect_assets (src/coins.c): a depth first search for a set   *)
(* of asset values that reaches a target, one step per attempt.            *)
(*                                                                         *)
(* Positions count from 1, so that `next` is v + 1 in the code, and it is  *)
(* Len(values) + 1 when v stands at the sentinel.  Amounts do not          *)
(* overflow: all that exists of an asset fits in 64 bits.                  *)
(***************************************************************************)
EXTENDS Integers, SequencesExt, FiniteSetsExt

CONSTANTS
    Problems,    \* the arguments: [values, target, attempts, ratio]
    MaxAssets,   \* WALLY_CS_MAX_ASSETS
    MaxScore     \* 0xffffffff, the greatest score and the first best_score

(* What the code asks of its arguments.                                    *)
ASSUME ProblemsAssumption ==
    \A p \in Problems :
        /\ p.values \in Seq(Nat) /\ p.values # <<>>
        /\ p.target \in Nat \ {0} /\ p.ratio \in Nat \ {0}
        /\ p.attempts \in Nat /\ p.attempts >= Len(p.values) + 1
ASSUME BoundsAssumption ==
    MaxAssets \in Nat \ {0} /\ MaxScore \in Nat /\ MaxAssets <= MaxScore

(* "Must be ordered from largest to smallest" (wally_coinselection.h).  The*)
(* code does not look, and only finding a selection depends on it.         *)
FromTheLargest(vs) == \A i, j \in 1..Len(vs) : i <= j => vs[i] >= vs[j]
ASSUME OrderAssumption == \A p \in Problems : FromTheLargest(p.values)

VARIABLES
    problem,   \* the arguments of the call
    next,      \* the position the search looks at
    chosen,    \* the selected positions, in order
    sum,       \* the sum of their values
    best,      \* the best selection so far: its score, sum and positions
    attempt,   \* attempts made
    status     \* "searching", or why the search ended

vars == <<problem, next, chosen, sum, best, attempt, status>>

values == problem.values
target == problem.target

SumFrom(vs, from) == FoldLeft(+, 0, SubSeq(vs, from, Len(vs)))

(* vr[v].remaining, 0 at the sentinel                                      *)
Remaining(v) == IF v > Len(values) THEN 0 ELSE SumFrom(values, v)

-----------------------------------------------------------------------------
Init ==
    /\ problem \in Problems
    /\ next = 1 /\ chosen = <<>> /\ sum = 0 /\ attempt = 0
    /\ best = [score |-> MaxScore, sum |-> 0, chosen |-> <<>>]
    /\ status = IF SumFrom(problem.values, 1) < problem.target
                THEN "insufficient" ELSE "searching"

CannotReach == sum + Remaining(next) < target
Reaches == ~CannotReach /\ sum >= target
CutsAtScoreOnly ==
    ~CannotReach /\ ~Reaches /\ Len(chosen) >= best.score
IsCut ==
    /\ ~CannotReach
    /\ ~Reaches
    /\ Len(chosen) >= best.score \/ Len(chosen) >= MaxAssets

ScoreOf(n, isExact) == n + IF isExact THEN 0 ELSE problem.ratio

(* The addition is one of 32 bit integers, and wraps around.               *)
Score == ScoreOf(Len(chosen), sum = target) % (MaxScore + 1)

IsBetterOnScore == Score < best.score

IsBetter ==
    \/ Score < best.score
    \/ /\ Score = best.score
       /\ sum > best.sum \/ (sum = target /\ best.sum # target)

(* The last selected value is given up and the search goes on behind it.   *)
BacktrackFromHere ==
    IF chosen = <<>> THEN
        status' = "searched" /\ UNCHANGED <<next, chosen, sum>>
    ELSE
        /\ next' = Last(chosen) + 1
        /\ chosen' = Front(chosen)
        /\ sum' = sum - values[next - 1]
        /\ UNCHANGED status

Backtrack ==
    IF chosen = <<>> THEN
        status' = "searched" /\ UNCHANGED <<next, chosen, sum>>
    ELSE
        /\ next' = Last(chosen) + 1
        /\ chosen' = Front(chosen)
        /\ sum' = sum - values[Last(chosen)]
        /\ UNCHANGED status

Attempt ==
    /\ status = "searching" /\ attempt < problem.attempts
    /\ attempt' = attempt + 1
    /\ UNCHANGED problem

GiveUp ==
    /\ Attempt
    /\ CannotReach \/ IsCut
    /\ Backtrack
    /\ UNCHANGED best

(* A selection that reaches the target is scored.  A single value that is  *)
(* the target ends the search.                                             *)
Consider ==
    /\ Attempt /\ Reaches
    /\ best' = IF IsBetter
               THEN [score |-> Score, sum |-> sum, chosen |-> chosen] ELSE best
    /\ IF IsBetter /\ sum = target /\ Len(chosen) = 1
       THEN status' = "perfect" /\ UNCHANGED <<next, chosen, sum>>
       ELSE Backtrack

MayInclude == ~CannotReach /\ ~Reaches /\ ~IsCut

(* A value equal to one that was left out just before would be the same    *)
(* selection again.                                                        *)
IsNewNextNoRun == chosen # <<>> => values[next] # values[next - 1]

IsNewNext ==
    chosen # <<>> /\ next - 1 # Last(chosen)
        => values[next] # values[next - 1]

Include ==
    /\ Attempt /\ MayInclude /\ IsNewNext
    /\ chosen' = Append(chosen, next)
    /\ sum' = sum + values[next]
    /\ next' = next + 1
    /\ UNCHANGED <<best, status>>

Skip ==
    /\ Attempt /\ MayInclude /\ ~IsNewNext
    /\ next' = next + 1
    /\ UNCHANGED <<chosen, sum, best, status>>

OutOfAttempts ==
    /\ status = "searching" /\ attempt = problem.attempts
    /\ status' = "attempts"
    /\ UNCHANGED <<problem, next, chosen, sum, best, attempt>>

Next ==
    GiveUp \/ Consider \/ Include \/ Skip \/ OutOfAttempts

Spec == Init /\ [][Next]_vars

-----------------------------------------------------------------------------
Ended == status # "searching"

(* All selections that were not cut have been looked at.                   *)
Exhausted == status \in {"searched", "perfect"}

Selections == {S \in SUBSET (1..Len(values)) : Cardinality(S) <= MaxAssets}
SumOf(S) == MapThenSumSet(LAMBDA i : values[i], S)
Reaching == {S \in Selections : SumOf(S) >= target}
TrueScore(S) == ScoreOf(Cardinality(S), SumOf(S) = target)
LeastScore == Min({TrueScore(S) : S \in Reaching})
Cheapest == {S \in Reaching : TrueScore(S) = LeastScore}
HasExact == \E S \in Cheapest : SumOf(S) = target

(* No score wraps around.                                                  *)
ScoresFit == problem.ratio + Len(values) <= MaxScore

TypeOK ==
    /\ next \in Nat /\ chosen \in Seq(Nat) /\ sum \in Int
    /\ attempt \in 0..problem.attempts
    /\ best.score \in 0..MaxScore
    /\ best.chosen \in Seq(1..Len(values))
    /\ status \in {"searching", "searched", "perfect", "attempts",
                   "insufficient"}

(* The search stays inside its arrays: v never passes the sentinel, the    *)
(* stack of indices never outgrows indices[], and it climbs, so that the   *)
(* loop that backtracks stops at the index it takes off.                   *)
InBounds ==
    /\ next \in 1..(Len(values) + 1)
    /\ Len(chosen) <= MaxAssets
    /\ \A i \in 1..Len(chosen) : chosen[i] \in 1..(next - 1)
    /\ \A i, j \in 1..Len(chosen) : i < j => chosen[i] < chosen[j]

(* "A selection that is returned reaches the target" with the values at    *)
(* the indices it returns, and the running sum is that of the selection.   *)
SelectionReaches ==
    /\ sum = SumOf(Range(chosen))
    /\ best.chosen # <<>> =>
          /\ best.sum = SumOf(Range(best.chosen)) /\ best.sum >= target
          /\ Cardinality(Range(best.chosen)) = Len(best.chosen)

(* "This function always finds a solution if one is available"             *)
(* (wally_coinselection.h), with as few attempts as it accepts, whatever   *)
(* the ratio.                                                              *)
AlwaysFinds == Ended /\ Reaching # {} => best.chosen # <<>>

(* What the cuts leave out is no better: a search that was not stopped by  *)
(* the limit on attempts finds the best score of all selections, and among *)
(* them the greatest change when none is exact.                            *)
FindsBest ==
    Exhausted /\ ScoresFit /\ Reaching # {} =>
        /\ Range(best.chosen) \in Cheapest
        /\ ~HasExact => best.sum = Max({SumOf(S) : S \in Cheapest})
=============================================================================
