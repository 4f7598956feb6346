------------------------------ MODULE Rankings ------------------------------
(***************************************************************************)
(* How pupils are ranked (GradeCalculationService::rankCollection): sort   *)
(* them by descending average, walk down the list and give the next one a  *)
(* new rank unless its average is as good as equal to the one before.      *)
(*                                                                         *)
(* Averages are whole numbers of the unit in which Tolerance is given: the *)
(* normalised scores have six decimals, the code takes averages within     *)
(* 0.000001 as equal.                                                      *)
(***************************************************************************)
EXTENDS Integers, FiniteSets

CONSTANTS Students,  \* the pupils of a class, or of the school
          Averages,  \* the averages they may have
          Tolerance  \* averages that differ by no more count as equal

ASSUME StudentsAssumption == IsFiniteSet(Students) /\ Students # {}
ASSUME AveragesAssumption == Averages \subseteq Int /\ Tolerance \in Nat

\* abs($average - $previous) <= 0.000001
Near(a, b) == a - b <= Tolerance /\ b - a <= Tolerance

(***************************************************************************)
(* Averages that are not equal but for rounding lie further apart than     *)
(* rounding does.                                                          *)
(***************************************************************************)
ASSUME SpacingAssumption ==
    \A a, b, c \in Averages : Near(a, b) /\ Near(b, c) => Near(a, c)

VARIABLES
    average,   \* the average of each pupil, 0 for one without grades
    rest,      \* the end of the sorted list
    previous,  \* the average of the pupil before, none at the start
    rank,      \* the rank that pupil got
    result     \* the ranks given so far, 0 before

vars == <<average, rest, previous, rank, result>>

Init ==
    /\ average \in [Students -> Averages]
    /\ rest = Students
    /\ previous = {}
    /\ rank = 0
    /\ result = [s \in Students |-> 0]

\* $position, the place in the list of the pupil that is next.
Position == Cardinality(Students \ rest) + 1

\* A plausible bug: ranks are given without a gap after a tie.
RankOfDense(s) ==
    IF \E a \in previous : Near(average[s], a) THEN rank ELSE rank + 1

RankOf(s) == IF \E a \in previous : Near(average[s], a) THEN rank ELSE Position

\* sortDesc() leaves the order of equal averages open.
RankNext(s) ==
    /\ s \in rest
    /\ \A t \in rest : average[s] >= average[t]
    /\ rest' = rest \ {s}
    /\ previous' = {average[s]}
    /\ rank' = RankOf(s)
    /\ result' = [result EXCEPT ![s] = RankOf(s)]
    /\ UNCHANGED average

Next == \E s \in Students : RankNext(s)

Spec == Init /\ [][Next]_vars

-----------------------------------------------------------------------------
Ranked == Students \ rest
Better(a) == {t \in Students : average[t] > a + Tolerance}

TypeOK ==
    /\ average \in [Students -> Averages]
    /\ rest \in SUBSET Students
    /\ previous \in SUBSET Averages
    /\ rank \in Nat
    /\ result \in [Students -> Nat]

(***************************************************************************)
(* "Competitive ranking: equal scores share a rank and the next rank skips *)
(* the tied positions (1, 2, 2, 4)": the rank of a pupil is one more than  *)
(* the number of pupils with a better average, in whatever order the sort  *)
(* leaves equal ones.                                                      *)
(***************************************************************************)
RankIsStanding == \A s \in Ranked : result[s] = Cardinality(Better(average[s])) + 1

(***************************************************************************)
(* What the loop relies on: those ranked are no worse than the rest, and   *)
(* the last of them is the worst so far.                                   *)
(***************************************************************************)
Sorted == \A s \in Ranked, t \in rest : average[s] >= average[t]

LastRanked ==
    /\ previous = {} <=> Ranked = {}
    /\ \A a \in previous :
          /\ \A s \in Ranked : average[s] >= a
          /\ \A t \in rest : a >= average[t]
          /\ rank = Cardinality(Better(a)) + 1
          /\ previous = {a}

IndInv == TypeOK /\ Sorted /\ LastRanked /\ RankIsStanding

=============================================================================
