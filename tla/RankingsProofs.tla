--------------------------- MODULE RankingsProofs ---------------------------
(***************************************************************************)
(* The ranking is right for every class: any number of pupils, any         *)
(* averages that rounding keeps apart.                                     *)
(***************************************************************************)
EXTENDS Rankings, FiniteSetTheorems, TLAPS

\* Sets of pupils can be counted.
LEMMA Countable ==
    ASSUME NEW S \in SUBSET Students
    PROVE  IsFiniteSet(S) /\ Cardinality(S) \in Nat
BY StudentsAssumption, FS_Subset, FS_CardinalityType

\* Nobody is better than the pupil that comes first.
LEMMA FirstIsBest ==
    ASSUME TypeOK, NEW s \in Students, rest = Students,
           \A t \in rest : average[s] >= average[t]
    PROVE  Better(average[s]) = {}
<1>1. \A t \in Students : average[t] \in Int /\ average[s] >= average[t]
  BY AveragesAssumption DEF TypeOK
<1> QED BY <1>1, AveragesAssumption DEF Better

\* Those better than a pupil who is not near the one before are all those ranked.
LEMMA NewRankCountsRanked ==
    ASSUME TypeOK, Sorted, NEW a \in Averages, NEW s \in rest,
           \A t \in rest : average[s] >= average[t],
           \A t \in Ranked : average[t] >= a,
           a >= average[s], ~Near(average[s], a)
    PROVE  Better(average[s]) = Ranked
<1>1. s \in Students /\ \A t \in Students : average[t] \in Int
  BY AveragesAssumption DEF TypeOK
<1>2. a \in Int /\ Tolerance \in Int /\ a > average[s] + Tolerance
  BY <1>1, AveragesAssumption DEF Near
<1>3. ASSUME NEW t \in Ranked PROVE average[t] > average[s] + Tolerance
  BY <1>1, <1>2 DEF Ranked
<1>4. ASSUME NEW t \in rest PROVE ~(average[t] > average[s] + Tolerance)
  <2>1. t \in Students /\ average[s] >= average[t]
    BY DEF TypeOK
  <2> QED BY <2>1, <1>1, AveragesAssumption
<1> QED BY <1>3, <1>4 DEF Better, Ranked

\* A pupil as good as the one before has as many better ones.
LEMMA TieKeepsRank ==
    ASSUME TypeOK, Sorted, NEW a \in Averages, NEW s \in rest,
           \A t \in rest : average[s] >= average[t],
           \A t \in Ranked : average[t] >= a,
           a >= average[s], Near(average[s], a)
    PROVE  Better(average[s]) = Better(a)
<1>1. s \in Students /\ \A t \in Students : average[t] \in Averages /\ average[t] \in Int
  BY AveragesAssumption DEF TypeOK
<1>2. a \in Int /\ Tolerance \in Nat
  BY AveragesAssumption
<1>3. ASSUME NEW t \in Students, average[t] > a + Tolerance
      PROVE  average[t] > average[s] + Tolerance
  BY <1>1, <1>2, <1>3
<1>4. ASSUME NEW t \in Students, average[t] > average[s] + Tolerance
      PROVE  average[t] > a + Tolerance
  <2>1. t \notin rest
    BY <1>1, <1>2, <1>4
  <2>2. average[t] >= a
    BY <2>1 DEF Ranked
  <2>3. CASE Near(average[t], a)
    <3>1. Near(a, average[s])
      BY <1>1, <1>2 DEF Near
    <3>2. Near(average[t], average[s])
      BY <2>3, <3>1, <1>1, SpacingAssumption
    <3> QED BY <3>2, <1>1, <1>2, <1>4 DEF Near
  <2>4. CASE ~Near(average[t], a)
    BY <2>2, <2>4, <1>1, <1>2 DEF Near
  <2> QED BY <2>3, <2>4
<1> QED BY <1>3, <1>4 DEF Better

\* The next pupil gets the rank of its standing.
LEMMA RankOfStanding ==
    ASSUME IndInv, NEW s \in rest, \A t \in rest : average[s] >= average[t]
    PROVE  RankOf(s) = Cardinality(Better(average[s])) + 1
<1>1. TypeOK /\ Sorted /\ LastRanked /\ s \in Students
  BY DEF IndInv, TypeOK
<1>2. CASE previous = {}
  <2>1. rest = Students
    BY <1>1, <1>2 DEF LastRanked, Ranked, TypeOK
  <2>2. Better(average[s]) = {} /\ Students \ rest = {}
    BY <1>1, <2>1, FirstIsBest
  <2> QED BY <1>2, <2>2, FS_EmptySet DEF RankOf, Position
<1>3. ASSUME NEW a \in previous PROVE RankOf(s) = Cardinality(Better(average[s])) + 1
  <2>1. /\ a \in Averages /\ previous = {a} /\ a >= average[s]
        /\ \A t \in Ranked : average[t] >= a
        /\ rank = Cardinality(Better(a)) + 1
    BY <1>1, <1>3 DEF LastRanked, TypeOK
  <2>2. CASE Near(average[s], a)
    <3>1. RankOf(s) = rank
      BY <2>1, <2>2 DEF RankOf
    <3>2. Better(average[s]) = Better(a)
      BY <1>1, <2>1, <2>2, TieKeepsRank
    <3> QED BY <2>1, <3>1, <3>2
  <2>3. CASE ~Near(average[s], a)
    <3>1. RankOf(s) = Position
      BY <2>1, <2>3 DEF RankOf
    <3>2. Better(average[s]) = Ranked
      BY <1>1, <2>1, <2>3, NewRankCountsRanked
    <3> QED BY <3>1, <3>2 DEF Position, Ranked
  <2> QED BY <2>2, <2>3
<1> QED BY <1>2, <1>3

(***************************************************************************)
(* The invariant of the loop.                                              *)
(***************************************************************************)
THEOREM Inductive == Spec => []IndInv
<1>1. Init => IndInv
  BY DEF Init, IndInv, TypeOK, Sorted, LastRanked, RankIsStanding, Ranked
<1>2. ASSUME IndInv, NEW s \in Students, RankNext(s) PROVE IndInv'
  <2>t. /\ TypeOK /\ Sorted /\ LastRanked /\ RankIsStanding
        /\ s \in rest /\ average' = average /\ rest' = rest \ {s}
        /\ \A t \in rest : average[s] >= average[t]
    BY <1>2 DEF IndInv, RankNext
  <2>i. \A t \in Students : average[t] \in Averages /\ average[t] \in Int
    BY <2>t, AveragesAssumption DEF TypeOK
  <2>r. Ranked' = Ranked \cup {s} /\ s \notin Ranked /\ rest' \subseteq rest
        /\ \A a : Better(a)' = Better(a)
    BY <2>t DEF Ranked, Better, TypeOK
  <2>n. RankOf(s) = Cardinality(Better(average[s])) + 1
    BY <1>2, <2>t, RankOfStanding
  <2>c. RankOf(s) \in Nat
    <3>1. Better(average[s]) \in SUBSET Students
      BY DEF Better
    <3> QED BY <2>n, <3>1, Countable
  <2>w. /\ result' = [result EXCEPT ![s] = RankOf(s)] /\ rank' = RankOf(s)
        /\ previous' = {average[s]}
    BY <1>2 DEF RankNext
  <2>1. TypeOK'
    BY <2>t, <2>i, <2>c, <2>w DEF TypeOK
  <2>2. Sorted'
    BY <2>t, <2>r DEF Sorted
  <2>3. LastRanked'
    <3>1. \A q \in Ranked' : average[q] >= average[s]
      BY <2>t, <2>r, <2>i DEF Sorted
    <3>2. \A t \in rest' : average[s] >= average[t]
      BY <2>t
    <3> QED BY <3>1, <3>2, <2>t, <2>r, <2>n, <2>w DEF LastRanked
  <2>4. RankIsStanding'
    <3>1. result'[s] = Cardinality(Better(average[s])) + 1
      BY <2>t, <2>n, <2>w DEF TypeOK
    <3>2. \A q \in Ranked : result'[q] = result[q]
      BY <2>t, <2>r, <2>w DEF TypeOK
    <3> QED BY <3>1, <3>2, <2>t, <2>r DEF RankIsStanding
  <2> QED BY <2>1, <2>2, <2>3, <2>4 DEF IndInv
<1>3. IndInv /\ UNCHANGED vars => IndInv'
  <2> SUFFICES ASSUME IndInv, UNCHANGED vars PROVE IndInv'
    OBVIOUS
  <2>1. Ranked' = Ranked /\ \A a : Better(a)' = Better(a)
    BY DEF vars, Ranked, Better
  <2>2. TypeOK' /\ Sorted'
    BY <2>1 DEF vars, IndInv, TypeOK, Sorted
  <2>3. LastRanked'
    BY <2>1 DEF vars, IndInv, LastRanked
  <2>4. RankIsStanding'
    BY <2>1 DEF vars, IndInv, RankIsStanding
  <2> QED BY <2>2, <2>3, <2>4 DEF IndInv
<1>4. IndInv /\ [Next]_vars => IndInv'
  BY <1>2, <1>3 DEF Next
<1> QED BY <1>1, <1>4, PTL DEF Spec

(***************************************************************************)
(* The comment of rankings(): competitive ranking.  Together with          *)
(* Inductive this says that the loop computes it for every class.          *)
(***************************************************************************)
THEOREM RankIsStandingThm == Spec => []RankIsStanding
<1>1. IndInv => RankIsStanding
  BY DEF IndInv
<1> QED BY <1>1, Inductive, PTL

=============================================================================
