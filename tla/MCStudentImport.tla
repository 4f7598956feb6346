-------------------------- MODULE MCStudentImport --------------------------
EXTENDS StudentImport, TLC

\* The users are interchangeable: nothing in the module names one of them.
\* Only the runs without a temporal property use it.
Symmetry == Permutations(Requests)

\* Neither does it name one of the files.
FileSymmetry == Permutations(Files)

\* An import whose simulation is over: its first line needs a review, the other
\* ones are ready.
InitPreviewed ==
    /\ batch = [b \in Batches |->
         IF b = 1
         THEN [status |-> "previewed", file |-> CHOOSE f \in Files : TRUE,
               expires |-> "future", created |-> 0, updated |-> 0, wipes |-> MaxWipes]
         ELSE NoBatch]
    /\ row = [b \in Batches |-> [n \in RowNos |->
         IF b = 1
         THEN [NoRow EXCEPT !.status = IF n = 1 THEN "needs_review" ELSE "ready",
                            !.data = TRUE]
         ELSE NoRow]]
    /\ disk = {1}
    /\ req = [r \in Requests |-> Idle]
    /\ pupils = [b \in Batches |-> [n \in RowNos |-> 0]]

SpecPreviewed == InitPreviewed /\ [][Next]_vars /\ ResumedFairness
=============================================================================
