---------------------------- MODULE PupilImport ----------------------------
(***************************************************************************)
(* What an import promises to the director, without requests, chunks, rows *)
(* or counters: a school has one import under way; its lines are prepared  *)
(* at will until the first one is handled; from then on it can no longer   *)
(* be dropped, no line comes back, and it is done only when none waits.    *)
(***************************************************************************)
EXTENDS Naturals

CONSTANTS Imports, Lines

VARIABLES
    stage,    \* how far each import is
    waiting,  \* its lines that are still to be handled
    made      \* how often each line made a pupil

vars == <<stage, waiting, made>>

Init ==
    /\ stage = [b \in Imports |-> "none"]
    /\ waiting = [b \in Imports |-> {}]
    /\ made = [b \in Imports |-> [n \in Lines |-> 0]]

UnderWay(b) == stage[b] \in {"preparing", "writing"}

Begin(b) ==
    /\ stage[b] = "none"
    /\ \A a \in Imports : ~UnderWay(a)
    /\ stage' = [stage EXCEPT ![b] = "preparing"]
    /\ UNCHANGED <<waiting, made>>

Prepare(b) ==
    /\ stage[b] = "preparing"
    /\ \E lines \in SUBSET Lines : waiting' = [waiting EXCEPT ![b] = lines]
    /\ UNCHANGED <<stage, made>>

Drop(b) ==
    /\ stage[b] = "preparing"
    /\ stage' = [stage EXCEPT ![b] = "dropped"]
    /\ waiting' = [waiting EXCEPT ![b] = {}]
    /\ UNCHANGED made

Start(b) ==
    /\ stage[b] = "preparing"
    /\ stage' = [stage EXCEPT ![b] = "writing"]
    /\ UNCHANGED <<waiting, made>>

\* A line is handled once: it makes its pupil or is put aside.
Handle(b, n) ==
    /\ stage[b] = "writing"
    /\ n \in waiting[b]
    /\ waiting' = [waiting EXCEPT ![b] = waiting[b] \ {n}]
    /\ made' \in {made, [made EXCEPT ![b][n] = made[b][n] + 1]}
    /\ UNCHANGED stage

Conclude(b) ==
    /\ stage[b] = "writing"
    /\ waiting[b] = {}
    /\ stage' = [stage EXCEPT ![b] = "done"]
    /\ UNCHANGED <<waiting, made>>

Next ==
    \E b \in Imports :
        \/ Begin(b) \/ Prepare(b) \/ Drop(b) \/ Start(b) \/ Conclude(b)
        \/ \E n \in Lines : Handle(b, n)

Spec == Init /\ [][Next]_vars
=============================================================================
