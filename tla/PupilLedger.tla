---------------------------- MODULE PupilLedger ----------------------------
(***************************************************************************)
(* What the payments of a pupil promise, without requests, locks or        *)
(* statuses: every operation happens at once, an invoice is never covered  *)
(* beyond its amount, and what a payment gives back is what it had paid.   *)
(***************************************************************************)
EXTENDS Integers

CONSTANTS Invoices, Payments

VARIABLES
    due,       \* amount of each invoice, 0 before it is issued
    covered,   \* what is paid on each invoice
    share,     \* the part of it that each payment contributes
    posted     \* the payments received

vars == <<due, covered, share, posted>>

Init ==
    /\ due = [i \in Invoices |-> 0]
    /\ covered = [i \in Invoices |-> 0]
    /\ share = [k \in Payments |-> [i \in Invoices |-> 0]]
    /\ posted = {}

Charge(i) ==
    /\ due[i] = 0
    /\ due'[i] > 0
    /\ due' = [due EXCEPT ![i] = due'[i]]
    /\ UNCHANGED <<covered, share, posted>>

\* A payment is received once and split over the invoices.
Receive(k) ==
    /\ k \notin posted
    /\ posted' = posted \cup {k}
    /\ share' = [share EXCEPT ![k] = share'[k]]
    /\ \A i \in Invoices :
        /\ share'[k][i] >= 0
        /\ covered'[i] = covered[i] + share'[k][i]
        /\ covered'[i] <= due[i]
    /\ DOMAIN covered' = Invoices
    /\ UNCHANGED due

GiveBack(k) ==
    /\ k \in posted
    /\ share' = [share EXCEPT ![k] = share'[k]]
    /\ \A i \in Invoices :
        /\ 0 <= share'[k][i]
        /\ share'[k][i] <= share[k][i]
        /\ covered'[i] = covered[i] - (share[k][i] - share'[k][i])
    /\ DOMAIN covered' = Invoices
    /\ UNCHANGED <<due, posted>>

Next ==
    \/ \E i \in Invoices : Charge(i)
    \/ \E k \in Payments : Receive(k) \/ GiveBack(k)

Spec == Init /\ [][Next]_vars
=============================================================================
