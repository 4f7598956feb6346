-------------------------- MODULE MessageDelivery --------------------------
(***************************************************************************)
(* What the notification queue promises of a message, without runs, claims *)
(* or retry delays: once announced it is tried until a provider takes it,  *)
(* at most as often as allowed; then it is declared sent, which means that *)
(* a provider took it, or failed, when none did at any of the tries, and   *)
(* nothing more comes of it.  Whether a message arrives does not depend on *)
(* what the provider says: one that was taken may get lost, or be dropped  *)
(* (the default provider does), and one that was refused may have arrived; *)
(* but it arrives at most once per try.                                    *)
(***************************************************************************)
EXTENDS Naturals

CONSTANTS Messages, MaxTries

VARIABLES
    fate,      \* unknown, open, sent or failed
    tries,     \* how often it was tried
    took,      \* the messages a provider took
    received   \* how often the recipient got it

vars == <<fate, tries, took, received>>

Init ==
    /\ fate = [n \in Messages |-> "unknown"]
    /\ tries = [n \in Messages |-> 0]
    /\ took = {}
    /\ received = [n \in Messages |-> 0]

Announce(n) ==
    /\ fate[n] = "unknown"
    /\ fate' = [fate EXCEPT ![n] = "open"]
    /\ UNCHANGED <<tries, took, received>>

\* The first try needs no permission; nothing is tried again once it was taken.
Try(n) ==
    /\ fate[n] = "open"
    /\ n \notin took
    /\ tries[n] = 0 \/ tries[n] < MaxTries
    /\ tries' = [tries EXCEPT ![n] = tries[n] + 1]
    /\ UNCHANGED <<fate, took, received>>

\* A try reaches the recipient or not, and is taken or not.
Answer(n) ==
    /\ fate[n] = "open"
    /\ n \notin took
    /\ received[n] < tries[n]
    /\ received' \in {received, [received EXCEPT ![n] = received[n] + 1]}
    /\ took' \in {took, took \cup {n}}
    /\ UNCHANGED <<fate, tries>>

Declare(n) ==
    /\ fate[n] = "open"
    /\ IF n \in took
       THEN fate' = [fate EXCEPT ![n] = "sent"]
       ELSE /\ tries[n] > 0 /\ tries[n] >= MaxTries
            /\ fate' = [fate EXCEPT ![n] = "failed"]
    /\ UNCHANGED <<tries, took, received>>

Next == \E n \in Messages : Announce(n) \/ Try(n) \/ Answer(n) \/ Declare(n)

Spec == Init /\ [][Next]_vars
=============================================================================
