------------------------- MODULE NotificationProofs -------------------------
(***************************************************************************)
(* Theorems about NotificationQueue and Reminders, for any number of       *)
(* notifications, runs of the dispatcher, attempts, reminders and          *)
(* processes of the two commands: what the dispatcher promises whatever is *)
(* killed, lost or refused; that the commands and the dispatcher together  *)
(* still behave as NotificationQueue, so that all of this carries over;    *)
(* and that no reminder is lost but by a kill, or enqueued twice.          *)
(***************************************************************************)
EXTENDS Reminders, TLAPS

-----------------------------------------------------------------------------
(* The queue and its dispatcher *)

\* A run that has nothing in hand is well typed.
LEMMA NotRunningType ==
    /\ NotRunning \in RunRecords
    /\ NotRunning.pc = "idle"
    /\ [NotRunning EXCEPT !.pc = "claim"] \in RunRecords
    /\ [NotRunning EXCEPT !.pc = "claim"].pc = "claim"
<1>1. (CHOOSE n \in Notices : TRUE) \in Notices
  BY ConstantsAssumption
<1>2. 0 \in 0 .. RunLimit
  BY ConstantsAssumption
<1>3. NotRunning \in RunRecords
  BY <1>1, <1>2 DEF NotRunning, RunRecords
<1> QED BY <1>3 DEF NotRunning, RunRecords

\* The table, the runs and the history keep their types.
LEMMA TypeStep ==
    ASSUME IndInv, Next
    PROVE  TypeOK'
<1> USE DEF TypeOK
<1>1. ASSUME NEW n \in Notices, Enqueue(n) PROVE TypeOK'
  BY <1>1 DEF IndInv, Enqueue, QueueRecords, QueueStatuses
<1>2. ASSUME NEW n \in Notices, BecomeDue(n) PROVE TypeOK'
  BY <1>2 DEF IndInv, BecomeDue, QueueRecords
<1>3. ASSUME NEW d \in Runs, StartRun(d) PROVE TypeOK'
  BY <1>3, NotRunningType DEF IndInv, StartRun
<1>4. ASSUME NEW d \in Runs, Claim(d) PROVE TypeOK'
  <2>1. PICK n \in Notices :
          /\ queue' = [queue EXCEPT ![n].status = "PROCESSING", ![n].attempts = @ + 1]
          /\ run' = [run EXCEPT ![d].pc = "send", ![d].n = n]
    BY <1>4 DEF Claim
  <2>2. queue' \in [Notices -> QueueRecords]
    BY <2>1 DEF IndInv, QueueRecords, QueueStatuses
  <2>3. run' \in [Runs -> RunRecords]
    BY <2>1 DEF IndInv, RunRecords
  <2> QED BY <1>4, <2>2, <2>3 DEF IndInv, Claim
<1>5. ASSUME NEW d \in Runs, EndRun(d) PROVE TypeOK'
  BY <1>5, NotRunningType DEF IndInv, EndRun
<1>6. ASSUME NEW d \in Runs, Send(d) PROVE TypeOK'
  <2>1. PICK reached \in BOOLEAN, accepted \in BOOLEAN :
          /\ delivered' = [delivered EXCEPT ![run[d].n] = IF reached THEN @ + 1 ELSE @]
          /\ taken' \subseteq taken \cup {run[d].n}
          /\ run' = [run EXCEPT ![d].pc = "record", ![d].accepted = accepted]
    BY <1>6 DEF Send
  <2>2. delivered' \in [Notices -> Nat] /\ taken' \subseteq Notices
    <3>1. run[d].n \in Notices
      BY DEF IndInv, RunRecords
    <3> QED BY <2>1, <3>1 DEF IndInv
  <2>3. run' \in [Runs -> RunRecords]
    BY <2>1 DEF IndInv, RunRecords
  <2> QED BY <1>6, <2>2, <2>3 DEF IndInv, Send
<1>7. ASSUME NEW d \in Runs, Record(d) PROVE TypeOK'
  <2> DEFINE n == run[d].n
  <2> DEFINE s == Outcome(n, run[d].accepted)
  <2>1. /\ queue' = [queue EXCEPT ![n].status = s, ![n].due = (s # "PENDING")]
        /\ run' = [run EXCEPT ![d].pc = "claim", ![d].handled = @ + 1]
        /\ run[d].handled < RunLimit
    BY <1>7 DEF Record, At, IndInv, RunsBounded
  <2>2. s \in QueueStatuses
    BY DEF Outcome, QueueStatuses
  <2>3. queue' \in [Notices -> QueueRecords]
    BY <2>1, <2>2 DEF IndInv, QueueRecords
  <2>4. run' \in [Runs -> RunRecords]
    BY <2>1, ConstantsAssumption DEF IndInv, RunRecords
  <2> QED BY <1>7, <2>3, <2>4 DEF IndInv, Record
<1>8. ASSUME NEW d \in Runs, Kill(d) PROVE TypeOK'
  BY <1>8, NotRunningType DEF IndInv, Kill, RunRecords
<1> QED
  BY <1>1, <1>2, <1>3, <1>4, <1>5, <1>6, <1>7, <1>8 DEF Next, RunStep

\* A step that neither touches a notification nor leaves a run with one that it
\* did not have in hand before preserves every fact about notifications.
LEMMA RunEnds ==
    ASSUME IndInv, NEW d \in Runs, NEW x \in RunRecords, x.pc \in {"idle", "claim"},
           run' = [run EXCEPT ![d] = x], UNCHANGED <<queue, delivered, taken>>, TypeOK'
    PROVE  IndInv'
<1>1. \A e \in Runs : e # d => run'[e] = run[e]
  BY DEF IndInv, TypeOK
<1>2. run'[d] = x
  BY DEF IndInv, TypeOK
<1>3. \A e \in Runs, n \in Notices : InHand(e, n)' => InHand(e, n) /\ e # d
  BY <1>1, <1>2 DEF InHand
<1>4. OneHandler'
  BY <1>3 DEF IndInv, OneHandler
<1>5. RunsBounded'
  BY <1>1, <1>2 DEF IndInv, RunsBounded
<1>6. AttemptsLeft'
  BY <1>1, <1>2, <1>3 DEF IndInv, AttemptsLeft, At
<1>7. AnswersKept'
  BY <1>1, <1>2 DEF IndInv, AnswersKept, At
<1>8. AttemptsBounded' /\ OutcomesTruthful'
  BY DEF IndInv, AttemptsBounded, OutcomesTruthful
<1> QED BY <1>4, <1>5, <1>6, <1>7, <1>8 DEF IndInv

\* The step of a notification that waits: the runs have nothing to do with it.
LEMMA WaitStep ==
    ASSUME IndInv, TypeOK', NEW n \in Notices, Enqueue(n) \/ BecomeDue(n)
    PROVE  IndInv'
<1>1. /\ queue[n].status \in {"none", "PENDING"}
      /\ queue'[n].status = "PENDING"
      /\ queue'[n].attempts = queue[n].attempts
      /\ \A m \in Notices : m # n => queue'[m] = queue[m]
      /\ UNCHANGED <<run, delivered, taken>>
  BY DEF Enqueue, BecomeDue, IndInv, TypeOK, AttemptsLeft, QueueRecords
<1>2. \A d \in Runs : ~InHand(d, n)
  BY <1>1 DEF IndInv, OneHandler
<1>3. OneHandler'
  BY <1>1, <1>2 DEF IndInv, OneHandler, InHand
<1>4. RunsBounded' /\ AnswersKept'
  BY <1>1 DEF IndInv, RunsBounded, AnswersKept, At
<1>5. AttemptsLeft'
  BY <1>1, <1>2 DEF IndInv, AttemptsLeft, InHand, At
<1>6. AttemptsBounded' /\ OutcomesTruthful'
  BY <1>1 DEF IndInv, AttemptsBounded, OutcomesTruthful
<1> QED BY <1>3, <1>4, <1>5, <1>6 DEF IndInv

\* A claim takes a notification that no run has in hand.
LEMMA ClaimStep ==
    ASSUME IndInv, TypeOK', NEW d \in Runs, Claim(d)
    PROVE  IndInv'
<1>1. PICK n \in Notices :
        /\ queue[n].status = "PENDING"
        /\ queue' = [queue EXCEPT ![n].status = "PROCESSING", ![n].attempts = @ + 1]
        /\ run' = [run EXCEPT ![d].pc = "send", ![d].n = n]
  BY DEF Claim, Claimable
<1>2. /\ queue'[n].status = "PROCESSING"
      /\ queue'[n].attempts = queue[n].attempts + 1
      /\ \A m \in Notices : m # n => queue'[m] = queue[m]
      /\ run'[d].pc = "send" /\ run'[d].n = n /\ run'[d].handled = run[d].handled
      /\ \A e \in Runs : e # d => run'[e] = run[e]
      /\ delivered' = delivered /\ taken' = taken
      /\ run[d].pc = "claim" /\ run[d].handled < RunLimit
  BY <1>1 DEF Claim, At, IndInv, TypeOK, QueueRecords, RunRecords
<1>3. /\ queue[n].attempts \in Nat /\ delivered[n] \in Nat
      /\ \A e \in Runs : ~InHand(e, n)
  BY <1>1 DEF IndInv, TypeOK, OneHandler, QueueRecords
<1>4. \A e \in Runs, m \in Notices :
        InHand(e, m)' <=> IF e = d THEN m = n ELSE InHand(e, m)
  BY <1>2 DEF InHand
<1>5. OneHandler'
  BY <1>2, <1>3, <1>4 DEF IndInv, OneHandler
<1>6. RunsBounded'
  BY <1>2 DEF IndInv, RunsBounded
<1>7. AttemptsBounded'
  <2>1. /\ delivered[n] <= queue[n].attempts + 1
        /\ queue[n].attempts + 1 <= MaxAttempts \/ queue[n].attempts + 1 <= 1
    BY <1>1, <1>3, ConstantsAssumption DEF IndInv, AttemptsLeft
  <2> QED BY <1>2, <2>1 DEF IndInv, AttemptsBounded
<1>8. AttemptsLeft'
  <2>1. delivered[n] < queue[n].attempts + 1
    BY <1>1, <1>3 DEF IndInv, AttemptsLeft
  <2> QED BY <1>2, <1>3, <1>4, <2>1 DEF IndInv, AttemptsLeft, At
<1>9. AnswersKept' /\ OutcomesTruthful'
  <2>1. n \notin taken
    BY <1>1 DEF IndInv, OutcomesTruthful
  <2> QED BY <1>2, <2>1 DEF IndInv, AnswersKept, OutcomesTruthful, At
<1> QED BY <1>5, <1>6, <1>7, <1>8, <1>9 DEF IndInv

\* The provider delivers at most once more, which the attempt has paid for, and
\* what it takes nobody had taken.
LEMMA SendStep ==
    ASSUME IndInv, TypeOK', NEW d \in Runs, Send(d)
    PROVE  IndInv'
<1> DEFINE n == run[d].n
<1>1. PICK reached \in BOOLEAN, accepted \in BOOLEAN :
        /\ delivered' = [delivered EXCEPT ![n] = IF reached THEN @ + 1 ELSE @]
        /\ taken' = IF accepted THEN taken \cup {n} ELSE taken
        /\ run' = [run EXCEPT ![d].pc = "record", ![d].accepted = accepted]
  BY DEF Send
<1>2. n \in Notices /\ delivered[n] \in Nat /\ run[d].pc = "send" /\ queue' = queue
  BY DEF Send, At, IndInv, TypeOK, RunRecords
<1>3. /\ run'[d].pc = "record" /\ run'[d].n = n /\ run'[d].accepted = accepted
      /\ run'[d].handled = run[d].handled
      /\ \A e \in Runs : e # d => run'[e] = run[e]
  BY <1>1 DEF IndInv, TypeOK, RunRecords
<1>4. /\ delivered'[n] \in {delivered[n], delivered[n] + 1}
      /\ \A m \in Notices : m # n => delivered'[m] = delivered[m]
  BY <1>1, <1>2 DEF IndInv, TypeOK
<1>5. /\ delivered[n] < queue[n].attempts
      /\ queue[n].status = "PROCESSING"
      /\ queue[n].attempts \in Nat
      /\ \A e \in Runs : InHand(e, n) => e = d
  <2>1. InHand(d, n)
    BY <1>2 DEF InHand
  <2> QED BY <1>2, <2>1 DEF IndInv, TypeOK, OneHandler, AttemptsLeft, At, QueueRecords
<1>6. \A e \in Runs, m \in Notices : InHand(e, m)' <=> InHand(e, m)
  BY <1>2, <1>3 DEF InHand
<1>7. OneHandler'
  BY <1>2, <1>6 DEF IndInv, OneHandler
<1>8. RunsBounded'
  BY <1>2, <1>3 DEF IndInv, RunsBounded
<1>9. AttemptsBounded'
  BY <1>2, <1>4, <1>5 DEF IndInv, AttemptsBounded
<1>10. AttemptsLeft'
  BY <1>2, <1>3, <1>4, <1>5, <1>6 DEF IndInv, AttemptsLeft, At
<1>11. AnswersKept'
  <2>1. n \in taken' <=> accepted
    BY <1>1, <1>2 DEF IndInv, AnswersKept, At
  <2>2. ASSUME NEW e \in Runs, e # d, run[e].pc \in {"send", "record"}
        PROVE  run'[e] = run[e] /\ (run[e].n \in taken' <=> run[e].n \in taken)
    <3>1. run[e].n # n
      BY <1>5, <2>2 DEF InHand
    <3> QED BY <1>1, <1>3, <2>2, <3>1
  <2> QED BY <1>3, <2>1, <2>2 DEF IndInv, AnswersKept, At
<1>12. OutcomesTruthful'
  BY <1>1, <1>2, <1>5 DEF IndInv, OutcomesTruthful
<1> QED BY <1>7, <1>8, <1>9, <1>10, <1>11, <1>12 DEF IndInv

\* The outcome is the notification's alone, and the run lets go of it.
LEMMA RecordStep ==
    ASSUME IndInv, TypeOK', NEW d \in Runs, Record(d)
    PROVE  IndInv'
<1> DEFINE n == run[d].n
<1> DEFINE s == Outcome(n, run[d].accepted)
<1>1. /\ queue' = [queue EXCEPT ![n].status = s, ![n].due = (s # "PENDING")]
      /\ run' = [run EXCEPT ![d].pc = "claim", ![d].handled = @ + 1]
      /\ delivered' = delivered /\ taken' = taken /\ run[d].pc = "record" /\ n \in Notices
  BY DEF Record, At, IndInv, TypeOK, RunRecords
<1>2. /\ queue'[n].status = s /\ queue'[n].attempts = queue[n].attempts
      /\ \A m \in Notices : m # n => queue'[m] = queue[m]
      /\ run'[d].pc = "claim"
      /\ \A e \in Runs : e # d => run'[e] = run[e]
  BY <1>1 DEF IndInv, TypeOK, QueueRecords, RunRecords
<1>3. \A e \in Runs : InHand(e, n) => e = d
  BY <1>1 DEF IndInv, OneHandler, InHand
<1>4. \A e \in Runs, m \in Notices :
        InHand(e, m)' <=> e # d /\ InHand(e, m)
  BY <1>2 DEF InHand
<1>5. /\ s \in {"SENT", "FAILED", "PENDING"}
      /\ s = "SENT" <=> n \in taken
      /\ s = "FAILED" => queue[n].attempts >= MaxAttempts
      /\ s = "PENDING" => ~(queue[n].attempts >= MaxAttempts)
  BY <1>1 DEF Outcome, Exhausted, IndInv, AnswersKept, At
<1>6. OneHandler'
  BY <1>2, <1>3, <1>4 DEF IndInv, OneHandler
<1>7. RunsBounded' /\ AttemptsBounded'
  BY <1>1, <1>2 DEF IndInv, RunsBounded, AttemptsBounded
<1>8. AttemptsLeft'
  <2>1. queue[n].attempts \in Nat /\ delivered[n] <= queue[n].attempts
    BY <1>1 DEF IndInv, TypeOK, QueueRecords, AttemptsBounded
  <2>2. s = "PENDING" => queue[n].attempts < MaxAttempts
    BY <1>5, <2>1, ConstantsAssumption
  <2>3. s # "none"
    BY <1>5
  <2> QED BY <1>1, <1>2, <1>4, <2>1, <2>2, <2>3 DEF IndInv, AttemptsLeft, At
<1>9. AnswersKept'
  <2>1. ASSUME NEW e \in Runs, e # d
        PROVE  run'[e] = run[e] /\ taken' = taken
    BY <1>1, <1>2, <2>1
  <2>2. run'[d].pc = "claim"
    BY <1>2
  <2> QED BY <2>1, <2>2 DEF IndInv, AnswersKept, At
<1>10. OutcomesTruthful'
  BY <1>1, <1>2, <1>5 DEF IndInv, OutcomesTruthful
<1> QED BY <1>6, <1>7, <1>8, <1>9, <1>10 DEF IndInv

-----------------------------------------------------------------------------
(* Theorems *)

\* An empty table and idle runs satisfy the invariant.
LEMMA InitHolds == Init => IndInv
<1> SUFFICES ASSUME Init PROVE IndInv
  OBVIOUS
<1>1. TypeOK
  BY NotRunningType DEF Init, TypeOK, Absent, QueueRecords, QueueStatuses
<1>2. \A n \in Notices : queue[n].status = "none" /\ queue[n].attempts = 0
                         /\ delivered[n] = 0 /\ n \notin taken
  BY DEF Init, Absent
<1>3. \A d \in Runs : run[d].pc = "idle"
  BY NotRunningType DEF Init
<1> QED
  BY <1>1, <1>2, <1>3, ConstantsAssumption
     DEF IndInv, RunsBounded, OneHandler, InHand, AttemptsBounded, AttemptsLeft,
         AnswersKept, OutcomesTruthful, At

\* Every step keeps it.
LEMMA NextKeeps == IndInv /\ [Next]_vars => IndInv'
<1>1. ASSUME IndInv, UNCHANGED vars PROVE IndInv'
  BY <1>1 DEF vars, IndInv, TypeOK, RunsBounded, OneHandler, InHand, AttemptsBounded,
              AttemptsLeft, AnswersKept, OutcomesTruthful, At
<1>2. ASSUME IndInv, Next PROVE IndInv'
  <2>1. TypeOK'
    BY <1>2, TypeStep
  <2>2. ASSUME NEW n \in Notices, Enqueue(n) \/ BecomeDue(n) PROVE IndInv'
    BY <1>2, <2>1, <2>2, WaitStep
  <2>3. ASSUME NEW d \in Runs, StartRun(d) PROVE IndInv'
    BY <1>2, <2>1, <2>3, RunEnds, NotRunningType DEF StartRun
  <2>4. ASSUME NEW d \in Runs, EndRun(d) \/ Kill(d) PROVE IndInv'
    BY <1>2, <2>1, <2>4, RunEnds, NotRunningType DEF EndRun, Kill
  <2>5. ASSUME NEW d \in Runs, Claim(d) PROVE IndInv'
    BY <1>2, <2>1, <2>5, ClaimStep
  <2>6. ASSUME NEW d \in Runs, Send(d) PROVE IndInv'
    BY <1>2, <2>1, <2>6, SendStep
  <2>7. ASSUME NEW d \in Runs, Record(d) PROVE IndInv'
    BY <1>2, <2>1, <2>7, RecordStep
  <2> QED BY <1>2, <2>2, <2>3, <2>4, <2>5, <2>6, <2>7 DEF Next, RunStep
<1> QED BY <1>1, <1>2

\* The inductive invariant: a notification in hand is PROCESSING and in one hand
\* only, and a delivery that may still come is within the attempts counted.
THEOREM Inductive == Spec => []IndInv
BY InitHolds, NextKeeps, PTL DEF Spec

\* However many runs overlap, a notification is in one hand only.
THEOREM OneHandlerThm == Spec => []OneHandler
<1>1. IndInv => OneHandler
  BY DEF IndInv
<1> QED BY Inductive, <1>1, PTL

\* Whatever answers are lost and whichever runs die, nobody gets a message more
\* often than configured (once, if nothing is configured).
THEOREM AttemptsBoundedThm == Spec => []AttemptsBounded
<1>1. IndInv => AttemptsBounded
  BY DEF IndInv
<1> QED BY Inductive, <1>1, PTL

\* What the queue says of a message is what the providers answered: sent means
\* that one took it, failed that none did, and one that was taken is never sent
\* again, whatever runs overlap and die.
THEOREM OutcomesTruthfulThm == Spec => []OutcomesTruthful
<1>1. IndInv => OutcomesTruthful
  BY DEF IndInv
<1> QED BY Inductive, <1>1, PTL

-----------------------------------------------------------------------------
(* The delivery a recipient is promised *)

LEMMA FateFacts ==
    /\ Fate("none") = "unknown" /\ Fate("PENDING") = "open" /\ Fate("PROCESSING") = "open"
    /\ Fate("SENT") = "sent" /\ Fate("FAILED") = "failed"
BY DEF Fate

\* A notification is claimed by an attempt.
LEMMA TriedStep ==
    ASSUME IndInv, ClaimedTried, [Next]_vars
    PROVE  ClaimedTried'
<1>0. queue \in [Notices -> QueueRecords] /\ \A d \in Runs : run[d].n \in Notices
  BY DEF IndInv, TypeOK, RunRecords
<1>1. CASE queue' = queue
  BY <1>1 DEF ClaimedTried
<1>2. ASSUME NEW n \in Notices, Enqueue(n) \/ BecomeDue(n) PROVE ClaimedTried'
  BY <1>0, <1>2 DEF ClaimedTried, Enqueue, BecomeDue, QueueRecords
<1>3. ASSUME NEW d \in Runs, Claim(d) PROVE ClaimedTried'
  <2>1. PICK n \in Notices :
          queue' = [queue EXCEPT ![n].status = "PROCESSING", ![n].attempts = @ + 1]
    BY <1>3 DEF Claim
  <2> QED BY <1>0, <2>1 DEF ClaimedTried, QueueRecords
<1>4. ASSUME NEW d \in Runs, Record(d) PROVE ClaimedTried'
  <2> DEFINE s == Outcome(run[d].n, run[d].accepted)
  <2>1. s # "PROCESSING"
    BY DEF Outcome
  <2>2. queue' = [queue EXCEPT ![run[d].n].status = s, ![run[d].n].due = (s # "PENDING")]
    BY <1>4 DEF Record
  <2> HIDE DEF s
  <2> QED BY <1>0, <2>1, <2>2 DEF ClaimedTried, QueueRecords
<1> QED BY <1>1, <1>2, <1>3, <1>4 DEF Next, RunStep, StartRun, EndRun, Send, Kill, vars

\* A step that moves one notification moves one message.
LEMMA MessageSeen ==
    ASSUME TypeOK, TypeOK', NEW n \in Notices,
           \A m \in Notices \ {n} : queue'[m].status = queue[m].status
                                     /\ queue'[m].attempts = queue[m].attempts
                                     /\ delivered'[m] = delivered[m]
    PROVE  /\ [m \in Notices |-> Fate(queue'[m].status)] =
                [[m \in Notices |-> Fate(queue[m].status)] EXCEPT ![n] = Fate(queue'[n].status)]
           /\ [m \in Notices |-> queue'[m].attempts] =
                [[m \in Notices |-> queue[m].attempts] EXCEPT ![n] = queue'[n].attempts]
           /\ delivered' = [delivered EXCEPT ![n] = delivered'[n]]
BY DEF TypeOK

LEMMA DeliveryStutters ==
    ASSUME IndInv, IndInv', delivered' = delivered, taken' = taken,
           \A n \in Notices : /\ Fate(queue'[n].status) = Fate(queue[n].status)
                              /\ queue'[n].attempts = queue[n].attempts
    PROVE  UNCHANGED Delivery!vars
BY DEF Delivery!vars

\* Every step of the queue is a step of a delivery, or none.
LEMMA QueueRefines ==
    ASSUME IndInv, IndInv', ClaimedTried, [Next]_vars
    PROVE  [Delivery!Next]_(Delivery!vars)
<1>0. /\ queue \in [Notices -> QueueRecords] /\ delivered \in [Notices -> Nat]
      /\ \A d \in Runs : run[d].n \in Notices
      /\ TypeOK /\ TypeOK'
  BY DEF IndInv, TypeOK, RunRecords
<1>1. CASE queue' = queue /\ delivered' = delivered /\ taken' = taken
  BY <1>1, DeliveryStutters
<1>2. ASSUME NEW n \in Notices, Enqueue(n) PROVE [Delivery!Next]_(Delivery!vars)
  <2>1. /\ queue[n].status = "none" /\ queue'[n].status = "PENDING"
        /\ queue'[n].attempts = 0 /\ delivered' = delivered /\ taken' = taken
        /\ \A m \in Notices \ {n} : queue'[m] = queue[m]
    BY <1>0, <1>2 DEF Enqueue
  <2>2. queue[n].attempts = 0
    BY <2>1 DEF IndInv, AttemptsLeft
  <2>3. \A m \in Notices : queue'[m].attempts = queue[m].attempts
    BY <2>1, <2>2
  <2>4. [m \in Notices |-> queue'[m].attempts] = [m \in Notices |-> queue[m].attempts]
    BY <2>3
  <2>5. [m \in Notices |-> Fate(queue'[m].status)] =
          [[m \in Notices |-> Fate(queue[m].status)] EXCEPT ![n] = Fate(queue'[n].status)]
    BY <1>0, <2>1, <2>3, MessageSeen
  <2>6. Delivery!Announce(n)
    BY <2>1, <2>4, <2>5, FateFacts DEF Delivery!Announce
  <2> QED BY <2>6 DEF Delivery!Next
<1>3. ASSUME NEW n \in Notices, BecomeDue(n) PROVE [Delivery!Next]_(Delivery!vars)
  <2>1. /\ delivered' = delivered /\ taken' = taken
        /\ \A m \in Notices : queue'[m].status = queue[m].status
                               /\ queue'[m].attempts = queue[m].attempts
    BY <1>0, <1>3 DEF BecomeDue, QueueRecords
  <2> QED BY <2>1, DeliveryStutters
<1>4. ASSUME NEW d \in Runs, Claim(d) PROVE [Delivery!Next]_(Delivery!vars)
  <2>1. PICK n \in Notices :
          /\ queue[n].status = "PENDING"
          /\ queue' = [queue EXCEPT ![n].status = "PROCESSING", ![n].attempts = @ + 1]
    BY <1>4 DEF Claim, Claimable
  <2>2. /\ queue'[n].status = "PROCESSING" /\ queue'[n].attempts = queue[n].attempts + 1
        /\ delivered' = delivered /\ taken' = taken
        /\ \A m \in Notices \ {n} : queue'[m] = queue[m]
    BY <1>0, <1>4, <2>1 DEF Claim, QueueRecords
  <2>3. n \notin taken /\ (queue[n].attempts = 0 \/ queue[n].attempts < MaxAttempts)
    BY <2>1 DEF IndInv, AttemptsLeft, OutcomesTruthful
  <2>4. [m \in Notices |-> Fate(queue'[m].status)] = [m \in Notices |-> Fate(queue[m].status)]
    <3>1. \A m \in Notices : Fate(queue'[m].status) = Fate(queue[m].status)
      BY <2>1, <2>2, FateFacts
    <3> QED BY <3>1
  <2>5. [m \in Notices |-> queue'[m].attempts] =
          [[m \in Notices |-> queue[m].attempts] EXCEPT ![n] = queue'[n].attempts]
    BY <1>0, <2>2, MessageSeen
  <2>6. Delivery!Try(n)
    BY <2>1, <2>2, <2>3, <2>4, <2>5, FateFacts DEF Delivery!Try
  <2> QED BY <2>6 DEF Delivery!Next
<1>5. ASSUME NEW d \in Runs, Send(d) PROVE [Delivery!Next]_(Delivery!vars)
  <2> DEFINE n == run[d].n
  <2>1. /\ n \in Notices /\ queue' = queue
        /\ delivered' \in {delivered, [delivered EXCEPT ![n] = delivered[n] + 1]}
        /\ taken' \in {taken, taken \cup {n}}
    BY <1>0, <1>5 DEF Send
  <2>2. /\ queue[n].status = "PROCESSING" /\ delivered[n] < queue[n].attempts
        /\ n \notin taken
    BY <1>5, <2>1 DEF Send, At, InHand, IndInv, OneHandler, AttemptsLeft, AnswersKept
  <2>3. Delivery!Answer(n)
    BY <2>1, <2>2, FateFacts DEF Delivery!Answer
  <2> QED BY <2>1, <2>3 DEF Delivery!Next
<1>6. ASSUME NEW d \in Runs, Record(d) PROVE [Delivery!Next]_(Delivery!vars)
  <2> DEFINE n == run[d].n
             s == Outcome(n, run[d].accepted)
  <2>1. /\ n \in Notices /\ delivered' = delivered /\ taken' = taken
        /\ queue' = [queue EXCEPT ![n].status = s, ![n].due = (s # "PENDING")]
    BY <1>0, <1>6 DEF Record
  <2>2. /\ queue'[n].status = s /\ \A m \in Notices : queue'[m].attempts = queue[m].attempts
        /\ \A m \in Notices \ {n} : queue'[m] = queue[m]
    BY <1>0, <2>1 DEF QueueRecords
  <2>3. queue[n].status = "PROCESSING" /\ queue[n].attempts > 0
    BY <1>6, <2>1 DEF Record, At, InHand, IndInv, OneHandler, ClaimedTried
  <2>4. /\ s \in {"SENT", "FAILED", "PENDING"}
        /\ s = "SENT" <=> n \in taken
        /\ s = "FAILED" => queue[n].attempts >= MaxAttempts
    BY <1>6 DEF Record, Outcome, Exhausted, IndInv, AnswersKept, At
  <2> HIDE DEF s
  <2>5. CASE s = "PENDING"
    BY <2>1, <2>2, <2>3, <2>5, FateFacts, DeliveryStutters
  <2>6. CASE s # "PENDING"
    <3>1. [m \in Notices |-> queue'[m].attempts] = [m \in Notices |-> queue[m].attempts]
      BY <2>2
    <3>2. [m \in Notices |-> Fate(queue'[m].status)] =
            [[m \in Notices |-> Fate(queue[m].status)] EXCEPT ![n] = Fate(s)]
      BY <1>0, <2>1, <2>2, MessageSeen
    <3>3. Delivery!Declare(n)
      BY <2>1, <2>3, <2>4, <2>6, <3>1, <3>2, FateFacts DEF Delivery!Declare
    <3> QED BY <2>1, <3>3 DEF Delivery!Next
  <2> QED BY <2>5, <2>6
<1> QED
  BY <1>1, <1>2, <1>3, <1>4, <1>5, <1>6 DEF Next, RunStep, StartRun, EndRun, Kill, vars

(***************************************************************************)
(* Whatever runs overlap and die and whatever answers are lost, a message  *)
(* is treated as promised (NotificationService::dispatchPending): tried    *)
(* within the limit and not again once a provider took it, received at     *)
(* most once per try, declared sent if it was taken and failed if no try   *)
(* was, and left alone from then on.                                       *)
(***************************************************************************)
THEOREM ImplementsDeliveryThm == Spec => ImplementsDelivery
<1>1. Init => ClaimedTried
  BY DEF Init, ClaimedTried, Absent
<1>2. Init => Delivery!Init
  BY FateFacts DEF Init, Delivery!Init, Absent
<1>3. Spec => []ClaimedTried
  BY <1>1, TriedStep, Inductive, PTL DEF Spec
<1> QED BY <1>2, <1>3, QueueRefines, Inductive, PTL DEF Spec, ImplementsDelivery, Delivery!Spec

-----------------------------------------------------------------------------
(* The commands that fill the queue *)

\* A process that has nothing in hand is well typed.
LEMMA WaitingType ==
    /\ Waiting \in JobRecords /\ Waiting.pc = "waiting"
    /\ Ended \in JobRecords /\ Ended.pc = "ended"
<1>1. (CHOOSE n \in Notices : TRUE) \in Notices
  BY ConstantsAssumption
<1> QED BY <1>1 DEF Waiting, Ended, JobRecords

\* The dispatcher never takes a notification out of the table.
LEMMA StatusKept ==
    ASSUME TypeOK, QueueStep, NEW n \in Notices, queue[n].status # "none"
    PROVE  queue'[n].status # "none"
<1>1. CASE \E m \in Notices \ Reminders : Enqueue(m)
  BY <1>1 DEF Enqueue, TypeOK, QueueRecords
<1>2. CASE \E m \in Notices : BecomeDue(m)
  BY <1>2 DEF BecomeDue, TypeOK, QueueRecords
<1>3. ASSUME NEW d \in Runs, RunStep(d) PROVE queue'[n].status # "none"
  <2>1. CASE StartRun(d)
    BY <2>1 DEF StartRun
  <2>2. CASE Claim(d)
    BY <2>2 DEF Claim, TypeOK, QueueRecords
  <2>3. CASE EndRun(d)
    BY <2>3 DEF EndRun
  <2>4. CASE Send(d)
    BY <2>4 DEF Send
  <2>5. CASE Record(d)
    <3>1. Outcome(run[d].n, run[d].accepted) # "none"
      BY DEF Outcome
    <3> QED BY <2>5, <3>1 DEF Record, TypeOK, QueueRecords
  <2>6. CASE Kill(d)
    BY <2>6 DEF Kill
  <2> QED BY <1>3, <2>1, <2>2, <2>3, <2>4, <2>5, <2>6 DEF RunStep
<1> QED BY <1>1, <1>2, <1>3 DEF QueueStep

\* The dispatcher and the other callers leave the keys of reminders alone.
LEMMA KeysKept ==
    ASSUME IndInv, QueueStep, NEW n \in Reminders, queue[n].status = "none"
    PROVE  queue'[n].status = "none"
<1>n. n \in Notices
  BY RemindersAssumption
<1>1. CASE \E m \in Notices \ Reminders : Enqueue(m)
  BY <1>1, <1>n DEF Enqueue, IndInv, TypeOK, QueueRecords
<1>2. CASE \E m \in Notices : BecomeDue(m)
  BY <1>2, <1>n DEF BecomeDue, IndInv, TypeOK, QueueRecords
<1>3. ASSUME NEW d \in Runs, RunStep(d) PROVE queue'[n].status = "none"
  <2>1. CASE StartRun(d)
    BY <2>1 DEF StartRun
  <2>2. CASE Claim(d)
    BY <2>2, <1>n DEF Claim, Claimable, IndInv, TypeOK, QueueRecords
  <2>3. CASE EndRun(d)
    BY <2>3 DEF EndRun
  <2>4. CASE Send(d)
    BY <2>4 DEF Send
  <2>5. CASE Record(d)
    <3>1. run[d].n \in Notices /\ run[d].pc = "record"
      BY <2>5 DEF Record, At, IndInv, TypeOK, RunRecords
    <3>2. queue[run[d].n].status = "PROCESSING"
      BY <3>1 DEF IndInv, OneHandler, InHand
    <3>3. run[d].n # n
      BY <3>2
    <3> QED BY <2>5, <3>1, <3>3, <1>n DEF Record, IndInv, TypeOK, QueueRecords
  <2>6. CASE Kill(d)
    BY <2>6 DEF Kill
  <2> QED BY <1>3, <2>1, <2>2, <2>3, <2>4, <2>5, <2>6 DEF RunStep
<1> QED BY <1>1, <1>2, <1>3 DEF QueueStep

\* Steps of the dispatcher and of the other callers.
LEMMA QueueStepKeeps ==
    ASSUME IndInv, DayInv, QueueStep
    PROVE  DayInv'
<1>u. UNCHANGED <<owed, reminder, job, lost, crashed>>
  BY DEF QueueStep, reminderVars
<1>r. Reminders \subseteq Notices
  BY RemindersAssumption
<1>1. DayTypes'
  BY <1>u DEF DayInv, DayTypes
<1>2. HandsSound'
  BY <1>u DEF DayInv, HandsSound, JobAt
<1>3. KeysReserved'
  BY <1>u, KeysKept DEF DayInv, KeysReserved
<1>4. RemindersQueued'
  <2> SUFFICES ASSUME NEW n \in reminder, queue'[n].status = "none"
      PROVE n \in lost \/ \E j \in Jobs : job[j].pc = "queue" /\ job[j].n = n
    BY <1>u DEF RemindersQueued, JobAt
  <2>1. n \in Notices
    BY <1>r DEF DayInv, DayTypes
  <2>2. queue[n].status = "none"
    BY <2>1, StatusKept DEF IndInv
  <2> QED BY <2>2 DEF DayInv, RemindersQueued, JobAt
<1>5. RemindedOnce'
  <2> SUFFICES ASSUME NEW j \in Jobs, job[j].pc = "queue" PROVE queue'[job[j].n].status = "none"
    BY <1>u DEF DayInv, RemindedOnce, JobAt
  <2>1. job[j].n \in Reminders /\ queue[job[j].n].status = "none"
    BY DEF DayInv, RemindedOnce, HandsSound, JobAt
  <2> QED BY <2>1, KeysKept
<1> QED BY <1>1, <1>2, <1>3, <1>4, <1>5 DEF DayInv

\* Steps of a process that neither insert nor enqueue, nor end with a reminder
\* that is recorded and not enqueued.
LEMMA ScanKeeps ==
    ASSUME DayInv, NEW j \in Jobs, UNCHANGED <<vars, reminder>>,
           owed' \in [Reminders -> BOOLEAN],
           NEW x \in JobRecords, job' = [job EXCEPT ![j] = x],
           x.pc # "queue", x.pc = "insert" => x.n \in Reminders,
           lost \subseteq lost', job[j].pc = "queue" => job[j].n \in lost'
    PROVE  DayInv'
<1>j. job \in [Jobs -> JobRecords] /\ queue' = queue /\ reminder' = reminder
  BY DEF DayInv, DayTypes, vars
<1>k. \A k \in Jobs : job'[k] = IF k = j THEN x ELSE job[k]
  BY <1>j
<1>1. DayTypes'
  BY <1>j DEF DayInv, DayTypes
<1>2. HandsSound'
  BY <1>j, <1>k DEF DayInv, HandsSound, JobAt
<1>3. KeysReserved'
  BY <1>j DEF DayInv, KeysReserved
<1>4. RemindersQueued'
  BY <1>j, <1>k DEF DayInv, RemindersQueued, JobAt
<1>5. RemindedOnce'
  BY <1>j, <1>k DEF DayInv, RemindedOnce, JobAt
<1> QED BY <1>1, <1>2, <1>3, <1>4, <1>5 DEF DayInv

\* The insertion: who finds the reminder new has it alone in hand.
LEMMA InsertKeeps ==
    ASSUME DayInv, NEW j \in Jobs, InsertReminder(j)
    PROVE  DayInv'
<1> DEFINE n == job[j].n
<1>i. /\ job[j].pc = "insert" /\ reminder' = reminder \cup {n}
      /\ job' = [job EXCEPT ![j].pc = AfterInsert(n)]
      /\ queue' = queue /\ owed' = owed /\ lost' = lost
  BY DEF InsertReminder, JobAt, vars
<1>t. job \in [Jobs -> JobRecords] /\ n \in Reminders /\ n \in Notices
  BY <1>i, RemindersAssumption DEF DayInv, DayTypes, HandsSound
<1>a. AfterInsert(n) \in {"scan", "queue"} /\ (AfterInsert(n) = "queue" <=> n \notin reminder)
  BY DEF AfterInsert
<1>k. /\ \A k \in Jobs : k # j => job'[k] = job[k]
      /\ job'[j].n = n /\ job'[j].pc = AfterInsert(n)
  BY <1>i, <1>t DEF JobRecords
<1>n. n \notin reminder => queue[n].status = "none"
  BY <1>t DEF DayInv, KeysReserved
<1>o. \A k \in Jobs : job[k].pc = "queue" => job[k].n \in reminder
  BY DEF DayInv, HandsSound, JobAt
<1>1. DayTypes'
  <2>1. job' \in [Jobs -> JobRecords]
    BY <1>i, <1>t, <1>a DEF JobRecords
  <2> QED BY <2>1, <1>i, <1>t DEF DayInv, DayTypes
<1>2. HandsSound'
  <2> SUFFICES ASSUME NEW k \in Jobs
      PROVE /\ job'[k].pc \in {"insert", "queue"} => job'[k].n \in Reminders
            /\ job'[k].pc = "queue" => job'[k].n \in reminder'
    BY DEF HandsSound, JobAt
  <2>1. CASE k = j
    BY <2>1, <1>i, <1>k, <1>t
  <2>2. CASE k # j
    BY <2>2, <1>i, <1>k DEF DayInv, HandsSound, JobAt
  <2> QED BY <2>1, <2>2
<1>3. KeysReserved'
  BY <1>i DEF DayInv, KeysReserved
<1>4. RemindersQueued'
  <2> SUFFICES ASSUME NEW m \in reminder'
      PROVE \/ queue[m].status # "none" \/ m \in lost
            \/ \E k \in Jobs : job'[k].pc = "queue" /\ job'[k].n = m
    BY <1>i DEF RemindersQueued, JobAt
  <2>1. CASE m \in reminder
    <3>1. \/ queue[m].status # "none" \/ m \in lost
          \/ \E k \in Jobs : job[k].pc = "queue" /\ job[k].n = m
      BY <2>1 DEF DayInv, RemindersQueued, JobAt
    <3>2. \A k \in Jobs : job[k].pc = "queue" => job'[k] = job[k]
      BY <1>i, <1>k
    <3> QED BY <3>1, <3>2
  <2>2. CASE m \notin reminder
    BY <2>2, <1>i, <1>k, <1>a
  <2> QED BY <2>1, <2>2
<1>5. RemindedOnce'
  <2> SUFFICES ASSUME NEW k \in Jobs, NEW l \in Jobs, job'[k].pc = "queue"
      PROVE /\ queue[job'[k].n].status = "none"
            /\ job'[l].pc = "queue" /\ job'[l].n = job'[k].n => k = l
    BY <1>i DEF RemindedOnce, JobAt
  <2>1. CASE k # j /\ l # j
    BY <2>1, <1>k DEF DayInv, RemindedOnce, JobAt
  <2>2. CASE k = j
    BY <2>2, <1>k, <1>a, <1>n, <1>o
  <2>3. CASE l = j /\ k # j
    BY <2>3, <1>k, <1>a, <1>o DEF DayInv, RemindedOnce, JobAt
  <2> QED BY <2>1, <2>2, <2>3
<1> QED BY <1>1, <1>2, <1>3, <1>4, <1>5 DEF DayInv

\* The enqueueing: the reminder leaves the hand that had it with its notification.
LEMMA EnqueueKeeps ==
    ASSUME TypeOK, DayInv, NEW j \in Jobs, QueueReminder(j)
    PROVE  DayInv'
<1> DEFINE n == job[j].n
<1>i. /\ job[j].pc = "queue" /\ job' = [job EXCEPT ![j].pc = "scan"]
      /\ reminder' = reminder /\ owed' = owed /\ lost' = lost
  BY DEF QueueReminder, JobAt
<1>t. job \in [Jobs -> JobRecords] /\ n \in reminder /\ n \in Notices
  BY <1>i, RemindersAssumption DEF DayInv, DayTypes, HandsSound, JobAt
<1>k. /\ \A k \in Jobs : k # j => job'[k] = job[k]
      /\ job'[j].pc = "scan"
  BY <1>i, <1>t DEF JobRecords
<1>q. /\ queue'[n].status # "none"
      /\ \A m \in Notices : m # n => queue'[m] = queue[m]
  BY <1>i, <1>t DEF QueueReminder, Enqueue, vars, TypeOK
<1>1. DayTypes'
  <2>1. job' \in [Jobs -> JobRecords]
    BY <1>i, <1>t DEF JobRecords
  <2> QED BY <2>1, <1>i DEF DayInv, DayTypes
<1>2. HandsSound'
  BY <1>i, <1>k DEF DayInv, HandsSound, JobAt
<1>3. KeysReserved'
  BY <1>i, <1>q, <1>t, RemindersAssumption DEF DayInv, KeysReserved
<1>4. RemindersQueued'
  <2> SUFFICES ASSUME NEW m \in reminder, m # n
      PROVE \/ queue'[m].status # "none" \/ m \in lost
            \/ \E k \in Jobs : job'[k].pc = "queue" /\ job'[k].n = m
    BY <1>i, <1>q DEF RemindersQueued, JobAt
  <2>1. m \in Notices
    BY RemindersAssumption DEF DayInv, DayTypes
  <2>2. \/ queue[m].status # "none" \/ m \in lost
        \/ \E k \in Jobs : job[k].pc = "queue" /\ job[k].n = m
    BY DEF DayInv, RemindersQueued, JobAt
  <2> QED BY <2>1, <2>2, <1>q, <1>k
<1>5. RemindedOnce'
  <2> SUFFICES ASSUME NEW k \in Jobs, NEW l \in Jobs, job'[k].pc = "queue"
      PROVE /\ queue'[job'[k].n].status = "none"
            /\ job'[l].pc = "queue" /\ job'[l].n = job'[k].n => k = l
    BY DEF RemindedOnce, JobAt
  <2>1. k # j /\ job'[k] = job[k]
    BY <1>k
  <2>2. job[k].n \in Notices /\ job[k].n # n /\ queue[job[k].n].status = "none"
    BY <2>1, <1>i, <1>t DEF DayInv, RemindedOnce, JobAt, DayTypes, JobRecords
  <2>3. job'[l].pc = "queue" => l # j /\ job'[l] = job[l]
    BY <1>k
  <2> QED BY <2>1, <2>2, <2>3, <1>q DEF DayInv, RemindedOnce, JobAt
<1> QED BY <1>1, <1>2, <1>3, <1>4, <1>5 DEF DayInv

\* The steps of a process.
LEMMA JobStepKeeps ==
    ASSUME TypeOK, DayInv, NEW j \in Jobs, JobStep(j)
    PROVE  DayInv'
<1>t. /\ job \in [Jobs -> JobRecords] /\ owed \in [Reminders -> BOOLEAN]
      /\ job[j] \in JobRecords
  BY DEF DayInv, DayTypes
<1>1. CASE StartJob(j) \/ Rerun(j)
  <2> DEFINE x == [job[j] EXCEPT !.pc = "scan"]
  <2>1. x \in JobRecords /\ x.pc = "scan"
    BY <1>t DEF JobRecords
  <2>2. job' = [job EXCEPT ![j] = x] /\ job[j].pc # "queue"
    BY <1>1, <1>t DEF StartJob, Rerun, JobAt
  <2>3. UNCHANGED <<vars, reminder>> /\ owed' = owed /\ lost' = lost
    BY <1>1 DEF StartJob, Rerun
  <2> HIDE DEF x
  <2> QED BY <2>1, <2>2, <2>3, <1>t, ScanKeeps
<1>2. CASE LoadChunk(j)
  <2>1. PICK chunk \in SUBSET Ahead(j) :
          job' = [job EXCEPT ![j].todo = chunk, ![j].seen = @ \cup chunk]
    BY <1>2 DEF LoadChunk
  <2> DEFINE x == [job[j] EXCEPT !.todo = chunk, !.seen = @ \cup chunk]
  <2>2. chunk \subseteq Reminders
    BY RemindersAssumption DEF Ahead, RemindersOf
  <2>3. x \in JobRecords /\ x.pc = "scan" /\ job[j].pc # "queue"
    BY <2>2, <1>t, <1>2 DEF JobRecords, LoadChunk, JobAt
  <2>4. job' = [job EXCEPT ![j] = x]
    BY <2>1, <1>t
  <2>5. UNCHANGED <<vars, reminder>> /\ owed' = owed /\ lost' = lost
    BY <1>2 DEF LoadChunk
  <2> HIDE DEF x
  <2> QED BY <2>3, <2>4, <2>5, <1>t, ScanKeeps
<1>3. CASE EndJob(j)
  <2>1. /\ job' = [job EXCEPT ![j] = Ended] /\ job[j].pc # "queue"
        /\ UNCHANGED <<vars, reminder>> /\ owed' = owed /\ lost' = lost
    BY <1>3 DEF EndJob, JobAt
  <2> QED BY <2>1, <1>t, WaitingType, ScanKeeps
<1>4. CASE SkipInvoice(j)
  <2>1. PICK n \in job[j].todo : job' = [job EXCEPT ![j].todo = @ \ {n}]
    BY <1>4 DEF SkipInvoice
  <2> DEFINE x == [job[j] EXCEPT !.todo = @ \ {n}]
  <2>2. x \in JobRecords /\ x.pc = "scan" /\ job[j].pc # "queue"
    BY <1>t, <1>4 DEF JobRecords, SkipInvoice, JobAt
  <2>3. job' = [job EXCEPT ![j] = x]
    BY <2>1, <1>t
  <2>4. UNCHANGED <<vars, reminder>> /\ owed' = owed /\ lost' = lost
    BY <1>4 DEF SkipInvoice
  <2> HIDE DEF x
  <2> QED BY <2>2, <2>3, <2>4, <1>t, ScanKeeps
<1>5. CASE TakeInvoice(j)
  <2>1. PICK n \in job[j].todo :
          job' = [job EXCEPT ![j].pc = "insert", ![j].n = n, ![j].todo = @ \ {n}]
    BY <1>5 DEF TakeInvoice
  <2> DEFINE x == [job[j] EXCEPT !.pc = "insert", !.n = n, !.todo = @ \ {n}]
  <2>2. n \in Reminders /\ n \in Notices
    BY <1>t, RemindersAssumption DEF JobRecords
  <2>3. x \in JobRecords /\ x.pc = "insert" /\ x.n = n /\ job[j].pc # "queue"
    BY <1>t, <1>5, <2>2 DEF JobRecords, TakeInvoice, JobAt
  <2>4. job' = [job EXCEPT ![j] = x]
    BY <2>1, <1>t
  <2>5. UNCHANGED <<vars, reminder>> /\ owed' = owed /\ lost' = lost
    BY <1>5 DEF TakeInvoice
  <2> HIDE DEF x
  <2> QED BY <2>2, <2>3, <2>4, <2>5, <1>t, ScanKeeps
<1>6. CASE InsertReminder(j)
  BY <1>6, InsertKeeps
<1>7. CASE QueueReminder(j)
  BY <1>7, EnqueueKeeps
<1>8. CASE NobodyToRemind(j)
  <2> DEFINE x == [job[j] EXCEPT !.pc = "scan"]
  <2>1. x \in JobRecords /\ x.pc = "scan"
    BY <1>t DEF JobRecords
  <2>2. job' = [job EXCEPT ![j] = x]
    BY <1>8, <1>t DEF NobodyToRemind
  <2>3. /\ UNCHANGED <<vars, reminder>> /\ owed' = owed
        /\ lost \subseteq lost' /\ job[j].n \in lost'
    BY <1>8 DEF NobodyToRemind
  <2> HIDE DEF x
  <2> QED BY <2>1, <2>2, <2>3, <1>t, ScanKeeps
<1>9. CASE KillJob(j)
  <2>1. /\ UNCHANGED <<vars, reminder>> /\ owed' = owed /\ lost \subseteq lost'
        /\ job' = [job EXCEPT ![j] = Ended]
        /\ job[j].pc = "queue" => job[j].n \in lost'
    BY <1>9 DEF KillJob, JobAt
  <2> QED BY <2>1, <1>t, WaitingType, ScanKeeps
<1> QED BY <1>1, <1>2, <1>3, <1>4, <1>5, <1>6, <1>7, <1>8, <1>9 DEF JobStep

\* A payment takes nothing from what the invariant speaks of.
LEMMA SettleKeeps ==
    ASSUME DayInv, NEW n \in Reminders, Settle(n)
    PROVE  DayInv'
<1>1. /\ queue' = queue /\ reminder' = reminder /\ job' = job /\ lost' = lost
      /\ owed' \in [Reminders -> BOOLEAN]
  BY DEF Settle, vars, DayInv, DayTypes
<1> QED BY <1>1 DEF DayInv, DayTypes, HandsSound, KeysReserved, RemindersQueued,
                    RemindedOnce, JobAt

\* What the commands do is a step of the queue or none at all.
LEMMA DayStepIsQueueStep ==
    ASSUME DayInv, DayNext
    PROVE  [Next]_vars
<1>1. CASE QueueStep
  BY <1>1 DEF QueueStep, Next
<1>2. CASE \E n \in Reminders : Settle(n)
  BY <1>2 DEF Settle
<1>3. ASSUME NEW j \in Jobs, JobStep(j) PROVE [Next]_vars
  <2>1. CASE QueueReminder(j)
    <3>1. job[j].n \in Notices
      BY DEF DayInv, DayTypes, JobRecords
    <3> QED BY <2>1, <3>1 DEF QueueReminder, Next
  <2>2. CASE ~QueueReminder(j)
    <3>1. UNCHANGED vars
      BY <1>3, <2>2 DEF JobStep, StartJob, Rerun, LoadChunk, EndJob, SkipInvoice,
         TakeInvoice, InsertReminder, NobodyToRemind, KillJob
    <3> QED BY <3>1
  <2> QED BY <2>1, <2>2
<1> QED BY <1>1, <1>2, <1>3 DEF DayNext

LEMMA DayInitHolds ==
    ASSUME DayInit
    PROVE  DayInv
<1>1. DayTypes
  BY WaitingType DEF DayInit, DayTypes
<1>2. \A j \in Jobs : job[j].pc = "waiting"
  BY WaitingType DEF DayInit
<1>3. \A n \in Reminders : queue[n].status = "none"
  BY RemindersAssumption DEF DayInit, Init, Absent
<1>4. reminder = {}
  BY DEF DayInit
<1> QED BY <1>1, <1>2, <1>3, <1>4 DEF DayInv, HandsSound, KeysReserved, RemindersQueued,
                                     RemindedOnce, JobAt

-----------------------------------------------------------------------------
(* Theorems *)

\* Every step of the composition keeps both invariants.
LEMMA DayKeeps == IndInv /\ DayInv /\ [DayNext]_dayVars => IndInv' /\ DayInv'
<1>1. ASSUME IndInv, DayInv, UNCHANGED dayVars PROVE IndInv' /\ DayInv'
  <2>1. UNCHANGED <<vars, owed, reminder, job, lost>>
    BY <1>1 DEF dayVars, reminderVars
  <2>2. IndInv'
    BY <1>1, <2>1, NextKeeps
  <2>3. DayInv'
    BY <1>1, <2>1 DEF vars, DayInv, DayTypes, HandsSound, KeysReserved, RemindersQueued,
                      RemindedOnce, JobAt
  <2> QED BY <2>2, <2>3
<1>2. ASSUME IndInv, DayInv, DayNext PROVE IndInv' /\ DayInv'
  <2>1. IndInv'
    BY <1>2, DayStepIsQueueStep, NextKeeps
  <2>2. CASE QueueStep
    BY <1>2, <2>2, <2>1, QueueStepKeeps
  <2>3. CASE \E n \in Reminders : Settle(n)
    BY <1>2, <2>3, <2>1, SettleKeeps
  <2>4. CASE \E j \in Jobs : JobStep(j)
    BY <1>2, <2>4, <2>1, JobStepKeeps DEF IndInv
  <2> QED BY <1>2, <2>2, <2>3, <2>4 DEF DayNext
<1> QED BY <1>1, <1>2

\* The inductive invariant of the day: keys of reminders are used by nobody but
\* the process that recorded them, which has each of them alone in hand.
THEOREM DayInductive == DaySpec => [](IndInv /\ DayInv)
<1>1. DayInit => IndInv /\ DayInv
  BY InitHolds, DayInitHolds DEF DayInit
<1> QED BY <1>1, DayKeeps, PTL DEF DaySpec

\* With the commands beside it the table is still used as NotificationQueue says,
\* fairness included: all that is shown of it holds here.
THEOREM DayImplementsQueue == DaySpec => Spec
<1>1. DayInit => Init
  BY DEF DayInit
<1>2. IndInv /\ DayInv /\ [DayNext]_dayVars => [Next]_vars
  <2>1. ASSUME UNCHANGED dayVars PROVE UNCHANGED vars
    BY <2>1 DEF dayVars
  <2> QED BY <2>1, DayStepIsQueueStep
<1> QED BY <1>1, <1>2, DayInductive, PTL DEF DaySpec, Spec

\* With the commands beside the dispatcher, too, a notification is in one hand.
THEOREM DayOneHandler == DaySpec => []OneHandler
BY DayImplementsQueue, OneHandlerThm, PTL

\* So are the messages treated as promised.
THEOREM DayImplementsDelivery == DaySpec => ImplementsDelivery
BY DayImplementsQueue, ImplementsDeliveryThm, PTL

\* No reminder is recorded and forgotten, unless its process was killed between
\* the two statements or the family had nobody to write to.
THEOREM RemindersQueuedThm == DaySpec => []RemindersQueued
<1>1. DayInv => RemindersQueued
  BY DEF DayInv
<1> QED BY DayInductive, <1>1, PTL

\* However many processes of a command overlap, a reminder is enqueued once.
THEOREM RemindedOnceThm == DaySpec => []RemindedOnce
<1>1. DayInv => RemindedOnce
  BY DEF DayInv
<1> QED BY DayInductive, <1>1, PTL
=============================================================================
