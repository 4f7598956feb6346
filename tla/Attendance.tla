----------------------------- MODULE Attendance -----------------------------
(***************************************************************************)
(* The roll call of one class on one day: the teachers' pages, which work  *)
(* offline (resources/views/teacher/attendance.blade.php), and the server  *)
(* (app/Services/AttendanceService.php, AbsenceFollowUpService.php).       *)
(*                                                                         *)
(* sync() and validateSession() lock the session for a whole transaction,  *)
(* so each is one action; correct() locks nothing and reads before it      *)
(* writes, so it is two.  A call of a page is in flight, then answered; it *)
(* may fail for the page and be served all the same, or be served later.   *)
(* The pages show other classes too, whose lists are left out; what is not *)
(* is that a page takes the session of one class along to the next.        *)
(***************************************************************************)
EXTENDS Naturals, FiniteSets

CONSTANTS
    Pupils,      \* pupils of the class when the day begins
    Reachable,   \* those with a guardian who receives messages
    Pages,       \* teachers' pages, each in a browser of its own
    Tabs,        \* bound: the calls one page may have open at once
    Directors,   \* requests that correct a validated roll call
    MaxMarks,    \* bound: how often a page changes its marks
    MaxLate      \* bound: calls that their page has given up

ASSUME ConstantsAssumption ==
    /\ Pupils # {}
    /\ Pages # {}
    /\ Reachable \subseteq Pupils
    /\ MaxMarks \in Nat \ {0}
    /\ MaxLate \in Nat

VARIABLES
    page,       \* localStorage: sessionId, marks and operations made so far
    call,       \* the calls of each page
    late,       \* calls given up by their page that still reach the server
    session,    \* attendance_sessions.status of the class and day
    closed,     \* the term of that day is closed
    enrolled,   \* pupils whose enrolment is active
    record,     \* attendance_records
    followUp,   \* absence_follow_ups
    queued,     \* notification_queue: the keys pupil and event
    edit        \* corrections under way

pageVars == <<page, call, late>>
schoolVars == <<closed, enrolled>>
vars == <<page, call, late, session, closed, enrolled, record, followUp, queued, edit>>

\* EXCUSED is treated like PRESENT everywhere.
Statuses == {"PRESENT", "ABSENT", "LATE"}
Events == {"ABSENT", "LATE"}

\* op: client_operation_id, here the page and how many operations it had made;
\* a mark without status is not on the list.
Ops == Pages \X Nat
NoOp == <<CHOOSE p \in Pages : TRUE, 0>>
NoMark == [status |-> "none", op |-> NoOp]
MarkRecords == [status: Statuses \cup {"none"}, op: Ops]
Blank == [s \in Pupils |-> NoMark]

\* sessionId: none, that of this roll call, or that of another class.
SessionIds == {"none", "own", "other"}

\* long: late_minutes is above the threshold; by: role of marked_by.
NoRecord == [status |-> "none", op |-> NoOp, long |-> FALSE, by |-> "none"]
Records == [status: Statuses \cup {"none"}, op: Ops, long: BOOLEAN,
            by: {"none", "teacher", "director"}]

\* CONTACTED: contacted_at is set, which no status takes back.
FollowUps == {"none", "TO_CONTACT", "CONTACTED"}

\* elsewhere: a call for the session of another class; then: what the page does
\* after the answer; admitted: the server has seen the term open.
Kinds == {"create", "sync", "validate", "elsewhere"}
NoCall == [kind |-> "none", then |-> "none", marks |-> Blank, state |-> "idle",
           admitted |-> FALSE, ok |-> FALSE]
Calls == [kind: Kinds \cup {"none"}, then: Kinds \cup {"none"},
          marks: [Pupils -> MarkRecords], state: {"idle", "sent", "answered"},
          admitted: BOOLEAN, ok: BOOLEAN]
Requests == [kind: Kinds, marks: [Pupils -> MarkRecords], admitted: BOOLEAN]

\* What a correction has read; nothing is read before it begins.
Unread == [s \in Pupils |-> NoRecord]

Init ==
    /\ page = [p \in Pages |-> [session |-> "none", marks |-> Blank, ops |-> 0]]
    /\ call = [p \in Pages |-> [t \in Tabs |-> NoCall]]
    /\ late = {}
    /\ session = "none"
    /\ closed = FALSE
    /\ enrolled = Pupils
    /\ record = [s \in Pupils |-> NoRecord]
    /\ followUp = [s \in Pupils |-> "none"]
    /\ queued = {}
    /\ edit = [c \in Directors |-> Unread]

-----------------------------------------------------------------------------
(* The page                                                                  *)

serverVars == <<session, closed, enrolled, record, followUp, queued, edit>>

OnList(p, s) == page[p].marks[s].status # "none"
Idle(p, t) == call[p][t].state = "idle"

\* loadClass() without local data: everybody on the list is present.  sessionId is
\* not reset: that of the class shown before is now stored under this one.
Load(p) ==
    /\ \A s \in Pupils : ~OnList(p, s)
    /\ \E carried \in {"none", "other"} :
        page' = [page EXCEPT
          ![p].session = carried,
          ![p].marks = [s \in Pupils |->
               IF s \in enrolled THEN [status |-> "PRESENT", op |-> <<p, 1>>] ELSE NoMark],
          ![p].ops = 1]
    /\ UNCHANGED <<call, late, serverVars>>

\* A click on one pupil, or on "Tous présents": each mark is a new operation.
ClickAll(p) == {s \in Pupils : OnList(p, s)}

Mark(p) ==
    /\ page[p].ops \in 1 .. MaxMarks - 1
    /\ \E clicked \in {{s} : s \in ClickAll(p)} \cup {ClickAll(p)}, st \in Statuses :
        /\ st = "PRESENT" \/ Cardinality(clicked) = 1
        /\ page' = [page EXCEPT
             ![p].marks = [s \in Pupils |->
                  IF s \in clicked THEN [status |-> st, op |-> <<p, page[p].ops + 1>>]
                  ELSE page[p].marks[s]],
             ![p].ops = @ + 1]
    /\ UNCHANGED <<call, late, serverVars>>

Request(kind, then, p) ==
    [kind |-> kind, then |-> then, state |-> "sent", admitted |-> FALSE,
     ok |-> FALSE, marks |-> IF kind = "sync" THEN page[p].marks ELSE Blank]

\* "Enregistrer", and with a session also a reload or the return of the network.
\* A page with the session of another class creates none: it sends its marks to
\* that session, and a validation after them.
Save(p, t) ==
    /\ Idle(p, t)
    /\ \E s \in Pupils : OnList(p, s)
    /\ call' = [call EXCEPT ![p][t] =
         CASE page[p].session = "none"  -> Request("create", "sync", p)
           [] page[p].session = "own"   -> Request("sync", "none", p)
           [] page[p].session = "other" -> Request("elsewhere", "none", p)]
    /\ UNCHANGED <<page, late, serverVars>>

\* "Valider l'appel" synchronises first.
Validate(p, t) ==
    /\ Idle(p, t)
    /\ page[p].session = "own"
    /\ call' = [call EXCEPT ![p][t] = Request("sync", "validate", p)]
    /\ UNCHANGED <<page, late, serverVars>>

\* The same on a class that this session was carried to: the session refuses the
\* marks of that class, and then it is this roll call that is validated.
ValidateElsewhere(p, t) ==
    /\ Idle(p, t)
    /\ page[p].session = "own"
    /\ call' = [call EXCEPT ![p][t] = Request("validate", "none", p)]
    /\ UNCHANGED <<page, late, serverVars>>

\* sync() swallows its errors, so that the validation goes on after one that
\* failed; without its session the page can do nothing.
Continue(p, t, ok) ==
    LET c == call[p][t] IN
    IF c.kind = "sync" /\ c.then = "validate" THEN Request("validate", "none", p)
    ELSE IF c.kind = "create" /\ ok THEN Request("sync", "none", p)
    ELSE NoCall

Receive(p, t) ==
    LET c == call[p][t] IN
    /\ c.state = "answered"
    /\ call' = [call EXCEPT ![p][t] = Continue(p, t, c.ok)]
    /\ page' = [page EXCEPT ![p].session = IF c.kind = "create" /\ c.ok THEN "own" ELSE @]
    /\ UNCHANGED <<late, serverVars>>

\* The network fails: the request or its answer is lost, or the request is late.
Fail(p, t) ==
    LET c == call[p][t] IN
    /\ c.state # "idle"
    /\ \/ late' = late
       \/ /\ c.state = "sent"
          /\ Cardinality(late) < MaxLate
          /\ late' = late \cup
               {[kind |-> c.kind, marks |-> c.marks, admitted |-> c.admitted]}
    /\ call' = [call EXCEPT ![p][t] = Continue(p, t, FALSE)]
    /\ UNCHANGED <<page, serverVars>>

-----------------------------------------------------------------------------
(* AttendanceService: create, sync, validateSession                          *)

\* NotificationPolicy: an absence, or a lateness above the threshold, if somebody
\* receives messages for the pupil.
Noticed(s, m) ==
    /\ s \in Reachable
    /\ m.status = "ABSENT" \/ (m.status = "LATE" /\ m.long)

\* queueForValidatedSession(): insertOrIgnore by pupil and event.
NoticesOf(records) == {n \in Pupils \X Events :
                         Noticed(n[1], records[n[1]]) /\ n[2] = records[n[1]].status}

\* A plausible bug: only absences are followed up.
FollowedAbsence(m) == m.status = "ABSENT"

Followed(m) == m.status \in {"ABSENT", "LATE"}

\* A plausible bug: an existing follow-up is overwritten.
CreatedAgain(s) == "TO_CONTACT"

\* createForRecord(): firstOrCreate on the record.
Created(s) == IF followUp[s] = "none" THEN "TO_CONTACT" ELSE followUp[s]

\* A plausible bug: the status is the one read before the lock.
WritableBeforeLock == session # "none" /\ ~closed

\* A validated session is only written by correct(), which refuses what a page
\* sends: a teacher is not allowed to, and the page sends no comment.
Writable == session = "OPEN" /\ ~closed

\* One pupil who left the class makes the whole call fail.
Accepted(marks) == Writable /\ \A s \in Pupils : marks[s].status = "none" \/ s \in enrolled

\* A plausible bug: a record that exists is kept.
StoredOnce(marks, s) ==
    IF marks[s].status = "none" \/ record[s].status # "none" THEN record[s]
    ELSE [record[s] EXCEPT !.status = marks[s].status, !.op = marks[s].op, !.by = "teacher"]

\* An operation that is stored is passed over, another one overwrites.  The page
\* sends no late_minutes, which keeps those of the record.
Stored(marks, s) ==
    IF marks[s].status = "none" \/ record[s].op = marks[s].op THEN record[s]
    ELSE [record[s] EXCEPT !.status = marks[s].status, !.op = marks[s].op, !.by = "teacher"]

\* create() and validateSession() look at the term before they write, not in the
\* transaction: the term may close in between.  sync() looks under the lock.
LooksFirst(q) == q.kind \in {"create", "validate"}
Admissible(q) == LooksFirst(q) /\ ~q.admitted /\ ~closed
Answerable(q) == ~LooksFirst(q) \/ q.admitted \/ closed

ServeCreate(admitted, ok) ==
    /\ ok = (admitted /\ session = "none")
    /\ session' = IF ok THEN "OPEN" ELSE session
    /\ UNCHANGED <<record, followUp, queued>>

ServeSync(marks, ok) ==
    /\ ok = Accepted(marks)
    /\ record' = IF ok THEN [s \in Pupils |-> Stored(marks, s)] ELSE record
    /\ UNCHANGED <<session, followUp, queued>>

\* Also a session that is validated already.
ServeValidate(admitted, ok) ==
    /\ ok = admitted
    /\ session' = IF ok THEN "VALIDATED" ELSE session
    /\ queued' = IF ok THEN queued \cup NoticesOf(record) ELSE queued
    /\ followUp' = IF ok THEN [s \in Pupils |->
                                 IF Followed(record[s]) THEN Created(s) ELSE followUp[s]]
                   ELSE followUp
    /\ UNCHANGED record

\* The session of another class refuses the pupils of this one.
ServeElsewhere(ok) == ~ok /\ UNCHANGED <<session, record, followUp, queued>>

ServeRequest(q, ok) ==
    /\ Answerable(q)
    /\ \/ q.kind = "create" /\ ServeCreate(q.admitted, ok)
       \/ q.kind = "sync" /\ ServeSync(q.marks, ok)
       \/ q.kind = "validate" /\ ServeValidate(q.admitted, ok)
       \/ q.kind = "elsewhere" /\ ServeElsewhere(ok)

Admit(p, t) ==
    /\ call[p][t].state = "sent"
    /\ Admissible(call[p][t])
    /\ call' = [call EXCEPT ![p][t].admitted = TRUE]
    /\ UNCHANGED <<page, late, serverVars>>

AdmitLate(q) ==
    /\ Admissible(q)
    /\ late' = (late \ {q}) \cup {[q EXCEPT !.admitted = TRUE]}
    /\ UNCHANGED <<page, call, serverVars>>

Serve(p, t) ==
    /\ call[p][t].state = "sent"
    /\ \E ok \in BOOLEAN :
        /\ ServeRequest(call[p][t], ok)
        /\ call' = [call EXCEPT ![p][t] =
             [@ EXCEPT !.state = "answered", !.ok = ok, !.admitted = FALSE, !.marks = Blank]]
    /\ UNCHANGED <<page, late, schoolVars, edit>>

ServeLate(q) ==
    /\ \E ok \in BOOLEAN : ServeRequest(q, ok)
    /\ late' = late \ {q}
    /\ UNCHANGED <<page, call, schoolVars, edit>>

-----------------------------------------------------------------------------
(* AttendanceService::correct, on one record, without a lock                 *)

Read(c) ==
    /\ session = "VALIDATED"
    /\ edit[c] = Unread
    /\ edit' = [edit EXCEPT ![c] = record]
    /\ UNCHANGED <<pageVars, schoolVars, session, record, followUp, queued>>

\* The UPDATE writes the columns that differ from the copy; late_minutes only if
\* the correction gives it.
Corrected(c, s, status, long) ==
    [record EXCEPT ![s] =
        [record[s] EXCEPT !.status = IF status # edit[c][s].status THEN status ELSE @,
                          !.long = IF long # edit[c][s].long THEN long ELSE @,
                          !.by = "director"]]

\* A plausible bug: the notifications are those of the copy.
NoticesOfCopy(c, records) == NoticesOf(edit[c])

CorrectionNotices(c, records) == NoticesOf(records)

Correct(c) ==
    /\ \E s \in Pupils, status \in Statuses, long \in BOOLEAN :
        /\ edit[c][s].status # "none"
        /\ record' = Corrected(c, s, status, long)
    /\ queued' = queued \cup CorrectionNotices(c, record')
    /\ edit' = [edit EXCEPT ![c] = Unread]
    /\ UNCHANGED <<pageVars, schoolVars, session, followUp>>

Refuse(c) ==
    /\ edit[c] # Unread
    /\ edit' = [edit EXCEPT ![c] = Unread]
    /\ UNCHANGED <<pageVars, schoolVars, session, record, followUp, queued>>

-----------------------------------------------------------------------------
(* The rest of the school                                                    *)

\* AbsenceFollowUpService::update: any status, of any record.
FollowUp(s) ==
    /\ record[s].status # "none"
    /\ \E contacted \in BOOLEAN :
        followUp' = [followUp EXCEPT ![s] = IF contacted THEN "CONTACTED" ELSE Created(s)]
    /\ UNCHANGED <<pageVars, schoolVars, session, record, queued, edit>>

CloseTerm ==
    /\ ~closed
    /\ closed' = TRUE
    /\ UNCHANGED <<pageVars, session, enrolled, record, followUp, queued, edit>>

Leave(s) ==
    /\ s \in enrolled
    /\ enrolled' = enrolled \ {s}
    /\ UNCHANGED <<pageVars, session, closed, record, followUp, queued, edit>>

PageStep(p) ==
    \/ Load(p) \/ Mark(p)
    \/ \E t \in Tabs :
         Save(p, t) \/ Validate(p, t) \/ ValidateElsewhere(p, t) \/ Receive(p, t) \/ Fail(p, t)

ServerStep ==
    \/ \E p \in Pages : \E t \in Tabs : Admit(p, t) \/ Serve(p, t)
    \/ \E q \in late : AdmitLate(q) \/ ServeLate(q)

Next ==
    \/ \E p \in Pages : PageStep(p)
    \/ ServerStep
    \/ \E c \in Directors : Read(c) \/ Correct(c) \/ Refuse(c)
    \/ \E s \in Pupils : FollowUp(s) \/ Leave(s)
    \/ CloseTerm

Spec == Init /\ [][Next]_vars

\* A page resends whenever it is loaded again or the network returns, a call ends,
\* and the network does not fail for ever.
Fairness ==
    \A p \in Pages : \A t \in Tabs :
        /\ WF_vars(Save(p, t))
        /\ WF_vars(Receive(p, t))
        /\ SF_vars(Admit(p, t))
        /\ SF_vars(Serve(p, t))

SpecOnline == Spec /\ Fairness /\ WF_vars(\E q \in late : AdmitLate(q) \/ ServeLate(q))

-----------------------------------------------------------------------------
(* Properties                                                                *)

\* Every table, page and call holds a value the code can give it.
TypeOK ==
    /\ page \in [Pages -> [session: SessionIds, marks: [Pupils -> MarkRecords], ops: Nat]]
    /\ call \in [Pages -> [Tabs -> Calls]]
    /\ late \subseteq Requests
    /\ session \in {"none", "OPEN", "VALIDATED"}
    /\ closed \in BOOLEAN
    /\ enrolled \subseteq Pupils
    /\ record \in [Pupils -> Records]
    /\ followUp \in [Pupils -> FollowUps]
    /\ queued \subseteq Pupils \X Events
    /\ edit \in [Directors -> [Pupils -> Records]]

\* "Une séance validée nécessite une correction contrôlée": once the roll call is
\* validated only a director's correction writes a record, whatever calls of
\* pages are still on their way.
ValidatedFrozen ==
    [][session = "VALIDATED" /\ record' # record =>
         \E c \in Directors : edit[c] # Unread /\ edit'[c] = Unread]_vars

\* Every absence of a validated roll call, also one that a correction made, has
\* its message to the guardian, however corrections overlap.
AbsencesAnnounced == session = "VALIDATED" => NoticesOf(record) \subseteq queued

\* Every absence or lateness that was validated as the teacher marked it is in
\* the list of absences to follow up.
AbsencesFollowed ==
    session = "VALIDATED" =>
        \A s \in Pupils : record[s].status \in Events /\ record[s].by = "teacher"
            => followUp[s] # "none"

\* What was noted of a contact with the family survives every later validation.
ContactsKept ==
    [][\A s \in Pupils : followUp[s] = "CONTACTED" => followUp'[s] = "CONTACTED"]_vars

\* With its session, a page that goes on resending ends up with its last marks
\* stored, although calls overtake each other, unless the roll call is
\* validated, the term closed or a pupil gone.
LastMarksSettle ==
    \A p \in Pages : <>[](page[p].session = "own" =>
        \/ session = "VALIDATED" \/ closed \/ enrolled # Pupils
        \/ \A s \in Pupils : record[s].op = page[p].marks[s].op)

\* "À la reconnexion, les opérations sont envoyées à l'API" (docs/attendance.md),
\* whichever class the page showed before.  Not so: a page that carried the
\* session of another class along never creates that of this one.
EveryPageSettles ==
    \A p \in Pages : <>[](page[p].ops > 0 =>
        \/ session = "VALIDATED" \/ closed \/ enrolled # Pupils
        \/ \A s \in Pupils : record[s].op = page[p].marks[s].op)

-----------------------------------------------------------------------------
(* The inductive invariant behind the theorems of AttendanceProofs           *)

\* A call that is under way asks for something.
CallsSound == \A p \in Pages : \A t \in Tabs : Idle(p, t) \/ call[p][t].kind \in Kinds

IndInv == TypeOK /\ CallsSound /\ AbsencesAnnounced /\ AbsencesFollowed
=============================================================================
