-------------------------- MODULE AttendanceProofs --------------------------
(***************************************************************************)
(* Theorems about Attendance, for any number of pupils, pages, open calls  *)
(* and corrections.                                                        *)
(***************************************************************************)
EXTENDS Attendance, TLAPS

\* What is empty is well typed.
LEMMA EmptyTypes ==
    /\ NoOp \in Ops
    /\ NoMark \in MarkRecords /\ Blank \in [Pupils -> MarkRecords]
    /\ NoRecord \in Records /\ Unread \in [Pupils -> Records]
    /\ NoCall \in Calls
<1>1. NoOp \in Ops
  <2>1. (CHOOSE p \in Pages : TRUE) \in Pages
    BY ConstantsAssumption
  <2> QED BY <2>1 DEF NoOp, Ops
<1>2. NoMark \in MarkRecords /\ Blank \in [Pupils -> MarkRecords]
  BY <1>1 DEF NoMark, MarkRecords, Blank
<1>3. NoRecord \in Records /\ Unread \in [Pupils -> Records]
  BY <1>1 DEF NoRecord, Records, Unread
<1>4. NoCall \in Calls
  BY <1>2 DEF NoCall, Calls
<1> QED BY <1>1, <1>2, <1>3, <1>4

\* A page asks for what its marks say.
LEMMA RequestType ==
    ASSUME TypeOK, NEW p \in Pages, NEW kind \in Kinds, NEW then \in Kinds \cup {"none"}
    PROVE  Request(kind, then, p) \in Calls /\ Request(kind, then, p).kind \in Kinds
BY EmptyTypes DEF Request, Calls, TypeOK, Kinds

\* What the page does next is a call, or nothing.
LEMMA ContinueType ==
    ASSUME TypeOK, NEW p \in Pages, NEW t \in Tabs, NEW ok
    PROVE  /\ Continue(p, t, ok) \in Calls
           /\ Continue(p, t, ok).state = "idle" \/ Continue(p, t, ok).kind \in Kinds
<1>1. "validate" \in Kinds /\ "sync" \in Kinds /\ "none" \in Kinds \cup {"none"}
  BY DEF Kinds
<1>2. NoCall \in Calls /\ NoCall.state = "idle"
  BY EmptyTypes DEF NoCall
<1> QED BY <1>1, <1>2, RequestType DEF Continue

\* The tables of the school keep their types whatever the server does.
LEMMA ServeType ==
    ASSUME TypeOK, NEW q \in Requests \cup Calls, NEW ok \in BOOLEAN, ServeRequest(q, ok)
    PROVE  /\ session' \in {"none", "OPEN", "VALIDATED"}
           /\ record' \in [Pupils -> Records]
           /\ followUp' \in [Pupils -> FollowUps]
           /\ queued' \subseteq Pupils \X Events
<1>1. CASE ServeCreate(q.admitted, ok)
  BY <1>1 DEF ServeCreate, TypeOK
<1>2. CASE ServeSync(q.marks, ok)
  <2>1. q.marks \in [Pupils -> MarkRecords]
    BY DEF Requests, Calls
  <2>2. ASSUME NEW s \in Pupils PROVE Stored(q.marks, s) \in Records
    <3>1. q.marks[s] \in MarkRecords /\ record[s] \in Records
      BY <2>1 DEF TypeOK
    <3>2. ASSUME NEW m \in MarkRecords, NEW y \in Records
          PROVE  [y EXCEPT !.status = m.status, !.op = m.op, !.by = "teacher"] \in Records
      BY DEF MarkRecords, Records
    <3> QED BY <3>1, <3>2 DEF Stored
  <2> QED BY <1>2, <2>2 DEF ServeSync, TypeOK
<1>3. CASE ServeValidate(q.admitted, ok)
  <2>1. NoticesOf(record) \subseteq Pupils \X Events
    BY DEF NoticesOf
  <2>2. \A s \in Pupils : Created(s) \in FollowUps
    BY DEF Created, TypeOK, FollowUps
  <2> QED BY <1>3, <2>1, <2>2 DEF ServeValidate, TypeOK
<1>4. CASE ServeElsewhere(ok)
  BY <1>4 DEF ServeElsewhere, TypeOK
<1> QED BY <1>1, <1>2, <1>3, <1>4 DEF ServeRequest

\* A validated roll call has its messages and its follow-ups after every request.
LEMMA ServeKeeps ==
    ASSUME IndInv, NEW q \in Requests \cup Calls, NEW ok \in BOOLEAN, ServeRequest(q, ok)
    PROVE  AbsencesAnnounced' /\ AbsencesFollowed'
<1>1. CASE ServeCreate(q.admitted, ok)
  BY <1>1 DEF ServeCreate, IndInv, AbsencesAnnounced, AbsencesFollowed, NoticesOf, Noticed
<1>2. CASE ServeSync(q.marks, ok)
  <2>1. CASE ok
    BY <1>2, <2>1 DEF ServeSync, Accepted, Writable, AbsencesAnnounced, AbsencesFollowed
  <2>2. CASE ~ok
    BY <1>2, <2>2 DEF ServeSync, IndInv, AbsencesAnnounced, AbsencesFollowed, NoticesOf, Noticed
  <2> QED BY <2>1, <2>2
<1>3. CASE ServeValidate(q.admitted, ok)
  <2>1. CASE ok
    <3>1. AbsencesAnnounced'
      BY <1>3, <2>1 DEF ServeValidate, AbsencesAnnounced, NoticesOf, Noticed
    <3>2. AbsencesFollowed'
      BY <1>3, <2>1 DEF ServeValidate, AbsencesFollowed, Created, Followed, Events
    <3> QED BY <3>1, <3>2
  <2>2. CASE ~ok
    BY <1>3, <2>2 DEF ServeValidate, IndInv, AbsencesAnnounced, AbsencesFollowed, NoticesOf,
                      Noticed
  <2> QED BY <2>1, <2>2
<1>4. CASE ServeElsewhere(ok)
  BY <1>4 DEF ServeElsewhere, IndInv, AbsencesAnnounced, AbsencesFollowed, NoticesOf, Noticed
<1> QED BY <1>1, <1>2, <1>3, <1>4 DEF ServeRequest

\* A page's own step leaves the school's tables alone.
LEMMA PageKeeps ==
    ASSUME IndInv, UNCHANGED serverVars, NEW p \in Pages,
           \/ Load(p) \/ Mark(p)
           \/ \E t \in Tabs :
              Save(p, t) \/ Validate(p, t) \/ ValidateElsewhere(p, t) \/ Receive(p, t) \/ Fail(p, t)
    PROVE  IndInv'
<1>0. TypeOK
  BY DEF IndInv
<1>1. /\ page' \in [Pages -> [session: SessionIds, marks: [Pupils -> MarkRecords], ops: Nat]]
      /\ call' \in [Pages -> [Tabs -> Calls]]
      /\ late' \subseteq Requests
      /\ CallsSound'
  <2>1. CASE Load(p)
    <3>1. <<p, 1>> \in Ops
      BY DEF Ops
    <3>2. [s \in Pupils |-> IF s \in enrolled THEN [status |-> "PRESENT", op |-> <<p, 1>>]
                            ELSE NoMark] \in [Pupils -> MarkRecords]
      BY <3>1, EmptyTypes DEF MarkRecords, Statuses
    <3>3. PICK carried \in SessionIds, marks \in [Pupils -> MarkRecords] :
            page' = [page EXCEPT ![p].session = carried, ![p].marks = marks, ![p].ops = 1]
      BY <2>1, <3>2 DEF Load, SessionIds
    <3>4. page' \in [Pages -> [session: SessionIds, marks: [Pupils -> MarkRecords], ops: Nat]]
      BY <1>0, <3>3 DEF TypeOK
    <3>5. call' = call /\ late' = late
      BY <2>1 DEF Load
    <3> QED BY <1>0, <3>4, <3>5 DEF TypeOK, IndInv, CallsSound, Idle
  <2>2. CASE Mark(p)
    <3>1. PICK clicked \in {{s} : s \in ClickAll(p)} \cup {ClickAll(p)}, st \in Statuses :
            page' = [page EXCEPT
              ![p].marks = [s \in Pupils |->
                   IF s \in clicked THEN [status |-> st, op |-> <<p, page[p].ops + 1>>]
                   ELSE page[p].marks[s]],
              ![p].ops = @ + 1]
      BY <2>2 DEF Mark
    <3>2. page[p].ops + 1 \in Nat /\ page[p].marks \in [Pupils -> MarkRecords]
      BY <1>0 DEF TypeOK
    <3>3. [s \in Pupils |->
              IF s \in clicked THEN [status |-> st, op |-> <<p, page[p].ops + 1>>]
              ELSE page[p].marks[s]] \in [Pupils -> MarkRecords]
      BY <3>2 DEF MarkRecords, Ops
    <3>4. PICK marks \in [Pupils -> MarkRecords] :
            page' = [page EXCEPT ![p].marks = marks, ![p].ops = page[p].ops + 1]
      BY <3>1, <3>3
    <3>5. page' \in [Pages -> [session: SessionIds, marks: [Pupils -> MarkRecords], ops: Nat]]
      BY <1>0, <3>2, <3>4 DEF TypeOK
    <3>6. call' = call /\ late' = late
      BY <2>2 DEF Mark
    <3> QED BY <1>0, <3>5, <3>6 DEF TypeOK, IndInv, CallsSound, Idle
  <2>3. ASSUME NEW t \in Tabs, Save(p, t) \/ Validate(p, t) \/ ValidateElsewhere(p, t)
        PROVE  /\ page' \in [Pages -> [session: SessionIds, marks: [Pupils -> MarkRecords], ops: Nat]]
               /\ call' \in [Pages -> [Tabs -> Calls]]
               /\ late' \subseteq Requests
               /\ CallsSound'
    <3>1. PICK kind \in Kinds, then \in Kinds \cup {"none"} :
            call' = [call EXCEPT ![p][t] = Request(kind, then, p)]
      <4>1. page[p].session \in SessionIds
        BY <1>0 DEF TypeOK
      <4>2. "create" \in Kinds /\ "sync" \in Kinds /\ "validate" \in Kinds
            /\ "elsewhere" \in Kinds
        BY DEF Kinds
      <4> QED BY <2>3, <4>1, <4>2 DEF Save, Validate, ValidateElsewhere, SessionIds
    <3>2. Request(kind, then, p) \in Calls /\ Request(kind, then, p).kind \in Kinds
      BY <1>0, RequestType
    <3>3. page' = page /\ late' = late
      BY <2>3 DEF Save, Validate, ValidateElsewhere
    <3> QED BY <1>0, <3>1, <3>2, <3>3 DEF TypeOK, IndInv, CallsSound, Idle
  <2>4. ASSUME NEW t \in Tabs, Receive(p, t)
        PROVE  /\ page' \in [Pages -> [session: SessionIds, marks: [Pupils -> MarkRecords], ops: Nat]]
               /\ call' \in [Pages -> [Tabs -> Calls]]
               /\ late' \subseteq Requests
               /\ CallsSound'
    <3>1. call' = [call EXCEPT ![p][t] = Continue(p, t, call[p][t].ok)] /\ late' = late
      BY <2>4 DEF Receive
    <3>2. page' \in [Pages -> [session: SessionIds, marks: [Pupils -> MarkRecords], ops: Nat]]
      BY <1>0, <2>4 DEF Receive, TypeOK, Calls, SessionIds
    <3> QED BY <1>0, <3>1, <3>2, ContinueType DEF TypeOK, IndInv, CallsSound, Idle
  <2>5. ASSUME NEW t \in Tabs, Fail(p, t)
        PROVE  /\ page' \in [Pages -> [session: SessionIds, marks: [Pupils -> MarkRecords], ops: Nat]]
               /\ call' \in [Pages -> [Tabs -> Calls]]
               /\ late' \subseteq Requests
               /\ CallsSound'
    <3>1. call' = [call EXCEPT ![p][t] = Continue(p, t, FALSE)] /\ page' = page
      BY <2>5 DEF Fail
    <3>2. late' \subseteq Requests
      <4>1. call[p][t] \in Calls /\ call[p][t].kind \in Kinds
        BY <1>0, <2>5 DEF Fail, IndInv, CallsSound, Idle, TypeOK
      <4>2. [kind |-> call[p][t].kind, marks |-> call[p][t].marks,
             admitted |-> call[p][t].admitted] \in Requests
        BY <4>1 DEF Calls, Requests
      <4> QED BY <1>0, <2>5, <4>2 DEF Fail, TypeOK
    <3> QED BY <1>0, <3>1, <3>2, ContinueType DEF TypeOK, IndInv, CallsSound, Idle
  <2> QED BY <2>1, <2>2, <2>3, <2>4, <2>5
<1>2. TypeOK'
  BY <1>0, <1>1 DEF serverVars, TypeOK
<1>3. AbsencesAnnounced' /\ AbsencesFollowed'
  BY DEF serverVars, IndInv, AbsencesAnnounced, AbsencesFollowed, NoticesOf, Noticed
<1> QED BY <1>1, <1>2, <1>3 DEF IndInv

\* A correction announces what it makes an absence, and takes no follow-up away.
LEMMA CorrectKeeps ==
    ASSUME IndInv, NEW c \in Directors, Correct(c)
    PROVE  IndInv'
<1>1. TypeOK /\ UNCHANGED <<pageVars, schoolVars, session, followUp>>
  BY DEF IndInv, Correct
<1>2. PICK s \in Pupils, status \in Statuses, long \in BOOLEAN :
        record' = Corrected(c, s, status, long)
  BY DEF Correct
<1>3. record \in [Pupils -> Records]
  BY <1>1 DEF TypeOK
<1> DEFINE st == IF status # edit[c][s].status THEN status ELSE record[s].status
           lg == IF long # edit[c][s].long THEN long ELSE record[s].long
           corrected == [record[s] EXCEPT !.status = st, !.long = lg, !.by = "director"]
<1>4. corrected \in Records /\ corrected.by = "director"
  <2>1. record[s] \in Records
    BY <1>3
  <2>2. \A y \in Records, x \in Statuses \cup {"none"}, l \in BOOLEAN :
          [y EXCEPT !.status = x, !.long = l, !.by = "director"] \in Records
    BY DEF Records
  <2>3. st \in Statuses \cup {"none"} /\ lg \in BOOLEAN
    BY <2>1 DEF Records
  <2>4. corrected.by = "director"
    BY <2>1 DEF Records
  <2> QED BY <2>1, <2>2, <2>3, <2>4
<1>5. record' = [record EXCEPT ![s] = corrected]
  BY <1>2 DEF Corrected
<1> HIDE DEF st, lg, corrected
<1>6. /\ record' \in [Pupils -> Records] /\ record'[s].by = "director"
      /\ \A r \in Pupils : r # s => record'[r] = record[r]
  BY <1>3, <1>4, <1>5
<1>7. queued' = queued \cup NoticesOf(record')
  BY DEF Correct, CorrectionNotices
<1>8. queued' \subseteq Pupils \X Events
  BY <1>1, <1>7 DEF NoticesOf, TypeOK
<1>9. edit' \in [Directors -> [Pupils -> Records]]
  BY <1>1, EmptyTypes DEF Correct, TypeOK
<1>10. TypeOK'
  BY <1>1, <1>6, <1>8, <1>9 DEF TypeOK, pageVars, schoolVars
<1>11. AbsencesAnnounced'
  BY <1>7 DEF AbsencesAnnounced, NoticesOf, Noticed
<1>12. AbsencesFollowed'
  <2> SUFFICES ASSUME session' = "VALIDATED", NEW r \in Pupils, record'[r].status \in Events,
                      record'[r].by = "teacher"
               PROVE  followUp'[r] # "none"
    BY DEF AbsencesFollowed
  <2>1. r # s
    BY <1>6
  <2> QED BY <1>1, <1>6, <2>1 DEF IndInv, AbsencesFollowed
<1>13. CallsSound'
  BY <1>1 DEF pageVars, IndInv, CallsSound, Idle
<1> QED BY <1>10, <1>11, <1>12, <1>13 DEF IndInv

\* Neither does any other step of the school.
LEMMA SchoolKeeps ==
    ASSUME IndInv,
           \/ \E c \in Directors : Read(c) \/ Refuse(c)
           \/ \E s \in Pupils : FollowUp(s) \/ Leave(s)
           \/ CloseTerm
    PROVE  IndInv'
<1>1. TypeOK /\ UNCHANGED <<pageVars, session, record, queued>>
  BY DEF IndInv, Read, Refuse, FollowUp, Leave, CloseTerm
<1>2. enrolled' \subseteq Pupils /\ closed' \in BOOLEAN
  BY <1>1 DEF Read, Refuse, FollowUp, Leave, CloseTerm, schoolVars, TypeOK
<1>3. edit' \in [Directors -> [Pupils -> Records]]
  BY <1>1, EmptyTypes DEF Read, Refuse, FollowUp, Leave, CloseTerm, TypeOK
<1>4. /\ followUp' \in [Pupils -> FollowUps]
      /\ \A s \in Pupils : followUp[s] # "none" => followUp'[s] # "none"
  <2>1. CASE \E s \in Pupils : FollowUp(s)
    <3>1. PICK s \in Pupils, contacted \in BOOLEAN :
            followUp' = [followUp EXCEPT ![s] = IF contacted THEN "CONTACTED" ELSE Created(s)]
      BY <2>1 DEF FollowUp
    <3>2. Created(s) \in FollowUps /\ Created(s) # "none" /\ "CONTACTED" \in FollowUps
      BY <1>1 DEF Created, TypeOK, FollowUps
    <3> QED BY <1>1, <3>1, <3>2 DEF TypeOK
  <2>2. CASE ~\E s \in Pupils : FollowUp(s)
    BY <1>1, <2>2 DEF Read, Refuse, Leave, CloseTerm, TypeOK
  <2> QED BY <2>1, <2>2
<1>5. TypeOK'
  BY <1>1, <1>2, <1>3, <1>4 DEF TypeOK, pageVars
<1>6. CallsSound'
  BY <1>1 DEF pageVars, IndInv, CallsSound, Idle
<1>7. AbsencesAnnounced'
  BY <1>1 DEF IndInv, AbsencesAnnounced, NoticesOf, Noticed
<1>8. AbsencesFollowed'
  BY <1>1, <1>4 DEF IndInv, AbsencesFollowed
<1> QED BY <1>5, <1>6, <1>7, <1>8 DEF IndInv

\* To admit a call changes nothing but the call.
LEMMA AdmitStep ==
    ASSUME IndInv,
           \/ \E p \in Pages : \E t \in Tabs : Admit(p, t)
           \/ \E q \in late : AdmitLate(q)
    PROVE  IndInv'
<1>1. TypeOK /\ CallsSound /\ UNCHANGED <<page, serverVars>>
  BY DEF IndInv, Admit, AdmitLate
<1>2. call' \in [Pages -> [Tabs -> Calls]] /\ CallsSound' /\ late' \subseteq Requests
  <2>1. CASE \E p \in Pages : \E t \in Tabs : Admit(p, t)
    <3>1. PICK p \in Pages, t \in Tabs : Admit(p, t)
      BY <2>1
    <3>2. call' = [call EXCEPT ![p][t] = [call[p][t] EXCEPT !.admitted = TRUE]] /\ late' = late
      BY <1>1, <3>1 DEF Admit, TypeOK
    <3>3. call[p][t] \in Calls /\ call[p][t].kind \in Kinds
      BY <1>1, <3>1 DEF Admit, CallsSound, Idle, TypeOK
    <3>4. ASSUME NEW y \in Calls, y.kind \in Kinds
          PROVE  [y EXCEPT !.admitted = TRUE] \in Calls
                 /\ [y EXCEPT !.admitted = TRUE].kind \in Kinds
      BY <3>4 DEF Calls
    <3> QED BY <1>1, <3>2, <3>3, <3>4 DEF TypeOK, CallsSound, Idle
  <2>2. CASE \E q \in late : AdmitLate(q)
    <3>1. PICK q \in late : AdmitLate(q)
      BY <2>2
    <3>2. \A y \in Requests : [y EXCEPT !.admitted = TRUE] \in Requests
      BY DEF Requests
    <3> QED BY <1>1, <3>1, <3>2 DEF AdmitLate, TypeOK, CallsSound, Idle
  <2> QED BY <2>1, <2>2
<1>3. TypeOK'
  BY <1>1, <1>2 DEF serverVars, TypeOK
<1>4. AbsencesAnnounced' /\ AbsencesFollowed'
  BY <1>1 DEF serverVars, IndInv, AbsencesAnnounced, AbsencesFollowed, NoticesOf, Noticed
<1> QED BY <1>2, <1>3, <1>4 DEF IndInv

\* The server serves a call, or one that its page has given up.
LEMMA ServeStep ==
    ASSUME IndInv,
           \/ \E p \in Pages : \E t \in Tabs : Serve(p, t)
           \/ \E q \in late : ServeLate(q)
    PROVE  IndInv'
<1>1. TypeOK
  BY DEF IndInv
<1>2. CASE \E p \in Pages : \E t \in Tabs : Serve(p, t)
  <2>1. PICK p \in Pages, t \in Tabs : Serve(p, t)
    BY <1>2
  <2>2. PICK ok \in BOOLEAN :
          /\ ServeRequest(call[p][t], ok)
          /\ call' = [call EXCEPT ![p][t] =
               [@ EXCEPT !.state = "answered", !.ok = ok, !.admitted = FALSE, !.marks = Blank]]
    BY <2>1 DEF Serve
  <2>3. call[p][t] \in Calls /\ call[p][t].kind \in Kinds
    BY <1>1, <2>1 DEF Serve, IndInv, CallsSound, Idle, TypeOK
  <2>4. ASSUME NEW y \in Calls, y.kind \in Kinds
        PROVE  /\ [y EXCEPT !.state = "answered", !.ok = ok, !.admitted = FALSE, !.marks = Blank] \in Calls
               /\ [y EXCEPT !.state = "answered", !.ok = ok, !.admitted = FALSE, !.marks = Blank].kind \in Kinds
    BY <2>4, EmptyTypes DEF Calls
  <2>5. call' \in [Pages -> [Tabs -> Calls]] /\ CallsSound'
    BY <1>1, <2>2, <2>3, <2>4 DEF TypeOK, IndInv, CallsSound, Idle
  <2>6. UNCHANGED <<page, late, schoolVars, edit>>
    BY <2>1 DEF Serve
  <2>7. TypeOK'
    BY <1>1, <2>2, <2>3, <2>5, <2>6, ServeType DEF TypeOK, schoolVars
  <2> QED BY <2>2, <2>3, <2>5, <2>7, ServeKeeps DEF IndInv
<1>3. CASE \E q \in late : ServeLate(q)
  <2>1. PICK q \in late : ServeLate(q)
    BY <1>3
  <2>2. PICK ok \in BOOLEAN : ServeRequest(q, ok)
    BY <2>1 DEF ServeLate
  <2>3. q \in Requests
    BY <1>1 DEF TypeOK
  <2>4. UNCHANGED <<page, call, schoolVars, edit>> /\ late' \subseteq Requests
    BY <1>1, <2>1 DEF ServeLate, TypeOK
  <2>5. TypeOK'
    BY <1>1, <2>2, <2>3, <2>4, ServeType DEF TypeOK, schoolVars
  <2>6. CallsSound'
    BY <2>4 DEF IndInv, CallsSound, Idle
  <2> QED BY <2>2, <2>3, <2>5, <2>6, ServeKeeps DEF IndInv
<1> QED BY <1>2, <1>3

-----------------------------------------------------------------------------
(* Theorems *)

\* The day begins without a roll call.
LEMMA InitInv == Init => IndInv
<1> SUFFICES ASSUME Init PROVE IndInv
  OBVIOUS
<1>1. TypeOK
  BY EmptyTypes DEF Init, TypeOK, FollowUps, SessionIds
<1>2. CallsSound
  BY DEF Init, CallsSound, Idle, NoCall
<1>3. AbsencesAnnounced /\ AbsencesFollowed
  BY DEF Init, AbsencesAnnounced, AbsencesFollowed
<1> QED BY <1>1, <1>2, <1>3 DEF IndInv

\* The inductive invariant: types, calls that ask for something, and the messages
\* and follow-ups of a validated roll call.
THEOREM Inductive == Spec => []IndInv
<1>1. IndInv /\ [Next]_vars => IndInv'
  <2> SUFFICES ASSUME IndInv, [Next]_vars PROVE IndInv'
    OBVIOUS
  <2>1. CASE UNCHANGED vars
    BY <2>1 DEF vars, IndInv, TypeOK, CallsSound, Idle, AbsencesAnnounced, AbsencesFollowed,
                NoticesOf, Noticed
  <2>2. ASSUME NEW p \in Pages, PageStep(p) PROVE IndInv'
    <3>1. UNCHANGED serverVars
      BY <2>2 DEF PageStep, Load, Mark, Save, Validate, ValidateElsewhere, Receive, Fail
    <3> QED BY <2>2, <3>1, PageKeeps DEF PageStep
  <2>3. CASE \/ \E p \in Pages : \E t \in Tabs : Serve(p, t)
             \/ \E q \in late : ServeLate(q)
    BY <2>3, ServeStep
  <2>4. CASE \/ \E p \in Pages : \E t \in Tabs : Admit(p, t)
             \/ \E q \in late : AdmitLate(q)
    BY <2>4, AdmitStep
  <2>5. ASSUME NEW c \in Directors, Correct(c) PROVE IndInv'
    BY <2>5, CorrectKeeps
  <2>6. CASE \/ \E c \in Directors : Read(c) \/ Refuse(c)
             \/ \E s \in Pupils : FollowUp(s) \/ Leave(s)
             \/ CloseTerm
    BY <2>6, SchoolKeeps
  <2> QED BY <2>1, <2>2, <2>3, <2>4, <2>5, <2>6 DEF Next, ServerStep
<1> QED BY InitInv, <1>1, PTL DEF Spec

\* Every absence of a validated roll call has its message, however corrections
\* overlap.
THEOREM AbsencesAnnouncedThm == Spec => []AbsencesAnnounced
<1>1. IndInv => AbsencesAnnounced
  BY DEF IndInv
<1> QED BY Inductive, <1>1, PTL

\* Every absence or lateness validated as the teacher marked it is followed up.
THEOREM AbsencesFollowedThm == Spec => []AbsencesFollowed
<1>1. IndInv => AbsencesFollowed
  BY DEF IndInv
<1> QED BY Inductive, <1>1, PTL

\* No call of a page, however late, writes a validated roll call.
THEOREM ValidatedFrozenThm == Spec => ValidatedFrozen
<1>1. IndInv /\ [Next]_vars =>
        [session = "VALIDATED" /\ record' # record =>
           \E c \in Directors : edit[c] # Unread /\ edit'[c] = Unread]_vars
  <2> SUFFICES ASSUME IndInv, Next, session = "VALIDATED", record' # record
               PROVE  \E c \in Directors : edit[c] # Unread /\ edit'[c] = Unread
    BY DEF vars
  <2>1. ASSUME NEW q, NEW ok, ServeRequest(q, ok) PROVE FALSE
    BY <2>1 DEF ServeRequest, ServeCreate, ServeSync, ServeValidate, ServeElsewhere, Accepted, Writable
  <2>2. PICK c \in Directors : Correct(c)
    BY <2>1 DEF Next, PageStep, Load, Mark, Save, Validate, ValidateElsewhere, Receive,
                Fail, serverVars, ServerStep, Admit, AdmitLate, Serve, ServeLate, Read, Refuse, FollowUp, Leave,
                CloseTerm
  <2>3. edit[c] # Unread
    BY <2>2 DEF Correct, Unread, NoRecord
  <2>4. edit'[c] = Unread
    BY <2>2 DEF Correct, IndInv, TypeOK
  <2> QED BY <2>3, <2>4
<1> QED BY Inductive, <1>1, PTL DEF Spec, ValidatedFrozen

\* A contact with the family stays recorded.
THEOREM ContactsKeptThm == Spec => ContactsKept
<1>1. IndInv /\ [Next]_vars =>
        [\A s \in Pupils : followUp[s] = "CONTACTED" => followUp'[s] = "CONTACTED"]_vars
  <2> SUFFICES ASSUME IndInv, Next, NEW s \in Pupils, followUp[s] = "CONTACTED"
               PROVE  followUp'[s] = "CONTACTED"
    BY DEF vars
  <2>1. followUp \in [Pupils -> FollowUps]
    BY DEF IndInv, TypeOK
  <2>2. ASSUME NEW q, NEW ok, ServeRequest(q, ok) PROVE followUp'[s] = "CONTACTED"
    BY <2>1, <2>2 DEF ServeRequest, ServeCreate, ServeSync, ServeValidate, ServeElsewhere, Created
  <2>3. ASSUME NEW r \in Pupils, FollowUp(r) PROVE followUp'[s] = "CONTACTED"
    BY <2>1, <2>3 DEF FollowUp, Created
  <2> QED BY <2>2, <2>3 DEF Next, PageStep, Load, Mark, Save, Validate,
                            ValidateElsewhere, Receive, Fail, serverVars, ServerStep, Admit, AdmitLate, Serve, ServeLate, Read,
                            Correct, Refuse, Leave, CloseTerm
<1> QED BY Inductive, <1>1, PTL DEF Spec, ContactsKept
=============================================================================
