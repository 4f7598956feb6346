---------------------------- MODULE ReportCards ----------------------------
(***************************************************************************)
(* The report cards of one term, the grades they are computed from and the *)
(* closing of the term (ReportCardService, GradeCalculationService and     *)
(* TermClosureService).                                                    *)
(*                                                                         *)
(* None of these operations runs in a transaction or takes a lock: a       *)
(* request loads the models it needs, tests what it loaded and then writes *)
(* row by row.  The variable req holds the copies a request works on, and  *)
(* each UPDATE or INSERT is a step of its own.  A request may die between  *)
(* two of them (Crash).                                                    *)
(*                                                                         *)
(* Scores, averages and ranks are reduced to the state of the grade book   *)
(* they were computed from: book.at counts the changes of the book, and a  *)
(* ranking remembers the count it saw.  The rest of the data of a card, the *)
(* mention and the conduct, is one flag: whether somebody set it.          *)
(*                                                                         *)
(* Cards of the year have no term (term_id is NULL): they go through the   *)
(* same workflow, but no term holds them back and none waits for them.     *)
(***************************************************************************)
EXTENDS Naturals

CONSTANTS Requests,    \* requests that the application handles at once
          Cards,       \* the rows of report_cards, created or not
          Annual,      \* those of the year, without a term
          Remarked,    \* bound on the cards that get a mention or a conduct
          MaxChanges,  \* bound on the changes of the grade book
          MaxMissing,  \* bound on the grades that are missing
          MaxCrashes   \* bound on the requests that die

ASSUME BoundsAssumption ==
    MaxChanges \in Nat /\ MaxMissing \in Nat /\ MaxCrashes \in Nat

ASSUME CardsAssumption == Cards # {} /\ Annual \subseteq Cards /\ Remarked \subseteq Cards

VARIABLES
    card,     \* the table report_cards
    version,  \* for each card, its newest row of report_card_versions
    term,     \* status and grade_validation_status of the term
    book,     \* the grades of the term: changes so far, whether there are
              \* assessments, grades they miss, the last entry
    req,      \* what each request has loaded and how far it is
    cut,      \* the cards written by a request that died before snapshot()
    crashes

vars == <<card, version, term, book, req, cut, crashes>>

Unpublished == {"draft", "review", "conseil_de_classe", "approved"}
Status == Unpublished \cup {"published", "revision_requested"}

Rankings == [at : 0..MaxChanges, definitive : BOOLEAN]
Data == [ranking : Rankings, remark : BOOLEAN]
CardRow == [status : Status \cup {"absent"}, data : Data]
TermRow == [closed : BOOLEAN, validated : BOOLEAN]
Books == [at : 0..MaxChanges, assessed : BOOLEAN, missing : 0..MaxMissing,
          entry : 0..MaxChanges]
Book == {b \in Books : b.assessed \/ b.missing = 0}

Moves == {"submit", "council", "approve", "publish", "revise"}
CardOps == Moves \cup {"generate", "mention", "conduct"}
TermOps == {"assess", "grade", "roll", "validate", "close"}

Steps == {"idle", "loaded", "ranked", "built", "graded", "refresh", "written"}
RequestRow == [pc : Steps, op : CardOps \cup TermOps, c : Cards,
               card : [Cards -> CardRow], term : TermRow, book : Book,
               built : Data, todo : SUBSET Cards]

(***************************************************************************)
(* The workflow: each move takes a card from one status to the next.       *)
(***************************************************************************)
From == [op \in Moves |->
           CASE op = "submit" -> "draft"
             [] op = "council" -> "review"
             [] op = "approve" -> "conseil_de_classe"
             [] op = "publish" -> "approved"
             [] op = "revise" -> "published"]
To == [op \in Moves |->
           CASE op = "submit" -> "review"
             [] op = "council" -> "conseil_de_classe"
             [] op = "approve" -> "approved"
             [] op = "publish" -> "published"
             [] op = "revise" -> "revision_requested"]

NoData == [ranking |-> [at |-> 0, definitive |-> FALSE], remark |-> FALSE]

(***************************************************************************)
(* Grades are complete when every active pupil has one for each assessment *)
(* of the term.  A ranking is provisional until they are and the director  *)
(* has validated them, but only in a term that has assessments: a ranking  *)
(* of the year, or of a term without assessments, is definitive at once.   *)
(***************************************************************************)
Complete(b) == b.missing = 0

Provisional(c) ==
    c \notin Annual /\ book.assessed /\ ~(Complete(book) /\ term.validated)

Ranking(c) == [at |-> book.at, definitive |-> ~Provisional(c)]

\* A plausible bug: cards that were submitted are forgotten.
RefreshedDrafts == {"draft", "approved", "revision_requested"}

\* saveGrade() recomputes the rankings of the cards in these states.
Refreshed == {"draft", "review", "approved", "revision_requested"}

\* A plausible bug: every card that is not an idle draft keeps the term open.
PendingUnlessArchived == {"draft", "review", "conseil_de_classe", "published"}

\* The states in which a card keeps its term from being closed.
Pending == {"draft", "review", "conseil_de_classe", "revision_requested"}

NoCards == [c \in Cards |-> [status |-> "absent", data |-> NoData]]

\* A request that is not running holds nothing.
Idle == [pc |-> "idle", op |-> "submit", c |-> CHOOSE c \in Cards : TRUE,
         card |-> NoCards, term |-> [closed |-> FALSE, validated |-> FALSE],
         book |-> [at |-> 0, assessed |-> FALSE, missing |-> 0, entry |-> 0],
         built |-> NoData, todo |-> {}]

Init ==
    /\ card = NoCards
    /\ version = NoCards
    /\ term = [closed |-> FALSE, validated |-> FALSE]
    /\ book \in {b \in Book : b.at = 0 /\ b.entry = 0}
    /\ req = [r \in Requests |-> Idle]
    /\ cut = {}
    /\ crashes = 0

At(r, pc) == req[r].pc = pc
Mine(r) == req[r].card[req[r].c]     \* the copy of its card in memory
Finish(r) == req' = [req EXCEPT ![r] = Idle]

\* $card->term?->isClosed(), on what the request has loaded.
Closed(r) == req[r].c \notin Annual /\ req[r].term.closed

(***************************************************************************)
(* A request starts by loading the card, the term and the grades.          *)
(***************************************************************************)
Start(r, op, c) ==
    /\ At(r, "idle")
    /\ \/ op = "generate" /\ card[c].status = "absent"
       \/ op \in Moves /\ card[c].status # "absent"
       \/ op \in {"mention", "conduct"} /\ c \in Remarked /\ card[c].status # "absent"
       \/ op \in TermOps /\ c = Idle.c
    /\ req' = [req EXCEPT ![r] = [Idle EXCEPT !.pc = "loaded", !.op = op, !.c = c,
                                     !.card = card, !.term = term, !.book = book]]
    /\ UNCHANGED <<card, version, term, book, cut, crashes>>

\* A plausible bug: publish() takes a provisional ranking.
AllowedProvisional(r) ==
    LET q == req[r] IN
    /\ q.op \in Moves \ {"publish"} => ~Closed(r) /\ Mine(r).status = From[q.op]
    /\ q.op \in {"mention", "conduct"} => Mine(r).status # "published" /\ ~Closed(r)
    /\ q.op = "grade" => ~q.term.closed /\ q.book.assessed
    /\ q.op \in {"validate", "close"} => ~q.term.closed

(***************************************************************************)
(* What the request tests on what it loaded.  publish() ranks the pupil    *)
(* before it tests anything else.                                          *)
(***************************************************************************)
Allowed(r) ==
    LET q == req[r] IN
    /\ q.op \in Moves \ {"publish"} => ~Closed(r) /\ Mine(r).status = From[q.op]
    /\ q.op = "publish" => Ranking(q.c).definitive
    /\ q.op \in {"mention", "conduct"} => Mine(r).status # "published" /\ ~Closed(r)
    /\ q.op = "grade" => ~q.term.closed /\ q.book.assessed
    /\ q.op = "validate" => ~q.term.closed /\ Complete(q.book)
    /\ q.op = "close" =>
          ~q.term.closed /\ \A c \in Cards \ Annual : q.card[c].status \notin Pending

\* The bound of the model: the grade book changes no more.
Exhausted(r) == req[r].op \in {"grade", "roll"} /\ book.at = MaxChanges

\* saveGrade() returns at once for a client_operation_id that it has stored: a
\* retry of a request that died does not resume its refresh.
Repeated(r) == req[r].op = "grade" /\ book.entry > 0

Refuse(r) ==
    /\ At(r, "loaded")
    /\ ~Allowed(r) \/ Exhausted(r) \/ Repeated(r)
    /\ Finish(r)
    /\ UNCHANGED <<card, version, term, book, cut, crashes>>

\* A plausible bug: the saving event does not look at the status.
MayAlwaysWriteData(r) == TRUE

(***************************************************************************)
(* $card->update(): a column is written when it differs from the copy, and *)
(* the saving event refuses new data for a copy that was published.        *)
(***************************************************************************)
MayWriteData(r) == Mine(r).status # "published"

WriteData(r, c, data, pc) ==
    /\ card' = IF data = req[r].card[c].data THEN card
               ELSE [card EXCEPT ![c].data = data]
    /\ req' = [req EXCEPT ![r].pc = pc, ![r].c = c, ![r].todo = req[r].todo \ {c},
                          ![r].card[c].data = data]

WriteStatus(r, status) ==
    /\ card' = [card EXCEPT ![req[r].c].status = status]
    /\ req' = [req EXCEPT ![r].pc = "written", ![r].card[req[r].c].status = status]

(***************************************************************************)
(* submitForReview(), submitToClassCouncil(), approve(), requestRevision() *)
(***************************************************************************)
Transition(r) ==
    /\ At(r, "loaded")
    /\ req[r].op \in Moves \ {"publish"}
    /\ Allowed(r)
    /\ WriteStatus(r, To[req[r].op])
    /\ UNCHANGED <<version, term, book, cut, crashes>>

(***************************************************************************)
(* publish(): a ranking that is not provisional is written if it differs,  *)
(* and only then does transition() look at the term and at the status.     *)
(***************************************************************************)
PublishRank(r) ==
    /\ At(r, "loaded")
    /\ req[r].op = "publish"
    /\ Allowed(r)
    /\ LET now == Ranking(req[r].c) IN
       IF Mine(r).data.ranking = now
         THEN req' = [req EXCEPT ![r].pc = "ranked"] /\ UNCHANGED card
         ELSE IF MayWriteData(r)
                THEN WriteData(r, req[r].c, [Mine(r).data EXCEPT !.ranking = now], "ranked")
                ELSE Finish(r) /\ UNCHANGED card
    /\ UNCHANGED <<version, term, book, cut, crashes>>

PublishMove(r) ==
    /\ At(r, "ranked")
    /\ IF ~Closed(r) /\ Mine(r).status = From["publish"]
         THEN WriteStatus(r, To["publish"])
         ELSE Finish(r) /\ UNCHANGED card
    /\ UNCHANGED <<version, term, book, cut, crashes>>

(***************************************************************************)
(* overrideAcademicMention() and setConduct() write the whole data of the  *)
(* copy back.  For the columns of the mention the saving event reads the   *)
(* status of the term again.                                               *)
(***************************************************************************)
Annotate(r) ==
    /\ At(r, "loaded")
    /\ req[r].op \in {"mention", "conduct"}
    /\ Allowed(r)
    /\ IF req[r].op = "mention" /\ req[r].c \notin Annual /\ term.closed
         THEN Finish(r) /\ UNCHANGED card
         ELSE WriteData(r, req[r].c, [Mine(r).data EXCEPT !.remark = TRUE], "written")
    /\ UNCHANGED <<version, term, book, cut, crashes>>

\* snapshot(): a new version holds the status and the data of the copy.
Snapshot(r) ==
    /\ At(r, "written")
    /\ version' = [version EXCEPT ![req[r].c] = Mine(r)]
    /\ cut' = cut \ {req[r].c}
    /\ IF req[r].op = "grade"
         THEN req' = [req EXCEPT ![r].pc = "refresh"]
         ELSE Finish(r)
    /\ UNCHANGED <<card, term, book, crashes>>

(***************************************************************************)
(* generate(): the data is computed first, then a transaction creates the  *)
(* card with its first version.  The unique key of a card with a term lets *)
(* one request create it; where the term is NULL the key holds nobody, and *)
(* what a second request creates is another card.                          *)
(***************************************************************************)
Build(r) ==
    /\ At(r, "loaded")
    /\ req[r].op = "generate"
    /\ req' = [req EXCEPT ![r].pc = "built",
                          ![r].built = [NoData EXCEPT !.ranking = Ranking(req[r].c)]]
    /\ UNCHANGED <<card, version, term, book, cut, crashes>>

Create(r) ==
    /\ At(r, "built")
    /\ IF card[req[r].c].status = "absent"
         THEN LET new == [status |-> "draft", data |-> req[r].built] IN
              /\ card' = [card EXCEPT ![req[r].c] = new]
              /\ version' = [version EXCEPT ![req[r].c] = new]
         ELSE UNCHANGED <<card, version>>
    /\ Finish(r)
    /\ UNCHANGED <<term, book, cut, crashes>>

(***************************************************************************)
(* saveGrade(): the grade is written, the validation of the grades is      *)
(* withdrawn, then the rankings of the cards are refreshed one by one.     *)
(***************************************************************************)
Grade(r) ==
    /\ At(r, "loaded")
    /\ req[r].op = "grade"
    /\ Allowed(r)
    /\ ~Exhausted(r)
    /\ \E m \in {book.missing, book.missing - 1} \cap Nat :
          book' = [book EXCEPT !.at = book.at + 1, !.missing = m, !.entry = book.at + 1]
    /\ req' = [req EXCEPT ![r].pc = "graded"]
    /\ UNCHANGED <<card, version, term, cut, crashes>>

\* refreshDraftRankings() reads all the cards of the term that it will write.
Reset(r) ==
    /\ At(r, "graded")
    /\ term' = [term EXCEPT !.validated = FALSE]
    /\ req' = [req EXCEPT ![r].pc = "refresh", ![r].card = card,
                          ![r].todo = {c \in Cards \ Annual : card[c].status \in Refreshed}]
    /\ UNCHANGED <<card, version, book, cut, crashes>>

RefreshRanking(r, c) ==
    /\ At(r, "refresh")
    /\ c \in req[r].todo
    /\ WriteData(r, c, [req[r].card[c].data EXCEPT !.ranking = Ranking(c)], "written")
    /\ UNCHANGED <<version, term, book, cut, crashes>>

RefreshDone(r) ==
    /\ At(r, "refresh")
    /\ req[r].todo = {}
    /\ Finish(r)
    /\ UNCHANGED <<card, version, term, book, cut, crashes>>

(***************************************************************************)
(* A pupil comes or goes, or an assessment is changed: its weight, its     *)
(* scale or the term it counts for.  Rankings, missing grades and whether  *)
(* there is an assessment at all may change, but neither the validation    *)
(* nor any card is touched; the form of an assessment does not even ask    *)
(* whether the term is closed.                                             *)
(***************************************************************************)
Roll(r) ==
    /\ At(r, "loaded")
    /\ req[r].op = "roll"
    /\ Allowed(r)
    /\ ~Exhausted(r)
    /\ \E b \in Book :
          /\ b.at = book.at + 1 /\ b.entry = book.entry
          /\ book' = b
    /\ Finish(r)
    /\ UNCHANGED <<card, version, term, cut, crashes>>

(***************************************************************************)
(* A new assessment has no grades: no average moves, but grades may be     *)
(* missing that were complete and validated.                               *)
(***************************************************************************)
Assess(r) ==
    /\ At(r, "loaded")
    /\ req[r].op = "assess"
    /\ \E m \in book.missing..MaxMissing :
          book' = [book EXCEPT !.assessed = TRUE, !.missing = m]
    /\ Finish(r)
    /\ UNCHANGED <<card, version, term, cut, crashes>>

ValidateTerm(r) ==
    /\ At(r, "loaded")
    /\ req[r].op = "validate"
    /\ Allowed(r)
    /\ term' = [term EXCEPT !.validated = TRUE]
    /\ Finish(r)
    /\ UNCHANGED <<card, version, book, cut, crashes>>

Close(r) ==
    /\ At(r, "loaded")
    /\ req[r].op = "close"
    /\ Allowed(r)
    /\ term' = [term EXCEPT !.closed = TRUE]
    /\ Finish(r)
    /\ UNCHANGED <<card, version, book, cut, crashes>>

\* The process dies between two statements.
Crash(r) ==
    /\ ~At(r, "idle")
    /\ crashes < MaxCrashes
    /\ crashes' = crashes + 1
    /\ cut' = IF At(r, "written") THEN cut \cup {req[r].c} ELSE cut
    /\ Finish(r)
    /\ UNCHANGED <<card, version, term, book>>

Progress(r) ==
    \/ Refuse(r) \/ Transition(r) \/ PublishRank(r) \/ PublishMove(r)
    \/ Annotate(r) \/ Snapshot(r) \/ Build(r) \/ Create(r)
    \/ Grade(r) \/ Reset(r) \/ RefreshDone(r)
    \/ Roll(r) \/ Assess(r) \/ ValidateTerm(r) \/ Close(r)
    \/ \E c \in Cards : RefreshRanking(r, c)

Next ==
    \E r \in Requests :
       \/ \E op \in CardOps \cup TermOps, c \in Cards : Start(r, op, c)
       \/ Progress(r)
       \/ Crash(r)

(***************************************************************************)
(* Fairness.  PHP runs a request to its end unless it dies.  Staff come    *)
(* back to a card that waits and use the button the panel shows for its    *)
(* status, and the director tries again to close the term; nobody has to   *)
(* enter, override, publish or revise anything.                            *)
(***************************************************************************)
Advance(c) ==
    \E r \in Requests, op \in {"submit", "council", "approve"} :
       card[c].status = From[op] /\ Start(r, op, c)

Fairness ==
    /\ \A r \in Requests : WF_vars(Progress(r))
    /\ \A c \in Cards : SF_vars(Advance(c))
    /\ SF_vars(\E r \in Requests : Start(r, "close", Idle.c))

Spec == Init /\ [][Next]_vars /\ Fairness

(***************************************************************************)
(* Types.                                                                  *)
(***************************************************************************)
TypeOK ==
    /\ card \in [Cards -> CardRow]
    /\ version \in [Cards -> CardRow]
    /\ term \in TermRow
    /\ book \in Book
    /\ req \in [Requests -> RequestRow]
    /\ cut \in SUBSET Cards
    /\ crashes \in 0..MaxCrashes

(***************************************************************************)
(* One request at a time.                                                  *)
(***************************************************************************)
SingleUser == \A r, s \in Requests : r = s

\* What a running request holds in memory is what the tables hold.
CopiesCurrent ==
    \A r \in Requests : ~At(r, "idle") =>
       /\ \A c \in Cards : req[r].card[c] = card[c]
       /\ req[r].term.closed = term.closed

\* What each step of a request may rely on, from the steps before it.
Follows(r) ==
    /\ At(r, "ranked") => /\ req[r].op = "publish"
                          /\ Mine(r).data.ranking = Ranking(req[r].c)
                          /\ ~Provisional(req[r].c)
    /\ At(r, "graded") \/ At(r, "refresh") => req[r].op = "grade"
    /\ At(r, "built") => /\ req[r].op = "generate"
                         /\ req[r].built.ranking = Ranking(req[r].c)
    /\ \A c \in req[r].todo : card[c].status \in Refreshed
    /\ req[r].todo # {} => /\ req[r].op = "grade"
                           /\ At(r, "refresh") \/ At(r, "written")
    /\ ~At(r, "idle") /\ req[r].op \in CardOps =>
          (card[req[r].c].status = "absent" <=> req[r].op = "generate")

StepsFollow == book.entry <= book.at /\ \A r \in Requests : Follows(r)

(***************************************************************************)
(* A published card is in the archive as it was published, unless the      *)
(* request that published it is about to write the version or died before  *)
(* it (PublishMove and Snapshot are two statements).                       *)
(***************************************************************************)
PublishedArchived ==
    \A c \in Cards :
       card[c].status = "published" =>
          \/ version[c] = card[c]
          \/ c \in cut
          \/ \E r \in Requests : At(r, "written") /\ req[r].c = c

(***************************************************************************)
(* A card that has not reached the class council never shows a ranking     *)
(* from before the last grade entered, unless the request that entered the *)
(* grade is still refreshing it or has died (saveGrade and                 *)
(* refreshDraftRankings, one card at a time).  Cards of the year are not   *)
(* refreshed.                                                              *)
(***************************************************************************)
DraftsFollowGrades ==
    \A c \in Cards \ Annual :
       /\ card[c].status \in {"draft", "review"}
       /\ crashes = 0
       => \/ card[c].data.ranking.at >= book.entry
          \/ \E r \in Requests : At(r, "graded") \/ c \in req[r].todo

(***************************************************************************)
(* publish(): whatever was entered, validated, assessed or interrupted     *)
(* before, what is published carries the ranking of the grades as they are *)
(* at that moment; and if the card has a term, and the term assessments,   *)
(* no grade is missing then and the director has validated them.           *)
(***************************************************************************)
PublishedDefinitive ==
    [][\A c \in Cards :
          card[c].status # "published" /\ card'[c].status = "published"
          => /\ card'[c].data.ranking = Ranking(c)
             /\ c \notin Annual /\ book.assessed => Complete(book) /\ term.validated]_vars

(***************************************************************************)
(* ReportCard::booted(): "Published report cards are immutable".  The data *)
(* of a published card stays and the card is only left for a revision.     *)
(***************************************************************************)
PublishedImmutable ==
    [][\A c \in Cards :
          card[c].status = "published"
          => /\ card'[c].data = card[c].data
             /\ card'[c].status \in {"published", "revision_requested"}]_vars

(***************************************************************************)
(* docs/cartographie-fonctionnelle-et-dashboard.md:50: "Une periode        *)
(* cloturee ne peut plus faire evoluer les bulletins."  Closing does not   *)
(* wait for approved cards: they would have to stay as they are.           *)
(***************************************************************************)
ClosedTermFrozen ==
    [][\A c \in Cards \ Annual :
          term.closed /\ card[c].status = "approved" => card'[c] = card[c]]_vars

(***************************************************************************)
(* No state of the workflow but the request of a revision holds a term     *)
(* open for ever: if staff keep at it, the term gets closed               *)
(* (TermClosureService::close).  From revision_requested no operation      *)
(* leads on.                                                               *)
(***************************************************************************)
TermGetsClosed ==
    <>(term.closed \/ \E c \in Cards \ Annual : card[c].status = "revision_requested")

IndInv == TypeOK /\ CopiesCurrent /\ StepsFollow

============================================================================
