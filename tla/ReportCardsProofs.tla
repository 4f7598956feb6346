------------------------- MODULE ReportCardsProofs -------------------------
(***************************************************************************)
(* Theorems about ReportCards, for any number of cards and any bounds.     *)
(* Those about what is published assume that the requests on one term come *)
(* one after the other (SingleUser).                                       *)
(***************************************************************************)
EXTENDS ReportCards, TLAPS

USE DEF At, Mine

\* What is empty is well typed.
LEMMA EmptyTypes ==
    /\ NoData \in Data
    /\ NoCards \in [Cards -> CardRow]
    /\ Idle \in RequestRow
<1>1. NoData \in Data
  BY BoundsAssumption DEF NoData, Data, Rankings
<1>2. NoCards \in [Cards -> CardRow]
  BY <1>1 DEF NoCards, CardRow
<1>3. [closed |-> FALSE, validated |-> FALSE] \in TermRow
  BY DEF TermRow
<1>4. [at |-> 0, assessed |-> FALSE, missing |-> 0, entry |-> 0] \in Book
  BY BoundsAssumption DEF Book, Books
<1>5. (CHOOSE c \in Cards : TRUE) \in Cards
  BY CardsAssumption
<1>6. "idle" \in Steps /\ "submit" \in CardOps \cup TermOps
  BY DEF Steps, CardOps, TermOps, Moves
<1> HIDE DEF NoData, NoCards, RequestRow
<1>7. Idle \in RequestRow
  BY <1>1, <1>2, <1>3, <1>4, <1>5, <1>6 DEF Idle, RequestRow
<1> QED BY <1>1, <1>2, <1>7

\* The fields of the grade book.
LEMMA BookType ==
    ASSUME TypeOK
    PROVE  /\ book.at \in 0..MaxChanges /\ book.entry \in 0..MaxChanges
           /\ book.missing \in 0..MaxMissing /\ book.assessed \in BOOLEAN
           /\ book.assessed \/ book.missing = 0
BY DEF TypeOK, Book, Books

\* The ranking of the moment is a ranking.
LEMMA RankingType == ASSUME TypeOK, NEW c \in Cards PROVE Ranking(c) \in Rankings
<1>1. book.at \in 0..MaxChanges
  BY BookType
<1>2. Provisional(c) \in BOOLEAN
  BY DEF Provisional
<1> QED BY <1>1, <1>2 DEF Ranking, Rankings

\* It is the same as long as the grade book and the term are.
LEMMA RankingKept ==
    ASSUME UNCHANGED <<book, term>>, NEW c
    PROVE  /\ Ranking(c)' = Ranking(c) /\ Provisional(c)' = Provisional(c)
           /\ Ranking(c).at = book.at
BY DEF Ranking, Provisional, Complete

\* Writing new data keeps the types of a card and of a request.
LEMMA DataRowType ==
    ASSUME NEW y \in RequestRow, NEW x \in CardRow, NEW c \in Cards, NEW d \in Data,
           NEW pc \in Steps
    PROVE  /\ [x EXCEPT !.data = d] \in CardRow
           /\ [y EXCEPT !.pc = pc, !.c = c, !.todo = y.todo \ {c}, !.card[c].data = d]
                 \in RequestRow
<1>1. [x EXCEPT !.data = d] \in CardRow
  BY DEF CardRow
<1>2. y.card \in [Cards -> CardRow]
  BY DEF RequestRow
<1>3. [y.card EXCEPT ![c].data = d] \in [Cards -> CardRow]
  BY <1>2 DEF CardRow
<1>4. [y EXCEPT !.pc = pc, !.c = c, !.todo = y.todo \ {c}, !.card[c].data = d] \in RequestRow
  BY <1>3 DEF RequestRow
<1> QED BY <1>1, <1>4

\* So does writing a status.
LEMMA StatusRowType ==
    ASSUME NEW y \in RequestRow, NEW x \in CardRow, NEW c \in Cards, NEW s \in Status
    PROVE  /\ [x EXCEPT !.status = s] \in CardRow
           /\ [y EXCEPT !.pc = "written", !.card[c].status = s] \in RequestRow
<1>1. [x EXCEPT !.status = s] \in CardRow
  BY DEF CardRow
<1>2. y.card \in [Cards -> CardRow] /\ "written" \in Steps
  BY DEF RequestRow, Steps
<1>3. [y.card EXCEPT ![c].status = s] \in [Cards -> CardRow]
  BY <1>2 DEF CardRow
<1>4. [y EXCEPT !.pc = "written", !.card[c].status = s] \in RequestRow
  BY <1>2, <1>3 DEF RequestRow
<1> QED BY <1>1, <1>4

\* WriteData keeps the types.
LEMMA WriteDataType ==
    ASSUME TypeOK, NEW r \in Requests, NEW c \in Cards, NEW d \in Data, NEW pc \in Steps,
           WriteData(r, c, d, pc)
    PROVE  card' \in [Cards -> CardRow] /\ req' \in [Requests -> RequestRow]
<1>1. req[r] \in RequestRow /\ card[c] \in CardRow
  BY DEF TypeOK
<1>2. [card[c] EXCEPT !.data = d] \in CardRow
  BY <1>1, DataRowType
<1>3. card' \in [Cards -> CardRow]
  BY <1>2 DEF WriteData, TypeOK
<1>4. [req[r] EXCEPT !.pc = pc, !.c = c, !.todo = req[r].todo \ {c}, !.card[c].data = d]
        \in RequestRow
  BY <1>1, DataRowType
<1>5. req' \in [Requests -> RequestRow]
  BY <1>4 DEF WriteData, TypeOK
<1> QED BY <1>3, <1>5

\* WriteStatus keeps the types.
LEMMA WriteStatusType ==
    ASSUME TypeOK, NEW r \in Requests, NEW s \in Status, WriteStatus(r, s)
    PROVE  card' \in [Cards -> CardRow] /\ req' \in [Requests -> RequestRow]
<1>1. req[r] \in RequestRow /\ req[r].c \in Cards
  BY DEF TypeOK, RequestRow
<1>2. card[req[r].c] \in CardRow
  BY <1>1 DEF TypeOK
<1>3. [card[req[r].c] EXCEPT !.status = s] \in CardRow
  BY <1>1, <1>2, StatusRowType
<1>4. card' \in [Cards -> CardRow]
  BY <1>1, <1>3 DEF WriteStatus, TypeOK
<1>5. [req[r] EXCEPT !.pc = "written", !.card[req[r].c].status = s] \in RequestRow
  BY <1>1, <1>2, StatusRowType
<1>6. req' \in [Requests -> RequestRow]
  BY <1>5 DEF WriteStatus, TypeOK
<1> QED BY <1>4, <1>6

\* The statuses of the workflow are statuses.
LEMMA FlowType == \A op \in Moves : From[op] \in Status /\ To[op] \in Status
BY DEF Moves, From, To, Status, Unpublished

\* The copy of a running request is a card.
LEMMA MineType ==
    ASSUME TypeOK, NEW r \in Requests
    PROVE  /\ req[r] \in RequestRow /\ req[r].c \in Cards
           /\ Mine(r) \in CardRow /\ Mine(r).data \in Data
           /\ [Mine(r).data EXCEPT !.ranking = Ranking(req[r].c)] \in Data
           /\ [Mine(r).data EXCEPT !.remark = TRUE] \in Data
           /\ [NoData EXCEPT !.ranking = Ranking(req[r].c)] \in Data
           /\ \A c \in Cards : [req[r].card[c].data EXCEPT !.ranking = Ranking(c)] \in Data
<1>1. req[r] \in RequestRow
  BY DEF TypeOK
<1>2. req[r].c \in Cards /\ req[r].card \in [Cards -> CardRow]
  BY <1>1 DEF RequestRow
<1>3. \A x \in CardRow : x.data \in Data
  BY DEF CardRow
<1>4. \A d \in Data, k \in Rankings : /\ [d EXCEPT !.ranking = k] \in Data
                                      /\ [d EXCEPT !.remark = TRUE] \in Data
  BY DEF Data
<1> QED BY <1>1, <1>2, <1>3, <1>4, RankingType, EmptyTypes

\* Ending a request keeps the types.
LEMMA FinishType ==
    ASSUME TypeOK, NEW r \in Requests, Finish(r)
    PROVE  req' \in [Requests -> RequestRow]
BY EmptyTypes DEF Finish, TypeOK

\* So does moving it on.
LEMMA StepType ==
    ASSUME TypeOK, NEW r \in Requests, NEW pc \in Steps, req' = [req EXCEPT ![r].pc = pc]
    PROVE  req' \in [Requests -> RequestRow]
<1>1. \A y \in RequestRow : [y EXCEPT !.pc = pc] \in RequestRow
  BY DEF RequestRow
<1> QED BY <1>1 DEF TypeOK

(***************************************************************************)
(* Type correctness, whatever requests run at once.                        *)
(***************************************************************************)
LEMMA TypeStep == TypeOK /\ [Next]_vars => TypeOK'
<1> SUFFICES ASSUME TypeOK, [Next]_vars PROVE TypeOK'
  OBVIOUS
<1> USE DEF TypeOK
<1>s. {"idle", "loaded", "ranked", "built", "graded", "refresh", "written"} \subseteq Steps
  BY DEF Steps
<1>a. ASSUME NEW r \in Requests, NEW op \in CardOps \cup TermOps, NEW c \in Cards,
             Start(r, op, c)
      PROVE  TypeOK'
  <2>1. [Idle EXCEPT !.pc = "loaded", !.op = op, !.c = c, !.card = card, !.term = term,
                     !.book = book] \in RequestRow
    BY <1>s, EmptyTypes DEF RequestRow
  <2> QED BY <1>a, <2>1 DEF Start
<1>b. ASSUME NEW r \in Requests, Refuse(r) \/ RefreshDone(r) PROVE TypeOK'
  BY <1>b, FinishType DEF Refuse, RefreshDone
<1>c. ASSUME NEW r \in Requests, Transition(r) PROVE TypeOK'
  <2>1. To[req[r].op] \in Status
    BY <1>c, FlowType DEF Transition
  <2> QED BY <1>c, <2>1, WriteStatusType DEF Transition
<1>d. ASSUME NEW r \in Requests, PublishRank(r) PROVE TypeOK'
  <2>1. CASE Mine(r).data.ranking = Ranking(req[r].c)
    BY <1>d, <2>1, <1>s, StepType DEF PublishRank
  <2>2. CASE Mine(r).data.ranking # Ranking(req[r].c) /\ MayWriteData(r)
    BY <1>d, <2>2, <1>s, MineType, WriteDataType DEF PublishRank
  <2>3. CASE Mine(r).data.ranking # Ranking(req[r].c) /\ ~MayWriteData(r)
    BY <1>d, <2>3, FinishType DEF PublishRank
  <2> QED BY <2>1, <2>2, <2>3
<1>e. ASSUME NEW r \in Requests, PublishMove(r) PROVE TypeOK'
  <2>1. To["publish"] \in Status
    BY FlowType DEF Moves
  <2> QED BY <1>e, <2>1, WriteStatusType, FinishType DEF PublishMove
<1>f. ASSUME NEW r \in Requests, Annotate(r) PROVE TypeOK'
  BY <1>f, <1>s, MineType, WriteDataType, FinishType DEF Annotate
<1>g. ASSUME NEW r \in Requests, Snapshot(r) PROVE TypeOK'
  <2>1. req' \in [Requests -> RequestRow]
    BY <1>g, <1>s, StepType, FinishType DEF Snapshot
  <2> QED BY <1>g, <2>1, MineType DEF Snapshot
<1>h. ASSUME NEW r \in Requests, Build(r) PROVE TypeOK'
  <2>1. \A y \in RequestRow, d \in Data : [y EXCEPT !.pc = "built", !.built = d] \in RequestRow
    BY <1>s DEF RequestRow
  <2> QED BY <1>h, <2>1, MineType DEF Build
<1>i. ASSUME NEW r \in Requests, Create(r) PROVE TypeOK'
  <2>1. [status |-> "draft", data |-> req[r].built] \in CardRow
    BY DEF RequestRow, CardRow, Status, Unpublished
  <2> QED BY <1>i, <2>1, FinishType DEF Create
<1>j. ASSUME NEW r \in Requests, Grade(r) PROVE TypeOK'
  <2>1. book.at + 1 \in 0..MaxChanges
    BY <1>j, BookType, BoundsAssumption DEF Grade, Exhausted
  <2>2. \A m \in {book.missing, book.missing - 1} \cap Nat : m \in 0..MaxMissing
    BY BookType, BoundsAssumption
  <2>3. PICK m \in {book.missing, book.missing - 1} \cap Nat :
              book' = [book EXCEPT !.at = book.at + 1, !.missing = m, !.entry = book.at + 1]
    BY <1>j DEF Grade
  <2>4. book.assessed \/ m = 0
    BY BookType
  <2>5. book' \in Book
    BY <2>1, <2>2, <2>3, <2>4 DEF Book, Books
  <2> QED BY <1>j, <2>5, <1>s, StepType DEF Grade
<1>k. ASSUME NEW r \in Requests, Reset(r) PROVE TypeOK'
  <2>1. \A y \in RequestRow, t \in SUBSET Cards :
           [y EXCEPT !.pc = "refresh", !.card = card, !.todo = t] \in RequestRow
    BY <1>s DEF RequestRow
  <2>2. term' \in TermRow
    BY <1>k DEF Reset, TermRow
  <2> QED BY <1>k, <2>1, <2>2 DEF Reset
<1>l. ASSUME NEW r \in Requests, NEW c \in Cards, RefreshRanking(r, c) PROVE TypeOK'
  BY <1>l, <1>s, MineType, WriteDataType DEF RefreshRanking
<1>m. ASSUME NEW r \in Requests, Roll(r) PROVE TypeOK'
  BY <1>m, FinishType DEF Roll
<1>p. ASSUME NEW r \in Requests, Assess(r) PROVE TypeOK'
  <2>1. \A m \in book.missing..MaxMissing : m \in 0..MaxMissing
    BY BookType, BoundsAssumption
  <2>2. PICK m \in 0..MaxMissing : book' = [book EXCEPT !.assessed = TRUE, !.missing = m]
    BY <1>p, <2>1 DEF Assess
  <2>3. book' \in Book
    BY <2>2 DEF Book, Books
  <2> QED BY <1>p, <2>3, FinishType DEF Assess
<1>n. ASSUME NEW r \in Requests, ValidateTerm(r) \/ Close(r) PROVE TypeOK'
  <2>1. term' \in TermRow
    BY <1>n DEF ValidateTerm, Close, TermRow
  <2> QED BY <1>n, <2>1, FinishType DEF ValidateTerm, Close
<1>o. ASSUME NEW r \in Requests, Crash(r) PROVE TypeOK'
  <2>1. crashes' \in 0..MaxCrashes
    BY <1>o, BoundsAssumption DEF Crash
  <2>2. cut' \in SUBSET Cards
    BY <1>o, MineType DEF Crash
  <2> QED BY <1>o, <2>1, <2>2, FinishType DEF Crash
<1>u. CASE UNCHANGED vars
  BY <1>u DEF vars
<1> QED BY <1>a, <1>b, <1>c, <1>d, <1>e, <1>f, <1>g, <1>h, <1>i, <1>j, <1>k, <1>l, <1>m,
           <1>n, <1>o, <1>p, <1>u DEF Next, Progress

(***************************************************************************)
(* Every variable keeps its type, for any number of requests at once.      *)
(***************************************************************************)
THEOREM TypeCorrect == Spec => []TypeOK
<1>1. Init => TypeOK
  <2> SUFFICES ASSUME Init PROVE TypeOK
    OBVIOUS
  <2>1. term \in TermRow /\ crashes \in 0..MaxCrashes
    BY BoundsAssumption DEF Init, TermRow
  <2> QED BY <2>1, EmptyTypes DEF Init, TypeOK
<1> QED BY <1>1, TypeStep, PTL DEF Spec

(***************************************************************************)
(* One request at a time: its copies are current and its steps follow from *)
(* one another.                                                            *)
(***************************************************************************)
\* What holds of the only request holds of all.
LEMMA OnlyRequest ==
    ASSUME SingleUser, NEW r \in Requests,
           \A c \in Cards : req'[r].card[c] = card'[c],
           req'[r].term.closed = term'.closed
    PROVE  CopiesCurrent'
<1>1. \A s \in Requests : s = r
  BY DEF SingleUser
<1> QED BY <1>1 DEF CopiesCurrent

\* Nor has any other request steps to follow.
LEMMA OnlySteps ==
    ASSUME SingleUser, NEW r \in Requests, book'.entry <= book'.at, Follows(r)'
    PROVE  StepsFollow'
<1>1. \A s \in Requests : s = r
  BY DEF SingleUser
<1> QED BY <1>1 DEF StepsFollow

\* The end of the only request leaves nothing to hold.
LEMMA FinishInv ==
    ASSUME SingleUser, TypeOK, NEW r \in Requests, Finish(r), book'.entry <= book'.at
    PROVE  CopiesCurrent' /\ StepsFollow'
<1>1. \A s \in Requests : req'[s] = Idle
  BY DEF SingleUser, Finish, TypeOK
<1>2. Idle.pc = "idle" /\ Idle.todo = {}
  BY DEF Idle
<1> QED BY <1>1, <1>2 DEF CopiesCurrent, StepsFollow, Follows, At

\* Data is written to the table and to the copy alike.
LEMMA WriteDataCurrent ==
    ASSUME SingleUser, IndInv, NEW r \in Requests, NEW c \in Cards, NEW d \in Data,
           NEW pc \in Steps, WriteData(r, c, d, pc), ~At(r, "idle"), UNCHANGED term
    PROVE  /\ CopiesCurrent'
           /\ req'[r].pc = pc /\ req'[r].c = c /\ req'[r].todo = req[r].todo \ {c}
           /\ req'[r].op = req[r].op
           /\ req'[r].card[c].data = d
           /\ card'[c].data = d
           /\ \A k \in Cards : card'[k].status = card[k].status
           /\ \A k \in Cards : k # c => card'[k] = card[k]
<1> USE DEF IndInv
<1>1. req[r] \in RequestRow /\ req[r].card \in [Cards -> CardRow]
  BY DEF TypeOK, RequestRow
<1>2. \A k \in Cards : req[r].card[k] = card[k] /\ card[k] \in CardRow
  BY DEF CopiesCurrent, TypeOK
<1>3. req' = [req EXCEPT ![r] = [req[r] EXCEPT !.pc = pc, !.c = c, !.todo = req[r].todo \ {c},
                                               !.card[c].data = d]]
  BY DEF WriteData
<1>4. req'[r] = [req[r] EXCEPT !.pc = pc, !.c = c, !.todo = req[r].todo \ {c},
                               !.card[c].data = d]
  BY <1>3 DEF TypeOK
<1>5. /\ req'[r].pc = pc /\ req'[r].c = c /\ req'[r].todo = req[r].todo \ {c}
      /\ req'[r].op = req[r].op /\ req'[r].term = req[r].term
      /\ req'[r].card = [req[r].card EXCEPT ![c].data = d]
  BY <1>1, <1>4 DEF RequestRow
<1>6. \A x \in CardRow : /\ [x EXCEPT !.data = d].data = d
                         /\ [x EXCEPT !.data = d].status = x.status
                         /\ x.data = d => [x EXCEPT !.data = d] = x
  BY DEF CardRow
<1>7. req'[r].card[c] = [card[c] EXCEPT !.data = d]
  BY <1>1, <1>2, <1>5
<1>8. \A k \in Cards : k # c => req'[r].card[k] = card[k]
  BY <1>1, <1>2, <1>5
<1>9. card'[c] = [card[c] EXCEPT !.data = d] /\ \A k \in Cards : k # c => card'[k] = card[k]
  <2>1. CASE d = card[c].data
    BY <2>1, <1>2, <1>6 DEF WriteData
  <2>2. CASE d # card[c].data
    BY <2>2, <1>2 DEF WriteData, TypeOK
  <2> QED BY <2>1, <2>2
<1>10. CopiesCurrent'
  <2>1. \A k \in Cards : req'[r].card[k] = card'[k]
    BY <1>7, <1>8, <1>9
  <2>2. req'[r].term.closed = term'.closed
    BY <1>5 DEF CopiesCurrent
  <2> QED BY <2>1, <2>2, OnlyRequest
<1>11. ASSUME NEW k \in Cards PROVE card'[k].status = card[k].status
  <2>1. CASE k = c
    BY <1>2, <1>6, <1>9, <2>1
  <2>2. CASE k # c
    BY <1>9, <2>2
  <2> QED BY <2>1, <2>2
<1>12. req'[r].card[c].data = d /\ card'[c].data = d
  BY <1>2, <1>6, <1>7, <1>9
<1> QED BY <1>5, <1>9, <1>10, <1>11, <1>12

\* So is a status.
LEMMA WriteStatusCurrent ==
    ASSUME SingleUser, IndInv, NEW r \in Requests, NEW t \in Status,
           WriteStatus(r, t), ~At(r, "idle"), UNCHANGED term
    PROVE  /\ CopiesCurrent'
           /\ req'[r].pc = "written" /\ req'[r].c = req[r].c /\ req'[r].todo = req[r].todo
           /\ req'[r].op = req[r].op
           /\ card'[req[r].c].status = t
           /\ \A k \in Cards : card'[k].data = card[k].data
           /\ \A k \in Cards : k # req[r].c => card'[k] = card[k]
<1> USE DEF IndInv
<1> DEFINE c == req[r].c
<1>1. req[r] \in RequestRow /\ req[r].card \in [Cards -> CardRow] /\ c \in Cards
  BY DEF TypeOK, RequestRow
<1>2. \A k \in Cards : req[r].card[k] = card[k] /\ card[k] \in CardRow
  BY DEF CopiesCurrent, TypeOK
<1>3. req'[r] = [req[r] EXCEPT !.pc = "written", !.card[c].status = t]
  BY DEF WriteStatus, TypeOK
<1>4. /\ req'[r].pc = "written" /\ req'[r].c = c /\ req'[r].todo = req[r].todo
      /\ req'[r].op = req[r].op /\ req'[r].term = req[r].term
      /\ req'[r].card = [req[r].card EXCEPT ![c].status = t]
  BY <1>1, <1>3 DEF RequestRow
<1>5. \A x \in CardRow : /\ [x EXCEPT !.status = t].data = x.data
                         /\ [x EXCEPT !.status = t].status = t
  BY DEF CardRow
<1>6. card'[c] = [card[c] EXCEPT !.status = t] /\ \A k \in Cards : k # c => card'[k] = card[k]
  BY <1>1 DEF WriteStatus, TypeOK
<1>7. \A k \in Cards : req'[r].card[k] = card'[k]
  BY <1>1, <1>2, <1>4, <1>6
<1>8. CopiesCurrent'
  <2>1. req'[r].term.closed = term'.closed
    BY <1>4 DEF CopiesCurrent
  <2> QED BY <1>7, <2>1, OnlyRequest
<1>9. card'[c].status = t
  BY <1>1, <1>2, <1>5, <1>6
<1>10. ASSUME NEW k \in Cards PROVE card'[k].data = card[k].data
  <2>1. CASE k = c
    BY <1>2, <1>5, <1>6, <2>1
  <2>2. CASE k # c
    BY <1>6, <2>2
  <2> QED BY <2>1, <2>2
<1> QED BY <1>4, <1>6, <1>8, <1>9, <1>10

\* Every step of the only request keeps both.
LEMMA InvStep ==
    ASSUME SingleUser, IndInv, [Next]_vars, TypeOK'
    PROVE  CopiesCurrent' /\ StepsFollow'
<1> USE DEF IndInv, At
<1>s. {"idle", "loaded", "ranked", "built", "graded", "refresh", "written"} \subseteq Steps
  BY DEF Steps
<1>t. \A r \in Requests : req[r] \in RequestRow /\ req[r].c \in Cards /\ Follows(r)
  BY DEF TypeOK, RequestRow, StepsFollow
<1>f. book.entry <= book.at
  BY DEF StepsFollow
<1>o. /\ "grade" \notin CardOps /\ Moves \subseteq CardOps /\ "generate" \notin Moves
      /\ {"generate", "mention", "conduct"} \subseteq CardOps /\ "publish" \in Moves
      /\ TermOps \cap CardOps = {}
  BY DEF CardOps, Moves, TermOps
<1>a. ASSUME NEW r \in Requests, NEW op \in CardOps \cup TermOps, NEW c \in Cards,
             Start(r, op, c)
      PROVE  CopiesCurrent' /\ StepsFollow'
  <2>1. req'[r] = [Idle EXCEPT !.pc = "loaded", !.op = op, !.c = c, !.card = card,
                               !.term = term, !.book = book]
    BY <1>a DEF Start, TypeOK
  <2>2. /\ req'[r].pc = "loaded" /\ req'[r].card = card /\ req'[r].term = term
        /\ req'[r].todo = {} /\ req'[r].op = op /\ req'[r].c = c
    BY <2>1 DEF Idle
  <2>3. UNCHANGED <<card, term, book>>
    BY <1>a DEF Start
  <2>4. CopiesCurrent'
    BY <2>2, <2>3, OnlyRequest
  <2>5. op \in CardOps => (card[c].status = "absent" <=> op = "generate")
    BY <1>a, <1>o DEF Start
  <2>6. Follows(r)'
    BY <2>2, <2>3, <2>5 DEF Follows
  <2> QED BY <1>f, <2>3, <2>4, <2>6, OnlySteps
<1>b. ASSUME NEW r \in Requests,
             Refuse(r) \/ RefreshDone(r) \/ Create(r) \/ ValidateTerm(r) \/ Close(r) \/ Crash(r)
      PROVE  CopiesCurrent' /\ StepsFollow'
  BY <1>b, <1>f, FinishInv DEF Refuse, RefreshDone, Create, ValidateTerm, Close, Crash
<1>v. ASSUME NEW r \in Requests, NEW t \in Status, req[r].pc # "idle", req[r].todo = {},
             req[r].op \in Moves, WriteStatus(r, t), UNCHANGED <<term, book>>
      PROVE  CopiesCurrent' /\ StepsFollow'
  <2>1. /\ CopiesCurrent'
        /\ req'[r].pc = "written" /\ req'[r].c = req[r].c /\ req'[r].todo = {}
        /\ req'[r].op = req[r].op /\ card'[req[r].c].status = t
    BY <1>v, WriteStatusCurrent
  <2>2. t # "absent"
    BY <1>v DEF Status, Unpublished
  <2>3. Follows(r)'
    BY <1>v, <1>o, <2>1, <2>2 DEF Follows
  <2> QED BY <1>v, <1>f, <2>1, <2>3, OnlySteps
<1>c. ASSUME NEW r \in Requests, Transition(r) PROVE CopiesCurrent' /\ StepsFollow'
  <2>1. To[req[r].op] \in Status
    BY <1>c, FlowType DEF Transition
  <2>2. req[r].todo = {} /\ UNCHANGED <<term, book>> /\ req[r].pc # "idle"
    BY <1>c, <1>t DEF Transition, Follows
  <2> QED BY <1>c, <1>v, <2>1, <2>2 DEF Transition
<1>d. ASSUME NEW r \in Requests, PublishRank(r) PROVE CopiesCurrent' /\ StepsFollow'
  <2>1. /\ req[r].todo = {} /\ req[r].pc = "loaded" /\ req[r].op = "publish"
        /\ ~Provisional(req[r].c) /\ UNCHANGED <<term, book>>
    BY <1>d, <1>t DEF PublishRank, Allowed, Ranking, Follows
  <2> DEFINE now == Ranking(req[r].c)
  <2>2. /\ \A c : c = req[r].c => /\ Ranking(c)' = now
                                /\ ~Provisional(c)'
    BY <2>1, RankingKept
  <2>n. now \in Rankings
    BY <1>t, RankingType
  <2>c. card[req[r].c].status # "absent"
    BY <1>t, <1>o, <2>1 DEF Follows
  <2>3. CASE Mine(r).data.ranking = now
    <3>1. req'[r] = [req[r] EXCEPT !.pc = "ranked"] /\ card' = card
      BY <1>d, <2>3 DEF PublishRank, TypeOK
    <3>2. /\ req'[r].pc = "ranked" /\ req'[r].c = req[r].c /\ req'[r].todo = {}
          /\ req'[r].op = "publish" /\ req'[r].card = req[r].card /\ req'[r].term = req[r].term
      BY <1>t, <2>1, <3>1 DEF RequestRow
    <3>3. /\ \A k \in Cards : req'[r].card[k] = card'[k]
          /\ req'[r].term.closed = term'.closed
      BY <2>1, <3>1, <3>2 DEF CopiesCurrent
    <3>4. Mine(r)' = Mine(r)
      BY <3>2 DEF Mine
    <3>5. Follows(r)'
      BY <2>1, <2>2, <2>3, <2>c, <3>1, <3>2, <3>4 DEF Follows
    <3> QED BY <1>f, <2>1, <3>3, <3>5, OnlyRequest, OnlySteps
  <2>4. CASE Mine(r).data.ranking # now /\ MayWriteData(r)
    <3> DEFINE d == [Mine(r).data EXCEPT !.ranking = now]
    <3>1. WriteData(r, req[r].c, d, "ranked")
      BY <1>d, <2>4 DEF PublishRank
    <3>2. d \in Data /\ d.ranking = now
      BY <2>n, MineType DEF Data
    <3> HIDE DEF d
    <3>3. CopiesCurrent' /\ req'[r].pc = "ranked" /\ req'[r].c = req[r].c
          /\ req'[r].todo = {} /\ req'[r].op = "publish" /\ req'[r].card[req[r].c].data = d
          /\ \A k \in Cards : card'[k].status = card[k].status
      BY <1>s, <1>t, <2>1, <3>1, <3>2, WriteDataCurrent
    <3>4. Mine(r)'.data.ranking = now
      BY <2>2, <3>2, <3>3 DEF Mine
    <3>5. card'[req'[r].c].status # "absent"
      BY <1>t, <2>c, <3>3
    <3>6. Follows(r)'
      BY <2>1, <2>2, <3>3, <3>4, <3>5 DEF Follows
    <3> QED BY <1>f, <2>1, <3>3, <3>6, OnlySteps
  <2>5. CASE Mine(r).data.ranking # now /\ ~MayWriteData(r)
    BY <1>d, <1>f, <2>5, FinishInv DEF PublishRank
  <2> QED BY <2>3, <2>4, <2>5
<1>e. ASSUME NEW r \in Requests, PublishMove(r) PROVE CopiesCurrent' /\ StepsFollow'
  <2>1. To["publish"] \in Status
    BY FlowType, <1>o
  <2>2. /\ req[r].todo = {} /\ UNCHANGED <<term, book>> /\ req[r].pc # "idle"
        /\ req[r].op = "publish"
    BY <1>e, <1>t DEF PublishMove, Follows
  <2>3. CASE WriteStatus(r, To["publish"])
    BY <1>v, <1>o, <2>1, <2>2, <2>3
  <2>4. CASE Finish(r)
    BY <1>f, <2>2, <2>4, FinishInv
  <2> QED BY <1>e, <2>3, <2>4 DEF PublishMove
<1>w. ASSUME NEW r \in Requests, NEW c \in Cards, NEW d \in Data, req[r].pc # "idle",
             WriteData(r, c, d, "written"), UNCHANGED <<term, book>>,
             req[r].op \in CardOps => c = req[r].c,
             req[r].todo # {} => req[r].op = "grade"
      PROVE  CopiesCurrent' /\ StepsFollow'
  <2>1. /\ CopiesCurrent' /\ req'[r].pc = "written" /\ req'[r].c = c
        /\ req'[r].todo = req[r].todo \ {c} /\ req'[r].op = req[r].op
        /\ \A k \in Cards : card'[k].status = card[k].status
    BY <1>w, <1>s, WriteDataCurrent
  <2>2. \A k \in req'[r].todo : card'[k].status \in Refreshed
    BY <1>t, <2>1 DEF RequestRow, Follows
  <2>3. req[r].op \in CardOps => (card'[c].status = "absent" <=> req[r].op = "generate")
    BY <1>w, <1>t, <2>1 DEF Follows
  <2>4. Follows(r)'
    BY <1>w, <2>1, <2>2, <2>3 DEF Follows
  <2> QED BY <1>w, <1>f, <2>1, <2>4, OnlySteps
<1>g. ASSUME NEW r \in Requests, Annotate(r) PROVE CopiesCurrent' /\ StepsFollow'
  <2> DEFINE d == [Mine(r).data EXCEPT !.remark = TRUE]
  <2>1. req[r].todo = {} /\ UNCHANGED <<term, book>> /\ req[r].pc # "idle" /\ d \in Data
    BY <1>g, <1>t, MineType DEF Annotate, Follows
  <2> HIDE DEF d
  <2>2. CASE WriteData(r, req[r].c, d, "written")
    BY <1>w, <1>t, <2>1, <2>2
  <2>3. CASE Finish(r)
    BY <1>f, <2>1, <2>3, FinishInv
  <2> QED BY <1>g, <2>2, <2>3 DEF Annotate, d
<1>x. ASSUME NEW r \in Requests, UNCHANGED <<card, term>>, book'.entry <= book'.at,
             req[r].pc # "idle", req'[r].card = req[r].card, req'[r].term = req[r].term,
             Follows(r)'
      PROVE  CopiesCurrent' /\ StepsFollow'
  <2>1. /\ \A k \in Cards : req'[r].card[k] = card'[k]
        /\ req'[r].term.closed = term'.closed
    BY <1>x DEF CopiesCurrent
  <2> QED BY <1>x, <2>1, OnlyRequest, OnlySteps
<1>h. ASSUME NEW r \in Requests, Snapshot(r) PROVE CopiesCurrent' /\ StepsFollow'
  <2>1. CASE req[r].op = "grade" /\ req' = [req EXCEPT ![r].pc = "refresh"]
    <3>1. req'[r] = [req[r] EXCEPT !.pc = "refresh"]
      BY <2>1 DEF TypeOK
    <3>2. /\ req'[r].pc = "refresh" /\ req'[r].todo = req[r].todo /\ req'[r].op = "grade"
          /\ req'[r].card = req[r].card /\ req'[r].term = req[r].term
      BY <1>t, <2>1, <3>1 DEF RequestRow
    <3>3. UNCHANGED <<card, term, book>> /\ req[r].pc # "idle"
      BY <1>h DEF Snapshot
    <3>4. Follows(r)'
      BY <1>o, <1>t, <3>2, <3>3 DEF Follows
    <3> QED BY <1>f, <1>x, <3>2, <3>3, <3>4
  <2>2. CASE Finish(r)
    BY <1>h, <1>f, <2>2, FinishInv DEF Snapshot
  <2> QED BY <1>h, <2>1, <2>2 DEF Snapshot
<1>i. ASSUME NEW r \in Requests, Build(r) PROVE CopiesCurrent' /\ StepsFollow'
  <2> DEFINE d == [NoData EXCEPT !.ranking = Ranking(req[r].c)]
  <2>1. d.ranking = Ranking(req[r].c)
    BY DEF NoData
  <2> HIDE DEF d
  <2>2. req'[r] = [req[r] EXCEPT !.pc = "built", !.built = d]
    BY <1>i DEF Build, TypeOK, d
  <2>o. req[r].op = "generate"
    BY <1>i DEF Build
  <2>y. \A z : \A y \in RequestRow : LET x == [y EXCEPT !.pc = "built", !.built = z] IN
           /\ x.pc = "built" /\ x.todo = y.todo /\ x.op = y.op /\ x.card = y.card
           /\ x.term = y.term /\ x.built = z /\ x.c = y.c
    BY DEF RequestRow
  <2>3. /\ req'[r].pc = "built" /\ req'[r].todo = req[r].todo /\ req'[r].op = "generate"
        /\ req'[r].card = req[r].card /\ req'[r].term = req[r].term /\ req'[r].built = d
        /\ req'[r].c = req[r].c
    BY <1>t, <2>2, <2>o, <2>y
  <2>4. UNCHANGED <<card, term, book>> /\ req[r].pc # "idle" /\ req[r].todo = {}
    BY <1>i, <1>t DEF Build, Follows
  <2>5. \A c : c = req[r].c => Ranking(c)' = Ranking(req[r].c)
    BY <2>4, RankingKept
  <2>6. card[req[r].c].status = "absent"
    BY <1>i, <1>o, <1>t DEF Build, Follows
  <2>7. Follows(r)'
    BY <2>1, <2>3, <2>4, <2>5, <2>6 DEF Follows
  <2> QED BY <1>f, <1>x, <2>3, <2>4, <2>7
<1>j. ASSUME NEW r \in Requests, Grade(r) PROVE CopiesCurrent' /\ StepsFollow'
  <2>1. req'[r] = [req[r] EXCEPT !.pc = "graded"]
    BY <1>j DEF Grade, TypeOK
  <2>2. /\ req'[r].pc = "graded" /\ req'[r].todo = req[r].todo /\ req'[r].op = "grade"
        /\ req'[r].card = req[r].card /\ req'[r].term = req[r].term
    BY <1>j, <1>t, <2>1 DEF RequestRow, Grade
  <2>3. UNCHANGED <<card, term>> /\ req[r].pc # "idle" /\ req[r].todo = {}
    BY <1>j, <1>t DEF Grade, Follows
  <2>4. book'.entry <= book'.at
    <3>1. book'.entry = book.at + 1 /\ book'.at = book.at + 1
      BY <1>j DEF Grade, TypeOK, Book, Books
    <3> QED BY <3>1, BookType
  <2>5. Follows(r)'
    BY <1>o, <2>2, <2>3 DEF Follows
  <2> QED BY <1>x, <2>2, <2>3, <2>4, <2>5
<1>k. ASSUME NEW r \in Requests, Reset(r) PROVE CopiesCurrent' /\ StepsFollow'
  <2> DEFINE t == {c \in Cards \ Annual : card[c].status \in Refreshed}
  <2>1. req'[r] = [req[r] EXCEPT !.pc = "refresh", !.card = card, !.todo = t]
    BY <1>k DEF Reset, TypeOK
  <2>o. req[r].op = "grade"
    BY <1>k, <1>t DEF Reset, Follows
  <2>y. \A z : \A y \in RequestRow :
           LET x == [y EXCEPT !.pc = "refresh", !.card = card, !.todo = z] IN
           /\ x.pc = "refresh" /\ x.todo = z /\ x.op = y.op /\ x.card = card
           /\ x.term = y.term
    BY DEF RequestRow
  <2>2. /\ req'[r].pc = "refresh" /\ req'[r].todo = t /\ req'[r].op = req[r].op
        /\ req[r].op = "grade" /\ req'[r].card = card /\ req'[r].term = req[r].term
    BY <1>t, <2>1, <2>o, <2>y
  <2>3. UNCHANGED <<card, book>> /\ req[r].pc # "idle" /\ term'.closed = term.closed
    BY <1>k DEF Reset, TypeOK, TermRow
  <2>4. \A c \in t : card[c].status \in Refreshed
    OBVIOUS
  <2> HIDE DEF t
  <2>5. Follows(r)'
    BY <1>o, <2>2, <2>3, <2>4 DEF Follows
  <2>6. req'[r].term.closed = term'.closed
    BY <2>2, <2>3 DEF CopiesCurrent
  <2> QED BY <1>f, <2>2, <2>3, <2>5, <2>6, OnlyRequest, OnlySteps
<1>l. ASSUME NEW r \in Requests, NEW c \in Cards, RefreshRanking(r, c)
      PROVE  CopiesCurrent' /\ StepsFollow'
  <2> DEFINE d == [req[r].card[c].data EXCEPT !.ranking = Ranking(c)]
  <2>1. d \in Data
    BY MineType
  <2>2. WriteData(r, c, d, "written") /\ req[r].pc = "refresh" /\ UNCHANGED <<term, book>>
    BY <1>l DEF RefreshRanking
  <2> HIDE DEF d
  <2>3. req[r].op = "grade"
    BY <1>t, <2>2 DEF Follows
  <2> QED BY <1>w, <1>o, <2>1, <2>2, <2>3
<1>m. ASSUME NEW r \in Requests, Roll(r) PROVE CopiesCurrent' /\ StepsFollow'
  <2>1. book'.at = book.at + 1 /\ book'.entry = book.entry
    BY <1>m DEF Roll
  <2>2. book'.entry <= book'.at
    BY <1>f, <2>1, BookType, BoundsAssumption
  <2> QED BY <1>m, <2>2, FinishInv DEF Roll
<1>p. ASSUME NEW r \in Requests, Assess(r) PROVE CopiesCurrent' /\ StepsFollow'
  <2>1. book'.at = book.at /\ book'.entry = book.entry
    BY <1>p DEF Assess, TypeOK, Book, Books
  <2> QED BY <1>p, <1>f, <2>1, FinishInv DEF Assess
<1>u. CASE UNCHANGED vars
  <2>1. \A c : Ranking(c)' = Ranking(c) /\ Provisional(c)' = Provisional(c)
    BY <1>u, RankingKept DEF vars
  <2>2. \A r \in Requests : Follows(r)'
    BY <1>u, <1>t, <2>1 DEF vars, Follows, Mine
  <2>3. CopiesCurrent'
    BY <1>u DEF vars, CopiesCurrent
  <2> QED BY <1>u, <1>f, <2>2, <2>3 DEF vars, StepsFollow
<1> QED BY <1>a, <1>b, <1>c, <1>d, <1>e, <1>g, <1>h, <1>i, <1>j, <1>k, <1>l, <1>m, <1>p, <1>u
        DEF Next, Progress

\* A term starts without cards and without requests.
LEMMA InitInv == Init => IndInv
<1> SUFFICES ASSUME Init PROVE IndInv
  OBVIOUS
<1>1. TypeOK
  <2>1. term \in TermRow /\ crashes \in 0..MaxCrashes
    BY BoundsAssumption DEF Init, TermRow
  <2> QED BY <2>1, EmptyTypes DEF Init, TypeOK
<1>2. \A r \in Requests : req[r].pc = "idle" /\ req[r].todo = {}
  BY DEF Init, Idle
<1>3. book.entry <= book.at
  BY DEF Init
<1> QED BY <1>1, <1>2, <1>3 DEF IndInv, CopiesCurrent, StepsFollow, Follows, At

(***************************************************************************)
(* With one request at a time, a request works on copies that are current  *)
(* and every step may rely on the tests of the steps before it.            *)
(***************************************************************************)
THEOREM Inductive == ASSUME SingleUser PROVE Spec => []IndInv
<1>1. IndInv /\ [Next]_vars => IndInv'
  BY TypeStep, InvStep DEF IndInv
<1> QED BY <1>1, InitInv, PTL DEF Spec

(***************************************************************************)
(* What a step does to the status and the data of a card.                  *)
(***************************************************************************)
\* Only a move writes a status: from the status it demands to its next one.
LEMMA StatusWritten ==
    ASSUME SingleUser, IndInv, [Next]_vars, NEW c \in Cards,
           card'[c].status # card[c].status
    PROVE  \E r \in Requests :
              \/ /\ Transition(r) /\ c = req[r].c /\ card[c].status = From[req[r].op]
                 /\ card'[c].status = To[req[r].op] /\ card'[c].data = card[c].data
              \/ /\ PublishMove(r) /\ At(r, "ranked") /\ c = req[r].c
                 /\ card[c].status = "approved" /\ card'[c].status = "published"
                 /\ card'[c].data = card[c].data
              \/ /\ Create(r) /\ c = req[r].c /\ card[c].status = "absent"
                 /\ card'[c].status = "draft"
<1> USE DEF IndInv
<1>t. \A r \in Requests : req[r] \in RequestRow /\ req[r].c \in Cards /\ Follows(r)
  BY DEF TypeOK, RequestRow, StepsFollow
<1>m. \A r \in Requests : req[r].pc # "idle" => Mine(r) = card[req[r].c]
  BY <1>t DEF CopiesCurrent, Mine, At
<1>w. ASSUME NEW r \in Requests, NEW k \in Cards, NEW d \in Data, NEW pc \in Steps,
             WriteData(r, k, d, pc), ~At(r, "idle"), UNCHANGED term
      PROVE  FALSE
  BY <1>w, WriteDataCurrent
<1>d. \A r \in Requests :
         [Mine(r).data EXCEPT !.ranking = Ranking(req[r].c)] \in Data
         /\ [Mine(r).data EXCEPT !.remark = TRUE] \in Data
         /\ \A k \in Cards : [req[r].card[k].data EXCEPT !.ranking = Ranking(k)] \in Data
  BY MineType
<1>s. {"ranked", "written"} \subseteq Steps
  BY DEF Steps
<1>1. ASSUME NEW r \in Requests, PublishRank(r) PROVE FALSE
  BY <1>1, <1>w, <1>d, <1>s, <1>t DEF PublishRank, At
<1>2. ASSUME NEW r \in Requests, Annotate(r) PROVE FALSE
  BY <1>2, <1>w, <1>d, <1>s, <1>t DEF Annotate, At
<1>3. ASSUME NEW r \in Requests, NEW k \in Cards, RefreshRanking(r, k) PROVE FALSE
  BY <1>3, <1>w, <1>d, <1>s, <1>t DEF RefreshRanking, At
<1>v. ASSUME NEW r \in Requests, NEW t \in Status, WriteStatus(r, t), ~At(r, "idle"),
             UNCHANGED term
      PROVE  c = req[r].c /\ card'[c].status = t /\ card'[c].data = card[c].data
  BY <1>v, WriteStatusCurrent
<1>4. ASSUME NEW r \in Requests, Transition(r)
      PROVE  /\ c = req[r].c /\ card[c].status = From[req[r].op]
             /\ card'[c].status = To[req[r].op] /\ card'[c].data = card[c].data
  <2>1. /\ To[req[r].op] \in Status /\ WriteStatus(r, To[req[r].op]) /\ req[r].pc = "loaded"
        /\ UNCHANGED term /\ Mine(r).status = From[req[r].op]
    BY <1>4, FlowType DEF Transition, At, Allowed
  <2>2. c = req[r].c /\ card'[c].status = To[req[r].op] /\ card'[c].data = card[c].data
    BY <2>1, <1>v DEF At
  <2> QED BY <2>1, <2>2, <1>m
<1>5. ASSUME NEW r \in Requests, PublishMove(r)
      PROVE  /\ At(r, "ranked") /\ c = req[r].c
             /\ card[c].status = "approved" /\ card'[c].status = "published"
             /\ card'[c].data = card[c].data
  <2>0. From["publish"] = "approved" /\ To["publish"] = "published" /\ "published" \in Status
    BY DEF From, To, Moves, Status
  <2>1. /\ WriteStatus(r, To["publish"]) /\ req[r].pc = "ranked"
        /\ UNCHANGED term /\ Mine(r).status = From["publish"]
    BY <1>5 DEF PublishMove, At
  <2>2. c = req[r].c /\ card'[c].status = "published" /\ card'[c].data = card[c].data
    BY <2>0, <2>1, <1>v DEF At
  <2> QED BY <2>0, <2>1, <2>2, <1>m DEF At
<1>6. ASSUME NEW r \in Requests, Create(r)
      PROVE  c = req[r].c /\ card[c].status = "absent" /\ card'[c].status = "draft"
  BY <1>6, <1>t DEF Create, TypeOK
<1>7. UNCHANGED card => FALSE
  OBVIOUS
<1> QED BY <1>1, <1>2, <1>3, <1>4, <1>5, <1>6, <1>7 DEF Next, Progress, vars, Start, Refuse,
        Snapshot, Build, Grade, Reset, RefreshDone, Roll, Assess, ValidateTerm, Close, Crash

\* No step writes the data of a published card, and a ranking that is written
\* is the one of the grade book at that moment.
LEMMA DataWritten ==
    ASSUME SingleUser, IndInv, [Next]_vars, NEW c \in Cards
    PROVE  /\ card[c].status = "published" => card'[c].data = card[c].data
           /\ card'[c].data.ranking \in {card[c].data.ranking, Ranking(c)}
<1> USE DEF IndInv
<1>t. \A r \in Requests : req[r] \in RequestRow /\ req[r].c \in Cards /\ Follows(r)
  BY DEF TypeOK, RequestRow, StepsFollow
<1>m. \A r \in Requests : req[r].pc # "idle" => \A k \in Cards : req[r].card[k] = card[k]
  BY DEF CopiesCurrent, At
<1>w. ASSUME NEW r \in Requests, NEW k \in Cards, NEW d \in Data, NEW pc \in Steps,
             WriteData(r, k, d, pc), ~At(r, "idle"), UNCHANGED term,
             card[k].status # "published", d.ranking \in {card[k].data.ranking, Ranking(k)}
      PROVE  /\ card[c].status = "published" => card'[c].data = card[c].data
             /\ card'[c].data.ranking \in {card[c].data.ranking, Ranking(c)}
  <2>1. card'[k].data = d /\ \A j \in Cards : j # k => card'[j] = card[j]
    BY <1>w, WriteDataCurrent
  <2>2. CASE c = k
    BY <1>w, <2>1, <2>2
  <2>3. CASE c # k
    BY <2>1, <2>3
  <2> QED BY <2>2, <2>3
<1>s. {"ranked", "written"} \subseteq Steps
  BY DEF Steps
<1>d. \A x \in Data : /\ \A k \in Cards :
                            /\ [x EXCEPT !.ranking = Ranking(k)] \in Data
                            /\ [x EXCEPT !.ranking = Ranking(k)].ranking = Ranking(k)
                      /\ [x EXCEPT !.remark = TRUE] \in Data
                      /\ [x EXCEPT !.remark = TRUE].ranking = x.ranking
  BY RankingType DEF Data
<1>x. \A k \in Cards : card[k].data \in Data
  BY DEF TypeOK, CardRow
<1>1. ASSUME NEW r \in Requests, PublishRank(r), ~UNCHANGED card
      PROVE  /\ card[c].status = "published" => card'[c].data = card[c].data
             /\ card'[c].data.ranking \in {card[c].data.ranking, Ranking(c)}
  <2>1. Mine(r) = card[req[r].c] /\ req[r].pc = "loaded"
    BY <1>1, <1>m, <1>t DEF Mine, PublishRank, At
  <2>2. /\ WriteData(r, req[r].c, [Mine(r).data EXCEPT !.ranking = Ranking(req[r].c)], "ranked")
        /\ Mine(r).status # "published" /\ UNCHANGED term
    BY <1>1 DEF PublishRank, MayWriteData
  <2> DEFINE d == [Mine(r).data EXCEPT !.ranking = Ranking(req[r].c)]
  <2>3. d \in Data /\ d.ranking = Ranking(req[r].c)
    BY <1>d, <1>t, <1>x, <2>1
  <2>4. WriteData(r, req[r].c, d, "ranked")
    BY <2>2
  <2> HIDE DEF d
  <2> QED BY <1>w, <1>s, <1>t, <2>1, <2>2, <2>3, <2>4 DEF At
<1>2. ASSUME NEW r \in Requests, Annotate(r), ~UNCHANGED card
      PROVE  /\ card[c].status = "published" => card'[c].data = card[c].data
             /\ card'[c].data.ranking \in {card[c].data.ranking, Ranking(c)}
  <2>1. Mine(r) = card[req[r].c] /\ req[r].pc = "loaded"
    BY <1>2, <1>m, <1>t DEF Mine, Annotate, At
  <2> DEFINE d == [Mine(r).data EXCEPT !.remark = TRUE]
  <2>2. /\ WriteData(r, req[r].c, d, "written")
        /\ Mine(r).status # "published" /\ UNCHANGED term
    BY <1>2 DEF Annotate, Allowed
  <2>3. d \in Data /\ d.ranking = card[req[r].c].data.ranking
    BY <1>d, <1>t, <1>x, <2>1
  <2> HIDE DEF d
  <2> QED BY <1>w, <1>s, <1>t, <2>1, <2>2, <2>3 DEF At
<1>3. ASSUME NEW r \in Requests, NEW k \in Cards, RefreshRanking(r, k)
      PROVE  /\ card[c].status = "published" => card'[c].data = card[c].data
             /\ card'[c].data.ranking \in {card[c].data.ranking, Ranking(c)}
  <2>1. req[r].card[k] = card[k] /\ req[r].pc = "refresh" /\ card[k].status \in Refreshed
    BY <1>3, <1>m, <1>t DEF RefreshRanking, At, Follows
  <2>2. /\ WriteData(r, k, [req[r].card[k].data EXCEPT !.ranking = Ranking(k)], "written")
        /\ card[k].status # "published" /\ UNCHANGED term
    BY <1>3, <2>1 DEF RefreshRanking, Refreshed
  <2> DEFINE d == [req[r].card[k].data EXCEPT !.ranking = Ranking(k)]
  <2>3. d \in Data /\ d.ranking = Ranking(k)
    BY <1>d, <1>x, <2>1
  <2>4. WriteData(r, k, d, "written")
    BY <2>2
  <2> HIDE DEF d
  <2> QED BY <1>w, <1>s, <2>1, <2>2, <2>3, <2>4 DEF At
<1>v. ASSUME NEW r \in Requests, NEW t \in Status, WriteStatus(r, t), ~At(r, "idle"),
             UNCHANGED term
      PROVE  card'[c].data = card[c].data
  BY <1>v, WriteStatusCurrent
<1>4. ASSUME NEW r \in Requests, Transition(r) PROVE card'[c].data = card[c].data
  BY <1>4, <1>v, FlowType DEF Transition, At
<1>5. ASSUME NEW r \in Requests, PublishMove(r) PROVE card'[c].data = card[c].data
  <2>1. To["publish"] \in Status
    BY FlowType DEF Moves
  <2> QED BY <1>5, <2>1, <1>v DEF PublishMove, At
<1>6. ASSUME NEW r \in Requests, Create(r)
      PROVE  /\ card[c].status = "published" => card'[c].data = card[c].data
             /\ card'[c].data.ranking \in {card[c].data.ranking, Ranking(c)}
  <2>1. req[r].built.ranking = Ranking(req[r].c)
    BY <1>6, <1>t DEF Create, Follows
  <2>2. CASE c = req[r].c /\ card[c].status = "absent"
    BY <1>6, <2>1, <2>2 DEF Create, TypeOK
  <2>3. CASE ~(c = req[r].c /\ card[c].status = "absent")
    BY <1>6, <2>3 DEF Create, TypeOK
  <2> QED BY <2>2, <2>3
<1> QED BY <1>1, <1>2, <1>3, <1>4, <1>5, <1>6 DEF Next, Progress, vars, Start, Refuse,
        Snapshot, Build, Grade, Reset, RefreshDone, Roll, Assess, ValidateTerm, Close, Crash

\* The moves by what they lead from and to.
LEMMA Flow ==
    \A op \in Moves : /\ To[op] = "published" => op = "publish"
                      /\ From[op] = "published" => To[op] = "revision_requested"
                      /\ To[op] \in {"draft", "review"} => From[op] = "draft"
BY DEF Moves, From, To

(***************************************************************************)
(* What is published carries the ranking of that moment; in a term that    *)
(* has assessments no grade is missing then and the director has validated *)
(* them.  Cards of the year and of terms without assessments are published *)
(* whatever was validated.  One request at a time.                         *)
(***************************************************************************)
THEOREM PublishedDefinitiveThm == ASSUME SingleUser PROVE Spec => PublishedDefinitive
<1>1. ASSUME IndInv, [Next]_vars, NEW c \in Cards,
             card[c].status # "published", card'[c].status = "published"
      PROVE  /\ card'[c].data.ranking = Ranking(c)
             /\ c \notin Annual /\ book.assessed => Complete(book) /\ term.validated
  <2>1. PICK r \in Requests :
              \/ Transition(r) /\ card'[c].status = To[req[r].op]
              \/ /\ At(r, "ranked") /\ c = req[r].c /\ card'[c].data = card[c].data
              \/ card'[c].status = "draft"
    BY <1>1, StatusWritten
  <2>2. ~Transition(r) \/ card'[c].status # To[req[r].op]
    BY <1>1, Flow DEF Transition
  <2>3. At(r, "ranked") /\ c = req[r].c /\ card'[c].data = card[c].data
    BY <1>1, <2>1, <2>2
  <2>4. Mine(r) = card[c]
    BY <1>1, <2>3 DEF IndInv, CopiesCurrent, Mine, At
  <2>5. card[c].data.ranking = Ranking(c) /\ ~Provisional(c)
    BY <2>3, <2>4, <1>1 DEF IndInv, StepsFollow, Follows
  <2> QED BY <2>3, <2>5 DEF Provisional
<1>2. IndInv /\ [Next]_vars =>
         [\A c \in Cards :
             card[c].status # "published" /\ card'[c].status = "published"
             => /\ card'[c].data.ranking = Ranking(c)
                /\ c \notin Annual /\ book.assessed => Complete(book) /\ term.validated]_vars
  BY <1>1
<1> QED BY <1>2, Inductive, PTL DEF Spec, PublishedDefinitive

(***************************************************************************)
(* A published card keeps its data and is only left for a revision, with   *)
(* one request at a time.                                                  *)
(***************************************************************************)
THEOREM PublishedImmutableThm == ASSUME SingleUser PROVE Spec => PublishedImmutable
<1>1. ASSUME IndInv, [Next]_vars, NEW c \in Cards, card[c].status = "published"
      PROVE  /\ card'[c].data = card[c].data
             /\ card'[c].status \in {"published", "revision_requested"}
  <2>1. card'[c].data = card[c].data
    BY <1>1, DataWritten
  <2>2. CASE card'[c].status # card[c].status
    BY <1>1, <2>2, StatusWritten, Flow DEF Transition
  <2> QED BY <1>1, <2>1, <2>2
<1>2. IndInv /\ [Next]_vars =>
         [\A c \in Cards :
             card[c].status = "published"
             => /\ card'[c].data = card[c].data
                /\ card'[c].status \in {"published", "revision_requested"}]_vars
  BY <1>1
<1> QED BY <1>2, Inductive, PTL DEF Spec, PublishedImmutable

\* The request that wrote a card goes on with its snapshot, or dies.
LEMMA AfterWriting ==
    ASSUME SingleUser, [Next]_vars, NEW r \in Requests, At(r, "written")
    PROVE  Snapshot(r) \/ Crash(r) \/ UNCHANGED vars
<1>1. \A s \in Requests : s = r
  BY DEF SingleUser
<1> QED BY <1>1 DEF Next, Progress, Start, Refuse, Transition, PublishRank, PublishMove,
        Annotate, Build, Create, Grade, Reset, RefreshRanking, RefreshDone, Roll, Assess,
        ValidateTerm, Close, At

\* Versions are written by snapshot() and with a new card.
LEMMA VersionWritten ==
    ASSUME SingleUser, IndInv, [Next]_vars, NEW c \in Cards,
           card[c].status = "published", version[c] = card[c]
    PROVE  version'[c] = card[c]
<1>1. ASSUME NEW r \in Requests, Snapshot(r) PROVE version'[c] = card[c]
  <2>1. req[r].c = c => Mine(r) = card[c]
    BY <1>1 DEF Snapshot, IndInv, CopiesCurrent, Mine, At
  <2> QED BY <1>1, <2>1 DEF Snapshot, IndInv, TypeOK
<1>2. ASSUME NEW r \in Requests, Create(r) PROVE version'[c] = card[c]
  BY <1>2 DEF Create, IndInv, TypeOK
<1>3. UNCHANGED version => version'[c] = card[c]
  OBVIOUS
<1> QED BY <1>1, <1>2, <1>3 DEF Next, Progress, vars, Start, Refuse, Transition, PublishRank,
        PublishMove, Annotate, Build, Grade, Reset, RefreshRanking, RefreshDone, Roll, Assess,
        ValidateTerm, Close, Crash

\* A card leaves cut with a new version that holds it.
LEMMA CutKept ==
    ASSUME SingleUser, IndInv, [Next]_vars, NEW c \in cut, c \in Cards
    PROVE  c \in cut' \/ version'[c] = card[c]
<1>1. ASSUME NEW r \in Requests, Snapshot(r) PROVE c \in cut' \/ version'[c] = card[c]
  <2>1. req[r].c = c => Mine(r) = card[c]
    BY <1>1 DEF Snapshot, IndInv, CopiesCurrent, Mine, At
  <2> QED BY <1>1, <2>1 DEF Snapshot, IndInv, TypeOK
<1>2. ASSUME NEW r \in Requests, Crash(r) PROVE c \in cut'
  BY <1>2 DEF Crash
<1>3. UNCHANGED cut => c \in cut'
  OBVIOUS
<1> QED BY <1>1, <1>2, <1>3 DEF Next, Progress, vars, Start, Refuse, Transition, PublishRank,
        PublishMove, Annotate, Build, Create, Grade, Reset, RefreshRanking, RefreshDone, Roll,
        Assess, ValidateTerm, Close

(***************************************************************************)
(* A published card is in the archive as it is, unless the request that    *)
(* wrote it has its snapshot to make or died before it.                    *)
(***************************************************************************)
THEOREM PublishedArchivedThm == ASSUME SingleUser PROVE Spec => []PublishedArchived
<1>1. Init => PublishedArchived
  BY DEF Init, NoCards, PublishedArchived
<1>2. ASSUME IndInv, IndInv', PublishedArchived, [Next]_vars PROVE PublishedArchived'
  <2> SUFFICES ASSUME NEW c \in Cards, card'[c].status = "published"
               PROVE  \/ version'[c] = card'[c]
                      \/ c \in cut'
                      \/ \E r \in Requests : req'[r].pc = "written" /\ req'[r].c = c
    BY DEF PublishedArchived, At
  <2>1. CASE card[c].status = "published"
    <3>1. card'[c] = card[c]
      <4>1. card[c] \in CardRow /\ card'[c] \in CardRow
        BY <1>2 DEF IndInv, TypeOK
      <4>2. card'[c].data = card[c].data
        BY <1>2, <2>1, DataWritten
      <4> QED BY <2>1, <4>1, <4>2 DEF CardRow
    <3>2. CASE version[c] = card[c]
      BY <1>2, <2>1, <3>1, <3>2, VersionWritten
    <3>3. CASE c \in cut
      BY <1>2, <3>1, <3>3, CutKept
    <3>4. ASSUME NEW r \in Requests, At(r, "written"), req[r].c = c
          PROVE  \/ version'[c] = card'[c]
                 \/ c \in cut'
                 \/ \E s \in Requests : req'[s].pc = "written" /\ req'[s].c = c
      <4>1. Mine(r) = card[c]
        BY <1>2, <3>4 DEF IndInv, CopiesCurrent, Mine, At
      <4>2. CASE Snapshot(r)
        BY <1>2, <3>1, <3>4, <4>1, <4>2 DEF Snapshot, IndInv, TypeOK
      <4>3. CASE Crash(r)
        BY <3>4, <4>3 DEF Crash
      <4>4. CASE UNCHANGED vars
        BY <3>4, <4>4 DEF vars, At
      <4> QED BY <1>2, <3>4, <4>2, <4>3, <4>4, AfterWriting
    <3> QED BY <1>2, <2>1, <3>2, <3>3, <3>4 DEF PublishedArchived
  <2>2. CASE card[c].status # "published"
    <3>1. PICK r \in Requests : PublishMove(r) /\ c = req[r].c
      BY <1>2, <2>2, StatusWritten, Flow DEF Transition
    <3>2. PublishMove(r) /\ ~UNCHANGED card => req'[r].pc = "written" /\ req'[r].c = req[r].c
      <4>1. ASSUME WriteStatus(r, To["publish"]), UNCHANGED term, ~At(r, "idle")
            PROVE  req'[r].pc = "written" /\ req'[r].c = req[r].c
        <5>1. To["publish"] \in Status
          BY FlowType DEF Moves
        <5> QED BY <1>2, <4>1, <5>1, WriteStatusCurrent
      <4> QED BY <4>1 DEF PublishMove, At
    <3> QED BY <2>2, <3>1, <3>2
  <2> QED BY <2>1, <2>2
<1> QED BY <1>1, <1>2, Inductive, PTL DEF Spec

\* A ranking that is not older than the last entry stays so, or a refresh starts.
LEMMA EntryFollowed ==
    ASSUME IndInv, IndInv', [Next]_vars
    PROVE  \/ book'.entry = book.entry
           \/ \E r \in Requests : req'[r].pc = "graded"
<1>1. ASSUME NEW r \in Requests, Grade(r) PROVE req'[r].pc = "graded"
  BY <1>1 DEF Grade, IndInv, TypeOK, RequestRow
<1>2. ASSUME NEW r \in Requests, Roll(r) PROVE book'.entry = book.entry
  BY <1>2 DEF Roll
<1>3. ASSUME NEW r \in Requests, Assess(r) PROVE book'.entry = book.entry
  BY <1>3 DEF Assess, IndInv, TypeOK, Book, Books
<1> QED BY <1>1, <1>2, <1>3 DEF Next, Progress, vars, Start, Refuse, Transition, PublishRank,
        PublishMove, Annotate, Snapshot, Build, Create, Reset, RefreshRanking, RefreshDone,
        ValidateTerm, Close, Crash

\* A refresh that is on its way goes on to every card it has to write.
LEMMA RefreshGoesOn ==
    ASSUME SingleUser, IndInv, [Next]_vars, crashes' = 0,
           NEW c \in Cards \ Annual, NEW r \in Requests,
           \/ At(r, "graded") /\ card[c].status \in Refreshed
           \/ c \in req[r].todo
    PROVE  \/ card'[c].data.ranking = Ranking(c) /\ UNCHANGED <<book, term>>
           \/ \E s \in Requests : req'[s].pc = "graded" \/ c \in req'[s].todo
<1> USE DEF IndInv
<1>0. \A s \in Requests : s = r
  BY DEF SingleUser
<1>t. req[r] \in RequestRow /\ Follows(r)
  BY DEF TypeOK, RequestRow, StepsFollow
<1>c. ~Crash(r)
  <2>1. crashes \in Nat
    BY DEF TypeOK
  <2> QED BY <2>1 DEF Crash
<1>1. CASE UNCHANGED vars
  BY <1>1 DEF vars, At
<1>2. CASE At(r, "graded") /\ card[c].status \in Refreshed
  <2>1. Reset(r) \/ UNCHANGED vars
    BY <1>0, <1>2, <1>c DEF Next, Progress, Start, Refuse, Transition, PublishRank, PublishMove,
       Annotate, Snapshot, Build, Create, Grade, RefreshRanking, RefreshDone, Roll, Assess,
       ValidateTerm, Close, At
  <2>2. CASE Reset(r)
    <3> DEFINE t == {k \in Cards \ Annual : card[k].status \in Refreshed}
    <3>1. req'[r] = [req[r] EXCEPT !.pc = "refresh", !.card = card, !.todo = t]
      BY <2>2 DEF Reset, TypeOK
    <3>2. c \in t
      BY <1>2
    <3> HIDE DEF t
    <3>3. \A z : \A y \in RequestRow :
             [y EXCEPT !.pc = "refresh", !.card = card, !.todo = z].todo = z
      BY DEF RequestRow
    <3>4. req'[r].todo = t
      BY <1>t, <3>1, <3>3
    <3> QED BY <3>2, <3>4
  <2> QED BY <1>1, <2>1, <2>2
<1>3. CASE c \in req[r].todo
  <2>1. req[r].op = "grade" /\ (At(r, "refresh") \/ At(r, "written"))
    BY <1>3, <1>t DEF Follows
  <2>2. Snapshot(r) \/ (\E k \in Cards : RefreshRanking(r, k)) \/ UNCHANGED vars
    BY <1>0, <1>3, <1>c, <2>1 DEF Next, Progress, Start, Refuse, Transition, PublishRank,
       PublishMove, Annotate, Build, Create, Grade, Reset, RefreshDone, Roll, Assess,
       ValidateTerm,
       Close, At
  <2>3. CASE Snapshot(r)
    <3>1. req'[r] = [req[r] EXCEPT !.pc = "refresh"]
      BY <2>1, <2>3 DEF Snapshot, TypeOK
    <3> QED BY <1>3, <1>t, <3>1 DEF RequestRow
  <2>4. ASSUME NEW k \in Cards, RefreshRanking(r, k)
        PROVE  \/ card'[c].data.ranking = Ranking(c) /\ UNCHANGED <<book, term>>
               \/ \E s \in Requests : req'[s].pc = "graded" \/ c \in req'[s].todo
    <3> DEFINE d == [req[r].card[k].data EXCEPT !.ranking = Ranking(k)]
    <3>1. d \in Data /\ d.ranking = Ranking(k)
      BY MineType, RankingType DEF Data
    <3>2. /\ WriteData(r, k, d, "written") /\ ~At(r, "idle")
          /\ UNCHANGED <<book, term>>
      BY <2>4 DEF RefreshRanking, At
    <3>3. "written" \in Steps
      BY DEF Steps
    <3> HIDE DEF d
    <3>4. req'[r].todo = req[r].todo \ {k} /\ card'[k].data = d
      BY <3>1, <3>2, <3>3, WriteDataCurrent
    <3> QED BY <1>3, <3>1, <3>2, <3>4
  <2> QED BY <1>1, <2>2, <2>3, <2>4
<1> QED BY <1>2, <1>3

(***************************************************************************)
(* Until it reaches the class council a card never shows a ranking from    *)
(* before the last grade, unless the refresh of that grade is on its way   *)
(* or a request has died.                                                  *)
(***************************************************************************)
THEOREM DraftsFollowGradesThm == ASSUME SingleUser PROVE Spec => []DraftsFollowGrades
<1>1. Init => DraftsFollowGrades
  BY DEF Init, NoCards, DraftsFollowGrades
<1>2. ASSUME IndInv, IndInv', DraftsFollowGrades, [Next]_vars PROVE DraftsFollowGrades'
  <2> SUFFICES ASSUME NEW c \in Cards \ Annual, card'[c].status \in {"draft", "review"},
                      crashes' = 0
               PROVE  \/ card'[c].data.ranking.at >= book'.entry
                      \/ \E r \in Requests : req'[r].pc = "graded" \/ c \in req'[r].todo
    BY DEF DraftsFollowGrades, At
  <2>1. /\ book.entry \in Nat /\ book.at \in Nat /\ book.entry <= book.at
        /\ book'.entry \in Nat /\ card[c].data.ranking.at \in Nat
    BY <1>2 DEF IndInv, TypeOK, StepsFollow, Book, Books, CardRow, Data, Rankings
  <2>2. Ranking(c).at = book.at
    BY DEF Ranking
  <2>3. CASE book'.entry # book.entry
    BY <1>2, <2>3, EntryFollowed
  <2>4. CASE book'.entry = book.entry
    <3>1. CASE card'[c].data.ranking = Ranking(c)
      BY <2>1, <2>2, <2>4, <3>1
    <3>2. CASE card'[c].data.ranking # Ranking(c)
      <4>1. card'[c].data.ranking = card[c].data.ranking
        BY <1>2, <3>2, DataWritten
      <4>2. crashes = 0
        <5>1. crashes \in Nat
          BY <1>2 DEF IndInv, TypeOK
        <5>2. ASSUME NEW r \in Requests, Crash(r) PROVE FALSE
          BY <5>1, <5>2 DEF Crash
        <5> QED BY <1>2, <5>2 DEF Next, Progress, vars, Start, Refuse, Transition, PublishRank,
                PublishMove, Annotate, Snapshot, Build, Create, Grade, Reset, RefreshRanking,
                RefreshDone, Roll, Assess, ValidateTerm, Close
      <4>3. card[c].status \in {"draft", "review"}
        <5>1. CASE card'[c].status = card[c].status
          BY <5>1
        <5>2. CASE card'[c].status # card[c].status
          <6>1. ~(\E r \in Requests : Create(r) /\ c = req[r].c /\ card[c].status = "absent")
            <7>1. ASSUME NEW r \in Requests, Create(r), c = req[r].c, card[c].status = "absent"
                  PROVE  card'[c].data.ranking = Ranking(c)
              BY <1>2, <7>1 DEF Create, IndInv, TypeOK, StepsFollow, Follows
            <7> QED BY <3>2, <7>1
          <6> QED BY <1>2, <5>2, <6>1, StatusWritten, Flow DEF Transition
        <5> QED BY <5>1, <5>2
      <4>4. CASE card[c].data.ranking.at >= book.entry
        BY <2>4, <4>1, <4>4
      <4>5. ASSUME NEW r \in Requests, At(r, "graded") \/ c \in req[r].todo
            PROVE  \E s \in Requests : req'[s].pc = "graded" \/ c \in req'[s].todo
        <5>1. card[c].status \in Refreshed
          BY <4>3 DEF Refreshed
        <5> QED BY <1>2, <3>2, <4>5, <5>1, RefreshGoesOn
      <4> QED BY <1>2, <4>2, <4>3, <4>4, <4>5 DEF DraftsFollowGrades
    <3> QED BY <3>1, <3>2
  <2> QED BY <2>3, <2>4
<1> QED BY <1>1, <1>2, Inductive, PTL DEF Spec

============================================================================
