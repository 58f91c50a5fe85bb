---------------------------- MODULE Award_proofs ----------------------------
(***************************************************************************)
(* Proofs about Award, for every set of quotes, requests and texts, every  *)
(* history limit and every bound on the runs, decisions and edits.         *)
(***************************************************************************)
EXTENDS Award, SequenceTheorems, FiniteSetTheorems, TLAPS

(***************************************************************************)
(* In a finite set a strict order has a first element: of the sets of the  *)
(* elements before one another, one is minimal for inclusion.              *)
(***************************************************************************)
LEMMA FirstExists ==
    ASSUME NEW S, IsFiniteSet(S), S # {}, NEW R,
           \A x \in S : <<x, x>> \notin R,
           \A x, y, z \in S : <<x, y>> \in R /\ <<y, z>> \in R => <<x, z>> \in R
    PROVE  \E m \in S : \A y \in S : <<y, m>> \notin R
<1> DEFINE Down(x) == {y \in S : <<y, x>> \in R}
           T == {Down(x) : x \in S}
           Sub == StrictSubsetOrdering(S)
<1>1. IsWellFoundedOn(Sub, SUBSET S)
  BY FS_StrictSubsetOrderingWellFounded, FS_FiniteSubsetsOfFinite
<1>2. T \subseteq SUBSET S /\ T # {}
  <2>1. PICK x \in S : TRUE
    OBVIOUS
  <2>2. Down(x) \in T
    OBVIOUS
  <2>3. \A y \in S : Down(y) \in SUBSET S
    OBVIOUS
  <2> HIDE DEF Down
  <2> QED BY <2>2, <2>3
<1>3. PICK D \in T : \A E \in T : ~ (<<E, D>> \in Sub)
  <2> HIDE DEF T, Sub
  <2> QED BY <1>1, <1>2, WFMin
<1>4. PICK m \in S : D = Down(m)
  BY <1>3
<1>5. ASSUME NEW y \in S, <<y, m>> \in R
      PROVE  FALSE
  <2>1. Down(y) \subseteq Down(m) /\ y \in Down(m) /\ y \notin Down(y)
    BY <1>5
  <2>2. <<Down(y), Down(m)>> \in (SUBSET S) \X (SUBSET S)
    OBVIOUS
  <2>3. <<Down(y), Down(m)>> \in Sub
    <3> HIDE DEF Down
    <3> QED BY <2>1, <2>2 DEF StrictSubsetOrdering
  <2> QED BY <1>3, <1>4, <2>3
<1> QED BY <1>5

(***************************************************************************)
(* The engine always has a winner among quotes that have a price: Before   *)
(* orders them strictly, and every two of them.                            *)
(***************************************************************************)
LEMMA BeforeIsAnOrder ==
    ASSUME NEW board \in Board, NEW p \in Ranked(board), NEW q \in Ranked(board),
           NEW r \in Ranked(board)
    PROVE  /\ ~ Before(board, p, p)
           /\ Before(board, p, q) /\ Before(board, q, r) => Before(board, p, r)
           /\ p # q => Before(board, p, q) \/ Before(board, q, p)
<1>1. /\ board[p].text.price \in Nat /\ board[q].text.price \in Nat
      /\ board[r].text.price \in Nat /\ p \in Nat /\ q \in Nat /\ r \in Nat
  BY AwardAssumption DEF Board, QuoteRow, Text, Ranked
<1> QED BY <1>1 DEF Before

LEMMA WinnerExists ==
    ASSUME NEW board \in Board, NEW among \in SUBSET Ranked(board), among # {}
    PROVE  /\ First(board, among) \in among
           /\ \A p \in among \ {First(board, among)} : Before(board, First(board, among), p)
<1> DEFINE R == {ss \in among \X among : Before(board, ss[1], ss[2])}
<1>1. \A x, y \in among : <<x, y>> \in R <=> Before(board, x, y)
  OBVIOUS
<1>2. IsFiniteSet(among)
  BY AwardAssumption, FS_Subset DEF Ranked
<1>3. PICK m \in among : \A y \in among : <<y, m>> \notin R
  <2>1. \A x \in among : <<x, x>> \notin R
    BY <1>1, BeforeIsAnOrder
  <2>2. \A x, y, z \in among : <<x, y>> \in R /\ <<y, z>> \in R => <<x, z>> \in R
    BY <1>1, BeforeIsAnOrder
  <2> HIDE DEF R
  <2> QED BY <1>2, <2>1, <2>2, FirstExists
<1>4. \A p \in among \ {m} : Before(board, m, p)
  BY ZenonT(90), <1>1, <1>3, BeforeIsAnOrder
<1> QED BY <1>4 DEF First

LEMMA RecommendType ==
    ASSUME NEW board \in Board
    PROVE  /\ Recommend(board) \in Ranked(board) \union {None}
           /\ Backup(board) \in Ranked(board) \union {None}
           /\ Recommend(board) \in Quotes \union {None}
           /\ Backup(board) \in Quotes \union {None}
<1>1. First(board, Ranked(board)) \in Ranked(board) \union {None}
  BY WinnerExists DEF First
<1>2. First(board, Ranked(board) \ {Recommend(board)}) \in Ranked(board) \union {None}
  BY WinnerExists DEF First
<1> QED BY ZenonT(90), <1>1, <1>2 DEF Recommend, Backup, Ranked

(***************************************************************************)
(* The newest of the current rows exists when there is one at all.         *)
(***************************************************************************)
LEMMA LatestType ==
    ASSUME comparisons \in Seq(Comparison)
    PROVE  IF Current = {} THEN Latest = None
           ELSE Latest \in Current /\ Latest \in DOMAIN comparisons /\ Latest \in Nat
<1>1. CASE Current = {}
  BY <1>1 DEF Latest
<1>2. CASE Current # {}
  <2> DEFINE R == {ss \in Current \X Current : ss[2] < ss[1]}
  <2>1. Current \subseteq 1 .. Len(comparisons) /\ Len(comparisons) \in Nat
    BY LenProperties DEF Current
  <2>2. IsFiniteSet(Current)
    <3>1. IsFiniteSet(1 .. Len(comparisons))
      BY <2>1, FS_Interval
    <3> QED BY <2>1, <3>1, FS_Subset
  <2>3. \A x, y \in Current : <<x, y>> \in R <=> y < x
    OBVIOUS
  <2> HIDE DEF R
  <2>4. PICK m \in Current : \A y \in Current : <<y, m>> \notin R
    <3>1. \A x \in Current : <<x, x>> \notin R
      BY <2>1, <2>3
    <3>2. \A x, y, z \in Current : <<x, y>> \in R /\ <<y, z>> \in R => <<x, z>> \in R
      BY <2>1, <2>3
    <3> QED BY <1>2, <2>2, <3>1, <3>2, FirstExists
  <2>5. \A d \in Current : d <= m
    <3>1. \A d \in Current : ~ (m < d)
      BY <2>3, <2>4
    <3>2. \A d \in Current : d \in Int
      BY <2>1
    <3> QED BY <3>1, <3>2
  <2>6. Latest \in Current
    BY <1>2, <2>5 DEF Latest
  <2> QED BY <1>2, <2>1, <2>6 DEF Current
<1> QED BY <1>1, <1>2

-----------------------------------------------------------------------------
(***************************************************************************)
(* The typing invariant needs to know that what a request holds between    *)
(* two steps refers to rows that exist.                                    *)
(***************************************************************************)
RequestHolds(r) ==
    /\ r.pc \in {"evaluate", "write"} => r.quote \in Quotes
    /\ r.pc = "decide" => r.approval.quote \in Quotes
    /\ r.pc = "record" => r.entry \in DOMAIN approvals
    /\ r.pc = "store" => r.known \subseteq DOMAIN comparisons

HeldRowsExist == \A b \in Requests : RequestHolds(request[b])

Inv == TypeOK /\ HeldRowsExist

LEMMA SameLength ==
    ASSUME NEW S, NEW s \in Seq(S), NEW t \in [DOMAIN s -> S]
    PROVE  t \in Seq(S) /\ Len(t) = Len(s) /\ DOMAIN t = DOMAIN s
<1>1. DOMAIN s = 1 .. Len(s) /\ Len(s) \in Nat
  BY LenProperties
<1>2. t \in [1 .. Len(s) -> S]
  BY <1>1
<1>3. t \in Seq(S)
  BY <1>1, <1>2
<1> QED BY <1>1, <1>2, <1>3, LenProperties

LEMMA IdleTypes ==
    /\ AbsentQuote \in QuoteRow
    /\ NoApproval \in Approval
    /\ Idle \in RequestState /\ RequestHolds(Idle)
<1>1. AbsentQuote \in QuoteRow
  BY DEF AbsentQuote, QuoteRow, Text, Completeness
<1>2. NoApproval \in Approval
  BY DEF NoApproval, Approval, Decisions
<1>3. [q \in Quotes |-> AbsentQuote] \in Board
  BY <1>1 DEF Board
<1>4. Idle \in RequestState
  BY <1>1, <1>2, <1>3 DEF Idle, RequestState, Statuses
<1>5. RequestHolds(Idle)
  BY DEF Idle, RequestHolds
<1> QED BY <1>1, <1>2, <1>4, <1>5

(***************************************************************************)
(* Frames: a step keeps the references when it keeps the types, removes no *)
(* row and gives a request only references to rows that exist; and it does *)
(* that when it only gives one request a new record.                       *)
(***************************************************************************)
LEMMA HeldFrame ==
    ASSUME Inv, TypeOK',
           DOMAIN approvals \subseteq DOMAIN approvals',
           DOMAIN comparisons \subseteq DOMAIN comparisons',
           \A b \in Requests : request'[b] = request[b] \/ RequestHolds(request[b])'
    PROVE  Inv'
<1>1. \A b \in Requests : RequestHolds(request[b])'
  BY DEF Inv, HeldRowsExist, RequestHolds
<1> QED BY <1>1 DEF Inv, HeldRowsExist

LEMMA RequestFrame ==
    ASSUME Inv, NEW b \in Requests, NEW r \in RequestState, RequestHolds(r),
           request' = [request EXCEPT ![b] = r],
           UNCHANGED tables, edits' \in Nat, UNCHANGED <<offered, cut>>
    PROVE  Inv'
<1>1. TypeOK'
  BY DEF Inv, TypeOK, tables
<1>2. HeldRowsExist'
  BY DEF Inv, TypeOK, HeldRowsExist, RequestHolds, tables
<1> QED BY <1>1, <1>2 DEF Inv

LEMMA InitInv == Init => Inv
<1> SUFFICES ASSUME Init PROVE Inv
  OBVIOUS
<1>1. TypeOK
  BY IdleTypes, EmptySeq DEF Init, TypeOK, Statuses, Board
<1>2. HeldRowsExist
  BY IdleTypes DEF Init, HeldRowsExist
<1> QED BY <1>1, <1>2 DEF Inv

-----------------------------------------------------------------------------
(***************************************************************************)
(* Entering, changing and deleting quotes.                                 *)
(***************************************************************************)
LEMMA EditInv == ASSUME Inv, Edit PROVE edits' \in Nat
BY DEF Inv, TypeOK, Edit

(***************************************************************************)
(* A step that enters or changes a quote by hand.                          *)
(***************************************************************************)
LEMMA QuoteFrame ==
    ASSUME Inv, Edit, NEW b \in Requests, NEW q \in Quotes, NEW row \in QuoteRow,
           NEW text \in Texts, Offer(q, text),
           quotes' = [quotes EXCEPT ![q] = row],
           NEW r \in RequestState, RequestHolds(r),
           request' = [request EXCEPT ![b] = r],
           UNCHANGED <<status, comparisons, approvals, audited, cut>>
    PROVE  Inv'
<1>1. edits' \in Nat
  BY EditInv
<1>2. text.price \in Nat \union {None}
  BY AwardAssumption
<1>3. offered' \in [Quotes -> SUBSET Nat]
  BY <1>2 DEF Inv, TypeOK, Offer
<1>4. quotes' \in Board
  BY DEF Inv, TypeOK, Board
<1>5. TypeOK'
  BY <1>1, <1>3, <1>4 DEF Inv, TypeOK
<1>6. RequestHolds(request[b])'
  BY DEF Inv, TypeOK, RequestHolds
<1> QED BY <1>5, <1>6, HeldFrame DEF Inv, TypeOK

LEMMA MissingType ==
    ASSUME NEW text
    PROVE  Missing(text) \in {"none", "some"} /\ Complete(Missing(text)) \in Completeness
BY DEF Missing, Complete, Completeness

LEMMA CreateQuoteInv ==
    ASSUME Inv, NEW b \in Requests, CreateQuote(b)
    PROVE  Inv'
<1>1. PICK q \in Quotes, text \in Texts :
        /\ quotes' = [quotes EXCEPT ![q] =
              [AbsentQuote EXCEPT !.state = "present", !.text = text]]
        /\ Offer(q, text)
        /\ request' = [request EXCEPT ![b] = [Idle EXCEPT !.pc = "evaluate", !.quote = q]]
  BY DEF CreateQuote
<1>2. [AbsentQuote EXCEPT !.state = "present", !.text = text] \in QuoteRow
  BY IdleTypes, AwardAssumption DEF QuoteRow, Text
<1>3. /\ [Idle EXCEPT !.pc = "evaluate", !.quote = q] \in RequestState
      /\ RequestHolds([Idle EXCEPT !.pc = "evaluate", !.quote = q])
  BY IdleTypes DEF RequestState, RequestHolds, Idle
<1> QED BY <1>1, <1>2, <1>3, QuoteFrame DEF CreateQuote

LEMMA ImportQuotesInv ==
    ASSUME Inv, NEW b \in Requests, ImportQuotes(b)
    PROVE  Inv'
<1>1. PICK q \in Quotes, text \in Texts :
        /\ quotes' = [quotes EXCEPT ![q] =
              [AbsentQuote EXCEPT !.state = "present", !.text = text]]
        /\ Offer(q, text)
  BY DEF ImportQuotes
<1>2. [AbsentQuote EXCEPT !.state = "present", !.text = text] \in QuoteRow
  BY IdleTypes, AwardAssumption DEF QuoteRow, Text
<1>3. /\ [Idle EXCEPT !.pc = "sweep"] \in RequestState
      /\ RequestHolds([Idle EXCEPT !.pc = "sweep"])
  BY IdleTypes DEF RequestState, RequestHolds, Idle
<1> QED BY <1>1, <1>2, <1>3, QuoteFrame DEF ImportQuotes

LEMMA UpdateQuoteInv ==
    ASSUME Inv, NEW b \in Requests, UpdateQuote(b)
    PROVE  Inv'
<1>1. PICK q \in Quotes, text \in Texts :
        /\ quotes' = [quotes EXCEPT ![q].text = text]
        /\ Offer(q, text)
        /\ request' = [request EXCEPT ![b] =
              [Idle EXCEPT !.pc = "evaluate", !.then = "load", !.quote = q]]
  BY DEF UpdateQuote
<1>2. [quotes[q] EXCEPT !.text = text] \in QuoteRow
  <2>1. quotes[q] \in QuoteRow
    BY DEF Inv, TypeOK, Board
  <2>2. text \in Text
    BY AwardAssumption DEF Text
  <2> QED BY <2>1, <2>2 DEF QuoteRow
<1>3. /\ [Idle EXCEPT !.pc = "evaluate", !.then = "load", !.quote = q] \in RequestState
      /\ RequestHolds([Idle EXCEPT !.pc = "evaluate", !.then = "load", !.quote = q])
  BY IdleTypes DEF RequestState, RequestHolds, Idle
<1>4. quotes' = [quotes EXCEPT ![q] = [quotes[q] EXCEPT !.text = text]]
  BY <1>1
<1> QED BY <1>1, <1>2, <1>3, <1>4, QuoteFrame DEF UpdateQuote

LEMMA SubmitQuoteInv ==
    ASSUME Inv, NEW b \in Requests, SubmitQuote(b)
    PROVE  Inv'
<1>1. PICK q \in Quotes, text \in Texts :
        /\ quotes' = [quotes EXCEPT ![q] =
              [@ EXCEPT !.state = "present", !.text = text, !.missing = Missing(text),
                        !.completeness = Complete(Missing(text))]]
        /\ Offer(q, text)
        /\ request' = [request EXCEPT ![b] =
              [Idle EXCEPT !.pc = IF text.price = None THEN "idle" ELSE "load"]]
  BY DEF SubmitQuote
<1> DEFINE row == [quotes[q] EXCEPT !.state = "present", !.text = text,
                     !.missing = Missing(text), !.completeness = Complete(Missing(text))]
           r == [Idle EXCEPT !.pc = IF text.price = None THEN "idle" ELSE "load"]
<1>2. row \in QuoteRow
  <2>1. quotes[q] \in QuoteRow /\ text \in Text
    BY AwardAssumption DEF Inv, TypeOK, Board, Text
  <2> QED BY <2>1, MissingType DEF QuoteRow
<1>3. r \in RequestState /\ RequestHolds(r)
  BY IdleTypes DEF RequestState, RequestHolds, Idle
<1>4. quotes' = [quotes EXCEPT ![q] = row] /\ request' = [request EXCEPT ![b] = r]
  BY <1>1
<1> HIDE DEF row, r
<1> QED BY <1>1, <1>2, <1>3, <1>4, QuoteFrame DEF SubmitQuote

LEMMA DeleteQuoteInv ==
    ASSUME Inv, NEW b \in Requests, DeleteQuote(b)
    PROVE  Inv'
<1>1. PICK q \in Quotes :
        /\ quotes' = [quotes EXCEPT ![q] = [AbsentQuote EXCEPT !.state = "deleted"]]
        /\ comparisons' = [c \in DOMAIN comparisons |->
              [comparisons[c] EXCEPT !.recommended = IF @ = q THEN None ELSE @]]
        /\ approvals' = [a \in DOMAIN approvals |->
              [approvals[a] EXCEPT !.quote = IF @ = q THEN None ELSE @]]
  BY DEF DeleteQuote
<1>2. comparisons' \in [DOMAIN comparisons -> Comparison]
  <2>1. \A c \in DOMAIN comparisons : comparisons[c] \in Comparison
    BY LenProperties DEF Inv, TypeOK
  <2> QED BY <1>1, <2>1 DEF Comparison
<1>3. approvals' \in [DOMAIN approvals -> Approval]
  <2>1. \A a \in DOMAIN approvals : approvals[a] \in Approval
    BY LenProperties DEF Inv, TypeOK
  <2> QED BY <1>1, <2>1 DEF Approval
<1>4. comparisons' \in Seq(Comparison) /\ DOMAIN comparisons' = DOMAIN comparisons
  BY <1>2, SameLength DEF Inv, TypeOK
<1>5. approvals' \in Seq(Approval) /\ DOMAIN approvals' = DOMAIN approvals
  BY <1>3, SameLength DEF Inv, TypeOK
<1>6. quotes' \in Board
  BY <1>1, IdleTypes DEF Inv, TypeOK, Board, QuoteRow
<1>7. TypeOK'
  BY <1>4, <1>5, <1>6, EditInv DEF Inv, TypeOK, DeleteQuote
<1> QED BY <1>4, <1>5, <1>7, HeldFrame DEF DeleteQuote

(***************************************************************************)
(* What is derived from a quote.                                           *)
(***************************************************************************)
LEMMA SweepImportedInv ==
    ASSUME Inv, NEW b \in Requests, SweepImported(b)
    PROVE  Inv'
<1>1. CASE \E q \in Quotes : request' = [request EXCEPT ![b] =
             [Idle EXCEPT !.pc = "write", !.then = "sweep", !.quote = q, !.row = quotes[q]]]
  <2>1. PICK q \in Quotes : request' = [request EXCEPT ![b] =
             [Idle EXCEPT !.pc = "write", !.then = "sweep", !.quote = q, !.row = quotes[q]]]
    BY <1>1
  <2> DEFINE r == [Idle EXCEPT !.pc = "write", !.then = "sweep", !.quote = q, !.row = quotes[q]]
  <2>2. quotes[q] \in QuoteRow
    BY DEF Inv, TypeOK, Board
  <2>3. r \in RequestState /\ RequestHolds(r)
    BY <2>2, IdleTypes DEF RequestState, RequestHolds, Idle
  <2>4. request' = [request EXCEPT ![b] = r]
    BY <2>1
  <2> HIDE DEF r
  <2> QED BY <2>3, <2>4, RequestFrame DEF SweepImported, history, Inv, TypeOK
<1>2. CASE request' = [request EXCEPT ![b] = [Idle EXCEPT !.pc = "load"]]
  <2>1. [Idle EXCEPT !.pc = "load"] \in RequestState /\ RequestHolds([Idle EXCEPT !.pc = "load"])
    BY IdleTypes DEF RequestState, RequestHolds, Idle
  <2> QED BY <1>2, <2>1, RequestFrame DEF SweepImported, history, Inv, TypeOK
<1> QED BY <1>1, <1>2 DEF SweepImported

LEMMA EvaluateInv ==
    ASSUME Inv, NEW b \in Requests, Evaluate(b)
    PROVE  Inv'
<1> DEFINE q == request[b].quote
           r == IF Present(q) THEN [request[b] EXCEPT !.pc = "write", !.row = quotes[q]] ELSE Idle
<1>1. request[b] \in RequestState /\ q \in Quotes
  BY DEF Inv, TypeOK, HeldRowsExist, RequestHolds, Evaluate
<1>2. quotes[q] \in QuoteRow
  BY <1>1 DEF Inv, TypeOK, Board
<1>3. r \in RequestState /\ RequestHolds(r)
  BY ZenonT(90), <1>1, <1>2, IdleTypes DEF RequestState, RequestHolds
<1>4. request' = [request EXCEPT ![b] = r]
  BY DEF Evaluate
<1> HIDE DEF r
<1> QED BY <1>3, <1>4, RequestFrame DEF Evaluate, history, Inv, TypeOK

(***************************************************************************)
(* What a request that has written goes on to is idle but for its pc.      *)
(***************************************************************************)
LEMMA ThenTypes ==
    ASSUME NEW pc \in {"idle", "load", "sweep", "status"}
    PROVE  [Idle EXCEPT !.pc = pc] \in RequestState /\ RequestHolds([Idle EXCEPT !.pc = pc])
BY IdleTypes DEF RequestState, RequestHolds, Idle

LEMMA WriteCompletenessInv ==
    ASSUME Inv, NEW b \in Requests, WriteCompleteness(b)
    PROVE  Inv'
<1> DEFINE q       == request[b].quote
           row     == request[b].row
           missing == Missing(row.text)
           new     == [quotes[q] EXCEPT
                         !.missing      = Written(@, row.missing, missing),
                         !.completeness = Written(@, row.completeness, Complete(missing))]
<1>1. request[b] \in RequestState /\ q \in Quotes /\ request[b].then \in {"idle", "load", "sweep"}
  BY DEF Inv, TypeOK, HeldRowsExist, RequestHolds, WriteCompleteness, RequestState
<1>2. quotes[q] \in QuoteRow
  BY <1>1 DEF Inv, TypeOK, Board
<1>3. new \in QuoteRow
  BY <1>2, MissingType DEF QuoteRow, Written
<1>4. CASE /\ quotes' = [quotes EXCEPT ![q] = new]
           /\ request' = [request EXCEPT ![b] = [Idle EXCEPT !.pc = request[b].then]]
  <2> HIDE DEF new
  <2>1. quotes' \in Board
    BY <1>3, <1>4 DEF Inv, TypeOK, Board
  <2>2. request'[b] \in RequestState /\ request' \in [Requests -> RequestState]
    BY <1>1, <1>4, ThenTypes DEF Inv, TypeOK
  <2>3. TypeOK'
    BY <2>1, <2>2 DEF Inv, TypeOK, WriteCompleteness, history
  <2>4. \A x \in Requests : request'[x] = request[x] \/ RequestHolds(request[x])'
    BY <1>1, <1>4, ThenTypes DEF Inv, TypeOK, RequestHolds, Idle
  <2> QED BY <2>3, <2>4, HeldFrame DEF WriteCompleteness
<1>5. CASE request' = [request EXCEPT ![b] = Idle] /\ UNCHANGED quotes
  BY <1>5, IdleTypes, RequestFrame DEF WriteCompleteness, tables, history, Inv, TypeOK
<1> HIDE DEF new
<1>6. \/ /\ quotes' = [quotes EXCEPT ![q] = new]
         /\ request' = [request EXCEPT ![b] = [Idle EXCEPT !.pc = request[b].then]]
      \/ request' = [request EXCEPT ![b] = Idle] /\ UNCHANGED quotes
  BY DEF WriteCompleteness, new
<1> QED BY <1>4, <1>5, <1>6

-----------------------------------------------------------------------------
(***************************************************************************)
(* A run of the comparison.                                                *)
(***************************************************************************)
LEMMA RunComparisonInv ==
    ASSUME Inv, NEW b \in Requests, RunComparison(b)
    PROVE  Inv'
BY ThenTypes, RequestFrame DEF RunComparison, history, Inv, TypeOK

LEMMA LoadQuotesInv ==
    ASSUME Inv, NEW b \in Requests, LoadQuotes(b)
    PROVE  Inv'
<1> DEFINE r == [request[b] EXCEPT !.pc = "list", !.board = quotes]
<1>1. r \in RequestState /\ RequestHolds(r)
  BY ZenonT(90) DEF Inv, TypeOK, RequestState, RequestHolds
<1>2. request' = [request EXCEPT ![b] = r]
  BY DEF LoadQuotes
<1> HIDE DEF r
<1> QED BY <1>1, <1>2, RequestFrame DEF LoadQuotes, history, Inv, TypeOK

LEMMA ListComparisonsInv ==
    ASSUME Inv, NEW b \in Requests, ListComparisons(b)
    PROVE  Inv'
<1> DEFINE board == request[b].board
           again == {q \in Quotes : board[q].state = "present" /\ Present(q)}
           known == {c \in DOMAIN comparisons : Len(comparisons) - c < HistoryLimit}
<1>1. PICK held \in SUBSET again :
        request' = [request EXCEPT ![b] = [@ EXCEPT !.pc = "store", !.known = known,
          !.loaded = [q \in Quotes |-> IF q \in held THEN board[q]
                                       ELSE IF q \in again THEN quotes[q]
                                       ELSE AbsentQuote]]]
  BY ZenonT(90) DEF ListComparisons
<1> DEFINE loaded == [q \in Quotes |-> IF q \in held THEN board[q]
                                       ELSE IF q \in again THEN quotes[q]
                                       ELSE AbsentQuote]
           r == [request[b] EXCEPT !.pc = "store", !.known = known, !.loaded = loaded]
<1>2. request[b] \in RequestState /\ board \in Board
  BY DEF Inv, TypeOK, RequestState
<1>3. loaded \in Board
  BY <1>2, IdleTypes DEF Inv, TypeOK, Board
<1>4. known \in SUBSET Nat /\ known \subseteq DOMAIN comparisons
  BY LenProperties DEF Inv, TypeOK
<1>5. request' = [request EXCEPT ![b] = r]
  BY <1>1
<1> HIDE DEF known, loaded
<1>6. r \in RequestState /\ RequestHolds(r)
  BY ZenonT(90), <1>2, <1>3, <1>4 DEF RequestState, RequestHolds
<1> HIDE DEF r
<1> QED BY <1>5, <1>6, RequestFrame DEF ListComparisons, history, Inv, TypeOK

(***************************************************************************)
(* The commit of a run: its parts, as the later proofs need them.          *)
(***************************************************************************)
Stores(b) ==
    LET board   == request[b].board
        loaded  == request[b].loaded
        written == {q \in Quotes : loaded[q].state = "present"}
    IN /\ \A q \in written \union ({Recommend(board), Backup(board)} \ {None}) : Present(q)
       /\ comparisons' = Append(Superseded(request[b].known, comparisons), Snapshot(board))
       /\ quotes' = [q \in Quotes |->
            IF q \notin written THEN quotes[q]
            ELSE [quotes[q] EXCEPT
              !.total        = Written(@, loaded[q].total, Cost(board, q)),
              !.completeness = Written(@, loaded[q].completeness, board[q].completeness)]]

LEMMA StoreCases ==
    ASSUME NEW b \in Requests, StoreComparison(b)
    PROVE  /\ Stores(b) \/ UNCHANGED <<comparisons, quotes>>
           /\ request' = [request EXCEPT ![b] = Idle]
           /\ UNCHANGED <<status, approvals, audited, history>>
           /\ request[b].pc = "store"
BY ZenonT(90) DEF StoreComparison, Stores

LEMMA StoredRows ==
    ASSUME Inv, NEW b \in Requests, Stores(b)
    PROVE  /\ comparisons' \in Seq(Comparison)
           /\ Len(comparisons') = Len(comparisons) + 1
           /\ DOMAIN comparisons' = DOMAIN comparisons \union {Len(comparisons) + 1}
           /\ comparisons'[Len(comparisons) + 1] = Snapshot(request[b].board)
           /\ \A c \in DOMAIN comparisons :
                 /\ comparisons'[c].results = comparisons[c].results
                 /\ comparisons'[c].recommended = comparisons[c].recommended
           /\ request[b].board \in Board
<1> DEFINE rows == Superseded(request[b].known, comparisons)
<1>1. request[b].board \in Board
  BY DEF Inv, TypeOK, RequestState
<1>2. Snapshot(request[b].board) \in Comparison
  BY <1>1, RecommendType DEF Snapshot, Comparison
<1>3. \A c \in DOMAIN comparisons : comparisons[c] \in Comparison
  BY LenProperties DEF Inv, TypeOK
<1>4. rows \in [DOMAIN comparisons -> Comparison]
  BY <1>3 DEF Superseded, Comparison
<1>5. rows \in Seq(Comparison) /\ Len(rows) = Len(comparisons) /\ DOMAIN rows = DOMAIN comparisons
  BY <1>4, SameLength DEF Inv, TypeOK
<1>6. \A c \in DOMAIN comparisons :
        rows[c].results = comparisons[c].results /\ rows[c].recommended = comparisons[c].recommended
  BY <1>3 DEF Superseded, Comparison
<1>7. comparisons' = Append(rows, Snapshot(request[b].board))
  BY DEF Stores
<1>8. Len(comparisons) \in Nat /\ DOMAIN comparisons = 1 .. Len(comparisons)
  BY LenProperties DEF Inv, TypeOK
<1> HIDE DEF rows
<1>9. /\ comparisons' \in Seq(Comparison)
      /\ Len(comparisons') = Len(comparisons) + 1
      /\ comparisons'[Len(comparisons) + 1] = Snapshot(request[b].board)
      /\ \A c \in 1 .. Len(comparisons) : comparisons'[c] = rows[c]
  BY <1>2, <1>5, <1>7, AppendProperties
<1>10. DOMAIN comparisons' = 1 .. (Len(comparisons) + 1)
  BY <1>9, LenProperties
<1> QED BY <1>1, <1>6, <1>8, <1>9, <1>10

LEMMA CostType ==
    ASSUME NEW board \in Board, NEW q \in Quotes
    PROVE  Cost(board, q) \in Nat \union {None}
BY DEF Cost, Ranked, Board, QuoteRow, Text

LEMMA StoredQuotes ==
    ASSUME Inv, NEW b \in Requests, Stores(b)
    PROVE  /\ quotes' \in Board
           /\ \A q \in Quotes : /\ quotes'[q].state = quotes[q].state
                                /\ quotes'[q].text = quotes[q].text
                                /\ quotes'[q].total \in {quotes[q].total, Cost(request[b].board, q)}
<1> DEFINE board  == request[b].board
           loaded == request[b].loaded
           new(q) == [quotes[q] EXCEPT
                        !.total        = Written(@, loaded[q].total, Cost(board, q)),
                        !.completeness = Written(@, loaded[q].completeness, board[q].completeness)]
<1>1. board \in Board /\ loaded \in Board
  BY DEF Inv, TypeOK, RequestState
<1>2. ASSUME NEW q \in Quotes
      PROVE  /\ quotes[q] \in QuoteRow
             /\ new(q) \in QuoteRow
             /\ new(q).state = quotes[q].state
             /\ new(q).text = quotes[q].text
             /\ new(q).total \in {quotes[q].total, Cost(board, q)}
  <2>1. quotes[q] \in QuoteRow /\ board[q].completeness \in Completeness
    BY <1>1 DEF Inv, TypeOK, Board, QuoteRow
  <2>2. Cost(board, q) \in Nat \union {None}
    BY <1>1, CostType
  <2> QED BY <2>1, <2>2 DEF QuoteRow, Written
<1>3. /\ quotes' = [q \in Quotes |-> IF loaded[q].state # "present" THEN quotes[q] ELSE new(q)]
  BY DEF Stores
<1> HIDE DEF new
<1> QED BY <1>2, <1>3 DEF Board

LEMMA StoreComparisonInv ==
    ASSUME Inv, NEW b \in Requests, StoreComparison(b)
    PROVE  Inv'
<1>1. request' \in [Requests -> RequestState]
  BY StoreCases, IdleTypes DEF Inv, TypeOK
<1>2. \A x \in Requests : request'[x] = request[x] \/ RequestHolds(request[x])'
  BY StoreCases, IdleTypes DEF Inv, TypeOK, RequestHolds, Idle
<1>3. CASE Stores(b)
  <2>1. TypeOK'
    BY <1>1, <1>3, StoreCases, StoredRows, StoredQuotes DEF Inv, TypeOK, history
  <2> QED BY <1>2, <1>3, <2>1, StoreCases, StoredRows, HeldFrame
<1>4. CASE UNCHANGED <<comparisons, quotes>>
  BY <1>4, StoreCases, IdleTypes, RequestFrame DEF tables, history, Inv, TypeOK
<1> QED BY <1>3, <1>4, StoreCases

-----------------------------------------------------------------------------
(***************************************************************************)
(* Decisions.                                                              *)
(***************************************************************************)
LEMMA ConsiderInv ==
    ASSUME Inv, NEW b \in Requests, Consider(b)
    PROVE  Inv'
<1> DEFINE recommended == IF Latest = None THEN None ELSE comparisons[Latest].recommended
<1>1. PICK q \in Quotes, d \in Decisions, override \in BOOLEAN :
        /\ d = "approved" => quotes[q].text.price # None
        /\ request' = [request EXCEPT ![b] = [Idle EXCEPT
             !.pc = "decide", !.seen = status, !.approval =
               [quote |-> q, decision |-> d, override |-> override, run |-> Latest,
                recommended |-> recommended, overrode |-> Overrides(q, d, recommended),
                cost |-> AwardedCost(q, d)]]]
  BY ZenonT(90) DEF Consider
<1> DEFINE approval == [quote |-> q, decision |-> d, override |-> override, run |-> Latest,
                        recommended |-> recommended, overrode |-> Overrides(q, d, recommended),
                        cost |-> AwardedCost(q, d)]
           r == [Idle EXCEPT !.pc = "decide", !.seen = status, !.approval = approval]
<1>2. recommended \in Quotes \union {None} /\ Latest \in Nat \union {None}
  <2>1. comparisons \in Seq(Comparison) /\ \A c \in DOMAIN comparisons : comparisons[c] \in Comparison
    BY LenProperties DEF Inv, TypeOK
  <2> QED BY <2>1, LatestType DEF Comparison
<1>3. AwardedCost(q, d) \in Nat \union {None}
  BY DEF Inv, TypeOK, Board, QuoteRow, Text, AwardedCost
<1>4. approval \in Approval /\ approval.quote \in Quotes
  BY <1>2, <1>3 DEF Approval, Overrides
<1>5. request' = [request EXCEPT ![b] = r]
  BY <1>1
<1> HIDE DEF approval
<1>6. r \in RequestState /\ RequestHolds(r)
  BY <1>4, IdleTypes DEF RequestState, RequestHolds, Idle, Inv, TypeOK
<1> HIDE DEF r
<1> QED BY <1>5, <1>6, RequestFrame DEF Consider, history, Inv, TypeOK

(***************************************************************************)
(* The commit of a decision, as the later proofs need it.                  *)
(***************************************************************************)
LEMMA CommitCases ==
    ASSUME Inv, NEW b \in Requests, CommitDecision(b)
    PROVE  /\ request[b] \in RequestState /\ request[b].pc = "decide"
           /\ request[b].approval \in Approval /\ request[b].approval.quote \in Quotes
           /\ Len(approvals) \in Nat /\ DOMAIN approvals = 1 .. Len(approvals)
           /\ \/ /\ Present(request[b].approval.quote)
                 /\ approvals' \in Seq(Approval)
                 /\ Len(approvals') = Len(approvals) + 1
                 /\ DOMAIN approvals' = DOMAIN approvals \union {Len(approvals) + 1}
                 /\ approvals'[Len(approvals) + 1] = request[b].approval
                 /\ \A a \in DOMAIN approvals : approvals'[a] = approvals[a]
                 /\ status' \in Statuses
                 /\ request' = [request EXCEPT ![b] =
                      [Idle EXCEPT !.pc = "record", !.entry = Len(approvals) + 1]]
              \/ /\ request' = [request EXCEPT ![b] = Idle]
                 /\ UNCHANGED <<status, approvals>>
           /\ UNCHANGED <<quotes, comparisons, audited, history>>
<1>1. /\ request[b] \in RequestState /\ request[b].pc = "decide"
      /\ request[b].approval \in Approval /\ request[b].approval.quote \in Quotes
      /\ request[b].seen \in Statuses
  BY DEF Inv, TypeOK, HeldRowsExist, RequestHolds, RequestState, CommitDecision
<1>2. Len(approvals) \in Nat /\ DOMAIN approvals = 1 .. Len(approvals)
  BY LenProperties DEF Inv, TypeOK
<1>3. CASE /\ Present(request[b].approval.quote)
           /\ approvals' = Append(approvals, request[b].approval)
           /\ status' = Written(status, request[b].seen,
                               Outcome(request[b].approval.decision, request[b].seen))
           /\ request' = [request EXCEPT ![b] =
                [Idle EXCEPT !.pc = "record", !.entry = Len(approvals) + 1]]
  <2>1. status' \in Statuses
    BY <1>1, <1>3 DEF Inv, TypeOK, Written, Outcome, Statuses
  <2>2. /\ approvals' \in Seq(Approval)
        /\ Len(approvals') = Len(approvals) + 1
        /\ approvals'[Len(approvals) + 1] = request[b].approval
        /\ \A a \in 1 .. Len(approvals) : approvals'[a] = approvals[a]
    BY <1>1, <1>3, AppendProperties DEF Inv, TypeOK
  <2>3. DOMAIN approvals' = 1 .. (Len(approvals) + 1)
    BY <2>2, LenProperties
  <2>4. DOMAIN approvals' = DOMAIN approvals \union {Len(approvals) + 1}
    BY SMTT(60), ZenonT(90), <1>2, <2>3
  <2> QED BY ZenonT(90), <1>1, <1>2, <1>3, <2>1, <2>2, <2>4 DEF CommitDecision
<1>4. CASE request' = [request EXCEPT ![b] = Idle] /\ UNCHANGED <<status, approvals>>
  BY <1>1, <1>2, <1>4 DEF CommitDecision
<1> QED BY <1>3, <1>4 DEF CommitDecision

LEMMA CommitDecisionInv ==
    ASSUME Inv, NEW b \in Requests, CommitDecision(b)
    PROVE  Inv'
<1>1. CASE request' = [request EXCEPT ![b] = Idle] /\ UNCHANGED <<status, approvals>>
  BY <1>1, CommitCases, IdleTypes, RequestFrame DEF tables, history, Inv, TypeOK
<1>2. CASE /\ approvals' \in Seq(Approval)
           /\ DOMAIN approvals' = DOMAIN approvals \union {Len(approvals) + 1}
           /\ status' \in Statuses
           /\ request' = [request EXCEPT ![b] =
                [Idle EXCEPT !.pc = "record", !.entry = Len(approvals) + 1]]
  <2>1. Len(approvals) + 1 \in Nat
    BY CommitCases
  <2>2. [Idle EXCEPT !.pc = "record", !.entry = Len(approvals) + 1] \in RequestState
    BY <2>1, IdleTypes DEF RequestState
  <2>3. TypeOK'
    BY <1>2, <2>2, CommitCases DEF Inv, TypeOK, history
  <2>4. request'[b].pc = "record" /\ request'[b].entry = Len(approvals) + 1
    BY <1>2 DEF Inv, TypeOK, Idle
  <2>5. RequestHolds(request[b])'
    BY <1>2, <2>4 DEF RequestHolds
  <2>6. \A x \in Requests \ {b} : request'[x] = request[x]
    BY <1>2 DEF Inv, TypeOK
  <2> QED BY <1>2, <2>3, <2>5, <2>6, CommitCases, HeldFrame
<1> QED BY <1>1, <1>2, CommitCases

LEMMA RecordDecisionInv ==
    ASSUME Inv, NEW b \in Requests, RecordDecision(b)
    PROVE  Inv'
<1>1. request[b].entry \in DOMAIN approvals
  BY DEF Inv, HeldRowsExist, RequestHolds, RecordDecision
<1>2. TypeOK'
  BY <1>1, IdleTypes DEF Inv, TypeOK, RecordDecision, history
<1>3. \A x \in Requests : request'[x] = request[x] \/ RequestHolds(request[x])'
  BY IdleTypes DEF Inv, TypeOK, RecordDecision, RequestHolds, Idle
<1> QED BY <1>2, <1>3, HeldFrame DEF RecordDecision

LEMMA AskStatusInv ==
    ASSUME Inv, NEW b \in Requests, AskStatus(b)
    PROVE  Inv'
<1>1. PICK s \in Statuses : request' = [request EXCEPT ![b] =
             [Idle EXCEPT !.pc = "status", !.seen = status, !.asked = s]]
  BY DEF AskStatus
<1> DEFINE r == [Idle EXCEPT !.pc = "status", !.seen = status, !.asked = s]
<1>2. r \in RequestState /\ RequestHolds(r)
  BY IdleTypes DEF RequestState, RequestHolds, Idle, Inv, TypeOK
<1>3. request' = [request EXCEPT ![b] = r]
  BY <1>1
<1> HIDE DEF r
<1> QED BY <1>2, <1>3, EditInv, RequestFrame DEF AskStatus

LEMMA UpdateStatusInv ==
    ASSUME Inv, NEW b \in Requests, UpdateStatus(b)
    PROVE  Inv'
<1>1. request[b].asked \in Statuses
  BY DEF Inv, TypeOK, RequestState
<1>2. TypeOK'
  BY <1>1, IdleTypes DEF Inv, TypeOK, UpdateStatus, history, Written
<1>3. \A x \in Requests : request'[x] = request[x] \/ RequestHolds(request[x])'
  BY IdleTypes DEF Inv, TypeOK, UpdateStatus, RequestHolds, Idle
<1> QED BY <1>2, <1>3, HeldFrame DEF UpdateStatus

LEMMA RestartInv ==
    ASSUME Inv, Restart
    PROVE  Inv'
<1>1. \A x \in Requests : request'[x] = Idle
  BY DEF Restart
<1>2. cut' \subseteq DOMAIN approvals
  BY DEF Restart, Inv, TypeOK, HeldRowsExist, RequestHolds
<1>3. request' \in [Requests -> RequestState]
  BY IdleTypes DEF Restart
<1>4. TypeOK'
  BY <1>2, <1>3 DEF Inv, TypeOK, Restart, tables
<1>5. \A x \in Requests : RequestHolds(request[x])'
  BY <1>1 DEF RequestHolds, Idle
<1> QED BY <1>4, <1>5, HeldFrame DEF Restart, tables

LEMMA NextInv ==
    ASSUME Inv, [Next]_vars
    PROVE  Inv'
<1>1. CASE \E b \in Requests : Enter(b) \/ Change(b) \/ Derive(b)
  BY <1>1, CreateQuoteInv, ImportQuotesInv, SubmitQuoteInv, UpdateQuoteInv, DeleteQuoteInv,
     SweepImportedInv, EvaluateInv, WriteCompletenessInv DEF Enter, Change, Derive
<1>2. CASE \E b \in Requests : RunComparison(b) \/ Recompute(b)
  BY <1>2, RunComparisonInv, LoadQuotesInv, ListComparisonsInv, StoreComparisonInv DEF Recompute
<1>3. CASE \E b \in Requests : Approve(b) \/ AskStatus(b) \/ UpdateStatus(b)
  BY <1>3, ConsiderInv, CommitDecisionInv, RecordDecisionInv, AskStatusInv, UpdateStatusInv
  DEF Approve
<1>4. CASE Restart
  BY <1>4, RestartInv
<1>5. CASE UNCHANGED vars
  <2>1. TypeOK'
    BY <1>5 DEF Inv, TypeOK, vars, tables, history
  <2> QED BY <1>5, <2>1, HeldFrame DEF vars, tables, history
<1> QED BY <1>1, <1>2, <1>3, <1>4, <1>5 DEF Next

LEMMA InvHolds == Spec => []Inv
<1>1. Inv /\ [Next]_vars => Inv'
  BY NextInv
<1> QED BY <1>1, InitInv, PTL DEF Spec

(***************************************************************************)
(* Every table and every request keeps its type, and what a request holds  *)
(* between two commits refers to rows that exist.                          *)
(***************************************************************************)
THEOREM TypeCorrect == Spec => []TypeOK
<1>1. Inv => TypeOK
  BY DEF Inv
<1> QED BY <1>1, InvHolds, PTL

-----------------------------------------------------------------------------
(***************************************************************************)
(* The snapshots. Only two steps touch the table: a deletion, which sets   *)
(* references null, and the commit of a run, which appends.                *)
(***************************************************************************)
LEMMA DeletedRows ==
    ASSUME Inv, NEW b \in Requests, DeleteQuote(b)
    PROVE  \E q \in Quotes :
             /\ DOMAIN comparisons' = DOMAIN comparisons /\ Len(comparisons') = Len(comparisons)
             /\ \A c \in DOMAIN comparisons :
                  /\ comparisons'[c].current = comparisons[c].current
                  /\ comparisons'[c].results = comparisons[c].results
                  /\ comparisons'[c].recommended =
                       IF comparisons[c].recommended = q THEN None ELSE comparisons[c].recommended
             /\ DOMAIN approvals' = DOMAIN approvals
             /\ \A a \in DOMAIN approvals :
                  approvals'[a] = [approvals[a] EXCEPT
                      !.quote = IF @ = q THEN None ELSE @]
             /\ \A p \in Quotes \ {q} : quotes'[p] = quotes[p]
             /\ quotes'[q] = [AbsentQuote EXCEPT !.state = "deleted"]
<1>1. PICK q \in Quotes :
        /\ quotes' = [quotes EXCEPT ![q] = [AbsentQuote EXCEPT !.state = "deleted"]]
        /\ comparisons' = [c \in DOMAIN comparisons |->
              [comparisons[c] EXCEPT !.recommended = IF @ = q THEN None ELSE @]]
        /\ approvals' = [a \in DOMAIN approvals |->
              [approvals[a] EXCEPT !.quote = IF @ = q THEN None ELSE @]]
  BY DEF DeleteQuote
<1>2. \A c \in DOMAIN comparisons : comparisons[c] \in Comparison
  BY LenProperties DEF Inv, TypeOK
<1>3. comparisons' \in [DOMAIN comparisons -> Comparison]
  BY <1>1, <1>2 DEF Comparison
<1>4. DOMAIN comparisons' = DOMAIN comparisons /\ Len(comparisons') = Len(comparisons)
  BY <1>3, SameLength DEF Inv, TypeOK
<1>5. \A c \in DOMAIN comparisons :
        /\ comparisons'[c].current = comparisons[c].current
        /\ comparisons'[c].results = comparisons[c].results
        /\ comparisons'[c].recommended =
             IF comparisons[c].recommended = q THEN None ELSE comparisons[c].recommended
  BY <1>1, <1>2 DEF Comparison
<1>6. /\ \A p \in Quotes \ {q} : quotes'[p] = quotes[p]
      /\ quotes'[q] = [AbsentQuote EXCEPT !.state = "deleted"]
  BY <1>1 DEF Inv, TypeOK, Board
<1>7. /\ DOMAIN approvals' = DOMAIN approvals
      /\ \A a \in DOMAIN approvals :
           approvals'[a] = [approvals[a] EXCEPT !.quote = IF @ = q THEN None ELSE @]
  BY <1>1
<1> QED BY <1>4, <1>5, <1>6, <1>7

LEMMA RowsStep ==
    ASSUME Inv, [Next]_vars
    PROVE  \/ /\ UNCHANGED comparisons
              /\ \A q \in Quotes : Present(q) => Present(q)'
           \/ \E b \in Requests : DeleteQuote(b)
           \/ \E b \in Requests : Stores(b)
<1> DEFINE Still == UNCHANGED comparisons /\ \A q \in Quotes : Present(q) => Present(q)'
<1>0. quotes \in Board
  BY DEF Inv, TypeOK
<1>1. ASSUME NEW b \in Requests, Enter(b) \/ UpdateQuote(b) \/ WriteCompleteness(b)
      PROVE  Still
  <2>1. CASE CreateQuote(b) \/ ImportQuotes(b)
    BY ZenonT(90), <1>0, <2>1 DEF CreateQuote, ImportQuotes, Present, Board, AbsentQuote
  <2>2. CASE SubmitQuote(b)
    BY <1>0, <2>2 DEF SubmitQuote, Present, Board, QuoteRow
  <2>3. CASE UpdateQuote(b)
    BY <1>0, <2>3 DEF UpdateQuote, Present, Board, QuoteRow
  <2>4. CASE WriteCompleteness(b)
    <3> DEFINE q == request[b].quote
    <3>1. \A p \in Quotes : quotes'[p].state = quotes[p].state
      BY <1>0, <2>4 DEF WriteCompleteness, Board, QuoteRow
    <3> QED BY <2>4, <3>1 DEF WriteCompleteness, Present
  <2> QED BY <1>1, <2>1, <2>2, <2>3, <2>4 DEF Enter
<1>2. ASSUME NEW b \in Requests,
             \/ SweepImported(b) \/ Evaluate(b) \/ RunComparison(b) \/ LoadQuotes(b)
             \/ ListComparisons(b) \/ Approve(b) \/ AskStatus(b) \/ UpdateStatus(b)
      PROVE  Still
  BY ZenonT(90), <1>2 DEF SweepImported, Evaluate, RunComparison, LoadQuotes, ListComparisons, Approve,
              Consider, CommitDecision, RecordDecision, AskStatus, UpdateStatus, Present, tables
<1>3. ASSUME NEW b \in Requests, StoreComparison(b)
      PROVE  Stores(b) \/ Still
  BY <1>3, StoreCases DEF Present
<1>4. CASE Restart \/ UNCHANGED vars
  BY <1>4 DEF Restart, vars, tables, Present
<1> QED BY <1>1, <1>2, <1>3, <1>4 DEF Next, Change, Derive, Recompute

(***************************************************************************)
(* The newest snapshot is current: a run of the engine clears only rows it *)
(* has listed, and appends its own as current.                             *)
(***************************************************************************)
LEMMA NextLatest ==
    ASSUME Inv, LatestIsCurrent, [Next]_vars
    PROVE  LatestIsCurrent'
<1>0. /\ Len(comparisons) \in Nat /\ DOMAIN comparisons = 1 .. Len(comparisons)
      /\ comparisons # <<>> => Len(comparisons) \in DOMAIN comparisons
      /\ comparisons = <<>> => Len(comparisons) = 0
  BY LenProperties, EmptySeq DEF Inv, TypeOK
<1>1. CASE UNCHANGED comparisons
  BY <1>1 DEF LatestIsCurrent
<1>2. ASSUME NEW b \in Requests, DeleteQuote(b)
      PROVE  LatestIsCurrent'
  <2>1. comparisons # <<>> => comparisons'[Len(comparisons)].current
    BY <1>0, <1>2, DeletedRows DEF LatestIsCurrent
  <2>2. comparisons = <<>> => comparisons' = <<>>
    BY <1>2 DEF DeleteQuote
  <2> QED BY <1>2, <2>1, <2>2, DeletedRows DEF LatestIsCurrent
<1>3. ASSUME NEW b \in Requests, Stores(b)
      PROVE  LatestIsCurrent'
  <2>1. Len(comparisons') = Len(comparisons) + 1
    BY <1>3, StoredRows
  <2>2. comparisons'[Len(comparisons) + 1] = Snapshot(request[b].board)
    BY <1>3, StoredRows
  <2>3. Snapshot(request[b].board).current
    BY DEF Snapshot
  <2> QED BY <2>1, <2>2, <2>3 DEF LatestIsCurrent
<1> QED BY <1>1, <1>2, <1>3, RowsStep

THEOREM NewestRunIsShown == Spec => []LatestIsCurrent
<1>1. Init => LatestIsCurrent
  BY DEF Init, LatestIsCurrent
<1>2. Inv /\ LatestIsCurrent /\ [Next]_vars => LatestIsCurrent'
  BY NextLatest
<1> QED BY <1>1, <1>2, InvHolds, PTL DEF Spec

(***************************************************************************)
(* A recommended quote exists: the commit of a run fails when its winner   *)
(* has gone, and a deletion clears the references to the quote.            *)
(***************************************************************************)
LEMMA NextRecommends ==
    ASSUME Inv, RecommendsWhatExists, [Next]_vars
    PROVE  RecommendsWhatExists'
<1>0. \A c \in DOMAIN comparisons : comparisons[c].recommended \in Quotes \union {None}
  <2>1. \A c \in DOMAIN comparisons : comparisons[c] \in Comparison
    BY LenProperties DEF Inv, TypeOK
  <2> QED BY <2>1 DEF Comparison
<1>1. CASE UNCHANGED comparisons /\ \A q \in Quotes : Present(q) => Present(q)'
  BY <1>0, <1>1 DEF RecommendsWhatExists, Present
<1>2. ASSUME NEW b \in Requests, DeleteQuote(b)
      PROVE  RecommendsWhatExists'
  BY <1>0, <1>2, DeletedRows DEF RecommendsWhatExists, Present
<1>3. ASSUME NEW b \in Requests, Stores(b)
      PROVE  RecommendsWhatExists'
  <2> DEFINE winner == Recommend(request[b].board)
  <2>1. winner \in Quotes \union {None}
    BY <1>3, StoredRows, RecommendType
  <2>2. winner # None => Present(winner)
    BY <1>3, <2>1 DEF Stores
  <2>3. \A q \in Quotes : Present(q) => Present(q)'
    BY <1>3, StoredQuotes DEF Present
  <2>4. comparisons'[Len(comparisons) + 1].recommended = winner
    <3>1. comparisons'[Len(comparisons) + 1] = Snapshot(request[b].board)
      BY <1>3, StoredRows
    <3>2. Snapshot(request[b].board).recommended = winner
      BY DEF Snapshot
    <3> QED BY <3>1, <3>2
  <2>5. ASSUME NEW c \in DOMAIN comparisons', comparisons'[c].recommended # None
        PROVE  Present(comparisons[c].recommended)'
    <3>1. CASE c = Len(comparisons) + 1
      BY <2>1, <2>2, <2>3, <2>4, <2>5, <3>1 DEF Present
    <3>2. CASE c \in DOMAIN comparisons
      <4>1. comparisons'[c].recommended = comparisons[c].recommended
        BY <1>3, <3>2, StoredRows
      <4> QED BY <1>0, <2>3, <2>5, <3>2, <4>1 DEF RecommendsWhatExists, Present
    <3> QED BY <1>3, <2>5, <3>1, <3>2, StoredRows
  <2> QED BY <2>5 DEF RecommendsWhatExists, Present
<1> QED BY <1>1, <1>2, <1>3, RowsStep

THEOREM RecommendedQuotesExist == Spec => []RecommendsWhatExists
<1>1. Init => RecommendsWhatExists
  BY DEF Init, RecommendsWhatExists
<1>2. Inv /\ RecommendsWhatExists /\ [Next]_vars => RecommendsWhatExists'
  BY NextRecommends
<1> QED BY <1>1, <1>2, InvHolds, PTL DEF Spec

-----------------------------------------------------------------------------
(***************************************************************************)
(* The audit log. A step other than a decision's own keeps what the log    *)
(* has and the entries being written.                                      *)
(***************************************************************************)
LEMMA AuditFrame ==
    ASSUME DecisionsAudited, DOMAIN approvals' = DOMAIN approvals,
           \A a \in DOMAIN approvals : approvals[a].quote = None => approvals'[a].quote = None,
           audited \subseteq audited', cut \subseteq cut',
           \A x \in Requests : request[x].pc = "record" => request'[x] = request[x]
    PROVE  DecisionsAudited'
BY DEF DecisionsAudited

LEMMA NextAudited ==
    ASSUME Inv, DecisionsAudited, [Next]_vars
    PROVE  DecisionsAudited'
<1>1. ASSUME NEW b \in Requests, Enter(b) \/ UpdateQuote(b) \/ Derive(b)
      PROVE  DecisionsAudited'
  BY <1>1, AuditFrame
  DEF Enter, CreateQuote, ImportQuotes, SubmitQuote, UpdateQuote, Derive, SweepImported, Evaluate,
      WriteCompleteness, Uses, tables, history, Inv, TypeOK
<1>2. ASSUME NEW b \in Requests, DeleteQuote(b)
      PROVE  DecisionsAudited'
  <2>1. /\ DOMAIN approvals' = DOMAIN approvals
        /\ \A a \in DOMAIN approvals : approvals[a].quote = None => approvals'[a].quote = None
    <3>1. \A a \in DOMAIN approvals : approvals[a] \in Approval
      BY LenProperties DEF Inv, TypeOK
    <3> QED BY <1>2, <3>1, DeletedRows DEF Approval
  <2> QED BY <1>2, <2>1, AuditFrame DEF DeleteQuote
<1>3. ASSUME NEW b \in Requests, RunComparison(b) \/ LoadQuotes(b) \/ ListComparisons(b)
      PROVE  DecisionsAudited'
  BY <1>3, AuditFrame
  DEF RunComparison, LoadQuotes, ListComparisons, Uses, tables, history, Inv, TypeOK
<1>4. ASSUME NEW b \in Requests, StoreComparison(b)
      PROVE  DecisionsAudited'
  BY <1>4, StoreCases, AuditFrame DEF history, Inv, TypeOK
<1>5. ASSUME NEW b \in Requests, Consider(b) \/ AskStatus(b) \/ UpdateStatus(b)
      PROVE  DecisionsAudited'
  BY <1>5, AuditFrame DEF Consider, AskStatus, UpdateStatus, Uses, tables, history, Inv, TypeOK
<1>6. ASSUME NEW b \in Requests, CommitDecision(b)
      PROVE  DecisionsAudited'
  <2>1. \A x \in Requests : request[x].pc = "record" => request'[x] = request[x]
    BY <1>6, CommitCases DEF Inv, TypeOK
  <2>2. UNCHANGED <<audited, cut>>
    BY <1>6, CommitCases DEF history
  <2>3. CASE UNCHANGED approvals
    BY <2>1, <2>2, <2>3, AuditFrame
  <2>4. CASE /\ DOMAIN approvals' = DOMAIN approvals \union {Len(approvals) + 1}
             /\ \A a \in DOMAIN approvals : approvals'[a] = approvals[a]
             /\ request' = [request EXCEPT ![b] =
                      [Idle EXCEPT !.pc = "record", !.entry = Len(approvals) + 1]]
    <3>1. request'[b].pc = "record" /\ request'[b].entry = Len(approvals) + 1
      BY <2>4 DEF Inv, TypeOK, Idle
    <3>2. ASSUME NEW a \in DOMAIN approvals'
          PROVE  \/ a \in audited'
                 \/ \E x \in Requests : request'[x].pc = "record" /\ request'[x].entry = a
                 \/ a \in cut'
                 \/ approvals'[a].quote = None
      <4>1. CASE a = Len(approvals) + 1
        BY <3>1, <4>1
      <4>2. CASE a \in DOMAIN approvals
        BY <2>1, <2>2, <2>4, <4>2 DEF DecisionsAudited
      <4> QED BY <2>4, <4>1, <4>2
    <3> QED BY <3>2 DEF DecisionsAudited
  <2> QED BY <1>6, <2>3, <2>4, CommitCases
<1>7. ASSUME NEW b \in Requests, RecordDecision(b)
      PROVE  DecisionsAudited'
  <2>1. \A x \in Requests \ {b} : request'[x] = request[x]
    BY <1>7 DEF RecordDecision, Inv, TypeOK
  <2>2. /\ UNCHANGED <<approvals, cut>>
        /\ audited \subseteq audited'
        /\ approvals[request[b].entry].quote # None => request[b].entry \in audited'
    BY <1>7 DEF RecordDecision, history
  <2> QED BY <2>1, <2>2 DEF DecisionsAudited
<1>8. CASE Restart
  BY <1>8 DEF Restart, DecisionsAudited, tables
<1>9. CASE UNCHANGED vars
  BY <1>9, AuditFrame DEF vars, tables, history
<1> QED
  BY SMTT(60), ZenonT(90), <1>1, <1>2, <1>3, <1>4, <1>5, <1>6, <1>7, <1>8, <1>9
  DEF Next, Change, Recompute, Approve

(***************************************************************************)
(* Every decision has its audit entry, but for the named exceptions.       *)
(***************************************************************************)
THEOREM EveryDecisionAudited == Spec => []DecisionsAudited
<1>1. Init => DecisionsAudited
  BY DEF Init, DecisionsAudited
<1>2. Inv /\ DecisionsAudited /\ [Next]_vars => DecisionsAudited'
  BY NextAudited
<1> QED BY <1>1, <1>2, InvHolds, PTL DEF Spec

-----------------------------------------------------------------------------
(***************************************************************************)
(* What a decision cites. A snapshot's winner never changes once it is     *)
(* stored, and what is shown as recommended is that winner or nothing.     *)
(***************************************************************************)
Cites(it) ==
    it.recommended # None =>
        /\ it.run \in DOMAIN comparisons
        /\ it.recommended = comparisons[it.run].results
        /\ it.quote # None =>
             (it.overrode <=> it.decision = "approved" /\ it.quote # it.recommended)

CiteInv ==
    /\ \A c \in DOMAIN comparisons :
          comparisons[c].recommended \in {None, comparisons[c].results}
    /\ \A b \in Requests : request[b].pc = "decide" => Cites(request[b].approval)
    /\ \A a \in DOMAIN approvals : Cites(approvals[a])

LEMMA WinnersKept ==
    ASSUME Inv, CiteInv, [Next]_vars
    PROVE  /\ DOMAIN comparisons \subseteq DOMAIN comparisons'
           /\ \A c \in DOMAIN comparisons : comparisons'[c].results = comparisons[c].results
           /\ \A c \in DOMAIN comparisons' :
                 comparisons'[c].recommended \in {None, comparisons'[c].results}
<1>1. CASE UNCHANGED comparisons
  BY <1>1 DEF CiteInv
<1>2. ASSUME NEW b \in Requests, DeleteQuote(b)
      PROVE  /\ DOMAIN comparisons \subseteq DOMAIN comparisons'
             /\ \A c \in DOMAIN comparisons : comparisons'[c].results = comparisons[c].results
             /\ \A c \in DOMAIN comparisons' :
                   comparisons'[c].recommended \in {None, comparisons'[c].results}
  BY <1>2, DeletedRows DEF CiteInv
<1>3. ASSUME NEW b \in Requests, Stores(b)
      PROVE  /\ DOMAIN comparisons \subseteq DOMAIN comparisons'
             /\ \A c \in DOMAIN comparisons : comparisons'[c].results = comparisons[c].results
             /\ \A c \in DOMAIN comparisons' :
                   comparisons'[c].recommended \in {None, comparisons'[c].results}
  <2>1. LET new == comparisons'[Len(comparisons) + 1] IN new.recommended = new.results
    <3>1. comparisons'[Len(comparisons) + 1] = Snapshot(request[b].board)
      BY <1>3, StoredRows
    <3> QED BY <3>1 DEF Snapshot
  <2>2. /\ DOMAIN comparisons' = DOMAIN comparisons \union {Len(comparisons) + 1}
        /\ \A c \in DOMAIN comparisons :
              /\ comparisons'[c].results = comparisons[c].results
              /\ comparisons'[c].recommended = comparisons[c].recommended
    BY <1>3, StoredRows
  <2> QED BY <2>1, <2>2 DEF CiteInv
<1> QED BY <1>1, <1>2, <1>3, RowsStep

LEMMA CitesKept ==
    ASSUME Inv, CiteInv, [Next]_vars, NEW it, Cites(it)
    PROVE  /\ it.recommended # None =>
                /\ it.run \in DOMAIN comparisons'
                /\ it.recommended = comparisons'[it.run].results
                /\ it.quote # None =>
                     (it.overrode <=> it.decision = "approved" /\ it.quote # it.recommended)
BY WinnersKept DEF Cites

LEMMA CiteFrame ==
    ASSUME Inv, CiteInv, [Next]_vars, UNCHANGED approvals,
           \A x \in Requests : request'[x].pc = "decide" => request'[x] = request[x]
    PROVE  CiteInv'
<1>1. \A x \in Requests : request'[x].pc = "decide" => Cites(request[x].approval)'
  BY CitesKept DEF CiteInv, Cites
<1>2. \A a \in DOMAIN approvals' : Cites(approvals[a])'
  BY CitesKept DEF CiteInv, Cites
<1> QED BY <1>1, <1>2, WinnersKept DEF CiteInv

LEMMA ConsiderCites ==
    ASSUME Inv, CiteInv, NEW b \in Requests, Consider(b)
    PROVE  CiteInv'
<1> DEFINE recommended == IF Latest = None THEN None ELSE comparisons[Latest].recommended
<1>1. PICK q \in Quotes, d \in Decisions, override \in BOOLEAN :
        request' = [request EXCEPT ![b] = [Idle EXCEPT
             !.pc = "decide", !.seen = status, !.approval =
               [quote |-> q, decision |-> d, override |-> override, run |-> Latest,
                recommended |-> recommended, overrode |-> Overrides(q, d, recommended),
                cost |-> AwardedCost(q, d)]]]
  BY ZenonT(90) DEF Consider
<1> DEFINE approval == [quote |-> q, decision |-> d, override |-> override, run |-> Latest,
                        recommended |-> recommended, overrode |-> Overrides(q, d, recommended),
                        cost |-> AwardedCost(q, d)]
<1>2. request'[b].approval = approval
  BY <1>1 DEF Inv, TypeOK, Idle
<1>3. UNCHANGED <<comparisons, approvals>>
  BY DEF Consider, tables
<1>4. recommended # None =>
        Latest \in DOMAIN comparisons /\ recommended = comparisons[Latest].results
  BY LatestType DEF CiteInv, Inv, TypeOK
<1>5. /\ approval.recommended # None =>
           (approval.overrode <=> approval.decision = "approved"
                                  /\ approval.quote # approval.recommended)
      /\ approval.run = Latest /\ approval.recommended = recommended
  BY DEF Overrides
<1> HIDE DEF approval, recommended
<1>6. Cites(approval)
  BY <1>4, <1>5 DEF Cites
<1>7. \A x \in Requests \ {b} : request'[x] = request[x]
  BY <1>1 DEF Inv, TypeOK
<1>8. \A x \in Requests : request'[x].pc = "decide" => Cites(request'[x].approval)
  BY <1>2, <1>6, <1>7 DEF CiteInv
<1> QED BY <1>3, <1>8 DEF CiteInv, Cites

LEMMA AfterCommit ==
    ASSUME Inv, NEW b \in Requests, CommitDecision(b)
    PROVE  /\ \A x \in Requests \ {b} : request'[x] = request[x]
           /\ request'[b].pc \in {"idle", "record"}
           /\ request'[b].board = Idle.board
<1> DEFINE r == [Idle EXCEPT !.pc = "record", !.entry = Len(approvals) + 1]
<1>0. request \in [Requests -> RequestState]
  BY DEF Inv, TypeOK
<1>1. \/ request' = [request EXCEPT ![b] = r]
      \/ request' = [request EXCEPT ![b] = Idle]
  BY CommitCases
<1>2. r.pc = "record" /\ r.board = Idle.board /\ Idle.pc = "idle"
  BY DEF Idle
<1> HIDE DEF r
<1> QED BY <1>0, <1>1, <1>2

(***************************************************************************)
(* A step of a request leaves the others alone, and but for Consider and  *)
(* AskStatus does not end where a commit of the buyer's is pending.        *)
(***************************************************************************)
LEMMA QuietStep ==
    ASSUME Inv, NEW b \in Requests,
           \/ Enter(b) \/ UpdateQuote(b) \/ Derive(b) \/ RunComparison(b) \/ Recompute(b)
           \/ CommitDecision(b) \/ RecordDecision(b) \/ UpdateStatus(b)
    PROVE  /\ \A x \in Requests \ {b} : request'[x] = request[x]
           /\ request'[b].pc \notin {"decide", "status"}
<1>0. request \in [Requests -> RequestState]
  BY DEF Inv, TypeOK
<1>1. CASE CreateQuote(b)
  BY <1>0, <1>1 DEF CreateQuote, Idle
<1>2. CASE ImportQuotes(b)
  BY <1>0, <1>2 DEF ImportQuotes, Idle
<1>3. CASE SubmitQuote(b)
  BY <1>0, <1>3 DEF SubmitQuote, Idle
<1>4. CASE UpdateQuote(b)
  BY ZenonT(90), <1>0, <1>4 DEF UpdateQuote, Idle
<1>5. CASE SweepImported(b)
  BY ZenonT(90), <1>0, <1>5 DEF SweepImported, Idle
<1>6. CASE Evaluate(b)
  BY <1>0, <1>6 DEF Evaluate, Idle, RequestState
<1>7. CASE WriteCompleteness(b)
  <2>1. request[b].then \in {"idle", "load", "sweep"}
    BY <1>0 DEF RequestState
  <2> QED BY <1>0, <1>7, <2>1 DEF WriteCompleteness, Idle
<1>8. CASE RunComparison(b)
  BY <1>0, <1>8 DEF RunComparison, Idle
<1>9. CASE LoadQuotes(b) \/ ListComparisons(b)
  BY ZenonT(90), <1>0, <1>9 DEF LoadQuotes, ListComparisons, RequestState
<1>10. CASE StoreComparison(b)
  BY <1>0, <1>10 DEF StoreComparison, Idle
<1>11. CASE CommitDecision(b)
  BY <1>11, AfterCommit
<1>12. CASE RecordDecision(b)
  BY <1>0, <1>12 DEF RecordDecision, Idle
<1>13. CASE UpdateStatus(b)
  BY <1>0, <1>13 DEF UpdateStatus, Idle
<1> QED
  BY <1>1, <1>2, <1>3, <1>4, <1>5, <1>6, <1>7, <1>8, <1>9, <1>10, <1>11, <1>12, <1>13
  DEF Enter, Derive, Recompute

LEMMA OtherStep ==
    ASSUME Inv, NEW b \in Requests,
           \/ Enter(b) \/ UpdateQuote(b) \/ Derive(b) \/ RunComparison(b) \/ Recompute(b)
           \/ CommitDecision(b) \/ RecordDecision(b) \/ AskStatus(b) \/ UpdateStatus(b)
    PROVE  /\ \A x \in Requests \ {b} : request'[x] = request[x]
           /\ request'[b].pc # "decide"
<1>0. request \in [Requests -> RequestState]
  BY DEF Inv, TypeOK
<1>1. CASE AskStatus(b)
  BY ZenonT(90), <1>0, <1>1 DEF AskStatus, Idle
<1> QED BY <1>1, QuietStep

LEMMA NextCites ==
    ASSUME Inv, CiteInv, [Next]_vars
    PROVE  CiteInv'
<1>1. ASSUME NEW b \in Requests, Enter(b) \/ UpdateQuote(b) \/ Derive(b)
      PROVE  CiteInv'
  <2>1. /\ \A x \in Requests \ {b} : request'[x] = request[x]
        /\ request'[b].pc # "decide" /\ UNCHANGED approvals
    BY ZenonT(90), <1>1, OtherStep
    DEF Enter, CreateQuote, ImportQuotes, SubmitQuote, UpdateQuote, Derive, SweepImported,
        Evaluate, WriteCompleteness, tables
  <2> QED BY SMTT(60), ZenonT(90), <2>1, CiteFrame
<1>2. ASSUME NEW b \in Requests, DeleteQuote(b)
      PROVE  CiteInv'
  <2>1. UNCHANGED request
    BY <1>2 DEF DeleteQuote
  <2>2. \A x \in Requests : request'[x].pc = "decide" => Cites(request[x].approval)'
    BY <2>1, CitesKept DEF CiteInv, Cites
  <2>3. \A a \in DOMAIN approvals : approvals[a] \in Approval
    BY LenProperties DEF Inv, TypeOK
  <2>4. ASSUME NEW a \in DOMAIN approvals'
        PROVE  Cites(approvals[a])'
    <3>0. PICK q \in Quotes :
            /\ a \in DOMAIN approvals
            /\ approvals'[a] = [approvals[a] EXCEPT !.quote = IF @ = q THEN None ELSE @]
      BY ZenonT(90), <1>2, DeletedRows
    <3>1. /\ a \in DOMAIN approvals
          /\ approvals'[a].recommended = approvals[a].recommended
          /\ approvals'[a].run = approvals[a].run
          /\ approvals'[a].overrode = approvals[a].overrode
          /\ approvals'[a].decision = approvals[a].decision
          /\ approvals'[a].quote # None => approvals'[a].quote = approvals[a].quote
      BY <2>3, <3>0 DEF Approval
    <3> QED BY <3>1, CitesKept DEF CiteInv, Cites
  <2> QED BY <2>2, <2>4, WinnersKept DEF CiteInv
<1>3. ASSUME NEW b \in Requests, RunComparison(b) \/ Recompute(b)
      PROVE  CiteInv'
  <2>1. /\ \A x \in Requests \ {b} : request'[x] = request[x]
        /\ request'[b].pc # "decide" /\ UNCHANGED approvals
    BY ZenonT(90), <1>3, OtherStep
    DEF RunComparison, Recompute, LoadQuotes, ListComparisons, StoreComparison, tables
  <2> QED BY <2>1, CiteFrame
<1>4. ASSUME NEW b \in Requests, Consider(b)
      PROVE  CiteInv'
  BY <1>4, ConsiderCites
<1>5. ASSUME NEW b \in Requests, RecordDecision(b) \/ AskStatus(b) \/ UpdateStatus(b)
      PROVE  CiteInv'
  <2>1. /\ \A x \in Requests \ {b} : request'[x] = request[x]
        /\ request'[b].pc # "decide" /\ UNCHANGED approvals
    BY <1>5, OtherStep DEF RecordDecision, AskStatus, UpdateStatus, tables
  <2> QED BY <2>1, CiteFrame
<1>6. ASSUME NEW b \in Requests, CommitDecision(b)
      PROVE  CiteInv'
  <2>1. /\ \A x \in Requests \ {b} : request'[x] = request[x]
        /\ request'[b].pc # "decide"
    BY <1>6, OtherStep
  <2>2. \A x \in Requests : request'[x].pc = "decide" => Cites(request[x].approval)'
    BY <2>1, CitesKept DEF CiteInv, Cites
  <2>3. CASE UNCHANGED approvals
    BY <2>1, <2>3, CiteFrame
  <2>4. CASE /\ DOMAIN approvals' = DOMAIN approvals \union {Len(approvals) + 1}
             /\ approvals'[Len(approvals) + 1] = request[b].approval
             /\ \A a \in DOMAIN approvals : approvals'[a] = approvals[a]
    <3>1. Cites(request[b].approval)
      BY <1>6, CommitCases DEF CiteInv
    <3>2. \A a \in DOMAIN approvals' : Cites(approvals'[a])
      BY <2>4, <3>1 DEF CiteInv
    <3>3. \A a \in DOMAIN approvals' : Cites(approvals[a])'
      BY <3>2, CitesKept DEF Cites
    <3> QED BY <2>2, <3>3, WinnersKept DEF CiteInv
  <2> QED BY <1>6, <2>3, <2>4, CommitCases
<1>7. CASE Restart
  BY <1>7, CiteFrame DEF Restart, tables, Idle
<1>8. CASE UNCHANGED vars
  BY <1>8, CiteFrame DEF vars, tables
<1> QED
  BY <1>1, <1>2, <1>3, <1>4, <1>5, <1>6, <1>7, <1>8 DEF Next, Change, Approve

(***************************************************************************)
(* A decision records the recommendation of the run it cites, and is       *)
(* marked as an override exactly when it departs from it.                  *)
(***************************************************************************)
THEOREM DecisionsCite == Spec => []DecisionsCiteTheirRun
<1>1. Init => CiteInv
  BY DEF Init, CiteInv, Idle
<1>2. Inv /\ CiteInv /\ [Next]_vars => CiteInv'
  BY NextCites
<1>3. CiteInv => DecisionsCiteTheirRun
  BY DEF CiteInv, DecisionsCiteTheirRun, Cites
<1> QED BY <1>1, <1>2, <1>3, InvHolds, PTL DEF Spec

-----------------------------------------------------------------------------
(***************************************************************************)
(* What an award costs. Every figure the component keeps about a quote,    *)
(* however stale, comes from a price the quote has had.                    *)
(***************************************************************************)
FromOffers(price, q) == price \in offered[q] \union {None}

OfferInv ==
    /\ \A q \in Quotes : FromOffers(quotes[q].text.price, q) /\ FromOffers(quotes[q].total, q)
    /\ \A b \in Requests : \A q \in Quotes : FromOffers(request[b].board[q].text.price, q)
    /\ \A b \in Requests :
          request[b].pc = "decide" /\ request[b].approval.decision = "approved" =>
              request[b].approval.cost \in offered[request[b].approval.quote]
    /\ CostWasOffered

(***************************************************************************)
(* A step keeps OfferInv when no offer is forgotten and it gives quotes    *)
(* and requests only figures that were offered.                            *)
(***************************************************************************)
LEMMA OfferFrame ==
    ASSUME Inv, OfferInv, UNCHANGED approvals,
           \A q \in Quotes : offered[q] \subseteq offered'[q],
           \A q \in Quotes : \/ quotes'[q] = quotes[q]
                            \/ /\ quotes'[q].text.price \in offered'[q] \union {None}
                               /\ quotes'[q].total \in offered'[q] \union {None},
           \A x \in Requests :
               \/ request'[x] = request[x]
               \/ /\ request'[x].pc # "decide"
                  /\ request'[x].board \in {Idle.board, request[x].board, quotes}
    PROVE  OfferInv'
<1>1. \A q \in Quotes : FromOffers(Idle.board[q].text.price, q)
  BY DEF Idle, AbsentQuote, FromOffers
<1>2. \A q \in Quotes : (FromOffers(quotes[q].text.price, q) /\ FromOffers(quotes[q].total, q))'
  BY DEF OfferInv, FromOffers
<1>3. ASSUME NEW x \in Requests, NEW q \in Quotes
      PROVE  FromOffers(request[x].board[q].text.price, q)'
  <2>1. FromOffers(request'[x].board[q].text.price, q)
    BY <1>1 DEF OfferInv
  <2> QED BY <2>1 DEF FromOffers
<1>4. \A x \in Requests :
        request'[x].pc = "decide" /\ request'[x].approval.decision = "approved" =>
            request'[x].approval.cost \in offered'[request'[x].approval.quote]
  BY DEF OfferInv, Inv, HeldRowsExist, RequestHolds
<1>5. CostWasOffered'
  <2>1. \A a \in DOMAIN approvals : approvals[a].quote \in Quotes \union {None}
    <3>1. \A a \in DOMAIN approvals : approvals[a] \in Approval
      BY LenProperties DEF Inv, TypeOK
    <3> QED BY <3>1 DEF Approval
  <2> QED BY <2>1 DEF OfferInv, CostWasOffered
<1> QED BY <1>2, <1>3, <1>4, <1>5 DEF OfferInv

(***************************************************************************)
(* An offer is remembered.                                                 *)
(***************************************************************************)
LEMMA OfferKeeps ==
    ASSUME Inv, NEW q \in Quotes, NEW text \in Texts, Offer(q, text)
    PROVE  /\ \A p \in Quotes : offered[p] \subseteq offered'[p]
           /\ text.price \in offered'[q] \union {None}
BY DEF Inv, TypeOK, Offer

LEMMA BoardKept ==
    ASSUME Inv, NEW b \in Requests,
           \/ Enter(b) \/ UpdateQuote(b) \/ Derive(b) \/ RunComparison(b) \/ Recompute(b)
           \/ RecordDecision(b) \/ AskStatus(b) \/ UpdateStatus(b)
    PROVE  request'[b].board \in {Idle.board, request[b].board, quotes}
<1>0. request \in [Requests -> RequestState]
  BY DEF Inv, TypeOK
<1>1. CASE CreateQuote(b) \/ ImportQuotes(b)
  BY ZenonT(90), <1>0, <1>1 DEF CreateQuote, ImportQuotes, Idle
<1>2. CASE SubmitQuote(b) \/ UpdateQuote(b)
  BY ZenonT(90), <1>0, <1>2 DEF SubmitQuote, UpdateQuote, Idle
<1>3. CASE SweepImported(b)
  BY ZenonT(90), <1>0, <1>3 DEF SweepImported, Idle
<1>4. CASE Evaluate(b)
  BY <1>0, <1>4 DEF Evaluate, RequestState
<1>5. CASE WriteCompleteness(b)
  BY <1>0, <1>5 DEF WriteCompleteness, Idle
<1>6. CASE RunComparison(b) \/ StoreComparison(b)
  BY <1>0, <1>6 DEF RunComparison, StoreComparison, Idle
<1>7. CASE LoadQuotes(b) \/ ListComparisons(b)
  BY ZenonT(90), <1>0, <1>7 DEF LoadQuotes, ListComparisons, RequestState
<1>8. CASE RecordDecision(b) \/ UpdateStatus(b)
  BY <1>0, <1>8 DEF RecordDecision, UpdateStatus
<1>9. CASE AskStatus(b)
  BY <1>0, <1>9 DEF AskStatus, Idle
<1> QED
  BY <1>1, <1>2, <1>3, <1>4, <1>5, <1>6, <1>7, <1>8, <1>9 DEF Enter, Derive, Recompute

LEMMA EnterOffers ==
    ASSUME Inv, OfferInv, NEW b \in Requests, Enter(b) \/ UpdateQuote(b)
    PROVE  OfferInv'
<1>1. PICK q \in Quotes, text \in Texts :
        /\ Offer(q, text)
        /\ \A p \in Quotes \ {q} : quotes'[p] = quotes[p]
        /\ quotes'[q].text = text
        /\ quotes'[q].total \in {None, quotes[q].total}
  <2>0. quotes \in Board
    BY DEF Inv, TypeOK
  <2>1. CASE CreateQuote(b) \/ ImportQuotes(b)
    <3>1. PICK q \in Quotes, text \in Texts :
            Offer(q, text) /\ quotes' = [quotes EXCEPT ![q] =
                [AbsentQuote EXCEPT !.state = "present", !.text = text]]
      BY <2>1 DEF CreateQuote, ImportQuotes
    <3>2. /\ quotes'[q].text = text /\ quotes'[q].total = None
          /\ \A p \in Quotes \ {q} : quotes'[p] = quotes[p]
      BY <2>0, <3>1 DEF Board, AbsentQuote
    <3> QED BY <3>1, <3>2
  <2>2. CASE SubmitQuote(b)
    BY <2>0, <2>2 DEF SubmitQuote, Board, QuoteRow
  <2>3. CASE UpdateQuote(b)
    <3>1. PICK q \in Quotes, text \in Texts :
            Offer(q, text) /\ quotes' = [quotes EXCEPT ![q].text = text]
      BY <2>3 DEF UpdateQuote
    <3>2. /\ quotes'[q].text = text /\ quotes'[q].total = quotes[q].total
          /\ \A p \in Quotes \ {q} : quotes'[p] = quotes[p]
      BY <2>0, <3>1 DEF Board, QuoteRow
    <3> QED BY <3>1, <3>2
  <2> QED BY <2>1, <2>2, <2>3 DEF Enter
<1>2. \A p \in Quotes : offered[p] \subseteq offered'[p]
  BY <1>1, OfferKeeps
<1>3. /\ quotes'[q].text.price \in offered'[q] \union {None}
      /\ quotes'[q].total \in offered'[q] \union {None}
  BY SMTT(60), ZenonT(90), <1>1, <1>2, OfferKeeps DEF OfferInv, FromOffers
<1>4. UNCHANGED approvals
  BY DEF Enter, CreateQuote, ImportQuotes, SubmitQuote, UpdateQuote
<1>5. /\ \A x \in Requests \ {b} : request'[x] = request[x]
      /\ request'[b].pc # "decide"
      /\ request'[b].board \in {Idle.board, request[b].board, quotes}
  BY OtherStep, BoardKept
<1> QED BY <1>1, <1>2, <1>3, <1>4, <1>5, OfferFrame

LEMMA StoreOffers ==
    ASSUME Inv, OfferInv, NEW b \in Requests, StoreComparison(b)
    PROVE  OfferInv'
<1>1. \A q \in Quotes : \/ quotes'[q] = quotes[q]
                       \/ /\ quotes'[q].text.price \in offered[q] \union {None}
                          /\ quotes'[q].total \in offered[q] \union {None}
  <2>1. CASE UNCHANGED <<comparisons, quotes>>
    BY <2>1
  <2>2. CASE Stores(b)
    <3>1. \A q \in Quotes : Cost(request[b].board, q) \in offered[q] \union {None}
      BY DEF Cost, OfferInv, FromOffers
    <3> QED BY <2>2, <3>1, StoredQuotes DEF OfferInv, FromOffers
  <2> QED BY <2>1, <2>2, StoreCases
<1>2. UNCHANGED <<approvals, offered>>
  BY StoreCases DEF history
<1>3. /\ \A x \in Requests \ {b} : request'[x] = request[x]
      /\ request'[b].pc # "decide"
      /\ request'[b].board \in {Idle.board, request[b].board, quotes}
  BY OtherStep, BoardKept DEF Recompute
<1> QED BY <1>1, <1>2, <1>3, OfferFrame

LEMMA ConsiderOffers ==
    ASSUME Inv, OfferInv, NEW b \in Requests, Consider(b)
    PROVE  OfferInv'
<1> DEFINE recommended == IF Latest = None THEN None ELSE comparisons[Latest].recommended
<1>1. PICK q \in Quotes, d \in Decisions, override \in BOOLEAN :
        /\ d = "approved" => quotes[q].text.price # None
        /\ request' = [request EXCEPT ![b] = [Idle EXCEPT
             !.pc = "decide", !.seen = status, !.approval =
               [quote |-> q, decision |-> d, override |-> override, run |-> Latest,
                recommended |-> recommended, overrode |-> Overrides(q, d, recommended),
                cost |-> AwardedCost(q, d)]]]
  BY ZenonT(90) DEF Consider
<1> HIDE DEF recommended
<1>2. /\ request'[b].approval.quote = q /\ request'[b].approval.decision = d
      /\ request'[b].approval.cost = AwardedCost(q, d)
      /\ request'[b].board = Idle.board
      /\ \A x \in Requests \ {b} : request'[x] = request[x]
  BY <1>1 DEF Inv, TypeOK, Idle
<1>3. d = "approved" => AwardedCost(q, d) \in offered[q]
  BY <1>1 DEF AwardedCost, OfferInv, FromOffers
<1>4. UNCHANGED <<quotes, approvals, offered>>
  BY DEF Consider, tables, history
<1>5. \A p \in Quotes : FromOffers(Idle.board[p].text.price, p)
  BY DEF Idle, AbsentQuote, FromOffers
<1>6. \A x \in Requests : \A p \in Quotes : FromOffers(request'[x].board[p].text.price, p)
  BY <1>2, <1>5 DEF OfferInv
<1>7. \A x \in Requests :
        request'[x].pc = "decide" /\ request'[x].approval.decision = "approved" =>
            request'[x].approval.cost \in offered[request'[x].approval.quote]
  BY <1>2, <1>3 DEF OfferInv
<1> QED BY <1>4, <1>6, <1>7 DEF OfferInv, FromOffers, CostWasOffered

LEMMA NextOffers ==
    ASSUME Inv, OfferInv, [Next]_vars
    PROVE  OfferInv'
<1>1. ASSUME NEW b \in Requests, Enter(b) \/ UpdateQuote(b)
      PROVE  OfferInv'
  BY <1>1, EnterOffers
<1>2. ASSUME NEW b \in Requests, DeleteQuote(b)
      PROVE  OfferInv'
  <2>1. PICK q \in Quotes :
          /\ DOMAIN approvals' = DOMAIN approvals
          /\ \A a \in DOMAIN approvals :
                approvals'[a] = [approvals[a] EXCEPT !.quote = IF @ = q THEN None ELSE @]
          /\ \A p \in Quotes \ {q} : quotes'[p] = quotes[p]
          /\ quotes'[q] = [AbsentQuote EXCEPT !.state = "deleted"]
    BY <1>2, DeletedRows
  <2>2. UNCHANGED <<request, offered>>
    BY <1>2 DEF DeleteQuote
  <2>3. quotes'[q].text.price = None /\ quotes'[q].total = None
    BY <2>1 DEF AbsentQuote
  <2>4. \A p \in Quotes : (FromOffers(quotes[p].text.price, p) /\ FromOffers(quotes[p].total, p))'
    BY <2>1, <2>2, <2>3 DEF OfferInv, FromOffers
  <2>5. \A a \in DOMAIN approvals : approvals[a] \in Approval
    BY LenProperties DEF Inv, TypeOK
  <2>6. \A a \in DOMAIN approvals :
          /\ approvals'[a].decision = approvals[a].decision
          /\ approvals'[a].cost = approvals[a].cost
          /\ approvals'[a].quote # None => approvals'[a].quote = approvals[a].quote
    BY <2>1, <2>5 DEF Approval
  <2>7. CostWasOffered'
    BY <2>1, <2>2, <2>6 DEF OfferInv, CostWasOffered
  <2> QED BY <2>2, <2>4, <2>7 DEF OfferInv, FromOffers
<1>3. ASSUME NEW b \in Requests,
             \/ SweepImported(b) \/ Evaluate(b) \/ RunComparison(b) \/ LoadQuotes(b)
             \/ ListComparisons(b) \/ RecordDecision(b) \/ AskStatus(b) \/ UpdateStatus(b)
      PROVE  OfferInv'
  <2>1. UNCHANGED <<quotes, approvals, offered>>
    BY <1>3 DEF SweepImported, Evaluate, RunComparison, LoadQuotes, ListComparisons,
                RecordDecision, AskStatus, UpdateStatus, tables, history
  <2>2. /\ \A x \in Requests \ {b} : request'[x] = request[x]
        /\ request'[b].pc # "decide"
        /\ request'[b].board \in {Idle.board, request[b].board, quotes}
    BY <1>3, OtherStep, BoardKept DEF Derive, Recompute
  <2> QED BY SMTT(60), ZenonT(90), <2>1, <2>2, OfferFrame
<1>4. ASSUME NEW b \in Requests, WriteCompleteness(b)
      PROVE  OfferInv'
  <2>1. UNCHANGED <<approvals, offered>>
    BY <1>4 DEF WriteCompleteness, history
  <2>2. \A q \in Quotes : quotes'[q].text = quotes[q].text /\ quotes'[q].total = quotes[q].total
    <3>0. quotes \in Board
      BY DEF Inv, TypeOK
    <3> QED BY <1>4, <3>0 DEF WriteCompleteness, Board, QuoteRow
  <2>3. /\ \A x \in Requests \ {b} : request'[x] = request[x]
        /\ request'[b].pc # "decide"
        /\ request'[b].board \in {Idle.board, request[b].board, quotes}
    BY <1>4, OtherStep, BoardKept DEF Derive
  <2> QED BY <2>1, <2>2, <2>3, OfferFrame DEF OfferInv, FromOffers
<1>5. ASSUME NEW b \in Requests, StoreComparison(b)
      PROVE  OfferInv'
  BY <1>5, StoreOffers
<1>6. ASSUME NEW b \in Requests, Consider(b)
      PROVE  OfferInv'
  BY <1>6, ConsiderOffers
<1>7. ASSUME NEW b \in Requests, CommitDecision(b)
      PROVE  OfferInv'
  <2>1. UNCHANGED <<quotes, offered>>
    BY <1>7, CommitCases DEF history
  <2>2. /\ \A x \in Requests \ {b} : request'[x] = request[x]
        /\ request'[b].pc # "decide" /\ request'[b].board = Idle.board
    BY <1>7, AfterCommit
  <2>3. CASE UNCHANGED approvals
    BY <2>1, <2>2, <2>3, OfferFrame
  <2>4. CASE /\ DOMAIN approvals' = DOMAIN approvals \union {Len(approvals) + 1}
             /\ approvals'[Len(approvals) + 1] = request[b].approval
             /\ \A a \in DOMAIN approvals : approvals'[a] = approvals[a]
    <3>1. CostWasOffered'
      BY <1>7, <2>1, <2>4, CommitCases DEF OfferInv, CostWasOffered
    <3>2. \A q \in Quotes : FromOffers(Idle.board[q].text.price, q)
      BY DEF Idle, AbsentQuote, FromOffers
    <3>3. \A x \in Requests : \A q \in Quotes : FromOffers(request'[x].board[q].text.price, q)
      BY <2>2, <3>2 DEF OfferInv
    <3> QED BY <2>1, <2>2, <3>1, <3>3 DEF OfferInv, FromOffers
  <2> QED BY <1>7, <2>3, <2>4, CommitCases
<1>8. CASE Restart
  <2>1. \A x \in Requests : request'[x] = Idle
    BY <1>8 DEF Restart
  <2>2. UNCHANGED <<quotes, approvals, offered>> /\ Idle.pc # "decide"
    BY <1>8 DEF Restart, tables, Idle
  <2> QED BY <2>1, <2>2, OfferFrame
<1>9. CASE UNCHANGED vars
  BY <1>9, OfferFrame DEF vars, tables, history
<1> QED
  BY <1>1, <1>2, <1>3, <1>4, <1>5, <1>6, <1>7, <1>8, <1>9
  DEF Next, Change, Derive, Recompute, Approve

(***************************************************************************)
(* The cost an award records was offered on that very quote.               *)
(***************************************************************************)
THEOREM AwardsCostOffered == Spec => []CostWasOffered
<1>1. Init => OfferInv
  BY DEF Init, OfferInv, FromOffers, CostWasOffered, Idle, AbsentQuote
<1>2. Inv /\ OfferInv /\ [Next]_vars => OfferInv'
  BY NextOffers
<1>3. OfferInv => CostWasOffered
  BY DEF OfferInv
<1> QED BY <1>1, <1>2, <1>3, InvHolds, PTL DEF Spec

-----------------------------------------------------------------------------
(***************************************************************************)
(* The refinement: Award implements AwardLedger.                           *)
(***************************************************************************)
DecisionsOf == [a \in DOMAIN approvals |-> approvals[a].decision]

LEMMA LedgerStutter ==
    ASSUME UNCHANGED status, UNCHANGED approvals,
           \A x \in Requests :
               \/ request'[x] = request[x]
               \/ /\ request[x].pc \notin {"decide", "status"}
                  /\ request'[x].pc \notin {"decide", "status"}
    PROVE  UNCHANGED Ledger!ledger
<1>1. \A x \in Requests : Intention(x)' = Intention(x)
  BY DEF Intention
<1> QED BY <1>1 DEF Ledger!ledger

(***************************************************************************)
(* A request that ends without effect is abandoned.                        *)
(***************************************************************************)
LEMMA LedgerAbandon ==
    ASSUME UNCHANGED status, UNCHANGED approvals, NEW gone \in SUBSET Requests,
           \A x \in Requests : Intention(x)' = IF x \in gone THEN None ELSE Intention(x)
    PROVE  Ledger!Abandon
<1>1. [b \in Requests |-> Intention(b)]' =
        [b \in Requests |-> IF b \in gone THEN None ELSE [x \in Requests |-> Intention(x)][b]]
  OBVIOUS
<1> QED BY <1>1 DEF Ledger!Abandon

LEMMA LedgerInit == Init => Ledger!Init
<1> SUFFICES ASSUME Init PROVE Ledger!Init
  OBVIOUS
<1>1. DecisionsOf = <<>>
  BY DEF DecisionsOf, Init
<1>2. [b \in Requests |-> Intention(b)] = [b \in Requests |-> None]
  BY DEF Init, Intention, Idle
<1>3. status = "open"
  BY DEF Init
<1> QED BY <1>1, <1>2, <1>3 DEF Ledger!Init, DecisionsOf

LEMMA ConsiderLedger ==
    ASSUME Inv, NEW b \in Requests, Consider(b)
    PROVE  Ledger!Intend(b)
<1> DEFINE recommended == IF Latest = None THEN None ELSE comparisons[Latest].recommended
<1>0. request \in [Requests -> RequestState] /\ request[b].pc = "idle"
  BY DEF Inv, TypeOK, Consider, Uses
<1>1. PICK q \in Quotes, d \in Decisions, override \in BOOLEAN :
        request' = [request EXCEPT ![b] = [Idle EXCEPT
             !.pc = "decide", !.seen = status, !.approval =
               [quote |-> q, decision |-> d, override |-> override, run |-> Latest,
                recommended |-> recommended, overrode |-> Overrides(q, d, recommended),
                cost |-> AwardedCost(q, d)]]]
  BY ZenonT(90) DEF Consider
<1> HIDE DEF recommended
<1>2. /\ request'[b].pc = "decide" /\ request'[b].approval.decision = d
      /\ \A x \in Requests \ {b} : request'[x] = request[x]
  BY <1>0, <1>1 DEF Idle
<1>3. UNCHANGED <<status, approvals>>
  BY DEF Consider, tables
<1>4. /\ Intention(b) = None
      /\ Intention(b)' = [ask |-> "decide", what |-> d]
      /\ \A x \in Requests \ {b} : Intention(x)' = Intention(x)
  BY <1>0, <1>2 DEF Intention
<1>5. [x \in Requests |-> Intention(x)]' =
        [[x \in Requests |-> Intention(x)] EXCEPT ![b] = [ask |-> "decide", what |-> d]]
  BY <1>4
<1>6. [ask |-> "decide", what |-> d] \in Ledger!Intentions
  BY DEF Ledger!Intentions, Ledger!Decide
<1> QED BY <1>3, <1>4, <1>5, <1>6 DEF Ledger!Intend

LEMMA AskStatusLedger ==
    ASSUME Inv, NEW b \in Requests, AskStatus(b)
    PROVE  Ledger!Intend(b)
<1>0. request \in [Requests -> RequestState] /\ request[b].pc = "idle"
  BY DEF Inv, TypeOK, AskStatus, Uses
<1>1. PICK s \in Statuses : request' = [request EXCEPT ![b] =
        [Idle EXCEPT !.pc = "status", !.seen = status, !.asked = s]]
  BY DEF AskStatus
<1>2. /\ request'[b].pc = "status" /\ request'[b].asked = s
      /\ \A x \in Requests \ {b} : request'[x] = request[x]
  BY <1>0, <1>1 DEF Idle
<1>3. UNCHANGED <<status, approvals>>
  BY DEF AskStatus, tables
<1>4. /\ Intention(b) = None
      /\ Intention(b)' = [ask |-> "status", what |-> s]
      /\ \A x \in Requests \ {b} : Intention(x)' = Intention(x)
  BY <1>0, <1>2 DEF Intention
<1>5. [x \in Requests |-> Intention(x)]' =
        [[x \in Requests |-> Intention(x)] EXCEPT ![b] = [ask |-> "status", what |-> s]]
  BY <1>4
<1>6. [ask |-> "status", what |-> s] \in Ledger!Intentions
  BY DEF Ledger!Intentions, Ledger!SetStatus
<1> QED BY <1>3, <1>4, <1>5, <1>6 DEF Ledger!Intend

LEMMA UpdateStatusLedger ==
    ASSUME Inv, NEW b \in Requests, UpdateStatus(b)
    PROVE  Ledger!CarryOut(b)
<1> DEFINE s == request[b].asked
<1>0. request \in [Requests -> RequestState] /\ request[b].pc = "status"
  BY DEF Inv, TypeOK, UpdateStatus
<1>1. s \in Statuses /\ status' \in {status, s} /\ UNCHANGED approvals
  BY <1>0 DEF UpdateStatus, Written, RequestState
<1>2. request'[b].pc = "idle" /\ \A x \in Requests \ {b} : request'[x] = request[x]
  BY <1>0 DEF UpdateStatus, Idle
<1>3. /\ Intention(b) = [ask |-> "status", what |-> s]
      /\ Intention(b)' = None
      /\ \A x \in Requests \ {b} : Intention(x)' = Intention(x)
  BY <1>0, <1>2 DEF Intention
<1>4. [x \in Requests |-> Intention(x)]' = [[x \in Requests |-> Intention(x)] EXCEPT ![b] = None]
  BY <1>3
<1>5. [ask |-> "status", what |-> s] # None
  <2>1. [ask |-> "status", what |-> s] \in
          [ask : {"decide", "status"}, what : Statuses \union Decisions]
    BY <1>1
  <2>2. None \notin [ask : {"decide", "status"}, what : Statuses \union Decisions]
    BY AwardAssumption
  <2> QED BY <2>1, <2>2
<1> QED BY <1>1, <1>3, <1>4, <1>5 DEF Ledger!CarryOut, Ledger!SetStatus

(***************************************************************************)
(* A committed decision is carried out; one whose quote has gone is        *)
(* abandoned.                                                              *)
(***************************************************************************)
LEMMA DecisionsAppended ==
    ASSUME Inv, NEW approval \in Approval, approvals' \in Seq(Approval),
           Len(approvals') = Len(approvals) + 1,
           approvals'[Len(approvals) + 1] = approval,
           \A a \in DOMAIN approvals : approvals'[a] = approvals[a]
    PROVE  DecisionsOf' = Append(DecisionsOf, approval.decision)
<1>1. /\ Len(approvals) \in Nat /\ DOMAIN approvals = 1 .. Len(approvals)
      /\ DOMAIN approvals' = 1 .. (Len(approvals) + 1)
      /\ \A a \in DOMAIN approvals : approvals[a] \in Approval
      /\ \A a \in DOMAIN approvals' : approvals'[a] \in Approval
  BY LenProperties DEF Inv, TypeOK
<1>2. /\ DecisionsOf \in [1 .. Len(approvals) -> Decisions]
      /\ DecisionsOf' \in [1 .. (Len(approvals) + 1) -> Decisions]
  BY <1>1 DEF DecisionsOf, Approval
<1>3. /\ DecisionsOf \in Seq(Decisions) /\ Len(DecisionsOf) = Len(approvals)
      /\ DecisionsOf' \in Seq(Decisions) /\ Len(DecisionsOf') = Len(approvals) + 1
  BY <1>1, <1>2, LenProperties
<1>4. approval.decision \in Decisions
  BY DEF Approval
<1>5. /\ \A a \in 1 .. Len(approvals) : DecisionsOf'[a] = DecisionsOf[a]
      /\ DecisionsOf'[Len(approvals) + 1] = approval.decision
  BY <1>1 DEF DecisionsOf
<1> DEFINE new == Append(DecisionsOf, approval.decision)
<1>6. /\ new \in Seq(Decisions) /\ Len(new) = Len(approvals) + 1
      /\ \A a \in 1 .. Len(approvals) : new[a] = DecisionsOf[a]
      /\ new[Len(approvals) + 1] = approval.decision
  BY <1>3, <1>4, AppendProperties
<1> HIDE DEF new
<1>7. \A a \in 1 .. Len(new) : DecisionsOf'[a] = new[a]
  BY <1>1, <1>5, <1>6
<1>8. DecisionsOf' = new
  BY <1>3, <1>6, <1>7, SeqEqual
<1> QED BY <1>8 DEF new

LEMMA CommitLedger ==
    ASSUME Inv, NEW b \in Requests, CommitDecision(b)
    PROVE  Ledger!CarryOut(b) \/ Ledger!Abandon
<1> DEFINE approval == request[b].approval
           d == approval.decision
<1>0. /\ request \in [Requests -> RequestState] /\ request[b].pc = "decide"
      /\ approval \in Approval /\ d \in Decisions
  BY CommitCases DEF Inv, TypeOK, Approval
<1>1. /\ request'[b].pc \in {"idle", "record"}
      /\ \A x \in Requests \ {b} : request'[x] = request[x]
  BY AfterCommit
<1>2. /\ Intention(b) = [ask |-> "decide", what |-> d]
      /\ Intention(b)' = None
      /\ \A x \in Requests \ {b} : Intention(x)' = Intention(x)
  BY <1>0, <1>1 DEF Intention
<1>3. CASE UNCHANGED <<status, approvals>>
  <2>1. \A x \in Requests : Intention(x)' = IF x \in {b} THEN None ELSE Intention(x)
    BY <1>2
  <2> QED BY <1>3, <2>1, LedgerAbandon
<1>4. CASE /\ approvals' \in Seq(Approval)
           /\ Len(approvals') = Len(approvals) + 1
           /\ approvals'[Len(approvals) + 1] = approval
           /\ \A a \in DOMAIN approvals : approvals'[a] = approvals[a]
           /\ status' = Written(status, request[b].seen, Outcome(d, request[b].seen))
  <2>1. [x \in Requests |-> Intention(x)]' =
          [[x \in Requests |-> Intention(x)] EXCEPT ![b] = None]
    BY <1>2
  <2>2. [ask |-> "decide", what |-> d] # None
    <3>1. [ask |-> "decide", what |-> d] \in
            [ask : {"decide", "status"}, what : Statuses \union Decisions]
      BY <1>0
    <3>2. None \notin [ask : {"decide", "status"}, what : Statuses \union Decisions]
      BY AwardAssumption
    <3> QED BY <3>1, <3>2
  <2>3. DecisionsOf' = Append(DecisionsOf, d)
    BY <1>0, <1>4, DecisionsAppended
  <2>4. status' \in {status, Ledger!Outcome(d, status)}
    BY <1>0, <1>4 DEF Written, Outcome, Ledger!Outcome, Decisions
  <2> QED BY <1>0, <1>2, <2>1, <2>2, <2>3, <2>4
          DEF Ledger!CarryOut, Ledger!Decide, DecisionsOf
<1>5. \/ UNCHANGED <<status, approvals>>
      \/ status' = Written(status, request[b].seen, Outcome(d, request[b].seen))
  BY DEF CommitDecision
<1> QED BY <1>3, <1>4, <1>5, CommitCases

LEMMA QuietLedger ==
    ASSUME Inv, NEW b \in Requests,
           \/ Enter(b) \/ UpdateQuote(b) \/ Derive(b) \/ RunComparison(b) \/ Recompute(b)
           \/ RecordDecision(b)
    PROVE  UNCHANGED Ledger!ledger
<1>1. UNCHANGED <<status, approvals>> /\ request[b].pc \notin {"decide", "status"}
  BY ZenonT(90), StoreCases
  DEF Enter, CreateQuote, ImportQuotes, SubmitQuote, UpdateQuote, Derive, SweepImported, Evaluate,
      WriteCompleteness, RunComparison, Recompute, LoadQuotes, ListComparisons, RecordDecision,
      Uses, tables
<1>2. /\ \A x \in Requests \ {b} : request'[x] = request[x]
      /\ request'[b].pc \notin {"decide", "status"}
  BY QuietStep
<1> QED BY SMTT(60), ZenonT(90), <1>1, <1>2, LedgerStutter

(***************************************************************************)
(* Deleting a quote keeps what was decided.                                *)
(***************************************************************************)
LEMMA DeleteLedger ==
    ASSUME Inv, NEW b \in Requests, DeleteQuote(b)
    PROVE  UNCHANGED Ledger!ledger
<1>1. UNCHANGED <<status, request>>
  BY DEF DeleteQuote
<1>2. \A a \in DOMAIN approvals : approvals[a] \in Approval
  BY LenProperties DEF Inv, TypeOK
<1>3. DOMAIN approvals' = DOMAIN approvals
  BY DEF DeleteQuote
<1>4. ASSUME NEW a \in DOMAIN approvals
      PROVE  approvals'[a].decision = approvals[a].decision
  <2>1. PICK q \in Quotes :
          approvals'[a] = [approvals[a] EXCEPT !.quote = IF @ = q THEN None ELSE @]
    BY <1>3, DeletedRows
  <2> QED BY <1>2, <2>1 DEF Approval
<1>5. DecisionsOf' = DecisionsOf
  BY <1>3, <1>4 DEF DecisionsOf
<1>6. \A x \in Requests : Intention(x)' = Intention(x)
  BY <1>1 DEF Intention
<1> QED BY <1>1, <1>5, <1>6 DEF Ledger!ledger, DecisionsOf

LEMMA RestartLedger ==
    ASSUME Restart
    PROVE  Ledger!Abandon
<1>1. UNCHANGED <<status, approvals>>
  BY DEF Restart, tables
<1>2. \A x \in Requests : Intention(x)' = IF x \in Requests THEN None ELSE Intention(x)
  BY DEF Restart, Intention, Idle
<1> QED BY <1>1, <1>2, LedgerAbandon

LEMMA LedgerStep ==
    ASSUME Inv, [Next]_vars
    PROVE  [Ledger!Next]_(Ledger!ledger)
<1>1. ASSUME NEW b \in Requests,
             \/ Enter(b) \/ UpdateQuote(b) \/ Derive(b) \/ RunComparison(b)
             \/ Recompute(b) \/ RecordDecision(b)
      PROVE  UNCHANGED Ledger!ledger
  BY <1>1, QuietLedger
<1>2. ASSUME NEW b \in Requests, DeleteQuote(b)
      PROVE  UNCHANGED Ledger!ledger
  BY <1>2, DeleteLedger
<1>3. ASSUME NEW b \in Requests, Consider(b) \/ AskStatus(b)
      PROVE  Ledger!Intend(b)
  BY <1>3, ConsiderLedger, AskStatusLedger
<1>4. ASSUME NEW b \in Requests, CommitDecision(b)
      PROVE  Ledger!CarryOut(b) \/ Ledger!Abandon
  BY <1>4, CommitLedger
<1>5. ASSUME NEW b \in Requests, UpdateStatus(b)
      PROVE  Ledger!CarryOut(b)
  BY <1>5, UpdateStatusLedger
<1>6. CASE Restart
  BY <1>6, RestartLedger DEF Ledger!Next
<1>7. CASE UNCHANGED vars
  BY <1>7, LedgerStutter DEF vars, tables
<1> QED
  BY <1>1, <1>2, <1>3, <1>4, <1>5, <1>6, <1>7 DEF Next, Change, Approve, Ledger!Next

(***************************************************************************)
(* The component implements AwardLedger: whatever requests overlap and     *)
(* wherever the process dies, the status of the RFQ and the record of      *)
(* decisions change only by carrying out what a buyer asked for, once.     *)
(***************************************************************************)
THEOREM ImplementsLedger == Spec => NothingAutoAwarded
<1>1. Init => Ledger!Init
  BY LedgerInit
<1>2. Inv /\ [Next]_vars => [Ledger!Next]_(Ledger!ledger)
  BY LedgerStep
<1> QED BY <1>1, <1>2, InvHolds, PTL DEF Spec, NothingAutoAwarded, Ledger!Spec
=============================================================================
