-------------------------------- MODULE Award --------------------------------
(***************************************************************************)
(* From a stored quote to an award. The quotes of one RFQ are entered,     *)
(* imported, submitted, edited and deleted; the comparison engine scores   *)
(* them and stores a snapshot; the buyer decides on a quote.               *)
(*                                                                         *)
(* Every request has a Session of its own on a database at READ COMMITTED. *)
(* It works on the rows it loaded until its next commit and a commit       *)
(* writes the columns whose value differs from the one loaded, so a run of *)
(* the engine that waits for its narrative may store what is long stale.   *)
(***************************************************************************)
EXTENDS Integers, Sequences, FiniteSets

CONSTANTS
    Quotes,         \* ids of supplier_quotes, in the order they are issued
    Requests,       \* concurrent requests
    Texts,          \* what a quote can say: [price |-> Nat or None, full |-> BOOLEAN]
    BuyerOps,       \* the operations this instance uses
    HistoryLimit,   \* the LIMIT of repository.list_for_rfq
    MaxRuns,        \* bound: rows of comparisons
    MaxDecisions,   \* bound: rows of approvals
    MaxEdits,       \* bound: quotes entered, edited and deleted, and statuses set
    MayRestart,     \* whether the process may die and be restarted
    None

\* draft and cancelled act like closed here.
Statuses     == {"open", "closed", "awarded"}
Decisions    == {"approved", "rejected", "deferred"}

ASSUME AwardAssumption ==
    /\ Quotes \subseteq Nat /\ IsFiniteSet(Quotes)
    /\ Texts \subseteq [price : Nat \union {None}, full : BOOLEAN]
    /\ {HistoryLimit, MaxRuns, MaxDecisions, MaxEdits} \subseteq Nat
    /\ MayRestart \in BOOLEAN
    /\ None \notin Nat /\ None \notin [ask : {"decide", "status"}, what : Statuses \union Decisions]

VARIABLES
    status,         \* rfq.status
    quotes,         \* the supplier_quotes table
    comparisons,    \* the comparisons table, in the order of its ids
    approvals,      \* the approvals table, in the order of its ids
    audited,        \* the approvals that have an audit entry
    request,        \* what each request holds
    edits,          \* how often a quote or the status was changed by hand
    offered,        \* history: the prices every quote has had
    cut             \* history: the approvals whose audit entry a restart cut off

tables  == <<status, quotes, comparisons, approvals, audited>>
history == <<edits, offered, cut>>
vars    == <<tables, request, history>>

-----------------------------------------------------------------------------
Completeness == {"complete", "incomplete"}

(* A quote: its text, that is its landed cost once the engine converts it  *)
(* (None without a unit price) and whether every other required field is   *)
(* answered, and what was derived from the text: completeness, whether     *)
(* missing_fields is null, empty or not, and normalized_total_cost.        *)
Text == [price : Nat \union {None}, full : BOOLEAN]

QuoteRow ==
    [state : {"absent", "present", "deleted"}, text : Text, completeness : Completeness, missing : {"null", "none", "some"},
     total : Nat \union {None}]

AbsentQuote ==
    [state |-> "absent", text |-> [price |-> None, full |-> FALSE],
     completeness |-> "complete", missing |-> "null", total |-> None]

Board == [Quotes -> QuoteRow]

\* A snapshot: results names its winner for good, recommended may be set null.
Comparison ==
    [current : BOOLEAN, results : Quotes \union {None}, recommended : Quotes \union {None}]

Approval ==
    [quote : Quotes \union {None}, decision : Decisions, override : BOOLEAN,
     run : Nat \union {None}, recommended : Quotes \union {None},
     overrode : BOOLEAN, cost : Nat \union {None}]

NoApproval ==
    [quote |-> None, decision |-> "deferred", override |-> FALSE, run |-> None,
     recommended |-> None, overrode |-> FALSE, cost |-> None]

RequestState ==
    [pc : {"idle", "evaluate", "write", "sweep", "load", "list", "store", "decide",
           "record", "status"},
     then : {"idle", "load", "sweep"}, quote : Quotes \union {None}, row : QuoteRow,
     board : Board, loaded : Board, known : SUBSET Nat, seen : Statuses, asked : Statuses,
     approval : Approval, entry : Nat]

Idle ==
    [pc |-> "idle", then |-> "idle", quote |-> None, row |-> AbsentQuote,
     board |-> [q \in Quotes |-> AbsentQuote], loaded |-> [q \in Quotes |-> AbsentQuote], known |-> {}, seen |-> "open",
     asked |-> "open", approval |-> NoApproval, entry |-> 0]

Init ==
    /\ status = "open"
    /\ quotes = [q \in Quotes |-> AbsentQuote]
    /\ comparisons = <<>>
    /\ approvals = <<>>
    /\ audited = {}
    /\ request = [b \in Requests |-> Idle]
    /\ edits = 0
    /\ offered = [q \in Quotes |-> {}]
    /\ cut = {}

-----------------------------------------------------------------------------
Uses(op, b) == op \in BuyerOps /\ request[b].pc = "idle"

Present(q) == quotes[q].state = "present"

\* A column is written when the new value differs from the one the session loaded.
Written(current, loaded, new) == IF new = loaded THEN current ELSE new

Edit == edits < MaxEdits /\ edits' = edits + 1

NewQuote(q) ==
    /\ quotes[q].state = "absent"
    /\ \A p \in Quotes : p < q => quotes[p].state # "absent"

Offer(q, text) == offered' = [offered EXCEPT ![q] = @ \union ({text.price} \ {None})]

\* evaluate(): unit_price is one of the required fields.
Missing(text) == IF text.full /\ text.price # None THEN "none" ELSE "some"

Complete(missing) == IF missing = "none" THEN "complete" ELSE "incomplete"

-----------------------------------------------------------------------------
(* The engine, as far as a snapshot tells runs apart: every priced quote is *)
(* ranked, complete ones first, then by cost and id.                       *)
Ranked(board) == {q \in Quotes : board[q].state = "present" /\ board[q].text.price # None}

Before(board, p, q) ==
    LET late(x) == IF board[x].completeness = "complete" THEN 0 ELSE 1 IN
    \/ late(p) < late(q)
    \/ late(p) = late(q) /\ board[p].text.price < board[q].text.price
    \/ late(p) = late(q) /\ board[p].text.price = board[q].text.price /\ p < q

First(board, among) ==
    IF among = {} THEN None
    ELSE CHOOSE q \in among : \A p \in among \ {q} : Before(board, q, p)

Recommend(board) == First(board, Ranked(board))

Backup(board) == First(board, Ranked(board) \ {Recommend(board)})

-----------------------------------------------------------------------------
(* Entering and changing quotes.                                           *)

\* The buyer records a quote; its completeness comes in a commit of its own.
CreateQuote(b) ==
    /\ Uses("create", b) /\ Edit
    /\ \E q \in Quotes, text \in Texts :
         /\ NewQuote(q) /\ text.price # None
         /\ quotes' = [quotes EXCEPT ![q] =
              [AbsentQuote EXCEPT !.state = "present", !.text = text]]
         /\ Offer(q, text)
         /\ request' = [request EXCEPT ![b] =
              [Idle EXCEPT !.pc = "evaluate", !.quote = q]]
    /\ UNCHANGED <<status, comparisons, approvals, audited, cut>>

\* A CSV or PDF file: all its rows in one commit (one row in this model).
ImportQuotes(b) ==
    /\ Uses("import", b) /\ Edit
    /\ \E q \in Quotes, text \in Texts :
         /\ NewQuote(q) /\ text.price # None
         /\ quotes' = [quotes EXCEPT ![q] =
              [AbsentQuote EXCEPT !.state = "present", !.text = text]]
         /\ Offer(q, text)
    /\ request' = [request EXCEPT ![b] = [Idle EXCEPT !.pc = "sweep"]]
    /\ UNCHANGED <<status, comparisons, approvals, audited, cut>>

\* The quotes whose missing_fields is null are evaluated one by one, then ranked.
SweepImported(b) ==
    LET due == {q \in Quotes : Present(q) /\ quotes[q].missing = "null"} IN
    /\ request[b].pc = "sweep"
    /\ \/ \E q \in due : request' = [request EXCEPT ![b] =
            [Idle EXCEPT !.pc = "write", !.then = "sweep", !.quote = q, !.row = quotes[q]]]
       \/ due = {} /\ request' = [request EXCEPT ![b] = [Idle EXCEPT !.pc = "load"]]
    /\ UNCHANGED <<tables, history>>

\* PUT of a quote: its text, then evaluate, then rank.
UpdateQuote(b) ==
    /\ Uses("edit", b) /\ Edit
    /\ \E q \in Quotes, text \in Texts :
         /\ Present(q) /\ text # quotes[q].text
         /\ quotes' = [quotes EXCEPT ![q].text = text]
         /\ Offer(q, text)
         /\ request' = [request EXCEPT ![b] =
              [Idle EXCEPT !.pc = "evaluate", !.then = "load", !.quote = q]]
    /\ UNCHANGED <<status, comparisons, approvals, audited, cut>>

\* A supplier's submission, already parsed: text and completeness in one commit.
SubmitQuote(b) ==
    /\ Uses("submit", b) /\ Edit
    /\ \E q \in Quotes, text \in Texts :
         /\ NewQuote(q) \/ Present(q)
         /\ quotes' = [quotes EXCEPT ![q] =
              [@ EXCEPT !.state = "present", !.text = text, !.missing = Missing(text),
                        !.completeness = Complete(Missing(text))]]
         /\ Offer(q, text)
         /\ request' = [request EXCEPT ![b] =
              [Idle EXCEPT !.pc = IF text.price = None THEN "idle" ELSE "load"]]
    /\ UNCHANGED <<status, comparisons, approvals, audited, cut>>

\* _apply_completeness, in two steps: it reads the refreshed row ...
Evaluate(b) ==
    LET q == request[b].quote IN
    /\ request[b].pc = "evaluate"
    /\ request' = [request EXCEPT ![b] =
         IF Present(q) THEN [@ EXCEPT !.pc = "write", !.row = quotes[q]] ELSE Idle]
    /\ UNCHANGED <<tables, history>>

\* ... and commits what it found. The row may be gone by then.
WriteCompleteness(b) ==
    LET q       == request[b].quote
        row     == request[b].row
        missing == Missing(row.text)
    IN /\ request[b].pc = "write"
       /\ \/ /\ Present(q)
             /\ quotes' = [quotes EXCEPT
                  ![q].missing      = Written(@, row.missing, missing),
                  ![q].completeness = Written(@, row.completeness, Complete(missing))]
             /\ request' = [request EXCEPT ![b] = [Idle EXCEPT !.pc = request[b].then]]
          \/ /\ ~Present(q)
             /\ request' = [request EXCEPT ![b] = Idle]
             /\ UNCHANGED quotes
       /\ UNCHANGED <<status, comparisons, approvals, audited, history>>

\* Mutant: the comparisons keep their reference to the quote.
DeleteWithoutNulling(b) ==
    /\ Uses("delete", b) /\ Edit
    /\ \E q \in Quotes :
         /\ Present(q)
         /\ quotes' = [quotes EXCEPT ![q] = [AbsentQuote EXCEPT !.state = "deleted"]]
         /\ approvals' = [a \in DOMAIN approvals |->
              [approvals[a] EXCEPT !.quote = IF @ = q THEN None ELSE @]]
    /\ UNCHANGED <<status, comparisons, audited, request, offered, cut>>

\* The foreign keys of comparisons and approvals are set null; nothing is ranked anew.
DeleteQuote(b) ==
    /\ Uses("delete", b) /\ Edit
    /\ \E q \in Quotes :
         /\ Present(q)
         /\ quotes' = [quotes EXCEPT ![q] = [AbsentQuote EXCEPT !.state = "deleted"]]
         /\ comparisons' = [c \in DOMAIN comparisons |->
              [comparisons[c] EXCEPT !.recommended = IF @ = q THEN None ELSE @]]
         /\ approvals' = [a \in DOMAIN approvals |->
              [approvals[a] EXCEPT !.quote = IF @ = q THEN None ELSE @]]
    /\ UNCHANGED <<status, audited, request, offered, cut>>

-----------------------------------------------------------------------------
(* ComparisonService.recompute.                                            *)

\* latest_for_rfq: the newest of the rows that are current.
Current == {c \in DOMAIN comparisons : comparisons[c].current}

Latest == IF Current = {} THEN None ELSE CHOOSE c \in Current : \A d \in Current : d <= c

\* The buyer runs the comparison, or opens the page when none is current.
RunComparison(b) ==
    /\ \/ Uses("run", b)
       \/ Uses("open", b) /\ Current = {}
    /\ \E q \in Quotes : Present(q)
    /\ request' = [request EXCEPT ![b] = [Idle EXCEPT !.pc = "load"]]
    /\ UNCHANGED <<tables, history>>

\* build_input loads the quotes; the engine and the narrative work on them.
LoadQuotes(b) ==
    /\ request[b].pc = "load"
    /\ Len(comparisons) + Cardinality({r \in Requests : request[r].pc \in {"list", "store"}}) < MaxRuns
    /\ request' = [request EXCEPT ![b] = [@ EXCEPT !.pc = "list", !.board = quotes]]
    /\ UNCHANGED <<tables, history>>

(* list_for_rfq reads the newest HistoryLimit rows, and apply_to_quotes     *)
(* reads the quotes again: a row object the session still holds keeps its  *)
(* values, one that was collected is loaded as the row is now.             *)
ListComparisons(b) ==
    LET board == request[b].board
        again == {q \in Quotes : board[q].state = "present" /\ Present(q)}
    IN /\ request[b].pc = "list"
       /\ \E held \in SUBSET again :
            request' = [request EXCEPT ![b] = [@ EXCEPT !.pc = "store",
              !.known  = {c \in DOMAIN comparisons : Len(comparisons) - c < HistoryLimit},
              !.loaded = [q \in Quotes |-> IF q \in held THEN board[q]
                                           ELSE IF q \in again THEN quotes[q]
                                           ELSE AbsentQuote]]]
       /\ UNCHANGED <<tables, history>>

\* Mutant: the figures are written back in the order of the ranking.
CostOfWinner(board, q) ==
    IF q \in Ranked(board) THEN board[Recommend(board)].text.price ELSE None

\* The cost a run found for a quote.
Cost(board, q) == IF q \in Ranked(board) THEN board[q].text.price ELSE None

\* Mutant: the new row is cleared with the listed ones.
ClearedSnapshot(board) ==
    [current |-> FALSE, results |-> Recommend(board), recommended |-> Recommend(board)]

Snapshot(board) ==
    [current |-> TRUE, results |-> Recommend(board), recommended |-> Recommend(board)]

\* The rows a run had listed are history.
Superseded(known, rows) ==
    [c \in DOMAIN rows |-> IF c \in known THEN [rows[c] EXCEPT !.current = FALSE] ELSE rows[c]]

(* The commit: the listed rows cease to be current, the new snapshot is,    *)
(* and every quote read again gets the cost and the completeness the run   *)
(* worked with. It fails as one when one of them, or a quote the snapshot  *)
(* refers to, has been deleted meanwhile.                                  *)
StoreComparison(b) ==
    LET board   == request[b].board
        loaded  == request[b].loaded
        written == {q \in Quotes : loaded[q].state = "present"}
        needed  == written \union ({Recommend(board), Backup(board)} \ {None})
    IN /\ request[b].pc = "store"
       /\ \/ /\ \A q \in needed : Present(q)
             /\ comparisons' =
                  Append(Superseded(request[b].known, comparisons), Snapshot(board))
             /\ quotes' = [q \in Quotes |->
                  IF q \notin written THEN quotes[q]
                  ELSE [quotes[q] EXCEPT
                    !.total        = Written(@, loaded[q].total, Cost(board, q)),
                    !.completeness = Written(@, loaded[q].completeness, board[q].completeness)]]
          \/ /\ \E q \in needed : ~Present(q)
             /\ UNCHANGED <<comparisons, quotes>>
       /\ request' = [request EXCEPT ![b] = Idle]
       /\ UNCHANGED <<status, approvals, audited, history>>

-----------------------------------------------------------------------------
\* Mutant: a rejected quote counts as an override too.
AnyDeparture(q, d, recommended) == recommended \notin {None, q}

\* An award of another quote than the recommended one.
Overrides(q, d, recommended) == d = "approved" /\ recommended \notin {None, q}

\* The landed cost written back by some run, else the quote's own figure.
AwardedCost(q, d) ==
    IF d # "approved" THEN None
    ELSE IF quotes[q].total # None THEN quotes[q].total ELSE quotes[q].text.price

(* ComparisonService.approve: it loads the RFQ, the quote and the latest    *)
(* current comparison, and refuses an approval of a quote that has no      *)
(* price, or has missing fields unless the note begins with "override".    *)
Consider(b) ==
    LET recommended == IF Latest = None THEN None ELSE comparisons[Latest].recommended
    IN /\ Uses("decide", b)
       /\ Len(approvals) + Cardinality({r \in Requests : request[r].pc = "decide"}) < MaxDecisions
       /\ \E q \in Quotes, d \in Decisions, override \in BOOLEAN :
            /\ Present(q)
            /\ d = "approved" => quotes[q].text.price # None
            /\ override <=> d = "approved" /\ quotes[q].missing = "some"
            /\ request' = [request EXCEPT ![b] = [Idle EXCEPT
                 !.pc = "decide", !.seen = status, !.approval =
                   [quote |-> q, decision |-> d, override |-> override, run |-> Latest,
                    recommended |-> recommended, overrode |-> Overrides(q, d, recommended),
                    cost |-> AwardedCost(q, d)]]]
       /\ UNCHANGED <<tables, history>>

\* Mutant: the decision is stored as the status.
OutcomeNamed(decision, s) == IF decision = "deferred" THEN s ELSE decision

\* Mutant: whatever is not an award reopens the RFQ.
OutcomeReopens(decision, s) == IF decision = "approved" THEN "awarded" ELSE "open"

\* The status an RFQ gets by a decision; a deferral leaves it.
Outcome(decision, s) ==
    IF decision = "approved" THEN "awarded" ELSE IF decision = "rejected" THEN "open" ELSE s

\* The approval and the status in one commit; the quote must still exist.
CommitDecision(b) ==
    LET approval == request[b].approval IN
    /\ request[b].pc = "decide"
    /\ \/ /\ Present(approval.quote)
          /\ approvals' = Append(approvals, approval)
          /\ status' = Written(status, request[b].seen,
                               Outcome(approval.decision, request[b].seen))
          /\ request' = [request EXCEPT ![b] =
               [Idle EXCEPT !.pc = "record", !.entry = Len(approvals) + 1]]
       \/ /\ ~Present(approval.quote)
          /\ request' = [request EXCEPT ![b] = Idle]
          /\ UNCHANGED <<status, approvals>>
    /\ UNCHANGED <<quotes, comparisons, audited, history>>

\* Mutant: only awards are logged.
RecordAward(b) ==
    LET a == request[b].entry IN
    /\ request[b].pc = "record"
    /\ audited' = IF approvals[a].decision = "approved" THEN audited \union {a} ELSE audited
    /\ request' = [request EXCEPT ![b] = Idle]
    /\ UNCHANGED <<status, quotes, comparisons, approvals, history>>

\* The audit entry names the quote's supplier, so it fails when the quote is gone.
RecordDecision(b) ==
    LET a == request[b].entry IN
    /\ request[b].pc = "record"
    /\ audited' = IF approvals[a].quote = None THEN audited ELSE audited \union {a}
    /\ request' = [request EXCEPT ![b] = Idle]
    /\ UNCHANGED <<status, quotes, comparisons, approvals, history>>

\* PUT or PATCH of the RFQ's status.
AskStatus(b) ==
    /\ Uses("status", b) /\ Edit
    /\ \E s \in Statuses : request' = [request EXCEPT ![b] =
         [Idle EXCEPT !.pc = "status", !.seen = status, !.asked = s]]
    /\ UNCHANGED <<tables, offered, cut>>

UpdateStatus(b) ==
    /\ request[b].pc = "status"
    /\ status' = Written(status, request[b].seen, request[b].asked)
    /\ request' = [request EXCEPT ![b] = Idle]
    /\ UNCHANGED <<quotes, comparisons, approvals, audited, history>>

\* The process dies; what the requests held is lost, what they committed is not.
Restart ==
    /\ MayRestart /\ \E b \in Requests : request[b].pc # "idle"
    /\ request' = [b \in Requests |-> Idle]
    /\ cut' = cut \union {request[b].entry : b \in {r \in Requests : request[r].pc = "record"}}
    /\ UNCHANGED <<tables, edits, offered>>

Enter(b) == CreateQuote(b) \/ ImportQuotes(b) \/ SubmitQuote(b)

Change(b) == UpdateQuote(b) \/ DeleteQuote(b)

Derive(b) == SweepImported(b) \/ Evaluate(b) \/ WriteCompleteness(b)

Recompute(b) == LoadQuotes(b) \/ ListComparisons(b) \/ StoreComparison(b)

Approve(b) == Consider(b) \/ CommitDecision(b) \/ RecordDecision(b)

Next ==
    \/ \E b \in Requests :
         \/ Enter(b) \/ Change(b) \/ Derive(b)
         \/ RunComparison(b) \/ Recompute(b)
         \/ Approve(b) \/ AskStatus(b) \/ UpdateStatus(b)
    \/ Restart

Spec == Init /\ [][Next]_vars

-----------------------------------------------------------------------------
TypeOK ==
    /\ status \in Statuses
    /\ quotes \in Board
    /\ comparisons \in Seq(Comparison)
    /\ approvals \in Seq(Approval)
    /\ audited \subseteq DOMAIN approvals
    /\ request \in [Requests -> RequestState]
    /\ edits \in Nat
    /\ offered \in [Quotes -> SUBSET Nat]
    /\ cut \subseteq DOMAIN approvals

(* The newest snapshot is always current, whatever runs overlap: the page   *)
(* and the approval, which take the newest current row, never fall back to *)
(* an older run.                                                           *)
LatestIsCurrent ==
    comparisons # <<>> => comparisons[Len(comparisons)].current

(* No snapshot recommends a quote that is gone, although a run may wait    *)
(* for its narrative while the buyer deletes the quote it ranked first.    *)
RecommendsWhatExists ==
    \A c \in DOMAIN comparisons :
        comparisons[c].recommended # None => Present(comparisons[c].recommended)

(* A decision cites the run it was taken on: the recommendation it records *)
(* is the one that run made, or none if the quote had gone by then; it is  *)
(* marked as overriding exactly when it departs from it.                   *)
DecisionsCiteTheirRun ==
    \A a \in DOMAIN approvals :
        LET it == approvals[a] IN
        it.recommended # None =>
            /\ it.run \in DOMAIN comparisons
            /\ it.recommended = comparisons[it.run].results
            /\ it.quote # None =>
                 (it.overrode <=> it.decision = "approved" /\ it.quote # it.recommended)

(* Every decision gets its line in the audit log, although it is written   *)
(* in a second commit: one is missing only while it is being written, when *)
(* the process died in between, or when the quote was deleted in between.  *)
DecisionsAudited ==
    \A a \in DOMAIN approvals :
        \/ a \in audited
        \/ \E b \in Requests : request[b].pc = "record" /\ request[b].entry = a
        \/ a \in cut
        \/ approvals[a].quote = None

(* The cost an award records is the cost of a price the supplier did offer *)
(* on that very quote, however stale the figures written back were.        *)
CostWasOffered ==
    \A a \in DOMAIN approvals :
        approvals[a].decision = "approved" /\ approvals[a].quote # None =>
            approvals[a].cost \in offered[approvals[a].quote]

\* What a request in flight is about to carry out.
Intention(b) ==
    IF request[b].pc = "decide" THEN [ask |-> "decide", what |-> request[b].approval.decision]
    ELSE IF request[b].pc = "status" THEN [ask |-> "status", what |-> request[b].asked]
    ELSE None

Ledger == INSTANCE AwardLedger WITH
    Clerks    <- Requests,
    Nothing   <- None,
    decisions <- [a \in DOMAIN approvals |-> approvals[a].decision],
    intention <- [b \in Requests |-> Intention(b)]

(* Nothing is auto-awarded: the component implements the ledger, in which  *)
(* the status and the decisions change only when a request of the buyer is *)
(* carried out, once. A decision is not the only such request, as          *)
(* comparison/service.py:444 has it: the plain update of an RFQ writes any *)
(* status, "awarded" among them (rfq/service.py:175, rfq/schema.py:206),   *)
(* with no decision recorded and no reason given. What holds is that no    *)
(* run, edit, deletion or restart awards, and that every award was asked   *)
(* for by a request of its own.                                            *)
NothingAutoAwarded == Ledger!Spec

(* comparison/model.py: "Landed cost of the awarded quote at decision      *)
(* time". It would be, if no figure written back were older than the quote.*)
AwardedAtItsPrice ==
    [][\A b \in Requests :
         request[b].pc = "idle" /\ request'[b].pc = "decide"
         /\ request'[b].approval.decision = "approved" =>
              request'[b].approval.cost = quotes[request'[b].approval.quote].text.price]_vars
=============================================================================
