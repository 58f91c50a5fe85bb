------------------------------- MODULE MCRules -------------------------------
(***************************************************************************)
(* Checks the rules that decide for the rest: the follow-up policy over a  *)
(* conversation (MCFollowUpPolicy), the ranking over batches of offers,    *)
(* the parser over submissions, the rate limiter over the requests of the  *)
(* public form. A batch and a submission are one state each; only a        *)
(* conversation and the requests go on.                                    *)
(***************************************************************************)
EXTENDS MCFollowUpPolicy, RateLimiter

INSTANCE Ranking
INSTANCE Parsing

\* None is no verdict, no question, no reason to leave a quote out, no unit, no amount and no factor.
ASSUME NoneAssumption ==
    /\ None \notin {"question", "llm", "notes", "price", "unit", "currency", "discount"}
    /\ None \notin {"carton", "kg", "tonne"}
    /\ None \notin Int
    /\ None \notin Nat \X Nat

VARIABLE matter

-----------------------------------------------------------------------------
(* Batches of up to three offers.                                          *)

Each(word) == [unit |-> word, pack |-> 0]

Plain == [price |-> 500, currency |-> "USD", unit |-> Each("pcs"), shipping |-> None, callout |-> None,
          duties |-> None, taxes |-> None, discount |-> None, gst |-> None, incoterms |-> "DAP",
          response |-> 8, lead |-> 20, held |-> {"bca"}, terms |-> [upfront |-> FALSE, numbers |-> <<30>>],
          moq |-> 5, validity |-> 40, warranty |-> 12, risk |-> "low", complete |-> TRUE, missing |-> {}]

Offers == {
    Plain,
    [Plain EXCEPT !.price = 350, !.lead = 40, !.validity = 10],
    [Plain EXCEPT !.price = 450, !.lead = 16],
    [Plain EXCEPT !.price = 450, !.complete = FALSE, !.missing = {"validity", "warranty"}, !.warranty = None],
    [Plain EXCEPT !.price = 400, !.complete = FALSE, !.missing = {"validity"}],
    [Plain EXCEPT !.price = 300, !.held = {}, !.response = 100, !.risk = "high"],
    [Plain EXCEPT !.price = 650, !.lead = 10, !.response = 2, !.terms = [upfront |-> FALSE, numbers |-> <<2, 10, 60>>]],
    [Plain EXCEPT !.price = 400, !.lead = 100, !.terms = [upfront |-> TRUE, numbers |-> <<>>], !.moq = 100],
    [Plain EXCEPT !.price = 3000, !.unit = [unit |-> "carton", pack |-> 10], !.shipping = 1000, !.incoterms = "ex works"],
    [Plain EXCEPT !.price = 500, !.currency = "Pounds", !.lead = None, !.discount = 1000, !.moq = None],
    [Plain EXCEPT !.price = 600, !.gst = 9, !.duties = 350, !.callout = 250, !.validity = -1, !.lead = -5],
    [Plain EXCEPT !.price = 450, !.discount = 4000, !.risk = "medium"],
    [Plain EXCEPT !.unit = Each("kg")],
    [Plain EXCEPT !.currency = "XAU"],
    [Plain EXCEPT !.price = None, !.complete = FALSE, !.missing = {"price"}] }

Requests == {
    [quantity |-> 10, unit |-> Each("pcs"), currency |-> "USD", incoterms |-> "DAP", gst |-> None,
     required |-> {}, weights |-> <<>>, procurement |-> "goods"],
    [quantity |-> 10, unit |-> Each("each"), currency |-> "USD", incoterms |-> "DDP", gst |-> 9,
     required |-> {"bca", "iso"}, weights |-> <<>>, procurement |-> "service"],
    [quantity |-> 20, unit |-> Each("pcs"), currency |-> "SGD", incoterms |-> "DAP", gst |-> None,
     required |-> {"bca"}, weights |-> [c \in {"price", "lead", "risk"} |-> CASE c = "price" -> 5 [] c = "lead" -> 60 [] c = "risk" -> -5],
     procurement |-> "goods"],
    [quantity |-> 3, unit |-> Each("kg"), currency |-> "USD", incoterms |-> "FOB", gst |-> None,
     required |-> {}, weights |-> <<>>, procurement |-> "goods"] }

Comparisons ==
    [kind : {"batch"}, batch : UNION {[1 .. n -> Offers] : n \in 1 .. 3}, rfq : Requests]

-----------------------------------------------------------------------------
(* Submissions: a key or two of the form, notes or none, and an answer of  *)
(* the language model or none.                                             *)

Bare == [gap |-> FALSE, none |-> FALSE, low |-> None, high |-> None, word |-> None, items |-> {}, date |-> None]

Number(n, word) == [Bare EXCEPT !.low = n, !.word = word]

TBD == [Bare EXCEPT !.gap = TRUE]

Nothing == [Bare EXCEPT !.none = TRUE]

Texts == {
    TBD, Nothing, [Bare EXCEPT !.word = "a word"], Number(12, None), Number(24, "emergency"), Number(9, "%"),
    [Number(10, "business") EXCEPT !.high = 15], Number(20, "minutes"), Number(2, "years"), Number(500, "$"),
    [Bare EXCEPT !.word = "FOB"], [Bare EXCEPT !.items = {"bca", "TBD"}], [Bare EXCEPT !.items = {"TBD"}],
    [Bare EXCEPT !.date = [form |-> "slashed", first |-> 31, second |-> 12, year |-> 2026]],
    [Bare EXCEPT !.date = [form |-> "iso", first |-> 12, second |-> 31, year |-> 2026]],
    [Number(2, "weeks") EXCEPT !.date = [form |-> "relative", first |-> 2, second |-> 0, year |-> 0]] }

Keys == {FormKeys[i] : i \in DOMAIN FormKeys}

Pairs == {{"response_time", "response_time_hours"}, {"accreditations", "compliance_accreditations"},
          {"unit_price", "contact_name"}}

Forms ==
    {<<>>} \union UNION {[{key} -> Texts] : key \in Keys}
           \union UNION {[pair -> {TBD, Nothing, Number(24, "emergency"), Number(7, "hours"),
                                   [Bare EXCEPT !.items = {"bca"}]}] : pair \in Pairs}

Silence == [lines |-> <<>>, price |-> None, per |-> None, currency |-> None, lead |-> None, auto |-> FALSE, data |-> FALSE,
            figure |-> FALSE, subject |-> FALSE, asks |-> FALSE, mark |-> FALSE, none |-> FALSE]

OnTheLastDay == [Number(2026, None) EXCEPT !.date = [form |-> "iso", first |-> 12, second |-> 31, year |-> 2026]]

Line(label, text) == [label |-> label, text |-> text]

Notes == {
    None,
    Silence,
    [Silence EXCEPT !.asks = TRUE, !.mark = TRUE, !.subject = TRUE],
    [Silence EXCEPT !.asks = TRUE],
    [Silence EXCEPT !.mark = TRUE, !.auto = TRUE],
    [Silence EXCEPT !.none = TRUE, !.data = TRUE],
    [Silence EXCEPT !.mark = TRUE, !.figure = TRUE, !.subject = TRUE, !.price = Number(700, "$"),
                    !.per = [Bare EXCEPT !.word = "pcs"], !.currency = [Bare EXCEPT !.word = "sgd"], !.lead = Number(3, "weeks")],
    [Silence EXCEPT !.data = TRUE, !.lines = <<Line("moq", Nothing), Line("moq", Number(40, None)),
                                               Line("gst rate", Number(900, "%")), Line("warranty", Number(1, "years"))>>],
    [Silence EXCEPT !.data = TRUE, !.lines = <<Line("price per piece", Number(350, "$")),
                                               Line("price validity", OnTheLastDay), Line("gst rate", TBD),
                                               Line("gst rate", Number(900, "%")), Line("lead time", TBD)>>] }

Answer(fields, classification, question, notes) ==
    [fields |-> fields, classification |-> classification, question |-> question, notes |-> notes]

Verdicts == {
    None,
    Answer(<<>>, None, FALSE, FALSE),
    Answer(<<>>, "question", TRUE, TRUE),
    Answer(<<>>, "question", FALSE, TRUE),
    Answer([f \in {"moq", "unit_price"} |-> Number(33, None)], "quote_data", FALSE, FALSE),
    Answer([f \in {"response_time_hours"} |-> TBD], "other", FALSE, FALSE) }

RequiredNames == {"unit_price", "moq", "response_time", "compliance", "lead_time", "gst_rate", "warranty_months",
                  "validity_date", "incoterms"}

Submissions == [kind : {"submission"}, form : Forms, notes : Notes, llm : Verdicts]

-----------------------------------------------------------------------------
\* The conversation beside which the other cases are put.
Idle ==
    /\ now = 1
    /\ snap = [status |-> "submitted", deadline |-> None, blocked |-> FALSE, completeness |-> "complete",
               missing |-> FALSE, asked |-> 0, highRisk |-> FALSE, reminders |-> 0, lastSent |-> None,
               expires |-> MaxTime + 1]

RulesInit ==
    /\ LimiterInit
    /\ \/ Init /\ matter = [kind |-> "conversation"]
       \/ Idle /\ matter \in Comparisons
       \/ Idle /\ matter \in Submissions
       \/ Idle /\ matter = [kind |-> "requests"]

RulesNext ==
    /\ UNCHANGED matter
    /\ \/ matter.kind = "conversation" /\ Next /\ UNCHANGED limiterVars
       \/ matter.kind = "requests" /\ LimiterNext /\ UNCHANGED vars

RulesSpec == RulesInit /\ [][RulesNext]_<<vars, limiterVars, matter>>

-----------------------------------------------------------------------------
(* Properties of the ranking.                                              *)

\* The places of a batch.
PlaceOf(batch, rfq, i) == Place(Card(batch, rfq), i)

(***************************************************************************)
(* Lowering a price never costs a supplier places, though it moves the     *)
(* span on which score_price measures every other price: the quote it      *)
(* leaves comparable ranks at least as high as before.                     *)
(***************************************************************************)
CheaperNeverWorse ==
    matter.kind = "batch" =>
        \A i \in Rankable(matter.batch, matter.rfq) :
            LET cut == [matter.batch EXCEPT ![i].price = @ - 150] IN
            Comparable(cut[i], matter.rfq)
            => PlaceOf(cut, matter.rfq, i) <= PlaceOf(matter.batch, matter.rfq, i)

\* Both left the answer out, or both gave one and the first is no larger.
NoMore(a, b) == a = b \/ (a # None /\ b # None /\ a <= b)

\* The same of times: a bare "-5" is read as it stands and counts as the worst there is.
NoLater(a, b) == a = b \/ (a # None /\ b # None /\ 0 <= a /\ (b < 0 \/ a <= b))

\* Offer p is at least as good as q in everything but its cost.
NoWorse(p, q) ==
    /\ NoLater(p.response, q.response) /\ NoLater(p.lead, q.lead) /\ NoMore(p.moq, q.moq)
    /\ NoMore(q.validity, p.validity) /\ NoMore(q.warranty, p.warranty)
    /\ NoMore(TermDays(q.terms), TermDays(p.terms))
    /\ q.held \subseteq p.held
    /\ p.risk = q.risk \/ p.risk = "low" \/ q.risk = "high"
    /\ p.complete \/ (~q.complete /\ p.missing \subseteq q.missing)

(***************************************************************************)
(* An offer that costs less and is no worse in anything else is ranked     *)
(* ahead, whatever the weights, the caps and the deductions.               *)
(***************************************************************************)
DominatedNeverAhead ==
    matter.kind = "batch" =>
        \A card \in {Card(matter.batch, matter.rfq)} : \A i, j \in DOMAIN card :
            (card[i].total < card[j].total /\ NoWorse(matter.batch[i], matter.batch[j]))
            => Ahead(card, i, j)

\* Amounts of a quote in its currency.
Amounts == {"price", "shipping", "callout", "duties", "taxes", "discount"}

\* The same offer in other words; in dollars of another sort, if every amount can be said in whole cents.
Restatements(quote, rfq) ==
    (IF quote.unit = Each("pcs") THEN {[quote EXCEPT !.price = 10 * @, !.unit = [unit |-> "carton", pack |-> 10]],
                                        [quote EXCEPT !.unit = Each("each")]} ELSE {})
    \union (IF quote.unit = Each("kg") THEN {[quote EXCEPT !.price = 1000 * @, !.unit = Each("tonne")]} ELSE {})
    \union (IF quote.currency = "USD" /\ \A c \in Amounts : quote[c] # None => (134 * quote[c]) % 100 = 0
            THEN {[c \in DOMAIN quote |-> IF c = "currency" THEN "SGD"
                                          ELSE IF c \in Amounts /\ quote[c] # None THEN (134 * quote[c]) \div 100
                                          ELSE quote[c]]} ELSE {})
    \union (IF quote.taxes = None /\ CurrencyCode(quote.currency) = rfq.currency /\ Taxes(quote, rfq) > 0
            THEN {[quote EXCEPT !.taxes = Taxes(quote, rfq)]} ELSE {})
    \union (IF quote.incoterms = "DAP" THEN {[quote EXCEPT !.incoterms = "DDU"]} ELSE {})

(***************************************************************************)
(* A supplier who quotes the same offer per carton instead of per piece,   *)
(* per tonne, in another currency, with the tax as an amount or under an   *)
(* older Incoterm costs the same as before, to the cent.                   *)
(***************************************************************************)
RestatedOfferCostsTheSame ==
    matter.kind = "batch" =>
        \A i \in Rankable(matter.batch, matter.rfq) :
            \A same \in Restatements(matter.batch[i], matter.rfq) :
                /\ Comparable(same, matter.rfq)
                /\ Total(same, matter.rfq) = Total(matter.batch[i], matter.rfq)

(***************************************************************************)
(* What the buyer reads fits what was ranked: there is a recommendation    *)
(* unless every quote was left out, it is called conclusive exactly when   *)
(* the recommended quote is complete, a quote without a required           *)
(* accreditation or with risks is not recommended silently, and when any   *)
(* ranked quote is cheaper a cheapest one is named.                        *)
(***************************************************************************)
RecommendationExplained ==
    matter.kind = "batch" =>
        LET batch == matter.batch rfq == matter.rfq IN
        \A card \in {Card(batch, rfq)} :
        \A winner \in {Recommended(card)}, said \in {Rationale(batch, rfq, card)} :
           /\ (winner = None) <=> (Rankable(batch, rfq) = {})
           /\ winner # None =>
                /\ Conclusive(batch, card) <=> batch[winner].complete
                /\ Conclusive(batch, card) <=> (<<winner, "provisional">> \notin said)
                /\ \A flag \in {"high risk", "unlicensed"} :
                       (<<winner, flag>> \in said) <=> (<<winner, flag>> \in BatchRisks(batch, rfq))
                /\ (\E i \in DOMAIN card : card[i].total < card[winner].total)
                   => \E i \in DOMAIN card : /\ <<i, "cheapest">> \in said
                                             /\ \A j \in DOMAIN card : card[i].total <= card[j].total

-----------------------------------------------------------------------------
(* Properties of the parser.                                               *)

Result == Submission(matter.form, matter.notes, matter.llm, RequiredNames)

Spellings(f) == {i \in Typed(matter.form) : FieldOf(FormKeys[i]) = f /\ Readable(matter.form, i)}

(***************************************************************************)
(* What the supplier typed into the form outranks whatever the language    *)
(* model or the heuristic read in his notes.                               *)
(***************************************************************************)
FormOutranksGuess ==
    matter.kind = "submission" =>
        \A result \in {Result}, f \in Fields : Spellings(f) # {} =>
            result.parsed[f] \in {Read(f, matter.form[FormKeys[i]]) : i \in Spellings(f)}

(***************************************************************************)
(* Nothing a supplier typed disappears: it is the value of a field, it     *)
(* stands among the leftovers, or another spelling of the same field,      *)
(* typed too, won.                                                         *)
(***************************************************************************)
NothingTypedIsLost ==
    matter.kind = "submission" =>
        \A result \in {Result}, i \in Typed(matter.form) :
            LET f == FieldOf(FormKeys[i]) IN
            \/ i \in result.unparsed.leftovers
            \/ f \in Fields /\ result.parsed[f] = Read(f, matter.form[FormKeys[i]])
            \/ Spellings(f) \ {i} # {}

\* Nobody says anything about the field: not the form, not the notes, not the model.
Unanswered(f) ==
    /\ \A i \in Typed(matter.form) : FieldOf(FormKeys[i]) = f => ~Answers(matter.form[FormKeys[i]])
    /\ matter.notes # None =>
         /\ \A i \in DOMAIN matter.notes.lines : \A k \in DOMAIN Candidates(matter.notes.lines[i].label) :
                Candidates(matter.notes.lines[i].label)[k] # f
         /\ f = "unit_price" => matter.notes.price = None
         /\ f = "lead_time_days" => matter.notes.lead = None
         /\ ~(matter.notes.none /\ f \in Declinable)
    /\ matter.llm # None => (f \in DOMAIN matter.llm.fields => ~Answers(matter.llm.fields[f]))

\* The notes decline the field, name it in a line that can only mean it, or state it in their text.
AnsweredInNotes(f) ==
    \/ matter.notes.none /\ f \in Declinable
    \/ \E i \in DOMAIN matter.notes.lines :
          /\ Candidates(matter.notes.lines[i].label) = <<f>>
          /\ ReadLabelled(f, matter.notes.lines[i].text) # None
    \/ f = "unit_price" /\ ParseMoney(matter.notes.price) # None
    \/ f = "lead_time_days" /\ ParseLeadTime(matter.notes.lead) # None

\* Somebody answers for the field, and can be read.
Answered(f) ==
    \/ Spellings(f) # {}
    \/ /\ f \in {"moq", "warranty_months", "gst_rate"}
       /\ f \in DOMAIN matter.form /\ Answers(matter.form[f]) /\ matter.form[f].none
    \/ matter.notes # None /\ AnsweredInNotes(f)
    \/ matter.llm # None /\ f \in DOMAIN matter.llm.fields /\ Read(f, matter.llm.fields[f]) # None

(***************************************************************************)
(* The fields a supplier is asked for again are the ones he has not        *)
(* answered. "TBD" is no answer. An answer is what can be read in the      *)
(* form, in a line or the text of the notes, or by the model; "no MOQ" and *)
(* "no warranty" in the form are answers, and "none" in the notes is one   *)
(* to every field a supplier may decline.                                  *)
(***************************************************************************)
AskedExactlyForGaps ==
    matter.kind = "submission" =>
        \A result \in {Result}, name \in RequiredNames :
            LET f == RequiredField(name) IN
            /\ Unanswered(f) => name \in result.missing
            /\ Answered(f) => name \notin result.missing

(***************************************************************************)
(* A supplier whose message is classified a question, by the model or,     *)
(* when it says nothing, by the markers, waits for the buyer if a sentence *)
(* of his notes asks something: his question is recorded, and he is not    *)
(* chased meanwhile. This is all the code does: a question beside an offer *)
(* is recorded only if the model reports it, for the notes' own question   *)
(* is looked for in messages classified a question (parser.py:388), though *)
(* classify.py:17-18 and :122-124 say that such a message still carries    *)
(* its question.                                                           *)
(***************************************************************************)
QuestionsEscalated ==
    (matter.kind = "submission" /\ matter.notes # None) =>
        LET notes   == matter.notes
            verdict == IF matter.llm = None THEN None ELSE matter.llm.classification
        IN ( /\ notes.mark
             /\ \/ verdict = "question"
                \/ verdict = None /\ ~notes.auto /\ ~notes.data /\ ~(notes.figure /\ notes.subject) )
           => Result.question # None
=============================================================================
