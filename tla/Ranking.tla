------------------------------- MODULE Ranking -------------------------------
(***************************************************************************)
(* The comparison engine: every quote of an RFQ is costed, scored on nine  *)
(* criteria, ranked, and one is recommended with the reasons and the       *)
(* warnings the buyer reads.                                               *)
(*                                                                         *)
(* A batch is a function from quote ids to quotes. A score is an integer   *)
(* number of hundredths of a point, rounded where the code rounds.         *)
(***************************************************************************)
EXTENDS LandedCost, Sequences, FiniteSetsExt

Criteria == {"price", "response", "lead", "compliance", "terms", "moq", "validity", "warranty", "risk"}

Unknown == 5500

LeadAnchors ==
    <<<<0, 100>>, <<7, 100>>, <<14, 92>>, <<30, 78>>, <<45, 62>>, <<60, 48>>, <<90, 28>>, <<120, 15>>, <<180, 5>>>>

TermAnchors == <<<<0, 35>>, <<15, 60>>, <<30, 78>>, <<45, 88>>, <<60, 95>>, <<90, 100>>>>

WarrantyAnchors == <<<<0, 40>>, <<6, 65>>, <<12, 85>>, <<24, 95>>, <<36, 100>>>>

ResponseAnchors ==
    <<<<0, 100>>, <<2, 100>>, <<4, 92>>, <<8, 82>>, <<24, 62>>, <<48, 45>>, <<72, 32>>, <<168, 15>>, <<336, 5>>>>

ValidityAnchors == <<<<0, 20>>, <<7, 45>>, <<14, 62>>, <<30, 78>>, <<60, 92>>, <<90, 100>>>>

\* Mutant: a value is measured from the far end of its segment.
InterpolateFromFar(anchors, v) ==
    IF v <= anchors[1][1] THEN 100 * anchors[1][2]
    ELSE IF v >= anchors[Len(anchors)][1] THEN 100 * anchors[Len(anchors)][2]
    ELSE LET i == CHOOSE i \in 1 .. Len(anchors) - 1 : anchors[i][1] <= v /\ v < anchors[i + 1][1]
             low == anchors[i] high == anchors[i + 1]
         IN 100 * low[2] + HalfUp(100 * (high[1] - v) * (high[2] - low[2]), high[1] - low[1])

\* A polyline through its anchors, flat outside them.
Interpolate(anchors, v) ==
    IF v <= anchors[1][1] THEN 100 * anchors[1][2]
    ELSE IF v >= anchors[Len(anchors)][1] THEN 100 * anchors[Len(anchors)][2]
    ELSE LET i == CHOOSE i \in 1 .. Len(anchors) - 1 : anchors[i][1] <= v /\ v < anchors[i + 1][1]
             low == anchors[i] high == anchors[i + 1]
         IN 100 * low[2] + HalfUp(100 * (v - low[1]) * (high[2] - low[2]), high[1] - low[1])

ScoreLead(days) ==
    IF days = None THEN Unknown ELSE IF days < 0 THEN 0 ELSE Interpolate(LeadAnchors, days)

ScoreResponse(hours) ==
    IF hours = None THEN Unknown ELSE IF hours < 0 THEN 0 ELSE Interpolate(ResponseAnchors, hours)

\* No requirement is met by default, an unanswered one is not.
ScoreCompliance(held, required) ==
    IF required = {} THEN IF held = {} THEN Unknown ELSE 10000
    ELSE HalfUp(10000 * Cardinality(required \intersect held), Cardinality(required))

(* Terms are [upfront, numbers]: whether a word like "prepay" or "COD"      *)
(* occurs, and the numbers in the order they are written. "2/10 Net 30" is *)
(* thirty days because its last number is.                                 *)
TermDays(terms) ==
    IF terms = None THEN None
    ELSE IF terms.upfront THEN 0
    ELSE IF terms.numbers = <<>> THEN None
    ELSE Min({terms.numbers[Len(terms.numbers)], 365})

ScoreTerms(terms) ==
    IF TermDays(terms) = None THEN Unknown ELSE Interpolate(TermAnchors, TermDays(terms))

\* 50 log10 of a ratio in hundredths, at the ratios listed and constant in between.
LogPenalty(moq, quantity) ==
    LET table == {<<1, 0>>, <<2, 1505>>, <<5, 3495>>, <<10, 5000>>, <<20, 6505>>, <<50, 8495>>, <<100, 10000>>}
        below == {row \in table : row[1] * quantity <= moq}
    IN Max({row[2] : row \in below})

ScoreMoq(moq, quantity) ==
    IF moq = None THEN Unknown
    ELSE IF moq <= 0 THEN 10000
    ELSE IF quantity <= 0 THEN Unknown
    ELSE IF moq <= quantity THEN 10000
    ELSE 10000 - LogPenalty(moq, quantity)

\* validity is the number of days left, as a run counts them.
ScoreValidity(validity) ==
    IF validity = None THEN Unknown ELSE IF validity < 0 THEN 0 ELSE Interpolate(ValidityAnchors, validity)

ScoreWarranty(months) ==
    IF months = None THEN Unknown ELSE Interpolate(WarrantyAnchors, Max({0, months}))

ScoreRisk(rating) == CASE rating = "low" -> 10000 [] rating = "medium" -> 6200 [] rating = "high" -> 2500

\* Mutant: prices are scored against the dearest alone.
ScorePriceShare(totals, total) == IF Max(totals) = 0 THEN 10000 ELSE HalfUp(10000 * total, Max(totals))

\* Min-max within the batch: the cheapest gets 100, the dearest 0.
ScorePrice(totals, total) ==
    IF Max(totals) = Min(totals) THEN 10000
    ELSE HalfUp(10000 * (Max(totals) - total), Max(totals) - Min(totals))

Scores(quote, rfq, totals) == [c \in Criteria |->
    CASE c = "price"      -> ScorePrice(totals, Total(quote, rfq))
      [] c = "response"   -> ScoreResponse(quote.response)
      [] c = "lead"       -> ScoreLead(quote.lead)
      [] c = "compliance" -> ScoreCompliance(quote.held, rfq.required)
      [] c = "terms"      -> ScoreTerms(quote.terms)
      [] c = "moq"        -> ScoreMoq(quote.moq, rfq.quantity)
      [] c = "validity"   -> ScoreValidity(quote.validity)
      [] c = "warranty"   -> ScoreWarranty(quote.warranty)
      [] c = "risk"       -> ScoreRisk(quote.risk)]

-----------------------------------------------------------------------------
(* Weights, in percent. *)

DefaultWeights(procurement) == [c \in Criteria |->
    CASE c = "price"      -> IF procurement = "service" THEN 40 ELSE 45
      [] c = "response"   -> IF procurement = "service" THEN 15 ELSE 0
      [] c = "lead"       -> IF procurement = "service" THEN 5 ELSE 20
      [] c = "compliance" -> IF procurement = "service" THEN 10 ELSE 0
      [] c = "terms"      -> IF procurement = "service" THEN 5 ELSE 10
      [] c = "moq"        -> IF procurement = "service" THEN 0 ELSE 5
      [] c = "risk"       -> IF procurement = "service" THEN 15 ELSE 10
      [] OTHER            -> 5]

\* Over the nine criteria.
SumOf(f) ==
    f["price"] + f["response"] + f["lead"] + f["compliance"] + f["terms"] + f["moq"] + f["validity"]
      + f["warranty"] + f["risk"]

\* Negative weights count nothing; weights that sum to nothing are the defaults.
Weights(rfq) ==
    LET given == [c \in Criteria |-> IF c \in DOMAIN rfq.weights THEN Max({0, rfq.weights[c]}) ELSE 0]
    IN IF SumOf(given) = 0 THEN DefaultWeights(rfq.procurement) ELSE given

MissingAccreditations(quote, rfq) == rfq.required \ quote.held

Cap == 2500

\* What is left of an incomplete quote's score, in percent.
Dock(quote) ==
    IF quote.complete THEN 100 ELSE Max({50, 100 - 8 * Cardinality(quote.missing)})

Composite(quote, rfq, totals) ==
    LET scores == Scores(quote, rfq, totals)
        weight == Weights(rfq)
        total  == SumOf(weight)
        sum    == SumOf([c \in Criteria |-> scores[c] * weight[c]])
        capped == IF MissingAccreditations(quote, rfq) = {} THEN sum ELSE Min({sum, Cap * total})
    IN HalfUp(capped * Dock(quote), 100 * total)

-----------------------------------------------------------------------------
(* run_comparison. *)

Rankable(batch, rfq) == {i \in DOMAIN batch : Comparable(batch[i], rfq)}

\* What a run knows of each ranked quote: its completeness, score and cost.
Card(batch, rfq) ==
    LET ranked == Rankable(batch, rfq)
        totals == {Total(batch[i], rfq) : i \in ranked}
    IN [i \in ranked |-> [late  |-> IF batch[i].complete THEN 0 ELSE 1,
                          score |-> Composite(batch[i], rfq, totals),
                          total |-> Total(batch[i], rfq)]]

\* Mutant: completeness no longer comes first.
AheadByScore(card, i, j) ==
    \/ card[i].score > card[j].score
    \/ card[i].score = card[j].score /\ (card[i].total < card[j].total \/ (card[i].total = card[j].total /\ i < j))

\* Complete quotes first, then by score, by cost and by id.
Ahead(card, i, j) ==
    \/ card[i].late < card[j].late
    \/ /\ card[i].late = card[j].late
       /\ \/ card[i].score > card[j].score
          \/ /\ card[i].score = card[j].score
             /\ \/ card[i].total < card[j].total
                \/ card[i].total = card[j].total /\ i < j

Place(card, i) == 1 + Cardinality({j \in DOMAIN card : Ahead(card, j, i)})

At(card, place) ==
    IF \E i \in DOMAIN card : Place(card, i) = place THEN CHOOSE i \in DOMAIN card : Place(card, i) = place
    ELSE None

Recommended(card) == At(card, 1)

RunnerUp(card) == At(card, 2)

Conclusive(batch, card) == \E i \in DOMAIN card : batch[i].complete

-----------------------------------------------------------------------------
(* What the buyer is told. *)

\* The concerns about one ranked quote (but the markup on materials).
RiskFlags(quote, rfq) ==
    (IF quote.lead # None /\ quote.lead >= 90 THEN {"long lead time"} ELSE {})
    \union (IF quote.lead # None /\ quote.validity # None /\ quote.validity >= 0 /\ quote.lead > quote.validity
            THEN {"delivered after its validity"} ELSE {})
    \union (IF quote.validity = None \/ quote.validity > 14 THEN {}
            ELSE IF quote.validity < 0 THEN {"expired"} ELSE {"expiring"})
    \union (IF quote.moq # None /\ rfq.quantity # 0 /\ quote.moq > rfq.quantity THEN {"moq"} ELSE {})
    \union (IF quote.risk = "high" THEN {"high risk"} ELSE {})
    \union (IF TermDays(quote.terms) = 0 THEN {"payment up front"} ELSE {})
    \union (IF ~quote.complete THEN {"incomplete"} ELSE {})
    \union (IF UnitConverted(quote.unit, rfq.unit) THEN {"unit"} ELSE {})
    \union (IF MissingAccreditations(quote, rfq) # {} THEN {"unlicensed"} ELSE {})
    \union (IF quote.response = None THEN {"no response time"}
            ELSE IF quote.response > 24 THEN {"slow response"} ELSE {})
    \union (IF GstRate(quote, rfq) \notin {None, 0} /\ AddOn(quote.taxes, quote, rfq) = 0 THEN {"tax derived"} ELSE {})
    \union (IF quote.callout = None /\ quote.response # None THEN {"no callout charge"} ELSE {})

\* The warnings about the batch, each with the quote it is about (None: the batch).
BatchRisks(batch, rfq) ==
    LET ranked == Rankable(batch, rfq) IN
    (IF \E i \in DOMAIN batch : ~batch[i].complete THEN {<<None, "incomplete">>} ELSE {})
    \union (IF ranked # DOMAIN batch THEN {<<None, "excluded">>} ELSE {})
    \union (IF \E i \in ranked : CurrencyCode(batch[i].currency) # CurrencyCode(rfq.currency)
            THEN {<<None, "converted">>} ELSE {})
    \union (IF \E i \in ranked : Total(batch[i], rfq) # Subtotal(batch[i], rfq)
            THEN {<<None, "rebased">>} ELSE {})
    \union UNION {{i} \X RiskFlags(batch[i], rfq) : i \in ranked}

\* Two leaders of the same completeness less than three points apart.
Tie(card) ==
    LET first == Recommended(card) second == RunnerUp(card) IN
    /\ second # None
    /\ card[first].late = card[second].late
    /\ card[first].score - card[second].score < 300

\* The best placed among the cheapest.
CheapestOf(card) ==
    CHOOSE i \in DOMAIN card :
        \A j \in DOMAIN card :
            \/ card[i].total < card[j].total
            \/ card[i].total = card[j].total /\ Place(card, i) <= Place(card, j)

\* build_rationale: what the recommendation says beside the figures, and of whom.
Rationale(batch, rfq, card) ==
    LET winner == Recommended(card) IN
    IF winner = None THEN {}
    ELSE (IF \E i \in DOMAIN card : card[i].late = 1 /\ card[i].total < card[winner].total
          THEN {<<None, "a cheaper one is incomplete">>} ELSE {})
         \union (IF ~batch[winner].complete THEN {<<winner, "provisional">>} ELSE {})
         \union (IF batch[winner].risk = "high" THEN {<<winner, "high risk">>} ELSE {})
         \union (IF MissingAccreditations(batch[winner], rfq) # {} THEN {<<winner, "unlicensed">>} ELSE {})
         \union (IF Tie(card) THEN {<<winner, "tie">>} ELSE {})
         \union (IF CheapestOf(card) # winner THEN {<<CheapestOf(card), "cheapest">>} ELSE {})
=============================================================================
