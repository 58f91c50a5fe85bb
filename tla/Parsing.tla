------------------------------- MODULE Parsing -------------------------------
(***************************************************************************)
(* The quote parser: what a supplier typed into the form and wrote in the  *)
(* notes becomes the fields of a quote, what is missing of the fields the  *)
(* RFQ requires, and a question the buyer has to answer first.             *)
(*                                                                         *)
(* A text is what the parsers tell apart in it: a phrase like "TBD" (gap)  *)
(* or "none" (none), the first number and, in a range, the second (low,    *)
(* high), the word that gives it its meaning (word), the parts of a list   *)
(* (items) and a date as it is written (date). None is a blank.            *)
(***************************************************************************)
EXTENDS Integers, Sequences, FiniteSets

CONSTANT None

Larger(a, b)  == IF a < b THEN b ELSE a
Nearest(n, d) == (2 * n + d) \div (2 * d)

\* Python's round: a half goes to the even neighbour.
RoundEven(n, d) ==
    IF 2 * (n % d) = d THEN IF (n \div d) % 2 = 0 THEN n \div d ELSE n \div d + 1 ELSE Nearest(n, d)

Answers(text) == text # None /\ ~text.gap

-----------------------------------------------------------------------------
(* The readers of agents/quote_parser/normalize.py.                        *)

ParseMoney(text) == IF Answers(text) THEN text.low ELSE None

ParseInt(text) == IF Answers(text) THEN text.low ELSE None

\* "no MOQ" is an answer, "TBD" is none.
ParseMoq(text) == IF ~Answers(text) THEN None ELSE IF text.none THEN 0 ELSE ParseInt(text)

\* The upper end of a range.
Magnitude(text) == IF text.high = None THEN text.low ELSE Larger(text.low, text.high)

\* Calendar days; a bare number counts as days.
ParseLeadTime(text) ==
    IF ~Answers(text) \/ text.low = None THEN None
    ELSE CASE text.word = "weeks"    -> 7 * Magnitude(text)
           [] text.word = "months"   -> 30 * Magnitude(text)
           [] text.word = "business" -> Nearest(7 * Magnitude(text), 5)
           [] text.word = "days"     -> Magnitude(text)
           [] OTHER                  -> text.low

ResponsePhrases == [phrase \in {"next day", "same day", "immediate", "emergency", "24/7"} |->
    CASE phrase = "next day" -> 24 [] phrase = "same day" -> 8 [] phrase = "immediate" -> 1 [] OTHER -> 4]

\* Whole hours, one at least when a unit is named; a phrase outweighs any figure.
ParseResponseTime(text) ==
    IF ~Answers(text) THEN None
    ELSE IF text.word \in DOMAIN ResponsePhrases THEN ResponsePhrases[text.word]
    ELSE IF text.low = None THEN None
    ELSE CASE text.word = "weeks"              -> Larger(1, 168 * Magnitude(text))
           [] text.word \in {"days", "business"} -> Larger(1, 24 * Magnitude(text))
           [] text.word = "minutes"            -> Larger(1, RoundEven(Magnitude(text), 60))
           [] text.word = "hours"              -> Larger(1, Magnitude(text))
           [] OTHER                            -> text.low

ParseWarranty(text) ==
    IF ~Answers(text) THEN None
    ELSE IF text.none THEN 0
    ELSE IF text.low = None THEN None
    ELSE CASE text.word = "years" -> 12 * text.low [] text.word = "months" -> text.low [] OTHER -> None

\* In hundredths: "0.09" is nine percent, "0.09%" is what it says.
ParsePercent(text) ==
    IF ~Answers(text) THEN None
    ELSE IF text.none THEN 0
    ELSE IF text.low = None THEN None
    ELSE LET amount == IF text.word # "%" /\ text.low \in 1 .. 99 THEN 100 * text.low ELSE text.low
         IN IF amount > 10000 THEN None ELSE amount

\* The credentials named, without the ones still open; nothing at all is no answer.
ParseAccreditations(text) ==
    LET named == IF ~Answers(text) THEN {} ELSE IF text.none THEN {} ELSE text.items \ {"TBD"}
    IN IF named = {} THEN None ELSE named

CurrencySymbols == [s \in {"$", "EURO SIGN"} |-> IF s = "$" THEN "USD" ELSE "EUR"]

\* Three capitals are a code unless they are a word of the trade; in lower case
\* only a known code that stands alone.
ParseCurrency(text) ==
    IF ~Answers(text) THEN None
    ELSE IF text.word \in DOMAIN CurrencySymbols THEN CurrencySymbols[text.word]
    ELSE IF text.word \in {"USD", "EUR", "SGD", "XAU"} THEN text.word
    ELSE IF text.word = "sgd" THEN "SGD"
    ELSE None

\* A recognised term with its named place.
ParseIncoterms(text) ==
    IF Answers(text) /\ text.word \in {"EXW", "FOB", "DDP"} THEN text.word ELSE None

\* Kept; the spelling of a unit is no matter here.
ParseText(text) == IF Answers(text) THEN text ELSE None

ValidDay(year, month, day) ==
    /\ month \in 1 .. 12
    /\ day \in 1 .. (CASE month \in {4, 6, 9, 11} -> 30
                       [] month = 2 -> IF year % 4 = 0 THEN 29 ELSE 28
                       [] OTHER -> 31)

(* A date is <<year, month, day>>, or <<days>> from today when it is        *)
(* relative. Written with slashes, the first number is the day, but the    *)
(* month when it is larger than twelve, which no month is.                 *)
ParseDate(text) ==
    IF ~Answers(text) \/ text.date = None THEN None
    ELSE LET d      == text.date
             swaps  == d.form = "slashed" /\ d.first > 12
             month  == IF d.form = "slashed" /\ ~swaps THEN d.second ELSE d.first
             day    == IF d.form = "slashed" /\ ~swaps THEN d.first ELSE d.second
         IN IF d.form = "relative" THEN <<d.first * (CASE text.word = "weeks" -> 7 [] text.word = "months" -> 30
                                                       [] OTHER -> 1)>>
            ELSE IF ValidDay(d.year, month, day) THEN <<d.year, month, day>> ELSE None

-----------------------------------------------------------------------------
(* The three layers. *)

Fields == {"unit_price", "currency", "unit", "lead_time_days", "response_time_hours", "moq", "callout_charge",
           "payment_terms", "incoterms", "validity_date", "warranty_months", "compliance_accreditations",
           "gst_rate", "taxes", "shipping_cost", "supplier_name"}

Read(field, text) ==
    CASE field \in {"unit_price", "callout_charge", "taxes", "shipping_cost"} -> ParseMoney(text)
      [] field = "currency"                      -> ParseCurrency(text)
      [] field \in {"unit", "payment_terms"}     -> ParseText(text)
      [] field = "lead_time_days"                -> ParseLeadTime(text)
      [] field = "response_time_hours"           -> ParseResponseTime(text)
      [] field = "moq"                           -> ParseMoq(text)
      [] field = "incoterms"                     -> ParseIncoterms(text)
      [] field = "validity_date"                 -> ParseDate(text)
      [] field = "warranty_months"               -> ParseWarranty(text)
      [] field = "compliance_accreditations"     -> ParseAccreditations(text)
      [] field = "gst_rate"                      -> ParsePercent(text)
      [] field = "supplier_name"                 -> text

(* The keys of the public form in its order, and the field each of them     *)
(* fills; contact_name fills none.                                         *)
FormKeys == <<"supplier_name", "contact_name", "currency", "unit_price", "unit", "lead_time", "moq",
              "payment_terms", "incoterms", "validity_date", "warranty_months", "shipping_cost", "taxes",
              "response_time_hours", "callout_charge", "compliance_accreditations", "gst_rate",
              "response_time", "accreditations">>

FieldOf(key) ==
    CASE key = "lead_time"       -> "lead_time_days"
      [] key = "response_time"   -> "response_time_hours"
      [] key = "accreditations"  -> "compliance_accreditations"
      [] OTHER                   -> key

Typed(form) == {i \in DOMAIN FormKeys : FormKeys[i] \in DOMAIN form}

Readable(form, i) ==
    FieldOf(FormKeys[i]) \in Fields /\ Read(FieldOf(FormKeys[i]), form[FormKeys[i]]) # None

\* Mutant: a text that cannot be read is forgotten.
LeftoversUnknown(form) == {i \in Typed(form) : FieldOf(FormKeys[i]) \notin Fields}

\* What was typed and fills no field is kept as a leftover.
Leftovers(form) == {i \in Typed(form) : ~Readable(form, i)}

\* The last readable spelling of a field counts.
FormLayer(form) == [f \in Fields |->
    LET spellings == {i \in Typed(form) : FieldOf(FormKeys[i]) = f /\ Readable(form, i)} IN
    IF spellings = {} THEN None
    ELSE LET last == CHOOSE i \in spellings : \A j \in spellings : j <= i
         IN Read(f, form[FormKeys[last]])]

\* The fields of the model's answer, read like the form's.
LlmLayer(llm) == [f \in Fields |-> IF f \in DOMAIN llm.fields THEN Read(f, llm.fields[f]) ELSE None]

(* The fields the heuristic looks for in a line with that label, in the     *)
(* order of its table. Any "rate" may be the price, "GST" an amount of tax, *)
(* and "per" the unit.                                                     *)
Candidates(label) ==
    CASE label \in {"price", "rate", "labour rate"} -> <<"unit_price">>
      [] label = "price per piece"            -> <<"unit_price", "unit">>
      [] label = "price validity"             -> <<"unit_price", "validity_date">>
      [] label = "gst rate"                   -> <<"unit_price", "taxes">>
      [] label = "currency"                   -> <<"currency">>
      [] label = "uom"                        -> <<"unit">>
      [] label \in {"lead time", "delivery time"} -> <<"lead_time_days">>
      [] label = "moq"                        -> <<"moq">>
      [] label = "payment terms"              -> <<"payment_terms">>
      [] label = "incoterms"                  -> <<"incoterms">>
      [] label = "valid until"                -> <<"validity_date">>
      [] label = "warranty"                   -> <<"warranty_months">>
      [] label = "freight"                    -> <<"shipping_cost">>
      [] label \in {"tax", "gst"}             -> <<"taxes">>
      [] label = "vendor"                     -> <<"supplier_name">>
      [] OTHER                                -> <<>>

NothingRead == [f \in Fields |-> None]

\* "moq" is read as a plain number here.
ReadLabelled(f, text) == IF f = "moq" THEN ParseInt(text) ELSE Read(f, text)

\* A line gives the first of its candidates that no line before has given and that can be read.
LabelledField(found, line) ==
    LET fields == Candidates(line.label)
        open   == {k \in DOMAIN fields : found[fields[k]] = None /\ ReadLabelled(fields[k], line.text) # None}
        first  == fields[CHOOSE k \in open : \A m \in open : k <= m]
    IN IF open = {} THEN found ELSE [found EXCEPT ![first] = ReadLabelled(first, line.text)]

\* What the labelled lines give, one after the other.
LabelledFields(lines) ==
    LET found[i \in 0 .. Len(lines)] == IF i = 0 THEN NothingRead ELSE LabelledField(found[i - 1], lines[i])
    IN found[Len(lines)]

(* Notes are [lines, price, per, currency, lead]: labelled lines, and the   *)
(* price with its unit, the currency code and the lead time that stand in  *)
(* the running text.                                                       *)
HeuristicLayer(notes) ==
    LET found == LabelledFields(notes.lines) IN
    [f \in Fields |->
        IF found[f] # None THEN found[f]
        ELSE CASE f = "unit_price"     -> ParseMoney(notes.price)
               [] f = "unit"           -> IF found["unit_price"] = None /\ ParseMoney(notes.price) # None
                                          THEN ParseText(notes.per) ELSE None
               [] f = "currency"       -> ParseCurrency(notes.currency)
               [] f = "lead_time_days" -> ParseLeadTime(notes.lead)
               [] OTHER                -> None]

\* Mutant: the layers in the opposite order.
MergeLatest(form, llm, heuristic) == [f \in Fields |->
    IF heuristic[f] # None THEN heuristic[f] ELSE IF llm[f] # None THEN llm[f] ELSE form[f]]

\* The earliest layer wins.
Merge(form, llm, heuristic) == [f \in Fields |->
    IF form[f] # None THEN form[f] ELSE IF llm[f] # None THEN llm[f] ELSE heuristic[f]]

-----------------------------------------------------------------------------
(* Questions. Notes say besides: auto (an automatic reply), data (a phrase *)
(* only an offer has), figure (a number), subject (a word like "price"),   *)
(* asks (a phrase of asking), mark (a sentence with a question mark that   *)
(* is no pleasantry), none (a phrase like "no minimum").                   *)

ClassifyText(notes) ==
    IF notes.auto /\ ~notes.data THEN "other"
    ELSE IF notes.data \/ (notes.figure /\ notes.subject) THEN "quote_data"
    ELSE IF notes.asks \/ notes.mark THEN "question"
    ELSE "other"

\* Mutant: the heuristic layer claims the default.
ClassificationDefaulted(notes, llm) ==
    IF llm # None /\ llm.classification # None THEN llm.classification ELSE "quote_data"

\* The model's verdict, else the markers'.
Classification(notes, llm) ==
    IF llm # None /\ llm.classification # None THEN llm.classification
    ELSE IF notes = None THEN "quote_data" ELSE ClassifyText(notes)

\* What the supplier waits for: the model's question, else the notes' own if
\* the notes are nothing but a question.
BlockingQuestion(notes, llm) ==
    IF llm # None /\ llm.question THEN "llm"
    ELSE IF notes # None /\ Classification(notes, llm) = "question" /\ notes.mark THEN "notes"
    ELSE None

-----------------------------------------------------------------------------
(* Completeness. *)

Declinable == {"moq", "warranty_months", "shipping_cost", "taxes", "callout_charge",
               "compliance_accreditations", "gst_rate"}

\* The RFQ's names of the fields.
RequiredField(name) ==
    CASE name = "lead_time"     -> "lead_time_days"
      [] name = "response_time" -> "response_time_hours"
      [] name = "compliance"    -> "compliance_accreditations"
      [] OTHER                  -> name

\* A name the supplier still owes is typed text too.
HasValue(field, value) == value # None /\ (field = "supplier_name" => ~value.gap)

\* Mutant: only the fields whose readers know "none" can be declined in the notes.
DeclinesFew(field, notes) == notes # None /\ notes.none /\ field \in {"moq", "warranty_months", "gst_rate"}

\* An explicit "none" in the notes answers a field that can be declined.
Declines(field, notes) == notes # None /\ notes.none /\ field \in Declinable

Missing(required, parsed, notes) ==
    {name \in required :
        LET field == RequiredField(name) IN
        ~HasValue(field, parsed[field]) /\ ~Declines(field, notes)}

(* parse_submission and what is stored of it. llm is None when the model is *)
(* off or its answer useless; llm.notes says whether it rewrote the notes. *)
Submission(form, notes, llm, required) ==
    LET parsed == Merge(FormLayer(form),
                        IF llm = None THEN NothingRead ELSE LlmLayer(llm),
                        IF notes = None THEN NothingRead ELSE HeuristicLayer(notes))
    IN [parsed   |-> parsed,
        missing  |-> Missing(required, parsed, notes),
        question |-> BlockingQuestion(notes, llm),
        notes    |-> IF llm # None /\ llm.notes THEN "llm" ELSE IF notes = None THEN None ELSE "supplier",
        unparsed |-> [leftovers |-> Leftovers(form), notes |-> notes # None /\ Leftovers(form) = {}]]

\* A quote without a price cannot pass for complete.
Refused(submission) == submission.missing = {} /\ submission.parsed["unit_price"] = None
=============================================================================
