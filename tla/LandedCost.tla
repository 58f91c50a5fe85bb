------------------------------ MODULE LandedCost ------------------------------
(***************************************************************************)
(* What a quote costs, on the basis of its RFQ: the price converted to the *)
(* RFQ's unit and currency, the add-ons, the tax, and the rebasing of      *)
(* Incoterms.                                                              *)
(*                                                                         *)
(* Money is an integer number of cents, a unit price one of hundredths of  *)
(* a cent, a rate or a factor of hundredths; every rounding of the code is *)
(* a rounding here. A unit is a record [unit, pack]: the word a supplier   *)
(* wrote and the size of the pack he named (0: none).                      *)
(***************************************************************************)
EXTENDS Integers, FiniteSets

CONSTANT None

\* Decimal.quantize with ROUND_HALF_UP of n / d.
HalfUp(n, d) == (2 * n + d) \div (2 * d)

-----------------------------------------------------------------------------
(* Currencies. *)

\* Units per 1 USD.
DefaultRates == [c \in {"USD", "EUR", "GBP", "SGD", "MYR"} |->
    CASE c = "USD" -> 100 [] c = "EUR" -> 92 [] c = "GBP" -> 79 [] c = "SGD" -> 134 [] c = "MYR" -> 470]

CurrencyAliases == [w \in {"US$", "Euro", "Pounds"} |->
    CASE w = "US$" -> "USD" [] w = "Euro" -> "EUR" [] w = "Pounds" -> "GBP"]

\* Words of three letters pass for a code, "XAU" among them; any other is taken for dollars.
CurrencyCode(word) ==
    IF word \in DOMAIN CurrencyAliases THEN CurrencyAliases[word]
    ELSE IF word \in DOMAIN DefaultRates \union {"XAU"} THEN word
    ELSE "USD"

\* The rate of a currency, None when there is none.
Rate(currency) ==
    IF CurrencyCode(currency) \in DOMAIN DefaultRates THEN DefaultRates[CurrencyCode(currency)] ELSE None

\* Whether an amount can be converted at all: even a quote in the RFQ's own
\* currency needs a known one.
Convertible(from, to) ==
    Rate(from) # None /\ (CurrencyCode(from) = CurrencyCode(to) \/ Rate(to) # None)

\* amount * num / den converted and rounded.
Convert(amount, from, to, num, den) ==
    IF CurrencyCode(from) = CurrencyCode(to) THEN HalfUp(amount * num, den)
    ELSE HalfUp(amount * Rate(to) * num, Rate(from) * den)

-----------------------------------------------------------------------------
(* Units of measure. *)

Units == {"pcs", "set", "pair", "box", "pallet", "roll", "sheet", "kg", "g", "t", "m", "cm", "mm",
          "l", "ml", "sqm", "hour", "day", "month", "visit", "point", "service"}

UnitAliases == [w \in {"each", "kit", "carton", "tonne", "metre", "hrs", "job", "lump sum", "attendance"} |->
    CASE w = "each" -> "pcs"      [] w = "kit" -> "set"          [] w = "carton" -> "box"
      [] w = "tonne" -> "t"       [] w = "metre" -> "m"          [] w = "hrs" -> "hour"
      [] w = "job" -> "service"   [] w = "lump sum" -> "service" [] w = "attendance" -> "visit"]

Packable == {"box", "pallet", "roll"}
Discrete == {"pcs", "set", "pair", "sheet"}

\* An unknown word is its own canonical form.
CanonicalUnit(word) ==
    IF word = None THEN "pcs" ELSE IF word \in DOMAIN UnitAliases THEN UnitAliases[word] ELSE word

Groups == {Discrete \union Packable, {"kg", "g", "t"}, {"m", "cm", "mm"}, {"l", "ml"}, {"sqm"},
           {"hour", "day"}, {"service"}, {"visit"}, {"point"}, {"month"}}

\* Sizes within a group, in its smallest unit (the imperial ones are left out).
Size == [u \in {"g", "kg", "t", "mm", "cm", "m", "ml", "l", "sqm", "hour", "day"} |->
    CASE u \in {"g", "mm", "ml", "sqm", "hour"} -> 1 [] u = "cm" -> 10 [] u = "day" -> 24
      [] u \in {"kg", "m", "l"} -> 1000 [] u = "t" -> 1000000]

AreComparable(u, v) == u = v \/ \E group \in Groups : {u, v} \subseteq group

(* The factor <<num, den>> from a quoted price to one in the RFQ's unit,   *)
(* None when no defensible conversion exists.                              *)
PriceMultiplier(quoted, target) ==
    LET q == CanonicalUnit(quoted.unit)
        t == CanonicalUnit(target.unit)
    IN IF quoted.pack > 0 /\ q \in Packable /\ t \in Discrete THEN <<1, quoted.pack>>
       ELSE IF q = t THEN <<1, 1>>
       ELSE IF ~AreComparable(q, t) \/ {q, t} \ DOMAIN Size # {} THEN None
       ELSE IF Size[q] >= Size[t] THEN <<1, Size[q] \div Size[t]>> ELSE <<Size[t] \div Size[q], 1>>

\* The RFQ's unit is not the one the quote was priced in.
UnitConverted(quoted, target) ==
    \/ CanonicalUnit(quoted.unit) # CanonicalUnit(target.unit)
    \/ quoted.pack > 0 /\ CanonicalUnit(quoted.unit) \in Packable /\ CanonicalUnit(target.unit) \in Discrete

-----------------------------------------------------------------------------
(* Incoterms. *)

Factors == [i \in {"EXW", "FCA", "FAS", "FOB", "CFR", "CIF", "CPT", "CIP", "DAP", "DPU", "DDP"} |->
    CASE i = "EXW" -> 0 [] i = "FCA" -> 2 [] i = "FAS" -> 3 [] i = "FOB" -> 4 [] i = "CFR" -> 7
      [] i = "CIF" -> 8 [] i = "CPT" -> 9 [] i \in {"CIP", "DAP"} -> 10 [] i = "DPU" -> 11 [] i = "DDP" -> 13]

IncotermAliases == [w \in {"ex works", "free on board", "DDU", "LDP"} |->
    CASE w = "ex works" -> "EXW" [] w = "free on board" -> "FOB" [] w = "DDU" -> "DAP" [] w = "LDP" -> "DDP"]

Incoterm(word) ==
    IF word \in DOMAIN IncotermAliases THEN IncotermAliases[word]
    ELSE IF word \in DOMAIN Factors THEN word ELSE None

\* A term nobody recognises counts as ex works.
FactorFor(word) == IF Incoterm(word) = None THEN 0 ELSE Factors[Incoterm(word)]

-----------------------------------------------------------------------------
(* compute_cost. A quote has amounts in cents, or None, and a gst in percent *)
(* or None; an rfq has quantity, unit, currency, incoterms and gst.        *)

\* The RFQ's own rate, for a quote that states none.
GstRate(quote, rfq) == IF quote.gst # None THEN quote.gst ELSE rfq.gst

UnitPriceBase(quote, rfq) ==
    LET by == PriceMultiplier(quote.unit, rfq.unit) IN
    Convert(100 * quote.price, quote.currency, rfq.currency, by[1], by[2])

AddOn(amount, quote, rfq) ==
    IF amount = None THEN 0 ELSE Convert(amount, quote.currency, rfq.currency, 1, 1)

Taxable(quote, rfq) ==
    HalfUp(UnitPriceBase(quote, rfq) * rfq.quantity, 100)
      + AddOn(quote.shipping, quote, rfq) + AddOn(quote.callout, quote, rfq)

\* Mutant: the rate is applied on top of a stated amount.
TaxesTwice(quote, rfq) ==
    AddOn(quote.taxes, quote, rfq)
      + (IF GstRate(quote, rfq) = None THEN 0 ELSE HalfUp(Taxable(quote, rfq) * GstRate(quote, rfq), 100))

\* Tax is derived from a rate only when no amount is stated.
Taxes(quote, rfq) ==
    LET stated == AddOn(quote.taxes, quote, rfq) IN
    IF stated = 0 /\ GstRate(quote, rfq) # None
    THEN HalfUp(Taxable(quote, rfq) * GstRate(quote, rfq), 100)
    ELSE stated

Subtotal(quote, rfq) ==
    Taxable(quote, rfq) + AddOn(quote.duties, quote, rfq) + Taxes(quote, rfq)
      - AddOn(quote.discount, quote, rfq)

Total(quote, rfq) ==
    LET source == FactorFor(quote.incoterms)
        target == FactorFor(rfq.incoterms)
    IN IF source = target THEN Subtotal(quote, rfq)
       ELSE HalfUp(Subtotal(quote, rfq) * (100 + target), 100 + source)

(* normalize_quote: a quote is left out of the ranking without a usable    *)
(* price, a defensible unit, a known currency, or a cost that is not       *)
(* negative.                                                               *)
Exclusion(quote, rfq) ==
    IF quote.price = None \/ quote.price <= 0 THEN "price"
    ELSE IF PriceMultiplier(quote.unit, rfq.unit) = None THEN "unit"
    ELSE IF ~Convertible(quote.currency, rfq.currency) THEN "currency"
    ELSE IF Total(quote, rfq) < 0 THEN "discount"
    ELSE None

Comparable(quote, rfq) == Exclusion(quote, rfq) = None
=============================================================================
