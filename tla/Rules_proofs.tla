----------------------------- MODULE Rules_proofs -----------------------------
(***************************************************************************)
(* Proofs about the rules: what the parser makes of any submission and how *)
(* the ranking orders any batch, not only those of the run.                *)
(***************************************************************************)
EXTENDS MCRules, FiniteSetTheorems, SequenceTheorems, WellFoundedInduction, TLAPS

LEMMA RulesConstants == /\ None \notin Nat
                        /\ None # "question" /\ None # "llm" /\ None # "notes"
                        /\ None # "price" /\ None # "unit" /\ None # "currency" /\ None # "discount"
BY PolicyAssumption, NoneAssumption

-----------------------------------------------------------------------------
(* Numbers. *)

\* What belongs to a set of numbers has a least and, up to a bound, a greatest.
LEMMA LeastNumber ==
    ASSUME NEW T \in SUBSET Nat, T # {}
    PROVE  \E n \in T : \A m \in T : n <= m
<1>1. IsWellFoundedOn(OpToRel(<, Nat), Nat)
  BY NatLessThanWellFounded
<1>2. PICK n \in T : \A m \in T : ~ (<<m, n>> \in OpToRel(<, Nat))
  BY <1>1, WFMin
<1>3. \A m \in T : ~ (m < n)
  BY <1>2 DEF OpToRel
<1> QED
  BY <1>3

LEMMA GreatestNumber ==
    ASSUME NEW n \in Nat, NEW S \in SUBSET (0 .. n), S # {}
    PROVE  \E m \in S : \A k \in S : k <= m
<1> DEFINE T == {n - k : k \in S}
<1>1. T \in SUBSET Nat /\ T # {}
  <2>1. \A k \in S : n - k \in Nat
    OBVIOUS
  <2> QED
    BY <2>1
<1>2. PICK t \in T : \A u \in T : t <= u
  BY <1>1, LeastNumber
<1>3. PICK m \in S : t = n - m
  OBVIOUS
<1>4. \A k \in S : k <= m
  <2> TAKE k \in S
  <2>1. t <= n - k
    BY <1>2
  <2> QED
    BY <2>1, <1>3
<1> QED
  BY <1>4

-----------------------------------------------------------------------------
(* The parser. *)

LEMMA KeysAreNumbered == DOMAIN FormKeys = 1 .. 19
BY DEF FormKeys
-----------------------------------------------------------------------------
(* What the labelled lines of the notes give.                              *)

\* What is found after each line, from the first on.
IsFound(g, lines) ==
    g = [i \in 0 .. Len(lines) |-> IF i = 0 THEN NothingRead ELSE LabelledField(g[i - 1], lines[i])]

FoundUpTo(lines, n) ==
    \E g : g = [i \in 0 .. n |-> IF i = 0 THEN NothingRead ELSE LabelledField(g[i - 1], lines[i])]

LEMMA FoundOneMore ==
    ASSUME NEW lines, NEW n \in Nat, FoundUpTo(lines, n)
    PROVE  FoundUpTo(lines, n + 1)
<1>1. PICK g : g = [i \in 0 .. n |-> IF i = 0 THEN NothingRead ELSE LabelledField(g[i - 1], lines[i])]
  BY DEF FoundUpTo
<1> DEFINE h == [i \in 0 .. n + 1 |-> IF i = n + 1 THEN LabelledField(g[n], lines[n + 1]) ELSE g[i]]
           next == [i \in 0 .. n + 1 |-> IF i = 0 THEN NothingRead ELSE LabelledField(h[i - 1], lines[i])]
<1>2. \A i \in 0 .. n : h[i] = g[i]
  OBVIOUS
<1>3. \A i \in 0 .. n + 1 : h[i] = next[i]
  <2> TAKE i \in 0 .. n + 1
  <2>1. CASE i = 0
    <3>1. g[0] = NothingRead
      BY <1>1
    <3> QED
      BY <2>1, <1>2, <3>1
  <2>2. CASE i = n + 1
    <3>1. h[i] = LabelledField(g[n], lines[n + 1])
      BY <2>2
    <3>2. h[n] = g[n] /\ i - 1 = n /\ i # 0
      BY <1>2, <2>2
    <3> HIDE DEF h
    <3>3. next[i] = LabelledField(h[i - 1], lines[i])
      BY <3>2
    <3> QED
      BY <2>2, <3>1, <3>2, <3>3
  <2>3. CASE i \in 1 .. n
    <3>1. g[i] = LabelledField(g[i - 1], lines[i])
      BY <1>1, <2>3
    <3>2. h[i] = g[i] /\ h[i - 1] = g[i - 1] /\ i # 0
      BY <1>2, <2>3
    <3> HIDE DEF h
    <3>3. next[i] = LabelledField(h[i - 1], lines[i])
      BY <3>2
    <3> QED
      BY <3>1, <3>2, <3>3
  <2> QED
    BY <2>1, <2>2, <2>3
<1>4. h = next
  BY <1>3, Zenon
<1> HIDE DEF h
<1> QED
  BY <1>4 DEF FoundUpTo

LEMMA FoundExists ==
    ASSUME NEW lines, NEW n \in Nat
    PROVE  FoundUpTo(lines, n)
<1> DEFINE T == {m \in Nat : ~FoundUpTo(lines, m)}
<1>1. SUFFICES ASSUME T # {} PROVE FALSE
  OBVIOUS
<1>2. PICK m \in T : \A k \in T : m <= k
  <2>1. T \in SUBSET Nat
    OBVIOUS
  <2> HIDE DEF T
  <2> QED
    BY <1>1, <2>1, LeastNumber
<1>3. FoundUpTo(lines, 0)
  <2> DEFINE g == [i \in 0 .. 0 |-> NothingRead]
  <2>1. g = [i \in 0 .. 0 |-> IF i = 0 THEN NothingRead ELSE LabelledField(g[i - 1], lines[i])]
    OBVIOUS
  <2> HIDE DEF g
  <2> QED
    BY <2>1 DEF FoundUpTo
<1>4. m \in Nat /\ ~FoundUpTo(lines, m) /\ m # 0
  BY <1>2, <1>3
<1>5. m - 1 \in Nat /\ m - 1 \notin T
  BY <1>2, <1>4
<1>6. FoundUpTo(lines, m - 1)
  BY <1>5
<1>7. FoundUpTo(lines, (m - 1) + 1)
  BY <1>5, <1>6, FoundOneMore
<1> QED
  BY <1>4, <1>7

LEMMA LabelledFieldsFound ==
    ASSUME NEW lines, Len(lines) \in Nat
    PROVE  \E g : IsFound(g, lines) /\ LabelledFields(lines) = g[Len(lines)]
<1> DEFINE found == CHOOSE g : g = [i \in 0 .. Len(lines) |->
                                       IF i = 0 THEN NothingRead ELSE LabelledField(g[i - 1], lines[i])]
<1>1. \E g : g = [i \in 0 .. Len(lines) |-> IF i = 0 THEN NothingRead ELSE LabelledField(g[i - 1], lines[i])]
  BY FoundExists DEF FoundUpTo
<1>2. found = [i \in 0 .. Len(lines) |-> IF i = 0 THEN NothingRead ELSE LabelledField(found[i - 1], lines[i])]
  BY <1>1
<1>3. LabelledFields(lines) = found[Len(lines)]
  BY DEF LabelledFields
<1> HIDE DEF found
<1> QED
  BY <1>2, <1>3 DEF IsFound

\* One line: what was found stays, what the line cannot mean is not found, and what it only means is.
LEMMA OneLine ==
    ASSUME NEW found, NEW line, NEW f \in Fields, DOMAIN found = Fields
    PROVE  /\ DOMAIN LabelledField(found, line) = Fields
           /\ found[f] # None => LabelledField(found, line)[f] # None
           /\ (\A k \in DOMAIN Candidates(line.label) : Candidates(line.label)[k] # f)
                => LabelledField(found, line)[f] = found[f]
           /\ (Candidates(line.label) = <<f>> /\ ReadLabelled(f, line.text) # None)
                => LabelledField(found, line)[f] # None
<1> DEFINE fields == Candidates(line.label)
           open   == {k \in DOMAIN fields : found[fields[k]] = None /\ ReadLabelled(fields[k], line.text) # None}
           kth    == CHOOSE k \in open : \A m \in open : k <= m
           first  == fields[kth]
           now2   == LabelledField(found, line)
<1>1. now2 = IF open = {} THEN found ELSE [found EXCEPT ![first] = ReadLabelled(first, line.text)]
  BY DEF LabelledField
<1>2. DOMAIN now2 = Fields
  BY <1>1
<1>3. ASSUME open # {} PROVE kth \in open
  <2>1. open \in SUBSET Nat
    <3>1. DOMAIN fields \in SUBSET Nat
      BY DEF Candidates
    <3> QED
      BY <3>1
  <2>2. \E k \in open : \A m \in open : k <= m
    <3> HIDE DEF open
    <3> QED
      BY <1>3, <2>1, LeastNumber
  <2> HIDE DEF open
  <2> QED
    BY <2>2
<1>4. ASSUME open # {} PROVE /\ found[first] = None /\ ReadLabelled(first, line.text) # None
                             /\ kth \in DOMAIN fields
  BY <1>3, <1>4
<1>5. \A x \in Fields : now2[x] = IF open # {} /\ x = first THEN ReadLabelled(first, line.text) ELSE found[x]
  <2> HIDE DEF open, first
  <2> QED
    BY <1>1
<1>6. found[f] # None => now2[f] # None
  <2> HIDE DEF open, first, now2
  <2> QED
    BY <1>4, <1>5
<1>7. ASSUME \A k \in DOMAIN fields : fields[k] # f PROVE now2[f] = found[f]
  <2>1. open # {} => first # f
    <3> HIDE DEF open, fields, kth
    <3> QED
      BY <1>4, <1>7
  <2> HIDE DEF open, first, now2
  <2> QED
    BY <1>5, <2>1
<1>8. ASSUME fields = <<f>>, ReadLabelled(f, line.text) # None PROVE now2[f] # None
  <2>1. CASE found[f] # None
    BY <1>6, <2>1
  <2>2. CASE found[f] = None
    <3>1. DOMAIN fields = {1} /\ fields[1] = f
      BY <1>8
    <3>2. 1 \in open
      BY <1>8, <2>2, <3>1
    <3>3. first = f
      <4> HIDE DEF fields, kth
      <4> QED
        BY <1>4, <3>1, <3>2
    <3> HIDE DEF open, first, now2
    <3> QED
      BY <1>5, <1>8, <3>2, <3>3
  <2> QED
    BY <2>1, <2>2
<1> QED
  BY <1>2, <1>6, <1>7, <1>8

LEMMA EveryFoundCovers ==
    ASSUME NEW lines, Len(lines) \in Nat, NEW g, IsFound(g, lines), NEW n \in 0 .. Len(lines)
    PROVE  DOMAIN g[n] = Fields
<1> DEFINE T == {m \in 0 .. Len(lines) : DOMAIN g[m] # Fields}
<1>1. SUFFICES ASSUME T # {} PROVE FALSE
  OBVIOUS
<1>2. PICK m \in T : \A k \in T : m <= k
  <2>1. T \in SUBSET Nat
    OBVIOUS
  <2> HIDE DEF T
  <2> QED
    BY <1>1, <2>1, LeastNumber
<1>3. g[0] = NothingRead
  BY DEF IsFound
<1>4. m # 0
  <2>1. DOMAIN g[0] = Fields
    BY <1>3 DEF NothingRead
  <2> QED
    BY <1>2, <2>1
<1>5. m \in 1 .. Len(lines) /\ m - 1 \in 0 .. Len(lines) /\ DOMAIN g[m - 1] = Fields
  BY <1>2, <1>4
<1>6. g[m] = LabelledField(g[m - 1], lines[m])
  BY <1>5 DEF IsFound
<1>7. "unit" \in Fields
  BY DEF Fields
<1> DEFINE u == g[m - 1]
<1>8. DOMAIN LabelledField(u, lines[m]) = Fields
  <2>1. DOMAIN u = Fields
    BY <1>5
  <2> HIDE DEF u
  <2> QED
    BY <1>7, <2>1, OneLine
<1>9. DOMAIN g[m] = Fields
  BY <1>6, <1>8
<1> QED
  BY <1>2, <1>9

\* A field no line can mean is not found in the lines.
LEMMA UnnamedStaysOpen ==
    ASSUME NEW lines, Len(lines) \in Nat, NEW f \in Fields,
           \A i \in 1 .. Len(lines) : \A k \in DOMAIN Candidates(lines[i].label) : Candidates(lines[i].label)[k] # f
    PROVE  LabelledFields(lines)[f] = None
<1>1. PICK g : IsFound(g, lines) /\ LabelledFields(lines) = g[Len(lines)]
  BY LabelledFieldsFound
<1> DEFINE T == {m \in 0 .. Len(lines) : g[m][f] # None}
<1>2. ASSUME T # {} PROVE FALSE
  <2>1. PICK m \in T : \A k \in T : m <= k
    <3>1. T \in SUBSET Nat
      OBVIOUS
    <3> HIDE DEF T
    <3> QED
      BY <1>2, <3>1, LeastNumber
  <2>2. g[0] = NothingRead
    BY <1>1 DEF IsFound
  <2>3. m # 0
    <3>1. g[0][f] = None
      BY <2>2 DEF NothingRead
    <3> QED
      BY <2>1, <3>1
  <2>4. m \in 1 .. Len(lines) /\ m - 1 \in 0 .. Len(lines) /\ g[m - 1][f] = None
    BY <2>1, <2>3
  <2>5. g[m] = LabelledField(g[m - 1], lines[m])
    BY <1>1, <2>4 DEF IsFound
  <2>6. DOMAIN g[m - 1] = Fields
    BY <1>1, <2>4, EveryFoundCovers
  <2> DEFINE u == g[m - 1]
  <2>7. LabelledField(u, lines[m])[f] = u[f]
    <3>1. DOMAIN u = Fields
      BY <2>6
    <3>2. \A k \in DOMAIN Candidates(lines[m].label) : Candidates(lines[m].label)[k] # f
      BY <2>4
    <3> HIDE DEF u
    <3> QED
      BY <3>1, <3>2, OneLine
  <2>8. g[m][f] = g[m - 1][f]
    BY <2>5, <2>7
  <2> QED
    BY <2>1, <2>4, <2>8
<1>3. Len(lines) \in 0 .. Len(lines) /\ Len(lines) \notin T
  BY <1>2
<1> QED
  BY <1>1, <1>3

\* A field that a line means, and only it, is found.
LEMMA NamedIsFound ==
    ASSUME NEW lines, Len(lines) \in Nat, NEW f \in Fields, NEW i \in 1 .. Len(lines),
           Candidates(lines[i].label) = <<f>>, ReadLabelled(f, lines[i].text) # None
    PROVE  LabelledFields(lines)[f] # None
<1>1. PICK g : IsFound(g, lines) /\ LabelledFields(lines) = g[Len(lines)]
  BY LabelledFieldsFound
<1> DEFINE T == {m \in i .. Len(lines) : g[m][f] = None}
<1>2. \A m \in 1 .. Len(lines) : /\ g[m] = LabelledField(g[m - 1], lines[m])
                                 /\ DOMAIN g[m - 1] = Fields
  <2> TAKE m \in 1 .. Len(lines)
  <2>1. m - 1 \in 0 .. Len(lines) /\ m \in 0 .. Len(lines) /\ m # 0
    OBVIOUS
  <2>2. DOMAIN g[m - 1] = Fields
    BY <1>1, <2>1, EveryFoundCovers
  <2>3. g[m] = LabelledField(g[m - 1], lines[m])
    BY <1>1, <2>1 DEF IsFound
  <2> QED
    BY <2>2, <2>3
<1>3. ASSUME T # {} PROVE FALSE
  <2>1. PICK m \in T : \A k \in T : m <= k
    <3>1. T \in SUBSET Nat
      OBVIOUS
    <3> HIDE DEF T
    <3> QED
      BY <1>3, <3>1, LeastNumber
  <2>2. m \in 1 .. Len(lines) /\ g[m][f] = None
    BY <2>1
  <2>3. m # i
    <3>1. g[i][f] # None
      BY <1>2, OneLine
    <3> QED
      BY <2>2, <3>1
  <2>4. m - 1 \in i .. Len(lines) /\ m - 1 \notin T
    BY <2>1, <2>3
  <2>5. g[m - 1][f] # None
    BY <2>4
  <2>6. g[m][f] # None
    BY <1>2, <2>2, <2>5, OneLine
  <2> QED
    BY <2>2, <2>6
<1>4. Len(lines) \in i .. Len(lines) /\ Len(lines) \notin T
  BY <1>3
<1> QED
  BY <1>1, <1>4

\* The spellings of a field that can be read, and the one that counts.
LEMMA LastSpelling ==
    ASSUME NEW form, NEW f \in Fields,
           NEW S, S = {i \in Typed(form) : FieldOf(FormKeys[i]) = f /\ Readable(form, i)}, S # {}
    PROVE  \E i \in S : /\ \A j \in S : j <= i
                        /\ FormLayer(form)[f] = Read(f, form[FormKeys[i]])
                        /\ FormLayer(form)[f] # None
<1>1. S \in SUBSET (0 .. 19)
  BY KeysAreNumbered DEF Typed
<1>2. \E i \in S : \A j \in S : j <= i
  BY <1>1, GreatestNumber
<1> DEFINE last == CHOOSE i \in S : \A j \in S : j <= i
<1>3. last \in S /\ \A j \in S : j <= last
  BY <1>2
<1>4. FormLayer(form)[f] = Read(f, form[FormKeys[last]])
  BY DEF FormLayer
<1>5. Read(f, form[FormKeys[last]]) # None
  BY <1>3 DEF Readable
<1> HIDE DEF last
<1> QED
  BY <1>3, <1>4, <1>5

LEMMA FormComesFirst ==
    ASSUME NEW form, NEW notes, NEW llm, NEW required, NEW f \in Fields, FormLayer(form)[f] # None
    PROVE  Submission(form, notes, llm, required).parsed[f] = FormLayer(form)[f]
BY DEF Submission, Merge

(***************************************************************************)
(* Whatever is submitted: a field the supplier filled in the form has the  *)
(* value of one of the texts he typed for it, never one guessed from his   *)
(* notes (parse_submission, the order of the layers in _merge).            *)
(***************************************************************************)
THEOREM FormCountsFirst == []FormOutranksGuess
<1>1. FormOutranksGuess
  <2> SUFFICES ASSUME NEW f \in Fields, Spellings(f) # {}
               PROVE  Result.parsed[f] \in {Read(f, matter.form[FormKeys[i]]) : i \in Spellings(f)}
    BY DEF FormOutranksGuess
  <2>1. PICK i \in Spellings(f) : /\ FormLayer(matter.form)[f] = Read(f, matter.form[FormKeys[i]])
                                  /\ FormLayer(matter.form)[f] # None
    BY LastSpelling DEF Spellings
  <2>2. Result.parsed[f] = FormLayer(matter.form)[f]
    BY <2>1, FormComesFirst DEF Result
  <2> QED
    BY <2>1, <2>2
<1> QED
  BY <1>1, PTL

(***************************************************************************)
(* Whatever is submitted: every text typed into the form fills its field,  *)
(* is kept among the leftovers, or has lost to another text typed for the  *)
(* same field (FormLayer, Leftovers).                                      *)
(***************************************************************************)
THEOREM TypedTextIsKept == []NothingTypedIsLost
<1>1. NothingTypedIsLost
  <2> SUFFICES ASSUME NEW i \in Typed(matter.form),
                      i \notin Result.unparsed.leftovers,
                      Spellings(FieldOf(FormKeys[i])) \ {i} = {}
               PROVE  /\ FieldOf(FormKeys[i]) \in Fields
                      /\ Result.parsed[FieldOf(FormKeys[i])]
                           = Read(FieldOf(FormKeys[i]), matter.form[FormKeys[i]])
    BY DEF NothingTypedIsLost
  <2> DEFINE f == FieldOf(FormKeys[i])
  <2>1. i \notin Leftovers(matter.form)
    BY DEF Result, Submission
  <2>2. Readable(matter.form, i)
    BY <2>1 DEF Leftovers
  <2>3. f \in Fields /\ i \in Spellings(f)
    BY <2>2 DEF Readable, Spellings
  <2>4. PICK j \in Spellings(f) : /\ FormLayer(matter.form)[f] = Read(f, matter.form[FormKeys[j]])
                                  /\ FormLayer(matter.form)[f] # None
    <3> HIDE DEF f
    <3> DEFINE S == Spellings(f)
    <3>1. S = {k \in Typed(matter.form) : FieldOf(FormKeys[k]) = f /\ Readable(matter.form, k)} /\ S # {}
      BY <2>3 DEF Spellings
    <3> HIDE DEF S
    <3>2. \E j \in S : /\ FormLayer(matter.form)[f] = Read(f, matter.form[FormKeys[j]])
                       /\ FormLayer(matter.form)[f] # None
      BY <2>3, <3>1, LastSpelling
    <3> QED
      BY <3>2 DEF S
  <2>5. j = i
    BY <2>4
  <2>6. Result.parsed[f] = FormLayer(matter.form)[f]
    BY <2>3, <2>4, FormComesFirst DEF Result
  <2> QED
    BY <2>3, <2>4, <2>5, <2>6
<1> QED
  BY <1>1, PTL
\* The fields an RFQ of the run requires.
RequiredFields == {"unit_price", "moq", "response_time_hours", "compliance_accreditations", "lead_time_days",
                   "gst_rate", "warranty_months", "validity_date", "incoterms"}

LEMMA RequiredAreFields ==
    ASSUME NEW name \in RequiredNames
    PROVE  RequiredField(name) \in RequiredFields /\ RequiredField(name) \in Fields
BY DEF RequiredNames, RequiredField, RequiredFields, Fields

\* A gap is read as nothing.
LEMMA GapReadsNone ==
    ASSUME NEW f \in RequiredFields, NEW text, ~Answers(text)
    PROVE  Read(f, text) = None
BY DEF RequiredFields, Read, ParseMoney, ParseMoq, ParseLeadTime, ParseResponseTime, ParseWarranty, ParsePercent,
       ParseAccreditations, ParseDate, ParseIncoterms
\* What the text of the notes adds to the labelled lines.
LEMMA HeuristicLooks ==
    ASSUME NEW f \in RequiredFields, NEW notes
    PROVE  HeuristicLayer(notes)[f]
             = IF LabelledFields(notes.lines)[f] # None THEN LabelledFields(notes.lines)[f]
               ELSE CASE f = "unit_price"     -> ParseMoney(notes.price)
                      [] f = "lead_time_days" -> ParseLeadTime(notes.lead)
                      [] OTHER                -> None
<1>1. f \in Fields /\ f # "unit" /\ f # "currency"
  BY DEF RequiredFields, Fields
<1> DEFINE found == LabelledFields(notes.lines)
<1>2. HeuristicLayer(notes)
        = [x \in Fields |->
             IF found[x] # None THEN found[x]
             ELSE CASE x = "unit_price"     -> ParseMoney(notes.price)
                    [] x = "unit"           -> IF found["unit_price"] = None /\ ParseMoney(notes.price) # None
                                               THEN ParseText(notes.per) ELSE None
                    [] x = "currency"       -> ParseCurrency(notes.currency)
                    [] x = "lead_time_days" -> ParseLeadTime(notes.lead)
                    [] OTHER                -> None]
  BY DEF HeuristicLayer
<1> HIDE DEF found
<1>3. HeuristicLayer(notes)[f]
        = IF found[f] # None THEN found[f]
          ELSE CASE f = "unit_price"     -> ParseMoney(notes.price)
                 [] f = "lead_time_days" -> ParseLeadTime(notes.lead)
                 [] OTHER                -> None
  BY <1>1, <1>2
<1> QED
  BY <1>3 DEF found

LEMMA HeuristicFindsNothing ==
    ASSUME NEW f \in RequiredFields, NEW notes, NEW S, notes.lines \in Seq(S),
           \A i \in DOMAIN notes.lines : \A k \in DOMAIN Candidates(notes.lines[i].label) :
               Candidates(notes.lines[i].label)[k] # f,
           f = "unit_price" => notes.price = None,
           f = "lead_time_days" => notes.lead = None
    PROVE  HeuristicLayer(notes)[f] = None
<1>1. f \in Fields
  BY DEF RequiredFields, Fields
<1>2. Len(notes.lines) \in Nat /\ DOMAIN notes.lines = 1 .. Len(notes.lines)
  OBVIOUS
<1>3. LabelledFields(notes.lines)[f] = None
  <2> DEFINE lines == notes.lines
  <2>1. /\ Len(lines) \in Nat
        /\ \A i \in 1 .. Len(lines) : \A k \in DOMAIN Candidates(lines[i].label) : Candidates(lines[i].label)[k] # f
    BY <1>2
  <2> HIDE DEF lines
  <2>2. LabelledFields(lines)[f] = None
    BY <1>1, <2>1, UnnamedStaysOpen
  <2> QED
    BY <2>2 DEF lines
<1>4. ParseMoney(None) = None /\ ParseLeadTime(None) = None
  BY DEF ParseMoney, ParseLeadTime, Answers
<1>5. HeuristicLayer(notes)[f] = CASE f = "unit_price"     -> ParseMoney(notes.price)
                                   [] f = "lead_time_days" -> ParseLeadTime(notes.lead)
                                   [] OTHER                -> None
  BY <1>3, HeuristicLooks
<1>6. CASE f = "unit_price"
  BY <1>4, <1>5, <1>6
<1>7. CASE f = "lead_time_days"
  BY <1>4, <1>5, <1>7
<1>8. CASE f # "unit_price" /\ f # "lead_time_days"
  BY <1>5, <1>8
<1> QED
  BY <1>6, <1>7, <1>8

\* What the notes answer without declining it, the heuristic finds.
LEMMA HeuristicFinds ==
    ASSUME NEW f \in RequiredFields, NEW notes, NEW S, notes.lines \in Seq(S),
           \/ \E i \in DOMAIN notes.lines :
                 /\ Candidates(notes.lines[i].label) = <<f>>
                 /\ ReadLabelled(f, notes.lines[i].text) # None
           \/ f = "unit_price" /\ ParseMoney(notes.price) # None
           \/ f = "lead_time_days" /\ ParseLeadTime(notes.lead) # None
    PROVE  HeuristicLayer(notes)[f] # None
<1>1. f \in Fields
  BY DEF RequiredFields, Fields
<1>2. Len(notes.lines) \in Nat /\ DOMAIN notes.lines = 1 .. Len(notes.lines)
  OBVIOUS
<1>3. ASSUME NEW i \in DOMAIN notes.lines, Candidates(notes.lines[i].label) = <<f>>,
             ReadLabelled(f, notes.lines[i].text) # None
      PROVE  LabelledFields(notes.lines)[f] # None
  <2> DEFINE lines == notes.lines
  <2>1. /\ Len(lines) \in Nat /\ i \in 1 .. Len(lines)
        /\ Candidates(lines[i].label) = <<f>> /\ ReadLabelled(f, lines[i].text) # None
    BY <1>2, <1>3
  <2> HIDE DEF lines
  <2>2. LabelledFields(lines)[f] # None
    BY <1>1, <2>1, NamedIsFound
  <2> QED
    BY <2>2 DEF lines
<1> QED
  BY <1>3, HeuristicLooks

\* The labelled lines of the notes are lines, one after the other.
NotesHaveLines ==
    (matter.kind = "submission" /\ matter.notes # None) => \E S : matter.notes.lines \in Seq(S)

\* What is found in the earliest layer or a later one is in the quote.
LEMMA AnyLayerCounts ==
    ASSUME NEW form, NEW notes, NEW llm, NEW required, NEW f \in Fields
    PROVE  Submission(form, notes, llm, required).parsed[f] = None
             <=> /\ FormLayer(form)[f] = None
                 /\ llm # None => LlmLayer(llm)[f] = None
                 /\ notes # None => HeuristicLayer(notes)[f] = None
<1> DEFINE a == FormLayer(form)
           b == IF llm = None THEN NothingRead ELSE LlmLayer(llm)
           c == IF notes = None THEN NothingRead ELSE HeuristicLayer(notes)
<1>1. Submission(form, notes, llm, required).parsed = Merge(a, b, c)
  BY DEF Submission
<1>2. NothingRead[f] = None
  BY DEF NothingRead
<1>3. /\ b[f] = None <=> (llm # None => LlmLayer(llm)[f] = None)
      /\ c[f] = None <=> (notes # None => HeuristicLayer(notes)[f] = None)
  BY <1>2
<1> HIDE DEF a, b, c
<1>4. Merge(a, b, c)[f] = None <=> (a[f] = None /\ b[f] = None /\ c[f] = None)
  BY DEF Merge
<1> QED
  BY <1>1, <1>3, <1>4 DEF a

(***************************************************************************)
(* Whatever is submitted: a required field is asked for again when nobody  *)
(* has said anything about it, and never when the supplier answered it in  *)
(* the form or in a line or the text of his notes, when he declined it in  *)
(* either, or when the model found it (compute_missing, _declined,         *)
(* extract_fields).                                                        *)
(***************************************************************************)
THEOREM AskedForGapsOnly == [](NotesHaveLines => AskedExactlyForGaps)
<1>1. NotesHaveLines => AskedExactlyForGaps
  <2> SUFFICES ASSUME NotesHaveLines, matter.kind = "submission", NEW name \in RequiredNames
               PROVE  LET f == RequiredField(name) IN
                      /\ Unanswered(f) => name \in Result.missing
                      /\ Answered(f) => name \notin Result.missing
    BY DEF AskedExactlyForGaps
  <2> DEFINE f == RequiredField(name)
             form == matter.form
             notes == matter.notes
             llm == matter.llm
  <2>1. f \in RequiredFields /\ f \in Fields /\ f # "supplier_name"
    BY RequiredAreFields DEF RequiredFields
  <2>2. name \in Result.missing <=> (~HasValue(f, Result.parsed[f]) /\ ~Declines(f, notes))
    BY DEF Result, Submission, Missing
  <2>3. HasValue(f, Result.parsed[f]) <=> Result.parsed[f] # None
    BY <2>1 DEF HasValue
  <2>4. Result.parsed[f] = None
          <=> /\ FormLayer(form)[f] = None
              /\ llm # None => LlmLayer(llm)[f] = None
              /\ notes # None => HeuristicLayer(notes)[f] = None
    <3> HIDE DEF f
    <3> QED
      BY <2>1, AnyLayerCounts DEF Result
  <2>5. notes # None => \E S : notes.lines \in Seq(S)
    BY DEF NotesHaveLines
  <2>6. ASSUME Unanswered(f) PROVE name \in Result.missing
    <3>1. Spellings(f) = {}
      BY <2>1, <2>6, GapReadsNone DEF Spellings, Readable, Unanswered
    <3>2. FormLayer(form)[f] = None
      BY <2>1, <3>1 DEF FormLayer, Spellings
    <3>3. llm # None => LlmLayer(llm)[f] = None
      BY <2>1, <2>6, GapReadsNone DEF LlmLayer, Unanswered
    <3>4. notes # None => HeuristicLayer(notes)[f] = None
      <4> HIDE DEF f
      <4> QED
        BY <2>1, <2>5, <2>6, HeuristicFindsNothing DEF Unanswered
    <3>5. ~Declines(f, notes)
      BY <2>6 DEF Unanswered, Declines
    <3> QED
      BY <2>2, <2>3, <2>4, <3>2, <3>3, <3>4, <3>5
  <2>7. ASSUME Spellings(f) # {} PROVE name \notin Result.missing
    <3>1. FormLayer(form)[f] # None
      <4> HIDE DEF f
      <4> QED
        BY <2>1, <2>7, LastSpelling DEF Spellings
    <3> QED
      BY <2>2, <2>3, <2>4, <3>1
  <2>8. ASSUME f \in {"moq", "warranty_months", "gst_rate"}, f \in DOMAIN form, Answers(form[f]), form[f].none
        PROVE  Spellings(f) # {}
    <3>1. PICK i \in DOMAIN FormKeys : FormKeys[i] = f
      <4>1. /\ FormKeys[7] = "moq" /\ FormKeys[11] = "warranty_months" /\ FormKeys[17] = "gst_rate"
            /\ {7, 11, 17} \subseteq DOMAIN FormKeys
        BY DEF FormKeys
      <4> QED
        BY <4>1, <2>8
    <3>2. FieldOf(FormKeys[i]) = f
      BY <3>1, <2>8 DEF FieldOf
    <3>3. Read(f, form[f]) = 0
      BY <2>8 DEF Read, ParseMoq, ParseWarranty, ParsePercent
    <3>4. 0 # None
      BY RulesConstants
    <3>5. i \in Typed(form) /\ Readable(form, i)
      BY <2>1, <2>8, <3>1, <3>2, <3>3, <3>4 DEF Typed, Readable
    <3> QED
      BY <3>2, <3>5 DEF Spellings
  <2>9. ASSUME notes # None, AnsweredInNotes(f) PROVE name \notin Result.missing
    <3>1. CASE notes.none /\ f \in Declinable
      BY <2>2, <2>9, <3>1 DEF Declines
    <3>2. CASE ~(notes.none /\ f \in Declinable)
      <4>1. HeuristicLayer(notes)[f] # None
        <5> HIDE DEF f
        <5> QED
          BY <2>1, <2>5, <2>9, <3>2, HeuristicFinds DEF AnsweredInNotes
      <4> QED
        BY <2>2, <2>3, <2>4, <2>9, <4>1
    <3> QED
      BY <3>1, <3>2
  <2>10. ASSUME llm # None, f \in DOMAIN llm.fields, Read(f, llm.fields[f]) # None PROVE name \notin Result.missing
    <3>1. LlmLayer(llm)[f] # None
      <4> HIDE DEF f
      <4> QED
        BY <2>1, <2>10 DEF LlmLayer
    <3> QED
      BY <2>2, <2>3, <2>4, <2>10, <3>1
  <2>11. ASSUME Answered(f) PROVE name \notin Result.missing
    <3> HIDE DEF f
    <3> QED
      BY <2>7, <2>8, <2>9, <2>10, <2>11 DEF Answered
  <2> QED
    BY <2>6, <2>11
<1> QED
  BY <1>1, PTL

(***************************************************************************)
(* Whatever is submitted: notes that are a question, to the model or, when *)
(* it says nothing, to the markers, leave a question for the buyer         *)
(* (classify_text, _blocking_question).                                    *)
(***************************************************************************)
THEOREM QuestionsWait == []QuestionsEscalated
<1>1. QuestionsEscalated
  <2> DEFINE notes   == matter.notes
             verdict == IF matter.llm = None THEN None ELSE matter.llm.classification
  <2> SUFFICES ASSUME notes # None, notes.mark,
                      \/ verdict = "question"
                      \/ verdict = None /\ ~notes.auto /\ ~notes.data /\ ~(notes.figure /\ notes.subject)
               PROVE  Result.question # None
    BY DEF QuestionsEscalated
  <2>1. Result.question = BlockingQuestion(notes, matter.llm)
    BY DEF Result, Submission
  <2>2. Classification(notes, matter.llm) = "question"
    BY RulesConstants DEF Classification, ClassifyText
  <2> QED
    BY <2>1, <2>2, RulesConstants DEF BlockingQuestion
<1> QED
  BY <1>1, PTL

-----------------------------------------------------------------------------
(* Rounding. *)

LEMMA DivBounds ==
    ASSUME NEW a \in Int, NEW d \in Int, d > 0
    PROVE  a \div d \in Int /\ d * (a \div d) <= a /\ a < d * (a \div d) + d
OBVIOUS

\* A product of d and something below d * (q + 1) is at most d * q.
LEMMA CancelLess ==
    ASSUME NEW p \in Int, NEW q \in Int, NEW d \in Int, d > 0, d * p < d * q + d
    PROVE  p <= q
<1>1. d * p < d * (q + 1)
  OBVIOUS
<1>2. p < q + 1
  BY <1>1
<1> QED
  BY <1>2

\* HalfUp(n, d) is the whole number nearest to n / d.
LEMMA HalfUpBounds ==
    ASSUME NEW n \in Int, NEW d \in Int, d > 0
    PROVE  /\ HalfUp(n, d) \in Int
           /\ 2 * d * HalfUp(n, d) <= 2 * n + d
           /\ 2 * n + d < 2 * d * HalfUp(n, d) + 2 * d
<1>1. 2 * n + d \in Int /\ 2 * d \in Int /\ 2 * d > 0
  OBVIOUS
<1>2. /\ (2 * n + d) \div (2 * d) \in Int
      /\ (2 * d) * ((2 * n + d) \div (2 * d)) <= 2 * n + d
      /\ 2 * n + d < (2 * d) * ((2 * n + d) \div (2 * d)) + 2 * d
  BY <1>1, DivBounds
<1> QED
  BY <1>2 DEF HalfUp

\* A larger ratio is not rounded to less.
LEMMA HalfUpRatio ==
    ASSUME NEW n \in Int, NEW d \in Int, d > 0, NEW m \in Int, NEW e \in Int, e > 0, n * e <= m * d
    PROVE  HalfUp(n, d) <= HalfUp(m, e)
<1> DEFINE p == HalfUp(n, d)
           q == HalfUp(m, e)
<1>1. p \in Int /\ 2 * d * p <= 2 * n + d
  BY HalfUpBounds
<1>2. q \in Int /\ 2 * m + e < 2 * e * q + 2 * e
  BY HalfUpBounds
<1> HIDE DEF p, q
<1>3. e * (2 * d * p) <= e * (2 * n + d)
  BY <1>1
<1>4. d * (2 * m + e) < d * (2 * e * q + 2 * e)
  BY <1>2
<1>5. e * (2 * n + d) <= d * (2 * m + e)
  OBVIOUS
<1> DEFINE k == 2 * d * e
<1>6. k \in Int /\ k > 0
  <2>1. d * e > 0 /\ d * e \in Int
    OBVIOUS
  <2> QED
    BY <2>1
<1>7. e * (2 * d * p) = k * p
  BY <1>1
<1>8. d * (2 * e * q + 2 * e) = k * q + k
  BY <1>2
<1> HIDE DEF k
<1>9. k * p < k * q + k
  <2> DEFINE w == e * (2 * n + d)
             x == d * (2 * m + e)
  <2>1. w \in Int /\ x \in Int /\ k * p \in Int /\ k * q + k \in Int
    BY <1>1, <1>2, <1>6
  <2>2. k * p <= w /\ w <= x /\ x < k * q + k
    BY <1>3, <1>4, <1>5, <1>7, <1>8
  <2> HIDE DEF w, x
  <2> QED
    BY <2>1, <2>2
<1>10. p <= q
  BY <1>1, <1>2, <1>6, <1>9, CancelLess
<1> QED
  BY <1>10 DEF p, q

LEMMA HalfUpMono ==
    ASSUME NEW n \in Int, NEW m \in Int, NEW d \in Int, d > 0, n <= m
    PROVE  HalfUp(n, d) <= HalfUp(m, d)
<1>1. n * d <= m * d
  OBVIOUS
<1> QED
  BY <1>1, HalfUpRatio

\* What is whole is not rounded.
LEMMA HalfUpWhole ==
    ASSUME NEW k \in Int, NEW d \in Int, d > 0 PROVE HalfUp(d * k, d) = k
<1> DEFINE p == HalfUp(d * k, d)
<1>1. d * k \in Int
  OBVIOUS
<1>2. p \in Int /\ 2 * d * p <= 2 * (d * k) + d /\ 2 * (d * k) + d < 2 * d * p + 2 * d
  BY <1>1, HalfUpBounds
<1> HIDE DEF p
<1>3. d * p < d * k + d
  BY <1>2
<1>4. d * k < d * p + d
  BY <1>2
<1>5. p <= k /\ k <= p
  BY <1>2, <1>3, <1>4, CancelLess
<1> QED
  BY <1>2, <1>5 DEF p

LEMMA HalfUpNat ==
    ASSUME NEW n \in Nat, NEW d \in Int, d > 0 PROVE HalfUp(n, d) \in Nat
<1>1. HalfUp(d * 0, d) = 0
  BY HalfUpWhole
<1>2. HalfUp(d * 0, d) <= HalfUp(n, d)
  BY HalfUpMono
<1> QED
  BY <1>1, <1>2, HalfUpBounds

\* Only the ratio counts.
LEMMA HalfUpScale ==
    ASSUME NEW n \in Int, NEW d \in Int, d > 0, NEW c \in Int, c > 0
    PROVE  HalfUp(c * n, c * d) = HalfUp(n, d)
<1>1. c * n \in Int /\ c * d \in Int /\ c * d > 0
  OBVIOUS
<1>2. (c * n) * d <= n * (c * d) /\ n * (c * d) <= (c * n) * d
  OBVIOUS
<1>3. HalfUp(c * n, c * d) <= HalfUp(n, d) /\ HalfUp(n, d) <= HalfUp(c * n, c * d)
  BY <1>1, <1>2, HalfUpRatio
<1>4. HalfUp(c * n, c * d) \in Int /\ HalfUp(n, d) \in Int
  BY <1>1, HalfUpBounds
<1> DEFINE p == HalfUp(c * n, c * d)
           q == HalfUp(n, d)
<1> HIDE DEF p, q
<1>5. p = q
  BY <1>3, <1>4 DEF p, q
<1> QED
  BY <1>5 DEF p, q

-----------------------------------------------------------------------------
(* Finite orders. *)

\* A strict order on a finite set has a first element.
LEMMA FirstElement ==
    ASSUME NEW S, IsFiniteSet(S), S # {}, NEW R,
           \A x \in S : <<x, x>> \notin R,
           \A x, y, z \in S : <<x, y>> \in R /\ <<y, z>> \in R => <<x, z>> \in R
    PROVE  \E x \in S : \A y \in S : <<y, x>> \notin R
<1> DEFINE before == [x \in S |-> {y \in S : <<y, x>> \in R}]
           size == [x \in S |-> Cardinality(before[x])]
<1>1. \A x \in S : before[x] \subseteq S /\ \A y \in S : y \in before[x] <=> <<y, x>> \in R
  OBVIOUS
<1>s. \A x \in S : size[x] = Cardinality(before[x])
  OBVIOUS
<1> HIDE DEF before, size
<1>2. \A x \in S : IsFiniteSet(before[x]) /\ size[x] \in Nat
  <2> TAKE x \in S
  <2>1. before[x] \in SUBSET S
    BY <1>1
  <2> QED
    BY <2>1, <1>s, FS_Subset, FS_CardinalityType
<1> DEFINE T == {size[x] : x \in S}
<1>3. T \in SUBSET Nat /\ T # {}
  BY <1>2
<1>4. PICK n \in T : \A m \in T : n <= m
  BY <1>3, LeastNumber
<1>5. PICK x \in S : n = size[x]
  OBVIOUS
<1>6. ASSUME NEW y \in S, <<y, x>> \in R PROVE FALSE
  <2>1. before[y] \in SUBSET before[x]
    BY <1>1, <1>6
  <2>2. y \in before[x] /\ y \notin before[y]
    BY <1>1, <1>6
  <2>3. size[y] <= size[x] /\ size[y] # size[x]
    BY <1>2, <1>s, <2>1, <2>2, FS_Subset
  <2>4. size[x] <= size[y]
    BY <1>4, <1>5
  <2> QED
    BY <1>2, <2>3, <2>4
<1> QED
  BY <1>6

-----------------------------------------------------------------------------
(* The polylines. *)

\* Points of a polyline, from left to right.
Polyline(a) ==
    /\ a \in Seq(Int \X Int) /\ Len(a) >= 2
    /\ \A i, j \in 1 .. Len(a) : i < j => a[i][1] < a[j][1]

\* It rises (s = 1) or falls (s = -1) all the way.
Slopes(a, s) == s \in {1, -1} /\ \A i, j \in 1 .. Len(a) : i <= j => s * a[i][2] <= s * a[j][2]

Segment(x1, y1, x2, y2, v) == 100 * y1 + HalfUp(100 * (v - x1) * (y2 - y1), x2 - x1)

LEMMA SegmentSlopes ==
    ASSUME NEW x1 \in Int, NEW y1 \in Int, NEW x2 \in Int, NEW y2 \in Int, x1 < x2,
           NEW s \in {1, -1}, s * y1 <= s * y2,
           NEW u \in Int, NEW v \in Int, u <= v
    PROVE  /\ Segment(x1, y1, x2, y2, v) \in Int
           /\ s * Segment(x1, y1, x2, y2, u) <= s * Segment(x1, y1, x2, y2, v)
<1> DEFINE d == x2 - x1
           h == y2 - y1
           p == 100 * (u - x1) * h
           q == 100 * (v - x1) * h
<1>1. d \in Int /\ d > 0 /\ h \in Int
  OBVIOUS
<1>2. 100 * (u - x1) \in Int /\ 100 * (v - x1) \in Int /\ 100 * (u - x1) <= 100 * (v - x1)
  OBVIOUS
<1> DEFINE c == 100 * (u - x1)
           e == 100 * (v - x1)
<1>3. c \in Int /\ e \in Int /\ c <= e /\ p = c * h /\ q = e * h
  BY <1>2
<1> HIDE DEF c, e, p, q, d
<1>4. p \in Int /\ q \in Int
  BY <1>1, <1>3
<1>5. HalfUp(p, d) \in Int /\ HalfUp(q, d) \in Int
  BY <1>1, <1>4, HalfUpBounds
<1>6. CASE s = 1
  <2>1. h >= 0
    BY <1>6
  <2> HIDE DEF h
  <2>2. p <= q
    BY <1>1, <1>3, <2>1
  <2>3. HalfUp(p, d) <= HalfUp(q, d)
    BY <1>1, <1>4, <2>2, HalfUpMono
  <2> QED
    BY <1>5, <1>6, <2>3 DEF Segment, p, q, d, h, c, e
<1>7. CASE s = -1
  <2>1. h <= 0
    BY <1>7
  <2> HIDE DEF h
  <2>2. q <= p
    BY <1>1, <1>3, <2>1
  <2>3. HalfUp(q, d) <= HalfUp(p, d)
    BY <1>1, <1>4, <2>2, HalfUpMono
  <2> QED
    BY <1>5, <1>7, <2>3 DEF Segment, p, q, d, h, c, e
<1> QED
  BY <1>6, <1>7

LEMMA SegmentEnds ==
    ASSUME NEW x1 \in Int, NEW y1 \in Int, NEW x2 \in Int, NEW y2 \in Int, x1 < x2
    PROVE  Segment(x1, y1, x2, y2, x1) = 100 * y1 /\ Segment(x1, y1, x2, y2, x2) = 100 * y2
<1> DEFINE d == x2 - x1
           h == 100 * (y2 - y1)
<1>1. d \in Int /\ d > 0 /\ h \in Int
  OBVIOUS
<1>2. 100 * (x1 - x1) * (y2 - y1) = d * 0
  OBVIOUS
<1>3. 100 * (x2 - x1) * (y2 - y1) = d * h
  OBVIOUS
<1>4. HalfUp(d * 0, d) = 0 /\ HalfUp(d * h, d) = h
  <2> HIDE DEF d, h
  <2> QED
    BY <1>1, HalfUpWhole
<1>5. Segment(x1, y1, x2, y2, x1) = 100 * y1 + 0
  BY <1>2, <1>4 DEF Segment
<1>6. Segment(x1, y1, x2, y2, x2) = 100 * y1 + h
  BY <1>3, <1>4 DEF Segment
<1> QED
  BY <1>5, <1>6

\* The segment a value lies on.
Lies(a, i, v) == a[i][1] <= v /\ v < a[i + 1][1]

LEMMA SegmentExists ==
    ASSUME NEW a, Polyline(a), NEW v \in Int, a[1][1] < v, v < a[Len(a)][1]
    PROVE  \E i \in 1 .. Len(a) - 1 : Lies(a, i, v)
<1> DEFINE T == {k \in 1 .. Len(a) : v < a[k][1]}
<1>1. Len(a) \in Nat /\ Len(a) >= 2 /\ \A k \in 1 .. Len(a) : a[k][1] \in Int
  BY DEF Polyline
<1>2. Len(a) \in T /\ T \in SUBSET Nat
  BY <1>1
<1>3. PICK k \in T : \A m \in T : k <= m
  BY <1>2, LeastNumber
<1>4. k # 1
  BY <1>1
<1>5. k - 1 \in 1 .. Len(a) - 1 /\ k - 1 \in 1 .. Len(a) /\ k - 1 + 1 = k
  BY <1>1, <1>4
<1>6. k - 1 \notin T
  BY <1>1, <1>3
<1>7. a[k - 1][1] <= v
  BY <1>1, <1>5, <1>6
<1>8. Lies(a, k - 1, v)
  BY <1>5, <1>7 DEF Lies
<1> QED
  BY <1>5, <1>8

\* Left of the polyline, right of it, or on a segment between its ends.
On(a, s, i, v) ==
    /\ Lies(a, i, v)
    /\ Interpolate(a, v) = Segment(a[i][1], a[i][2], a[i + 1][1], a[i + 1][2], v)
    /\ s * (100 * a[i][2]) <= s * Interpolate(a, v)
    /\ s * Interpolate(a, v) <= s * (100 * a[i + 1][2])

LEMMA PolylineTypes ==
    ASSUME NEW a, NEW s, Polyline(a), Slopes(a, s), NEW i \in 1 .. Len(a) - 1
    PROVE  /\ i \in 1 .. Len(a) /\ i + 1 \in 1 .. Len(a)
           /\ a[i][1] \in Int /\ a[i][2] \in Int /\ a[i + 1][1] \in Int /\ a[i + 1][2] \in Int
           /\ a[i][1] < a[i + 1][1] /\ s * a[i][2] <= s * a[i + 1][2]
<1>1. Len(a) \in Nat
  BY DEF Polyline
<1>2. i \in 1 .. Len(a) /\ i + 1 \in 1 .. Len(a) /\ i < i + 1
  BY <1>1
<1> QED
  BY SMTT(60), ZenonT(90), <1>2 DEF Polyline, Slopes

LEMMA Interpolated ==
    ASSUME NEW a, NEW s, Polyline(a), Slopes(a, s), NEW v \in Int
    PROVE  /\ Interpolate(a, v) \in Int
           /\ \/ v <= a[1][1] /\ Interpolate(a, v) = 100 * a[1][2]
              \/ v >= a[Len(a)][1] /\ Interpolate(a, v) = 100 * a[Len(a)][2]
              \/ \E i \in 1 .. Len(a) - 1 : On(a, s, i, v)
<1>1. Len(a) \in Nat /\ Len(a) >= 2 /\ \A k \in 1 .. Len(a) : a[k][1] \in Int /\ a[k][2] \in Int
  BY DEF Polyline
<1>2. 1 \in 1 .. Len(a) /\ Len(a) \in 1 .. Len(a)
  BY <1>1
<1>3. CASE v <= a[1][1]
  BY <1>1, <1>2, <1>3 DEF Interpolate
<1>4. CASE ~(v <= a[1][1]) /\ v >= a[Len(a)][1]
  BY <1>1, <1>2, <1>4 DEF Interpolate
<1>5. CASE ~(v <= a[1][1]) /\ ~(v >= a[Len(a)][1])
  <2>1. \E i \in 1 .. Len(a) - 1 : Lies(a, i, v)
    BY <1>1, <1>2, <1>5, SegmentExists
  <2> DEFINE i == CHOOSE i \in 1 .. Len(a) - 1 : a[i][1] <= v /\ v < a[i + 1][1]
  <2>2. i \in 1 .. Len(a) - 1 /\ a[i][1] <= v /\ v < a[i + 1][1]
    BY <2>1 DEF Lies
  <2>3. Interpolate(a, v) = Segment(a[i][1], a[i][2], a[i + 1][1], a[i + 1][2], v)
    BY <1>5 DEF Interpolate, Segment
  <2> HIDE DEF i
  <2>4. /\ a[i][1] \in Int /\ a[i][2] \in Int /\ a[i + 1][1] \in Int /\ a[i + 1][2] \in Int
        /\ a[i][1] < a[i + 1][1] /\ s * a[i][2] <= s * a[i + 1][2]
    BY <2>2, PolylineTypes
  <2> DEFINE x1 == a[i][1]
             y1 == a[i][2]
             x2 == a[i + 1][1]
             y2 == a[i + 1][2]
  <2>5. x1 <= v /\ v <= x2 /\ x1 < x2 /\ s * y1 <= s * y2 /\ x1 \in Int /\ y1 \in Int /\ x2 \in Int /\ y2 \in Int
    BY <2>2, <2>4
  <2>6. Interpolate(a, v) = Segment(x1, y1, x2, y2, v)
    BY <2>3
  <2>7. s \in {1, -1}
    BY DEF Slopes
  <2> HIDE DEF x1, y1, x2, y2
  <2>8. Segment(x1, y1, x2, y2, v) \in Int
    BY <2>5, <2>7, SegmentSlopes
  <2>9. s * Segment(x1, y1, x2, y2, x1) <= s * Segment(x1, y1, x2, y2, v)
    BY <2>5, <2>7, SegmentSlopes
  <2>10. s * Segment(x1, y1, x2, y2, v) <= s * Segment(x1, y1, x2, y2, x2)
    BY <2>5, <2>7, SegmentSlopes
  <2>11. s * (100 * y1) <= s * Interpolate(a, v) /\ s * Interpolate(a, v) <= s * (100 * y2)
    <3>1. Segment(x1, y1, x2, y2, x1) = 100 * y1 /\ Segment(x1, y1, x2, y2, x2) = 100 * y2
      BY <2>5, SegmentEnds
    <3> QED
      BY <3>1, <2>6, <2>9, <2>10
  <2>12. On(a, s, i, v)
    BY <2>2, <2>3, <2>11 DEF On, Lies, x1, y1, x2, y2
  <2> QED
    BY <2>2, <2>6, <2>8, <2>12
<1> QED
  BY <1>3, <1>4, <1>5
\* A polyline that rises, or falls, all the way orders its values so.
LEMMA PolylineMonotone ==
    ASSUME NEW a, NEW s, Polyline(a), Slopes(a, s), NEW u \in Int, NEW v \in Int, u <= v
    PROVE  s * Interpolate(a, u) <= s * Interpolate(a, v)
<1> DEFINE n == Len(a)
           Y(k) == 100 * a[k][2]
           p == Interpolate(a, u)
           q == Interpolate(a, v)
<1>1. n \in Nat /\ n >= 2 /\ \A k \in 1 .. n : a[k][1] \in Int /\ a[k][2] \in Int /\ Y(k) \in Int
  BY DEF Polyline
<1>2. s \in {1, -1} /\ \A j, k \in 1 .. n : j <= k => s * a[j][2] <= s * a[k][2]
  BY DEF Slopes
<1>3. \A j, k \in 1 .. n : j <= k => s * Y(j) <= s * Y(k)
  <2> TAKE j, k \in 1 .. n
  <2> HAVE j <= k
  <2> DEFINE x == a[j][2]
             y == a[k][2]
  <2>1. x \in Int /\ y \in Int /\ s * x <= s * y
    BY <1>1, <1>2
  <2> HIDE DEF x, y
  <2>2. s * (100 * x) <= s * (100 * y)
    BY <2>1, <1>2
  <2> QED
    BY <2>2 DEF x, y
<1>4. /\ p \in Int
      /\ \/ u <= a[1][1] /\ p = Y(1)
         \/ u >= a[n][1] /\ p = Y(n)
         \/ \E i \in 1 .. n - 1 : On(a, s, i, u)
  BY Interpolated
<1>5. /\ q \in Int
      /\ \/ v <= a[1][1] /\ q = Y(1)
         \/ v >= a[n][1] /\ q = Y(n)
         \/ \E i \in 1 .. n - 1 : On(a, s, i, v)
  BY Interpolated
<1>6. \A i, j \in 1 .. n : i < j => a[i][1] < a[j][1]
  BY DEF Polyline
<1>7. 1 \in 1 .. n /\ n \in 1 .. n /\ \A i \in 1 .. n - 1 : i \in 1 .. n /\ i + 1 \in 1 .. n
  BY <1>1
<1>8. ASSUME NEW i \in 1 .. n - 1, NEW w \in Int, On(a, s, i, w)
      PROVE  /\ s * Y(i) <= s * Interpolate(a, w) /\ s * Interpolate(a, w) <= s * Y(i + 1)
             /\ a[1][1] <= w /\ w < a[n][1]
  <2>0. i = 1 \/ 1 < i
    BY <1>1
  <2>m. i + 1 = n \/ i + 1 < n
    BY <1>1
  <2>7. i \in 1 .. n /\ i + 1 \in 1 .. n /\ 1 \in 1 .. n /\ n \in 1 .. n
    BY <1>7
  <2>8. a[1][1] \in Int /\ a[i][1] \in Int /\ a[i + 1][1] \in Int /\ a[n][1] \in Int
    BY <1>1, <2>7
  <2>5. a[1][1] <= a[i][1]
    <3>1. 1 < i => a[1][1] < a[i][1]
      BY <1>6, <2>7
    <3> QED
      BY <2>0, <2>8, <3>1
  <2>6. a[i + 1][1] <= a[n][1]
    <3>1. i + 1 < n => a[i + 1][1] < a[n][1]
      BY <1>6, <2>7
    <3> QED
      BY <2>m, <2>8, <3>1
  <2>1. a[1][1] <= a[i][1] /\ a[i + 1][1] <= a[n][1]
    BY <2>5, <2>6
  <2>2. a[i][1] <= w /\ w < a[i + 1][1]
    BY <1>8 DEF On, Lies
  <2>3. a[1][1] <= w /\ w < a[n][1]
    BY <2>1, <2>2, <1>1, <1>7
  <2> QED
    BY <1>8, <2>3 DEF On
<1> HIDE DEF Y
<1>a. s * p \in Int /\ s * q \in Int /\ \A k \in 1 .. n : s * Y(k) \in Int
  BY <1>1, <1>2, <1>4, <1>5
<1>9. CASE u <= a[1][1] /\ p = Y(1)
  <2>1. CASE v <= a[1][1] /\ q = Y(1)
    BY <1>9, <2>1, <1>a, <1>7
  <2>2. CASE v >= a[n][1] /\ q = Y(n)
    BY <1>9, <2>2, <1>3, <1>7, <1>1
  <2>3. CASE \E i \in 1 .. n - 1 : On(a, s, i, v)
    <3>1. PICK i \in 1 .. n - 1 : On(a, s, i, v)
      BY <2>3
    <3>2. s * Y(i) <= s * q
      BY <3>1, <1>8
    <3>3. s * Y(1) <= s * Y(i)
      BY <1>3, <1>7, <1>1
    <3> QED
      BY <3>2, <3>3, <1>9, <1>a, <1>7
  <2> QED
    BY <2>1, <2>2, <2>3, <1>5
<1>10. CASE u >= a[n][1] /\ p = Y(n)
  <2>1. a[1][1] < a[n][1] /\ v >= a[n][1]
    BY <1>1, <1>6, <1>7, <1>10
  <2>2. ~(v <= a[1][1])
    BY <2>1, <1>1, <1>7
  <2>3. ~ \E i \in 1 .. n - 1 : On(a, s, i, v)
    BY <2>1, <1>8, <1>1, <1>7
  <2> QED
    BY <2>2, <2>3, <1>5, <1>10, <1>a
<1>11. CASE \E i \in 1 .. n - 1 : On(a, s, i, u)
  <2>1. PICK i \in 1 .. n - 1 : On(a, s, i, u)
    BY <1>11
  <2>2. s * Y(i) <= s * p /\ s * p <= s * Y(i + 1) /\ a[1][1] <= u /\ u < a[n][1]
    BY <2>1, <1>8
  <2>3. CASE v <= a[1][1] /\ q = Y(1)
    <3>1. u = v
      BY <2>2, <2>3, <1>1, <1>7
    <3> QED
      BY <3>1, <1>a
  <2>4. CASE v >= a[n][1] /\ q = Y(n)
    <3>1. s * Y(i + 1) <= s * Y(n)
      BY <1>3, <1>7, <1>1
    <3> QED
      BY <3>1, <2>2, <2>4, <1>a, <1>7
  <2>5. CASE \E j \in 1 .. n - 1 : On(a, s, j, v)
    <3>1. PICK j \in 1 .. n - 1 : On(a, s, j, v)
      BY <2>5
    <3>2. a[i][1] <= u /\ u < a[i + 1][1] /\ a[j][1] <= v /\ v < a[j + 1][1]
      BY <2>1, <3>1 DEF On, Lies
    <3>3. i <= j
      <4> SUFFICES ASSUME j < i PROVE FALSE
        BY <1>1
      <4>1. a[j + 1][1] <= a[i][1]
        <5>1. j + 1 = i \/ j + 1 < i
          BY <1>1
        <5> QED
          BY <5>1, <1>1, <1>6, <1>7
      <4>2. a[i][1] \in Int /\ a[j + 1][1] \in Int
        BY <1>1, <1>7
      <4> QED
        BY <3>2, <4>1, <4>2
    <3>4. CASE i = j
      <4> DEFINE x1 == a[i][1]
                 y1 == a[i][2]
                 x2 == a[i + 1][1]
                 y2 == a[i + 1][2]
      <4>1. x1 < x2 /\ s * y1 <= s * y2 /\ x1 \in Int /\ y1 \in Int /\ x2 \in Int /\ y2 \in Int
        BY PolylineTypes
      <4>2. p = Segment(x1, y1, x2, y2, u) /\ q = Segment(x1, y1, x2, y2, v)
        BY <2>1, <3>1, <3>4 DEF On
      <4> HIDE DEF x1, y1, x2, y2
      <4> QED
        BY <4>1, <4>2, <1>2, SegmentSlopes
    <3>5. CASE i < j
      <4>1. s * Y(i + 1) <= s * Y(j)
        BY <3>5, <1>3, <1>7, <1>1
      <4>2. s * Y(j) <= s * q
        BY <3>1, <1>8
      <4>3. s * Y(i + 1) \in Int /\ s * Y(j) \in Int
        BY <1>a, <1>7
      <4> QED
        BY <4>1, <4>2, <4>3, <2>2, <1>a
    <3> QED
      BY <3>3, <3>4, <3>5, <1>1
  <2> QED
    BY <2>3, <2>4, <2>5, <1>5
<1> QED
  BY <1>4, <1>9, <1>10, <1>11

\* The tables of score.py.
LEMMA Tables ==
    /\ Polyline(LeadAnchors) /\ Slopes(LeadAnchors, -1)
    /\ Polyline(ResponseAnchors) /\ Slopes(ResponseAnchors, -1)
    /\ Polyline(TermAnchors) /\ Slopes(TermAnchors, 1)
    /\ Polyline(WarrantyAnchors) /\ Slopes(WarrantyAnchors, 1)
    /\ Polyline(ValidityAnchors) /\ Slopes(ValidityAnchors, 1)
<1>1. Polyline(LeadAnchors) /\ Slopes(LeadAnchors, -1)
  BY DEF LeadAnchors, Polyline, Slopes
<1>2. Polyline(ResponseAnchors) /\ Slopes(ResponseAnchors, -1)
  BY DEF ResponseAnchors, Polyline, Slopes
<1>3. Polyline(TermAnchors) /\ Slopes(TermAnchors, 1)
  BY DEF TermAnchors, Polyline, Slopes
<1>4. Polyline(WarrantyAnchors) /\ Slopes(WarrantyAnchors, 1)
  BY DEF WarrantyAnchors, Polyline, Slopes
<1>5. Polyline(ValidityAnchors) /\ Slopes(ValidityAnchors, 1)
  BY DEF ValidityAnchors, Polyline, Slopes
<1> QED
  BY <1>1, <1>2, <1>3, <1>4, <1>5

-----------------------------------------------------------------------------
(* What a comparison may be given: an amount is a number of cents, or None, *)
(* and like a time it may be below zero, which the form lets through       *)
(* (parse_int). A rate of tax and the quantity may not (parse_percent,     *)
(* rfq/schema.py), and a pack size is read from digits (units.py).         *)

QuoteFields ==
    {"price", "currency", "unit", "shipping", "callout", "duties", "taxes", "discount", "gst", "incoterms",
     "response", "lead", "held", "terms", "moq", "validity", "warranty", "risk", "complete", "missing"}

IsQuote(q) ==
    /\ DOMAIN q = QuoteFields
    /\ q.price \in Int \union {None}
    /\ q.unit.pack \in Nat
    /\ q.shipping \in Int \union {None} /\ q.callout \in Int \union {None} /\ q.duties \in Int \union {None}
    /\ q.taxes \in Int \union {None} /\ q.discount \in Int \union {None}
    /\ q.gst \in Nat \union {None}
    /\ q.response \in Int \union {None} /\ q.lead \in Int \union {None}
    /\ q.moq \in Int \union {None} /\ q.validity \in Int \union {None} /\ q.warranty \in Int \union {None}
    /\ q.terms # None => q.terms.numbers \in Seq(Int)
    /\ q.risk \in {"low", "medium", "high"}
    /\ q.complete \in BOOLEAN
    /\ IsFiniteSet(q.missing)

IsRequest(r) ==
    /\ r.quantity \in Nat
    /\ r.gst \in Nat \union {None}
    /\ IsFiniteSet(r.required)
    /\ \A c \in Criteria : c \in DOMAIN r.weights => r.weights[c] \in Int

IsBatch(batch) ==
    /\ DOMAIN batch \subseteq Nat /\ IsFiniteSet(DOMAIN batch)
    /\ \A i \in DOMAIN batch : IsQuote(batch[i])

-----------------------------------------------------------------------------
(* Costs. *)

LEMMA RatesArePositive == ASSUME NEW c, Rate(c) # None PROVE Rate(c) \in Int /\ Rate(c) > 0
<1>1. CurrencyCode(c) \in DOMAIN DefaultRates /\ Rate(c) = DefaultRates[CurrencyCode(c)]
  BY DEF Rate
<1>2. \A k \in DOMAIN DefaultRates : DefaultRates[k] \in Int /\ DefaultRates[k] > 0
  BY DEF DefaultRates
<1> QED
  BY <1>1, <1>2

LEMMA FactorsAreNatural == ASSUME NEW w PROVE FactorFor(w) \in Nat
<1>1. \A i \in DOMAIN Factors : Factors[i] \in Nat
  BY DEF Factors
<1>2. Incoterm(w) \in DOMAIN Factors \/ Incoterm(w) = None
  BY DEF Incoterm, IncotermAliases, Factors
<1> QED
  BY <1>1, <1>2 DEF FactorFor

LEMMA PositiveQuotient ==
    ASSUME NEW a \in Int, NEW b \in Int, b > 0, a >= b PROVE a \div b \in Int /\ a \div b > 0
<1> DEFINE q == a \div b
<1>1. q \in Int /\ a < b * q + b
  BY DivBounds
<1> HIDE DEF q
<1>2. b * 0 < b * q + b
  BY <1>1
<1>3. b * 1 < b * q + b
  BY <1>1
<1>4. 1 <= q
  BY <1>1, <1>3, CancelLess
<1> QED
  BY <1>1, <1>4 DEF q

LEMMA MultiplierIsRatio ==
    ASSUME NEW quoted, NEW target, quoted.pack \in Nat, PriceMultiplier(quoted, target) # None
    PROVE  /\ PriceMultiplier(quoted, target)[1] \in Int /\ PriceMultiplier(quoted, target)[1] > 0
           /\ PriceMultiplier(quoted, target)[2] \in Int /\ PriceMultiplier(quoted, target)[2] > 0
<1> DEFINE q == CanonicalUnit(quoted.unit)
           t == CanonicalUnit(target.unit)
           m == PriceMultiplier(quoted, target)
<1>1. CASE quoted.pack > 0 /\ q \in Packable /\ t \in Discrete
  <2>1. m = <<1, quoted.pack>>
    BY <1>1 DEF PriceMultiplier
  <2> QED
    BY <1>1, <2>1
<1>2. CASE ~(quoted.pack > 0 /\ q \in Packable /\ t \in Discrete) /\ q = t
  <2>1. m = <<1, 1>>
    BY <1>2 DEF PriceMultiplier
  <2> QED
    BY <2>1
<1>3. CASE ~(quoted.pack > 0 /\ q \in Packable /\ t \in Discrete) /\ q # t
  <2>1. {q, t} \ DOMAIN Size = {} /\ m = IF Size[q] >= Size[t] THEN <<1, Size[q] \div Size[t]>>
                                        ELSE <<Size[t] \div Size[q], 1>>
    BY <1>3 DEF PriceMultiplier
  <2>2. q \in DOMAIN Size /\ t \in DOMAIN Size
    BY <2>1
  <2>3. \A u \in DOMAIN Size : Size[u] \in Int /\ Size[u] > 0
    BY DEF Size
  <2> DEFINE a == Size[q]
             b == Size[t]
  <2>4. a \in Int /\ a > 0 /\ b \in Int /\ b > 0
    BY <2>2, <2>3
  <2>5. m = IF a >= b THEN <<1, a \div b>> ELSE <<b \div a, 1>>
    BY <2>1
  <2> HIDE DEF a, b, m
  <2>6. m[1] \in Int /\ m[1] > 0 /\ m[2] \in Int /\ m[2] > 0
    <3>1. CASE a >= b
      BY <3>1, <2>4, <2>5, PositiveQuotient
    <3>2. CASE ~(a >= b)
      BY <3>2, <2>4, <2>5, PositiveQuotient
    <3> QED
      BY <3>1, <3>2
  <2> QED
    BY <2>6 DEF m
<1> QED
  BY <1>1, <1>2, <1>3

LEMMA ConvertMonotone ==
    ASSUME NEW from, NEW to, Convertible(from, to),
           NEW num \in Int, num > 0, NEW den \in Int, den > 0,
           NEW a \in Int, NEW b \in Int, a <= b
    PROVE  /\ Convert(a, from, to, num, den) \in Int
           /\ Convert(a, from, to, num, den) <= Convert(b, from, to, num, den)
<1>1. CASE CurrencyCode(from) = CurrencyCode(to)
  <2>1. a * num \in Int /\ b * num \in Int /\ a * num <= b * num
    OBVIOUS
  <2>2. /\ Convert(a, from, to, num, den) = HalfUp(a * num, den)
        /\ Convert(b, from, to, num, den) = HalfUp(b * num, den)
    BY <1>1 DEF Convert
  <2> DEFINE x == a * num
             y == b * num
  <2> HIDE DEF x, y
  <2>3. HalfUp(x, den) \in Int /\ HalfUp(x, den) <= HalfUp(y, den)
    BY <2>1, HalfUpBounds, HalfUpMono DEF x, y
  <2> QED
    BY <2>2, <2>3 DEF x, y
<1>2. CASE CurrencyCode(from) # CurrencyCode(to)
  <2> DEFINE r == Rate(to)
             s == Rate(from)
             x == a * r * num
             y == b * r * num
             d == s * den
  <2>1. r \in Int /\ r > 0 /\ s \in Int /\ s > 0
    BY <1>2, RatesArePositive DEF Convertible
  <2>2. /\ Convert(a, from, to, num, den) = HalfUp(x, d)
        /\ Convert(b, from, to, num, den) = HalfUp(y, d)
    BY <1>2 DEF Convert
  <2>3. x \in Int /\ y \in Int /\ x <= y /\ d \in Int /\ d > 0
    <3> HIDE DEF r, s
    <3>1. a * r \in Int /\ b * r \in Int /\ a * r <= b * r
      BY <2>1
    <3> DEFINE c == a * r
               e == b * r
    <3>2. c \in Int /\ e \in Int /\ c <= e
      BY <3>1
    <3> HIDE DEF c, e
    <3>3. c * num \in Int /\ e * num \in Int /\ c * num <= e * num
      BY <3>2
    <3>4. d \in Int /\ d > 0
      BY <2>1
    <3> QED
      BY <3>3, <3>4 DEF c, e
  <2> HIDE DEF x, y, d
  <2>4. HalfUp(x, d) \in Int /\ HalfUp(x, d) <= HalfUp(y, d)
    BY <2>3, HalfUpBounds, HalfUpMono
  <2> QED
    BY <2>2, <2>4
<1> QED
  BY <1>1, <1>2

LEMMA ComparableMeans ==
    ASSUME NEW q, NEW r
    PROVE  Comparable(q, r) <=> /\ q.price # None /\ ~(q.price <= 0)
                                /\ PriceMultiplier(q.unit, r.unit) # None
                                /\ Convertible(q.currency, r.currency)
                                /\ ~(Total(q, r) < 0)
BY RulesConstants DEF Comparable, Exclusion

LEMMA AddOnIsInt ==
    ASSUME NEW q, NEW r, Convertible(q.currency, r.currency), NEW amount \in Int \union {None}
    PROVE  AddOn(amount, q, r) \in Int
BY ConvertMonotone DEF AddOn

\* What a cost is made of.
LEMMA CostParts ==
    ASSUME NEW q, IsQuote(q), NEW r, IsRequest(r), Comparable(q, r)
    PROVE  /\ q.price \in Int /\ q.price > 0
           /\ UnitPriceBase(q, r) \in Int /\ Taxable(q, r) \in Int /\ Taxes(q, r) \in Int
           /\ Subtotal(q, r) \in Int /\ Total(q, r) \in Int /\ Total(q, r) >= 0
           /\ AddOn(q.shipping, q, r) \in Int /\ AddOn(q.callout, q, r) \in Int
           /\ AddOn(q.duties, q, r) \in Int /\ AddOn(q.taxes, q, r) \in Int /\ AddOn(q.discount, q, r) \in Int
<1>1. /\ q.price # None /\ ~(q.price <= 0) /\ PriceMultiplier(q.unit, r.unit) # None
      /\ Convertible(q.currency, r.currency) /\ ~(Total(q, r) < 0)
  BY ComparableMeans
<1>2. q.price \in Int /\ q.price > 0
  BY <1>1 DEF IsQuote
<1>3. UnitPriceBase(q, r) \in Int
  <2> DEFINE by == PriceMultiplier(q.unit, r.unit)
             p == 100 * q.price
  <2>1. by[1] \in Int /\ by[1] > 0 /\ by[2] \in Int /\ by[2] > 0
    BY <1>1, MultiplierIsRatio DEF IsQuote
  <2>2. p \in Int /\ p <= p
    BY <1>2
  <2>3. UnitPriceBase(q, r) = Convert(p, q.currency, r.currency, by[1], by[2])
    BY DEF UnitPriceBase
  <2> HIDE DEF by, p
  <2> QED
    BY <1>1, <2>1, <2>2, <2>3, ConvertMonotone
<1>4. /\ AddOn(q.shipping, q, r) \in Int /\ AddOn(q.callout, q, r) \in Int
      /\ AddOn(q.duties, q, r) \in Int /\ AddOn(q.taxes, q, r) \in Int /\ AddOn(q.discount, q, r) \in Int
  BY <1>1, AddOnIsInt DEF IsQuote
<1>5. r.quantity \in Int
  BY DEF IsRequest
<1>6. Taxable(q, r) \in Int
  <2> DEFINE x == UnitPriceBase(q, r) * r.quantity
  <2>1. x \in Int
    BY <1>3, <1>5
  <2>2. Taxable(q, r) = HalfUp(x, 100) + AddOn(q.shipping, q, r) + AddOn(q.callout, q, r)
    BY DEF Taxable
  <2> HIDE DEF x
  <2>3. HalfUp(x, 100) \in Int
    BY <2>1, HalfUpBounds
  <2> QED
    BY <2>2, <2>3, <1>4
<1>7. Taxes(q, r) \in Int
  <2>1. GstRate(q, r) # None => GstRate(q, r) \in Int
    BY DEF GstRate, IsQuote, IsRequest
  <2>2. ASSUME GstRate(q, r) # None PROVE HalfUp(Taxable(q, r) * GstRate(q, r), 100) \in Int
    <3>1. Taxable(q, r) * GstRate(q, r) \in Int
      BY <2>1, <2>2, <1>6
    <3> QED
      BY <3>1, HalfUpBounds
  <2> QED
    BY <2>2, <1>4 DEF Taxes
<1>8. Subtotal(q, r) \in Int
  BY <1>4, <1>6, <1>7 DEF Subtotal
<1>9. Total(q, r) \in Int
  <2> DEFINE source == FactorFor(q.incoterms)
             target == FactorFor(r.incoterms)
             n == Subtotal(q, r) * (100 + target)
             d == 100 + source
  <2>1. source \in Nat /\ target \in Nat
    BY FactorsAreNatural
  <2>2. n \in Int /\ d \in Int /\ d > 0
    BY <1>8, <2>1
  <2>3. Total(q, r) = IF source = target THEN Subtotal(q, r) ELSE HalfUp(n, d)
    BY DEF Total
  <2> HIDE DEF source, target, n, d
  <2> QED
    BY <1>8, <2>2, <2>3, HalfUpBounds
<1> QED
  BY <1>1, <1>2, <1>3, <1>4, <1>6, <1>7, <1>8, <1>9

\* The same quote at a lower price costs no more.
LEMMA LowerPriceCostsNoMore ==
    ASSUME NEW q, IsQuote(q), NEW p, IsQuote(p), NEW r, IsRequest(r), Comparable(q, r), Comparable(p, r),
           p.price <= q.price,
           p.currency = q.currency, p.unit = q.unit, p.shipping = q.shipping, p.callout = q.callout,
           p.duties = q.duties, p.taxes = q.taxes, p.discount = q.discount, p.gst = q.gst,
           p.incoterms = q.incoterms
    PROVE  Total(p, r) <= Total(q, r)
<1>1. /\ p.price \in Int /\ Taxable(p, r) \in Int /\ Taxes(p, r) \in Int /\ Subtotal(p, r) \in Int
      /\ UnitPriceBase(p, r) \in Int /\ AddOn(p.taxes, p, r) \in Int /\ AddOn(p.duties, p, r) \in Int
      /\ AddOn(p.discount, p, r) \in Int /\ AddOn(p.shipping, p, r) \in Int /\ AddOn(p.callout, p, r) \in Int
  BY CostParts
<1>2. /\ q.price \in Int /\ Taxable(q, r) \in Int /\ Taxes(q, r) \in Int /\ Subtotal(q, r) \in Int
      /\ UnitPriceBase(q, r) \in Int
  BY CostParts
<1>3. /\ PriceMultiplier(q.unit, r.unit) # None /\ Convertible(q.currency, r.currency)
  BY ComparableMeans
<1>4. UnitPriceBase(p, r) <= UnitPriceBase(q, r)
  <2> DEFINE by == PriceMultiplier(q.unit, r.unit)
             x == 100 * p.price
             y == 100 * q.price
  <2>1. by[1] \in Int /\ by[1] > 0 /\ by[2] \in Int /\ by[2] > 0
    BY <1>3, MultiplierIsRatio DEF IsQuote
  <2>2. x \in Int /\ y \in Int /\ x <= y
    BY <1>1, <1>2
  <2>3. /\ UnitPriceBase(p, r) = Convert(x, q.currency, r.currency, by[1], by[2])
        /\ UnitPriceBase(q, r) = Convert(y, q.currency, r.currency, by[1], by[2])
    BY DEF UnitPriceBase
  <2> HIDE DEF by, x, y
  <2> QED
    BY <1>3, <2>1, <2>2, <2>3, ConvertMonotone
<1>5. \A amount : AddOn(amount, p, r) = AddOn(amount, q, r)
  BY DEF AddOn
<1>6. Taxable(p, r) <= Taxable(q, r)
  <2> DEFINE x == UnitPriceBase(p, r) * r.quantity
             y == UnitPriceBase(q, r) * r.quantity
             a == UnitPriceBase(p, r)
             b == UnitPriceBase(q, r)
             n == r.quantity
  <2>1. a \in Int /\ b \in Int /\ a <= b /\ n \in Nat /\ x = a * n /\ y = b * n
    BY <1>1, <1>2, <1>4 DEF IsRequest
  <2> HIDE DEF a, b, n, x, y
  <2>2. x \in Int /\ y \in Int /\ x <= y
    BY <2>1
  <2>3. HalfUp(x, 100) \in Int /\ HalfUp(y, 100) \in Int /\ HalfUp(x, 100) <= HalfUp(y, 100)
    BY <2>2, HalfUpBounds, HalfUpMono
  <2>4. /\ Taxable(p, r) = HalfUp(x, 100) + AddOn(p.shipping, p, r) + AddOn(p.callout, p, r)
        /\ Taxable(q, r) = HalfUp(y, 100) + AddOn(p.shipping, p, r) + AddOn(p.callout, p, r)
    BY <1>5 DEF Taxable, x, y
  <2> QED
    BY <1>1, <2>3, <2>4
<1>7. Taxes(p, r) <= Taxes(q, r)
  <2> DEFINE g == GstRate(q, r)
             stated == AddOn(p.taxes, p, r)
             a == Taxable(p, r)
             b == Taxable(q, r)
  <2>1. /\ Taxes(p, r) = IF stated = 0 /\ g # None THEN HalfUp(a * g, 100) ELSE stated
        /\ Taxes(q, r) = IF stated = 0 /\ g # None THEN HalfUp(b * g, 100) ELSE stated
    BY <1>5 DEF Taxes, GstRate
  <2>2. g # None => g \in Nat
    BY DEF GstRate, IsQuote, IsRequest
  <2>3. a \in Int /\ b \in Int /\ a <= b /\ stated \in Int
    BY <1>1, <1>2, <1>6
  <2> HIDE DEF g, stated, a, b
  <2>4. ASSUME g # None PROVE HalfUp(a * g, 100) <= HalfUp(b * g, 100)
    <3>1. a * g \in Int /\ b * g \in Int /\ a * g <= b * g
      BY <2>2, <2>3, <2>4
    <3> QED
      BY <3>1, HalfUpMono
  <2> QED
    BY <2>1, <2>3, <2>4
<1>8. Subtotal(p, r) <= Subtotal(q, r)
  <2>1. /\ Subtotal(p, r) = Taxable(p, r) + AddOn(p.duties, p, r) + Taxes(p, r) - AddOn(p.discount, p, r)
        /\ Subtotal(q, r) = Taxable(q, r) + AddOn(p.duties, p, r) + Taxes(q, r) - AddOn(p.discount, p, r)
    BY <1>5 DEF Subtotal
  <2> QED
    BY <2>1, <1>1, <1>2, <1>6, <1>7
<1> DEFINE source == FactorFor(q.incoterms)
           target == FactorFor(r.incoterms)
           a == Subtotal(p, r)
           b == Subtotal(q, r)
<1>9. source \in Nat /\ target \in Nat /\ a \in Int /\ b \in Int /\ a <= b
  BY FactorsAreNatural, <1>1, <1>2, <1>8
<1>10. /\ Total(p, r) = IF source = target THEN a ELSE HalfUp(a * (100 + target), 100 + source)
       /\ Total(q, r) = IF source = target THEN b ELSE HalfUp(b * (100 + target), 100 + source)
  BY DEF Total
<1> HIDE DEF source, target, a, b
<1>11. /\ a * (100 + target) \in Int /\ b * (100 + target) \in Int /\ a * (100 + target) <= b * (100 + target)
       /\ 100 + source \in Int /\ 100 + source > 0
  BY <1>9
<1>12. HalfUp(a * (100 + target), 100 + source) <= HalfUp(b * (100 + target), 100 + source)
  BY <1>11, HalfUpMono
<1> QED
  BY <1>9, <1>10, <1>12

-----------------------------------------------------------------------------
(* The largest and the smallest. *)

LEMMA MaxIs == ASSUME NEW T \in SUBSET Int, NEW x \in T, \A y \in T : y <= x PROVE Max(T) = x
<1> DEFINE m == CHOOSE k \in T : \A y \in T : k >= y
<1>1. \A y \in T : x >= y
  OBVIOUS
<1>2. m \in T /\ \A y \in T : m >= y
  BY <1>1
<1> HIDE DEF m
<1>3. m = x
  BY <1>1, <1>2
<1> QED
  BY <1>3 DEF Max, m

LEMMA MinIs == ASSUME NEW T \in SUBSET Int, NEW x \in T, \A y \in T : x <= y PROVE Min(T) = x
<1> DEFINE m == CHOOSE k \in T : \A y \in T : k <= y
<1>1. m \in T /\ \A y \in T : m <= y
  OBVIOUS
<1> HIDE DEF m
<1>2. m = x
  BY <1>1
<1> QED
  BY <1>2 DEF Min, m

LEMMA OfTwo ==
    ASSUME NEW a \in Int, NEW b \in Int
    PROVE  /\ Max({a, b}) = IF a <= b THEN b ELSE a
           /\ Min({a, b}) = IF a <= b THEN a ELSE b
<1>1. CASE a <= b
  BY <1>1, MaxIs, MinIs
<1>2. CASE ~(a <= b)
  BY <1>2, MaxIs, MinIs
<1> QED
  BY <1>1, <1>2

\* The figures of finitely many things have a largest and a smallest.
LEMMA Extremes ==
    ASSUME NEW S, IsFiniteSet(S), S # {}, NEW f, \A i \in S : f[i] \in Int
    PROVE  /\ \E i \in S : \A k \in S : f[k] <= f[i]
           /\ \E i \in S : \A k \in S : f[i] <= f[k]
<1> DEFINE U == {e \in S \X S : f[e[1]] > f[e[2]]}
           D == {e \in S \X S : f[e[1]] < f[e[2]]}
<1>1. \A x, y \in S : <<x, y>> \in U <=> f[x] > f[y]
  OBVIOUS
<1>2. \A x, y \in S : <<x, y>> \in D <=> f[x] < f[y]
  OBVIOUS
<1> HIDE DEF U, D
<1>3. \E x \in S : \A y \in S : <<y, x>> \notin U
  <2>1. \A x \in S : <<x, x>> \notin U
    BY <1>1
  <2>2. \A x, y, z \in S : <<x, y>> \in U /\ <<y, z>> \in U => <<x, z>> \in U
    BY <1>1
  <2> QED
    BY <2>1, <2>2, FirstElement
<1>4. \E x \in S : \A y \in S : <<y, x>> \notin D
  <2>1. \A x \in S : <<x, x>> \notin D
    BY <1>2
  <2>2. \A x, y, z \in S : <<x, y>> \in D /\ <<y, z>> \in D => <<x, z>> \in D
    BY <1>2
  <2> QED
    BY <2>1, <2>2, FirstElement
<1>5. \E i \in S : \A k \in S : f[k] <= f[i]
  <2>1. PICK x \in S : \A y \in S : <<y, x>> \notin U
    BY <1>3
  <2>2. \A y \in S : f[x] \in Int /\ f[y] \in Int /\ ~ (f[y] > f[x])
    BY <1>1, <2>1
  <2>3. \A y \in S : f[y] <= f[x]
    BY <2>2
  <2> QED
    BY <2>3
<1>6. \E i \in S : \A k \in S : f[i] <= f[k]
  <2>1. PICK x \in S : \A y \in S : <<y, x>> \notin D
    BY <1>4
  <2>2. \A y \in S : f[x] \in Int /\ f[y] \in Int /\ ~ (f[y] < f[x])
    BY <1>2, <2>1
  <2>3. \A y \in S : f[x] <= f[y]
    BY <2>2
  <2> QED
    BY <2>3
<1> QED
  BY <1>5, <1>6

-----------------------------------------------------------------------------
(* Scores. *)

LEMMA InterpolatedIsNat ==
    ASSUME NEW a, NEW s, Polyline(a), Slopes(a, s), \A i \in 1 .. Len(a) : a[i][2] >= 0, NEW v \in Int
    PROVE  Interpolate(a, v) \in Nat
<1>1. Len(a) \in Nat /\ Len(a) >= 2 /\ \A k \in 1 .. Len(a) : a[k][2] \in Int
  BY DEF Polyline
<1>2. 1 \in 1 .. Len(a) /\ Len(a) \in 1 .. Len(a) /\ \A i \in 1 .. Len(a) - 1 : i \in 1 .. Len(a) /\ i + 1 \in 1 .. Len(a)
  BY <1>1
<1>3. \A k \in 1 .. Len(a) : 100 * a[k][2] \in Nat
  BY <1>1
<1>4. /\ Interpolate(a, v) \in Int
      /\ \/ v <= a[1][1] /\ Interpolate(a, v) = 100 * a[1][2]
         \/ v >= a[Len(a)][1] /\ Interpolate(a, v) = 100 * a[Len(a)][2]
         \/ \E i \in 1 .. Len(a) - 1 : On(a, s, i, v)
  BY Interpolated
<1>5. ASSUME NEW i \in 1 .. Len(a) - 1, On(a, s, i, v) PROVE Interpolate(a, v) \in Nat
  <2> DEFINE x == 100 * a[i][2]
             y == 100 * a[i + 1][2]
             p == Interpolate(a, v)
  <2>1. x \in Nat /\ y \in Nat /\ p \in Int /\ s \in {1, -1}
    BY <1>2, <1>3, <1>4 DEF Slopes
  <2>2. s * x <= s * p /\ s * p <= s * y
    BY <1>5 DEF On
  <2> HIDE DEF x, y, p
  <2>3. p \in Nat
    BY <2>1, <2>2
  <2> QED
    BY <2>3 DEF p
<1> QED
  BY <1>2, <1>3, <1>4, <1>5

\* What the tables give, and which way.
LEMMA TablesFall ==
    ASSUME NEW a \in {LeadAnchors, ResponseAnchors}, NEW u \in Int, NEW v \in Int, u <= v
    PROVE  Interpolate(a, u) \in Nat /\ Interpolate(a, v) \in Nat /\ Interpolate(a, v) <= Interpolate(a, u)
<1>1. Polyline(a) /\ Slopes(a, -1)
  BY Tables
<1>2. \A i \in 1 .. Len(a) : a[i][2] >= 0
  <2>1. \A i \in 1 .. Len(LeadAnchors) : LeadAnchors[i][2] >= 0
    BY DEF LeadAnchors
  <2>2. \A i \in 1 .. Len(ResponseAnchors) : ResponseAnchors[i][2] >= 0
    BY DEF ResponseAnchors
  <2> QED
    BY <2>1, <2>2
<1>3. Interpolate(a, u) \in Nat /\ Interpolate(a, v) \in Nat
  BY <1>1, <1>2, InterpolatedIsNat
<1> DEFINE s == -1
<1>4. s * Interpolate(a, u) <= s * Interpolate(a, v)
  <2>1. Slopes(a, s)
    BY <1>1
  <2> HIDE DEF s
  <2> QED
    BY <1>1, <2>1, PolylineMonotone
<1> QED
  BY <1>3, <1>4

LEMMA TablesRise ==
    ASSUME NEW a \in {TermAnchors, WarrantyAnchors, ValidityAnchors}, NEW u \in Int, NEW v \in Int, u <= v
    PROVE  Interpolate(a, u) \in Nat /\ Interpolate(a, v) \in Nat /\ Interpolate(a, u) <= Interpolate(a, v)
<1>1. Polyline(a) /\ Slopes(a, 1)
  BY Tables
<1>2. \A i \in 1 .. Len(a) : a[i][2] >= 0
  <2>1. CASE a = TermAnchors
    BY <2>1 DEF TermAnchors
  <2>2. CASE a = WarrantyAnchors
    BY <2>2 DEF WarrantyAnchors
  <2>3. CASE a = ValidityAnchors
    BY <2>3 DEF ValidityAnchors
  <2> QED
    BY <2>1, <2>2, <2>3
<1>3. Interpolate(a, u) \in Nat /\ Interpolate(a, v) \in Nat
  BY <1>1, <1>2, InterpolatedIsNat
<1>4. 1 * Interpolate(a, u) <= 1 * Interpolate(a, v)
  BY <1>1, PolylineMonotone
<1> QED
  BY <1>3, <1>4

LEMMA LeadScores ==
    ASSUME NEW p \in Int \union {None}, NEW q \in Int \union {None}, NoLater(p, q)
    PROVE  /\ ScoreLead(p) \in Nat /\ ScoreLead(q) \in Nat /\ ScoreLead(q) <= ScoreLead(p)
           /\ ScoreResponse(p) \in Nat /\ ScoreResponse(q) \in Nat /\ ScoreResponse(q) <= ScoreResponse(p)
<1>1. CASE p = None \/ q = None
  <2>1. p = q
    BY <1>1 DEF NoLater
  <2> QED
    BY <1>1, <2>1 DEF ScoreLead, ScoreResponse, Unknown
<1>2. CASE p # None /\ q # None /\ p < 0
  <2>1. p \in Int /\ q = p
    BY <1>2 DEF NoLater
  <2> QED
    BY <1>2, <2>1 DEF ScoreLead, ScoreResponse
<1>3. CASE p # None /\ q # None /\ ~(p < 0) /\ q < 0
  <2>1. p \in Int /\ q \in Int /\ p <= p
    BY <1>3
  <2> QED
    BY <1>3, <2>1, TablesFall DEF ScoreLead, ScoreResponse
<1>4. CASE p # None /\ q # None /\ ~(p < 0) /\ ~(q < 0)
  <2>1. p \in Int /\ q \in Int /\ p <= q
    BY <1>4 DEF NoLater
  <2> QED
    BY <1>4, <2>1, TablesFall DEF ScoreLead, ScoreResponse
<1> QED
  BY <1>1, <1>2, <1>3, <1>4

LEMMA ValidityScores ==
    ASSUME NEW p \in Int \union {None}, NEW q \in Int \union {None}, NoMore(q, p)
    PROVE  ScoreValidity(p) \in Nat /\ ScoreValidity(q) \in Nat /\ ScoreValidity(q) <= ScoreValidity(p)
<1>1. CASE p = None \/ q = None
  <2>1. p = q
    BY <1>1 DEF NoMore
  <2> QED
    BY <1>1, <2>1 DEF ScoreValidity, Unknown
<1>2. CASE p # None /\ q # None
  <2>1. p \in Int /\ q \in Int /\ q <= p
    BY <1>2 DEF NoMore
  <2>2. /\ Interpolate(ValidityAnchors, p) \in Nat /\ Interpolate(ValidityAnchors, q) \in Nat
        /\ Interpolate(ValidityAnchors, q) <= Interpolate(ValidityAnchors, p)
    BY <2>1, TablesRise
  <2> QED
    BY <1>2, <2>1, <2>2 DEF ScoreValidity
<1> QED
  BY <1>1, <1>2

LEMMA WarrantyScores ==
    ASSUME NEW p \in Int \union {None}, NEW q \in Int \union {None}, NoMore(q, p)
    PROVE  ScoreWarranty(p) \in Nat /\ ScoreWarranty(q) \in Nat /\ ScoreWarranty(q) <= ScoreWarranty(p)
<1>1. CASE p = None \/ q = None
  <2>1. p = q
    BY <1>1 DEF NoMore
  <2> QED
    BY <1>1, <2>1 DEF ScoreWarranty, Unknown
<1>2. CASE p # None /\ q # None
  <2>1. p \in Int /\ q \in Int /\ q <= p
    BY <1>2 DEF NoMore
  <2> DEFINE x == Max({0, p})
             y == Max({0, q})
  <2>2. x \in Int /\ y \in Int /\ y <= x
    BY <2>1, OfTwo
  <2>3. ScoreWarranty(p) = Interpolate(WarrantyAnchors, x) /\ ScoreWarranty(q) = Interpolate(WarrantyAnchors, y)
    BY <1>2 DEF ScoreWarranty
  <2> HIDE DEF x, y
  <2>4. /\ Interpolate(WarrantyAnchors, x) \in Nat /\ Interpolate(WarrantyAnchors, y) \in Nat
        /\ Interpolate(WarrantyAnchors, y) <= Interpolate(WarrantyAnchors, x)
    BY <2>2, TablesRise
  <2> QED
    BY <2>3, <2>4
<1> QED
  BY <1>1, <1>2

LEMMA SmallerIsInt == ASSUME NEW n \in Int, NEW m \in Int PROVE Min({n, m}) \in Int
<1>1. Min({n, m}) = IF n <= m THEN n ELSE m
  BY OfTwo
<1> QED
  BY <1>1

LEMMA TermDaysIsInt ==
    ASSUME NEW terms, terms # None => terms.numbers \in Seq(Int)
    PROVE  TermDays(terms) \in Int \union {None}
<1>1. ASSUME terms # None, ~terms.upfront, terms.numbers # <<>>
      PROVE  Min({terms.numbers[Len(terms.numbers)], 365}) \in Int
  <2>1. terms.numbers[Len(terms.numbers)] \in Int
    BY <1>1
  <2> DEFINE n == terms.numbers[Len(terms.numbers)]
  <2> HIDE DEF n
  <2>2. Min({n, 365}) \in Int
    BY <2>1, SmallerIsInt DEF n
  <2> QED
    BY <2>1, <2>2 DEF n
<1> QED
  BY <1>1 DEF TermDays

LEMMA TermScores ==
    ASSUME NEW p, NEW q, TermDays(p) \in Int \union {None}, TermDays(q) \in Int \union {None},
           NoMore(TermDays(q), TermDays(p))
    PROVE  ScoreTerms(p) \in Nat /\ ScoreTerms(q) \in Nat /\ ScoreTerms(q) <= ScoreTerms(p)
<1>1. CASE TermDays(p) = None \/ TermDays(q) = None
  <2>1. TermDays(p) = TermDays(q)
    BY <1>1 DEF NoMore
  <2> QED
    BY <1>1, <2>1 DEF ScoreTerms, Unknown
<1>2. CASE TermDays(p) # None /\ TermDays(q) # None
  <2>1. TermDays(p) \in Int /\ TermDays(q) \in Int /\ TermDays(q) <= TermDays(p)
    BY <1>2 DEF NoMore
  <2> QED
    BY <1>2, <2>1, TablesRise DEF ScoreTerms
<1> QED
  BY <1>1, <1>2

PenaltyTable == {<<1, 0>>, <<2, 1505>>, <<5, 3495>>, <<10, 5000>>, <<20, 6505>>, <<50, 8495>>, <<100, 10000>>}

Penalties(moq, quantity) == {row[2] : row \in {r \in PenaltyTable : r[1] * quantity <= moq}}

LEMMA PenaltyIs ==
    ASSUME NEW moq \in Int, NEW quantity \in Int, quantity <= moq
    PROVE  /\ LogPenalty(moq, quantity) \in Penalties(moq, quantity)
           /\ \A y \in Penalties(moq, quantity) : y <= LogPenalty(moq, quantity)
           /\ LogPenalty(moq, quantity) \in Nat /\ LogPenalty(moq, quantity) <= 10000
<1> DEFINE T == Penalties(moq, quantity)
<1>1. LogPenalty(moq, quantity) = Max(T)
  BY DEF LogPenalty, Penalties, PenaltyTable
<1>2. \A row \in PenaltyTable : row[1] \in Int /\ row[2] \in Nat /\ row[2] <= 10000
  BY DEF PenaltyTable
<1>3. \A y \in T : y \in Nat /\ y <= 10000
  BY <1>2 DEF Penalties
<1>4. <<1, 0>> \in PenaltyTable /\ 1 * quantity <= moq
  BY DEF PenaltyTable
<1>5. <<1, 0>>[2] \in T
  BY <1>4 DEF Penalties
<1> HIDE DEF T
<1>6. PICK x \in T : \A y \in T : y <= x
  <2> DEFINE n == 10000
  <2>0. n \in Nat /\ \A y \in T : y \in Nat /\ y <= n
    BY <1>3
  <2> HIDE DEF n
  <2>1. T \in SUBSET (0 .. n) /\ T # {}
    BY <1>5, <2>0
  <2> QED
    BY <2>0, <2>1, GreatestNumber
<1>7. T \in SUBSET Int
  BY <1>3
<1>8. Max(T) = x
  BY <1>6, <1>7, MaxIs
<1> QED
  <2>1. x \in Nat /\ x <= 10000
    BY <1>3
  <2>2. LogPenalty(moq, quantity) = x
    BY <1>1, <1>8
  <2> QED
    BY <2>1, <2>2, <1>6 DEF T

LEMMA PenaltyGrows ==
    ASSUME NEW p \in Int, NEW q \in Int, NEW quantity \in Int, quantity <= p, p <= q
    PROVE  LogPenalty(p, quantity) <= LogPenalty(q, quantity)
<1>1. LogPenalty(p, quantity) \in Penalties(p, quantity)
  BY PenaltyIs
<1>2. quantity <= q /\ \A y \in Penalties(q, quantity) : y <= LogPenalty(q, quantity)
  BY PenaltyIs
<1>3. \A row \in PenaltyTable : row[1] \in Int /\ row[1] * quantity \in Int
  BY DEF PenaltyTable
<1>4. \A row \in PenaltyTable : row[1] * quantity <= p => row[1] * quantity <= q
  BY <1>3
<1>5. Penalties(p, quantity) \subseteq Penalties(q, quantity)
  BY <1>4 DEF Penalties
<1> QED
  BY <1>1, <1>2, <1>5

LEMMA MoqScores ==
    ASSUME NEW p \in Int \union {None}, NEW q \in Int \union {None}, NoMore(p, q), NEW quantity \in Nat
    PROVE  /\ ScoreMoq(p, quantity) \in Nat /\ ScoreMoq(q, quantity) \in Nat
           /\ ScoreMoq(q, quantity) <= ScoreMoq(p, quantity)
<1>1. CASE p = None \/ q = None
  <2>1. p = q
    BY <1>1 DEF NoMore
  <2>2. ScoreMoq(p, quantity) \in Nat
    <3>1. CASE p = None
      BY <3>1 DEF ScoreMoq, Unknown
    <3> QED
      BY <3>1, <2>1, <1>1
  <2> QED
    BY <2>1, <2>2
<1>2. CASE p # None /\ q # None
  <2>1. p \in Int /\ q \in Int /\ p <= q
    BY <1>2 DEF NoMore
  <2> DEFINE a == LogPenalty(p, quantity)
             b == LogPenalty(q, quantity)
             s == ScoreMoq(p, quantity)
             t == ScoreMoq(q, quantity)
  <2>0. quantity \in Int
    OBVIOUS
  <2>a. quantity <= p => a \in Nat /\ a <= 10000
    BY <2>0, <2>1, PenaltyIs, SMTT(60), ZenonT(90)
  <2>b. quantity <= q => b \in Nat /\ b <= 10000
    BY <2>0, <2>1, PenaltyIs, SMTT(60), ZenonT(90)
  <2>c. quantity <= p => a <= b
    BY <2>0, <2>1, PenaltyGrows
  <2>3. s = IF p <= 0 THEN 10000 ELSE IF quantity <= 0 THEN 5500
            ELSE IF p <= quantity THEN 10000 ELSE 10000 - a
    BY <1>2 DEF ScoreMoq, Unknown
  <2>4. t = IF q <= 0 THEN 10000 ELSE IF quantity <= 0 THEN 5500
            ELSE IF q <= quantity THEN 10000 ELSE 10000 - b
    BY <1>2 DEF ScoreMoq, Unknown
  <2> HIDE DEF a, b, s, t
  <2>5. ASSUME p <= quantity PROVE s \in Nat /\ t \in Nat /\ t <= s
    <3>1. p <= 0 => s = 10000
      BY <2>3
    <3>2. ~(p <= 0) /\ ~(quantity <= 0) => s = 10000
      BY <2>3, <2>5
    <3>3. ~(p <= 0) /\ quantity <= 0 => FALSE
      BY <2>1, <2>5
    <3>4. s = 10000
      BY <3>1, <3>2, <3>3
    <3>5. t \in {10000, 5500} \/ (~(q <= quantity) /\ t = 10000 - b)
      BY <2>4
    <3>6. ~(q <= quantity) => quantity <= q
      BY <2>1
    <3>7. t \in Nat /\ t <= 10000
      BY <3>5, <3>6, <2>b
    <3> QED
      BY <3>4, <3>7
  <2>6. ASSUME ~(p <= quantity) PROVE s \in Nat /\ t \in Nat /\ t <= s
    <3>1. ~(q <= quantity) /\ ~(p <= 0) /\ ~(q <= 0) /\ quantity <= p /\ quantity <= q
      BY <2>1, <2>6
    <3>2. a \in Nat /\ a <= 10000 /\ b \in Nat /\ b <= 10000 /\ a <= b
      BY <3>1, <2>a, <2>b, <2>c
    <3>3. CASE quantity <= 0
      BY <3>1, <3>3, <2>3, <2>4
    <3>4. CASE ~(quantity <= 0)
      <4>1. s = 10000 - a /\ t = 10000 - b
        BY <3>1, <3>4, <2>3, <2>4, <2>6
      <4> QED
        BY <4>1, <3>2
    <3> QED
      BY <3>3, <3>4
  <2>7. s \in Nat /\ t \in Nat /\ t <= s
    BY <2>5, <2>6
  <2> QED
    BY <2>7 DEF s, t
<1> QED
  BY <1>1, <1>2

LEMMA ComplianceScores ==
    ASSUME NEW p, NEW q, q \subseteq p, NEW required, IsFiniteSet(required)
    PROVE  /\ ScoreCompliance(p, required) \in Nat /\ ScoreCompliance(q, required) \in Nat
           /\ ScoreCompliance(q, required) <= ScoreCompliance(p, required)
<1>1. CASE required = {}
  <2>1. p = {} => q = {}
    OBVIOUS
  <2> QED
    BY <1>1, <2>1 DEF ScoreCompliance, Unknown
<1>2. CASE required # {}
  <2> DEFINE n == Cardinality(required)
             a == Cardinality(required \intersect p)
             b == Cardinality(required \intersect q)
  <2>1. n \in Nat /\ n > 0
    <3>1. n \in Nat /\ (n = 0 <=> required = {})
      BY FS_EmptySet, FS_CardinalityType
    <3> QED
      BY <3>1, <1>2
  <2>2. a \in Nat /\ b \in Nat /\ b <= a
    <3>1. IsFiniteSet(required \intersect p) /\ IsFiniteSet(required \intersect q)
      BY FS_Subset
    <3>2. (required \intersect q) \in SUBSET (required \intersect p)
      OBVIOUS
    <3> QED
      BY <3>1, <3>2, FS_Subset, FS_CardinalityType
  <2>3. /\ ScoreCompliance(p, required) = HalfUp(10000 * a, n)
        /\ ScoreCompliance(q, required) = HalfUp(10000 * b, n)
    BY <1>2 DEF ScoreCompliance
  <2> HIDE DEF n, a, b
  <2>4. 10000 * a \in Nat /\ 10000 * b \in Nat /\ 10000 * b <= 10000 * a
    BY <2>2
  <2>5. HalfUp(10000 * a, n) \in Nat /\ HalfUp(10000 * b, n) \in Nat
    BY <2>1, <2>4, HalfUpNat
  <2>6. HalfUp(10000 * b, n) <= HalfUp(10000 * a, n)
    BY <2>1, <2>4, HalfUpMono
  <2> QED
    BY <2>3, <2>5, <2>6
<1> QED
  BY <1>1, <1>2

LEMMA RiskScores ==
    ASSUME NEW p \in {"low", "medium", "high"}, NEW q \in {"low", "medium", "high"},
           p = q \/ p = "low" \/ q = "high"
    PROVE  ScoreRisk(p) \in Nat /\ ScoreRisk(q) \in Nat /\ ScoreRisk(q) <= ScoreRisk(p)
BY DEF ScoreRisk

\* Where a price stands between the smallest and the largest of a batch.
LEMMA PriceScores ==
    ASSUME NEW T \in SUBSET Int, NEW low \in T, NEW high \in T,
           \A t \in T : low <= t /\ t <= high,
           NEW t \in T
    PROVE  /\ Max(T) = high /\ Min(T) = low
           /\ ScorePrice(T, t) = IF high = low THEN 10000 ELSE HalfUp(10000 * (high - t), high - low)
           /\ ScorePrice(T, t) \in Nat
<1>1. Max(T) = high /\ Min(T) = low
  BY MaxIs, MinIs
<1>2. ScorePrice(T, t) = IF high = low THEN 10000 ELSE HalfUp(10000 * (high - t), high - low)
  BY <1>1 DEF ScorePrice
<1>3. ASSUME high # low PROVE HalfUp(10000 * (high - t), high - low) \in Nat
  <2>1. low \in Int /\ high \in Int /\ t \in Int /\ low <= high /\ t <= high
    OBVIOUS
  <2> DEFINE n == 10000 * (high - t)
             d == high - low
  <2>2. n \in Nat /\ d \in Int /\ d > 0
    BY <2>1, <1>3
  <2> HIDE DEF n, d
  <2>3. HalfUp(n, d) \in Nat
    BY <2>2, HalfUpNat
  <2> QED
    BY <2>3 DEF n, d
<1> QED
  BY <1>1, <1>2, <1>3

LEMMA CheaperScoresMore ==
    ASSUME NEW T \in SUBSET Int, NEW low \in T, NEW high \in T,
           \A t \in T : low <= t /\ t <= high,
           NEW t \in T, NEW u \in T, t <= u
    PROVE  ScorePrice(T, u) <= ScorePrice(T, t)
<1>1. CASE high = low
  BY <1>1, PriceScores
<1>2. CASE high # low
  <2>1. low \in Int /\ high \in Int /\ t \in Int /\ u \in Int /\ low <= high
    OBVIOUS
  <2> DEFINE m == 10000 * (high - u)
             n == 10000 * (high - t)
             d == high - low
  <2>2. m \in Int /\ n \in Int /\ m <= n /\ d \in Int /\ d > 0
    BY <2>1, <1>2
  <2>3. ScorePrice(T, u) = HalfUp(m, d) /\ ScorePrice(T, t) = HalfUp(n, d)
    BY <1>2, PriceScores
  <2> HIDE DEF m, n, d
  <2> QED
    BY <2>2, <2>3, HalfUpMono
<1> QED
  BY <1>1, <1>2

-----------------------------------------------------------------------------
(* Weighing the scores. *)

LEMMA SumsAreOrdered ==
    ASSUME NEW f, NEW g, \A c \in Criteria : f[c] \in Nat /\ g[c] \in Nat /\ f[c] <= g[c]
    PROVE  SumOf(f) \in Nat /\ SumOf(g) \in Nat /\ SumOf(f) <= SumOf(g)
<1>1. /\ f["price"] \in Nat /\ g["price"] \in Nat /\ f["price"] <= g["price"]
      /\ f["response"] \in Nat /\ g["response"] \in Nat /\ f["response"] <= g["response"]
      /\ f["lead"] \in Nat /\ g["lead"] \in Nat /\ f["lead"] <= g["lead"]
      /\ f["compliance"] \in Nat /\ g["compliance"] \in Nat /\ f["compliance"] <= g["compliance"]
      /\ f["terms"] \in Nat /\ g["terms"] \in Nat /\ f["terms"] <= g["terms"]
      /\ f["moq"] \in Nat /\ g["moq"] \in Nat /\ f["moq"] <= g["moq"]
      /\ f["validity"] \in Nat /\ g["validity"] \in Nat /\ f["validity"] <= g["validity"]
      /\ f["warranty"] \in Nat /\ g["warranty"] \in Nat /\ f["warranty"] <= g["warranty"]
      /\ f["risk"] \in Nat /\ g["risk"] \in Nat /\ f["risk"] <= g["risk"]
  BY DEF Criteria
<1> QED
  BY <1>1 DEF SumOf

LEMMA DefaultsWeigh ==
    ASSUME NEW procurement
    PROVE  /\ \A c \in Criteria : DefaultWeights(procurement)[c] \in Nat
           /\ SumOf(DefaultWeights(procurement)) = 100
BY DEF DefaultWeights, Criteria, SumOf

LEMMA WeightsWeigh ==
    ASSUME NEW r, IsRequest(r)
    PROVE  /\ \A c \in Criteria : Weights(r)[c] \in Nat
           /\ SumOf(Weights(r)) \in Nat /\ SumOf(Weights(r)) > 0
<1> DEFINE given == [c \in Criteria |-> IF c \in DOMAIN r.weights THEN Max({0, r.weights[c]}) ELSE 0]
<1>1. \A c \in Criteria : given[c] \in Nat
  <2> TAKE c \in Criteria
  <2>1. CASE c \in DOMAIN r.weights
    <3>1. r.weights[c] \in Int /\ 0 \in Int
      BY <2>1 DEF IsRequest
    <3>2. Max({0, r.weights[c]}) = IF 0 <= r.weights[c] THEN r.weights[c] ELSE 0
      BY <3>1, OfTwo
    <3>3. given[c] = Max({0, r.weights[c]})
      BY <2>1
    <3> QED
      BY <3>1, <3>2, <3>3
  <2>2. CASE c \notin DOMAIN r.weights
    BY <2>2
  <2> QED
    BY <2>1, <2>2
<1>2. Weights(r) = IF SumOf(given) = 0 THEN DefaultWeights(r.procurement) ELSE given
  BY DEF Weights
<1> HIDE DEF given
<1>3. SumOf(given) \in Nat
  BY <1>1, SumsAreOrdered
<1>4. CASE SumOf(given) = 0
  BY <1>2, <1>4, DefaultsWeigh
<1>5. CASE SumOf(given) # 0
  BY <1>1, <1>2, <1>3, <1>5
<1> QED
  BY <1>4, <1>5

LEMMA DockIs ==
    ASSUME NEW p, p.complete \in BOOLEAN, IsFiniteSet(p.missing)
    PROVE  /\ Dock(p) \in Nat /\ 50 <= Dock(p) /\ Dock(p) <= 100
           /\ p.complete => Dock(p) = 100
           /\ ~p.complete => Dock(p) = IF 50 <= 100 - 8 * Cardinality(p.missing)
                                       THEN 100 - 8 * Cardinality(p.missing) ELSE 50
<1> DEFINE n == 100 - 8 * Cardinality(p.missing)
<1>1. n \in Int /\ n <= 100
  BY FS_CardinalityType
<1>2. Dock(p) = IF p.complete THEN 100 ELSE Max({50, n})
  BY DEF Dock
<1> HIDE DEF n
<1>3. Max({50, n}) = IF 50 <= n THEN n ELSE 50
  BY <1>1, OfTwo
<1>4. /\ Dock(p) \in Nat /\ 50 <= Dock(p) /\ Dock(p) <= 100
      /\ p.complete => Dock(p) = 100
      /\ ~p.complete => Dock(p) = IF 50 <= n THEN n ELSE 50
  BY <1>1, <1>2, <1>3
<1> QED
  BY <1>4 DEF n

LEMMA DockShrinks ==
    ASSUME NEW p, p.complete \in BOOLEAN, IsFiniteSet(p.missing),
           NEW q, q.complete \in BOOLEAN, IsFiniteSet(q.missing),
           p.complete \/ (~q.complete /\ p.missing \subseteq q.missing)
    PROVE  Dock(q) <= Dock(p)
<1>1. CASE p.complete
  <2>1. Dock(q) \in Nat /\ Dock(q) <= 100
    BY DockIs
  <2>2. Dock(p) = 100
    BY <1>1 DEF Dock
  <2> QED
    BY <2>1, <2>2
<1>2. CASE ~p.complete
  <2> DEFINE m == Cardinality(p.missing)
             n == Cardinality(q.missing)
  <2>1. m \in Nat /\ n \in Nat /\ m <= n
    BY <1>2, FS_Subset, FS_CardinalityType
  <2>2. /\ Dock(p) = IF 50 <= 100 - 8 * m THEN 100 - 8 * m ELSE 50
        /\ Dock(q) = IF 50 <= 100 - 8 * n THEN 100 - 8 * n ELSE 50
    BY <1>2, DockIs
  <2> HIDE DEF m, n
  <2> QED
    BY <2>1, <2>2
<1> QED
  BY <1>1, <1>2

\* Scores no smaller, no licence more missing, no larger deduction: no smaller composite.
LEMMA CompositeOrder ==
    ASSUME NEW p, NEW q, NEW r, NEW T, NEW U, IsRequest(r),
           p.complete \in BOOLEAN, IsFiniteSet(p.missing), q.complete \in BOOLEAN, IsFiniteSet(q.missing),
           \A c \in Criteria : /\ Scores(p, r, T)[c] \in Nat /\ Scores(q, r, U)[c] \in Nat
                               /\ Scores(q, r, U)[c] <= Scores(p, r, T)[c],
           MissingAccreditations(q, r) = {} => MissingAccreditations(p, r) = {},
           Dock(q) <= Dock(p)
    PROVE  /\ Composite(p, r, T) \in Int /\ Composite(q, r, U) \in Int
           /\ Composite(q, r, U) <= Composite(p, r, T)
<1> DEFINE w == Weights(r)
           f == [c \in Criteria |-> Scores(q, r, U)[c] * w[c]]
           g == [c \in Criteria |-> Scores(p, r, T)[c] * w[c]]
           total == SumOf(w)
           s == SumOf(f)
           t == SumOf(g)
           x == IF MissingAccreditations(q, r) = {} THEN s ELSE Min({s, Cap * total})
           y == IF MissingAccreditations(p, r) = {} THEN t ELSE Min({t, Cap * total})
           a == x * Dock(q)
           b == y * Dock(p)
           d == 100 * total
<1>1. /\ \A c \in Criteria : w[c] \in Nat
      /\ total \in Nat /\ total > 0
  BY WeightsWeigh
<1>2. \A c \in Criteria : f[c] \in Nat /\ g[c] \in Nat /\ f[c] <= g[c]
  <2> TAKE c \in Criteria
  <2> DEFINE m == Scores(q, r, U)[c]
             n == Scores(p, r, T)[c]
             k == w[c]
  <2>1. m \in Nat /\ n \in Nat /\ m <= n /\ k \in Nat
    BY <1>1
  <2>2. f[c] = m * k /\ g[c] = n * k
    OBVIOUS
  <2> HIDE DEF m, n, k, f, g, w
  <2>3. m * k \in Nat /\ n * k \in Nat /\ m * k <= n * k
    BY <2>1
  <2> QED
    BY <2>2, <2>3
<1>3. /\ Composite(q, r, U) = HalfUp(a, d)
      /\ Composite(p, r, T) = HalfUp(b, d)
  BY DEF Composite
<1> HIDE DEF f, g, w
<1>4. s \in Nat /\ t \in Nat /\ s <= t
  BY <1>2, SumsAreOrdered
<1>5. Cap * total \in Nat
  BY <1>1 DEF Cap
<1> HIDE DEF s, t, total
<1>6. x \in Nat /\ y \in Nat /\ x <= y
  <2> DEFINE cap == Cap * total
  <2>1. cap \in Nat
    BY <1>5
  <2> HIDE DEF cap
  <2>4. s \in Int /\ t \in Int /\ cap \in Int
    BY <1>4, <2>1
  <2>2. /\ Min({s, cap}) = IF s <= cap THEN s ELSE cap
        /\ Min({t, cap}) = IF t <= cap THEN t ELSE cap
    BY ONLY <2>4, OfTwo
  <2>3. /\ x = IF MissingAccreditations(q, r) = {} THEN s ELSE Min({s, cap})
        /\ y = IF MissingAccreditations(p, r) = {} THEN t ELSE Min({t, cap})
    BY DEF cap
  <2> HIDE DEF x, y
  <2> QED
    BY <1>4, <2>1, <2>2, <2>3
<1> HIDE DEF x, y
<1>7. Dock(q) \in Nat /\ Dock(p) \in Nat
  BY DockIs
<1>8. a \in Int /\ b \in Int /\ a <= b
  <2> DEFINE m == Dock(q)
             n == Dock(p)
  <2>1. m \in Nat /\ n \in Nat /\ m <= n
    BY <1>7
  <2>2. a = x * m /\ b = y * n
    OBVIOUS
  <2> HIDE DEF m, n, a, b
  <2>3. x * m <= y * m /\ y * m <= y * n /\ x * m \in Int /\ y * m \in Int /\ y * n \in Int
    BY <1>6, <2>1
  <2> QED
    BY <2>2, <2>3
<1>9. d \in Int /\ d > 0
  BY <1>1 DEF total
<1> HIDE DEF a, b, d
<1>10. HalfUp(a, d) \in Int /\ HalfUp(b, d) \in Int /\ HalfUp(a, d) <= HalfUp(b, d)
  BY <1>8, <1>9, HalfUpBounds, HalfUpMono
<1> QED
  BY <1>3, <1>10

\* Two offers on one request, the second no better in anything but its cost.
LEMMA ScoresOrder ==
    ASSUME NEW p, IsQuote(p), NEW q, IsQuote(q), NEW r, IsRequest(r), NoWorse(p, q), NEW T, NEW U,
           ScorePrice(T, Total(p, r)) \in Nat, ScorePrice(U, Total(q, r)) \in Nat,
           ScorePrice(U, Total(q, r)) <= ScorePrice(T, Total(p, r))
    PROVE  /\ Composite(p, r, T) \in Int /\ Composite(q, r, U) \in Int
           /\ Composite(q, r, U) <= Composite(p, r, T)
<1>1. /\ p.response \in Int \union {None} /\ q.response \in Int \union {None}
      /\ p.lead \in Int \union {None} /\ q.lead \in Int \union {None}
      /\ p.moq \in Int \union {None} /\ q.moq \in Int \union {None}
      /\ p.validity \in Int \union {None} /\ q.validity \in Int \union {None}
      /\ p.warranty \in Int \union {None} /\ q.warranty \in Int \union {None}
      /\ p.terms # None => p.terms.numbers \in Seq(Int)
      /\ q.terms # None => q.terms.numbers \in Seq(Int)
      /\ p.risk \in {"low", "medium", "high"} /\ q.risk \in {"low", "medium", "high"}
      /\ p.complete \in BOOLEAN /\ q.complete \in BOOLEAN
      /\ IsFiniteSet(p.missing) /\ IsFiniteSet(q.missing)
  BY DEF IsQuote
<1>2. r.quantity \in Nat /\ IsFiniteSet(r.required)
  BY DEF IsRequest
<1>3. /\ NoLater(p.response, q.response) /\ NoLater(p.lead, q.lead) /\ NoMore(p.moq, q.moq)
      /\ NoMore(q.validity, p.validity) /\ NoMore(q.warranty, p.warranty)
      /\ NoMore(TermDays(q.terms), TermDays(p.terms))
      /\ q.held \subseteq p.held
      /\ p.risk = q.risk \/ p.risk = "low" \/ q.risk = "high"
      /\ p.complete \/ (~q.complete /\ p.missing \subseteq q.missing)
  BY DEF NoWorse
<1>4. /\ ScoreResponse(p.response) \in Nat /\ ScoreResponse(q.response) \in Nat
      /\ ScoreResponse(q.response) <= ScoreResponse(p.response)
  BY <1>1, <1>3, LeadScores
<1>5. /\ ScoreLead(p.lead) \in Nat /\ ScoreLead(q.lead) \in Nat /\ ScoreLead(q.lead) <= ScoreLead(p.lead)
  BY <1>1, <1>3, LeadScores
<1>6. /\ ScoreCompliance(p.held, r.required) \in Nat /\ ScoreCompliance(q.held, r.required) \in Nat
      /\ ScoreCompliance(q.held, r.required) <= ScoreCompliance(p.held, r.required)
  BY <1>2, <1>3, ComplianceScores
<1>7. /\ ScoreTerms(p.terms) \in Nat /\ ScoreTerms(q.terms) \in Nat
      /\ ScoreTerms(q.terms) <= ScoreTerms(p.terms)
  <2>1. TermDays(p.terms) \in Int \union {None} /\ TermDays(q.terms) \in Int \union {None}
    BY <1>1, TermDaysIsInt
  <2> QED
    BY <1>3, <2>1, TermScores
<1>8. /\ ScoreMoq(p.moq, r.quantity) \in Nat /\ ScoreMoq(q.moq, r.quantity) \in Nat
      /\ ScoreMoq(q.moq, r.quantity) <= ScoreMoq(p.moq, r.quantity)
  BY <1>1, <1>2, <1>3, MoqScores
<1>9. /\ ScoreValidity(p.validity) \in Nat /\ ScoreValidity(q.validity) \in Nat
      /\ ScoreValidity(q.validity) <= ScoreValidity(p.validity)
  BY <1>1, <1>3, ValidityScores
<1>10. /\ ScoreWarranty(p.warranty) \in Nat /\ ScoreWarranty(q.warranty) \in Nat
       /\ ScoreWarranty(q.warranty) <= ScoreWarranty(p.warranty)
  BY <1>1, <1>3, WarrantyScores
<1>11. ScoreRisk(p.risk) \in Nat /\ ScoreRisk(q.risk) \in Nat /\ ScoreRisk(q.risk) <= ScoreRisk(p.risk)
  BY <1>1, <1>3, RiskScores
<1>12. \A c \in Criteria : /\ Scores(p, r, T)[c] \in Nat /\ Scores(q, r, U)[c] \in Nat
                           /\ Scores(q, r, U)[c] <= Scores(p, r, T)[c]
  BY ZenonT(90), <1>4, <1>5, <1>6, <1>7, <1>8, <1>9, <1>10, <1>11 DEF Scores, Criteria
<1>13. MissingAccreditations(q, r) = {} => MissingAccreditations(p, r) = {}
  BY <1>3 DEF MissingAccreditations
<1>14. Dock(q) <= Dock(p)
  BY <1>1, <1>3, DockShrinks
<1> QED
  BY <1>1, <1>12, <1>13, <1>14, CompositeOrder

-----------------------------------------------------------------------------
(* Batches. *)

\* What a comparison may be given.
BatchHolds == matter.kind = "batch" => IsBatch(matter.batch) /\ IsRequest(matter.rfq)

LEMMA PlainFields ==
    /\ DOMAIN Plain = QuoteFields
    /\ Plain.terms.numbers \in Seq(Int) /\ IsFiniteSet(Plain.missing)
    /\ Plain.price = 500 /\ Plain.unit.pack = 0 /\ Plain.shipping = None /\ Plain.callout = None
    /\ Plain.duties = None /\ Plain.taxes = None /\ Plain.discount = None /\ Plain.gst = None
    /\ Plain.response = 8 /\ Plain.lead = 20 /\ Plain.moq = 5 /\ Plain.validity = 40 /\ Plain.warranty = 12
    /\ Plain.risk = "low" /\ Plain.complete \in BOOLEAN
<1>1. DOMAIN Plain = QuoteFields
  BY DEF Plain, QuoteFields
<1>2. Plain.terms.numbers = <<30>> /\ <<30>> \in Seq(Int)
  BY DEF Plain
<1>3. IsFiniteSet(Plain.missing)
  BY FS_EmptySet DEF Plain
<1> QED
  BY <1>1, <1>2, <1>3 DEF Plain, Each

LEMMA OffersAreQuotes == ASSUME NEW q \in Offers PROVE IsQuote(q)
<1>a. <<2, 10, 60>> \in Seq(Int) /\ <<>> \in Seq(Int)
  OBVIOUS
<1>b. IsFiniteSet({"validity"}) /\ IsFiniteSet({"price"}) /\ IsFiniteSet({"validity", "warranty"})
  <2>1. IsFiniteSet({"validity"}) /\ IsFiniteSet({"price"}) /\ IsFiniteSet({"validity"} \union {"warranty"})
    BY FS_Singleton, FS_AddElement
  <2>2. {"validity", "warranty"} = {"validity"} \union {"warranty"}
    OBVIOUS
  <2> QED
    BY <2>1, <2>2
<1>1. IsQuote(Plain)
  BY PlainFields DEF IsQuote, QuoteFields
<1>2. IsQuote([Plain EXCEPT !.price = 350, !.lead = 40, !.validity = 10])
  BY PlainFields DEF IsQuote, QuoteFields
<1>3. IsQuote([Plain EXCEPT !.price = 450, !.lead = 16])
  BY PlainFields DEF IsQuote, QuoteFields
<1>4. IsQuote([Plain EXCEPT !.price = 450, !.complete = FALSE, !.missing = {"validity", "warranty"}, !.warranty = None])
  BY PlainFields, <1>b DEF IsQuote, QuoteFields
<1>5. IsQuote([Plain EXCEPT !.price = 400, !.complete = FALSE, !.missing = {"validity"}])
  BY PlainFields, <1>b DEF IsQuote, QuoteFields
<1>6. IsQuote([Plain EXCEPT !.price = 300, !.held = {}, !.response = 100, !.risk = "high"])
  BY PlainFields DEF IsQuote, QuoteFields
<1>7. IsQuote([Plain EXCEPT !.price = 650, !.lead = 10, !.response = 2, !.terms = [upfront |-> FALSE, numbers |-> <<2, 10, 60>>]])
  <2> DEFINE t == [upfront |-> FALSE, numbers |-> <<2, 10, 60>>]
  <2>1. t.numbers \in Seq(Int)
    BY <1>a
  <2> HIDE DEF t
  <2>2. IsQuote([Plain EXCEPT !.price = 650, !.lead = 10, !.response = 2, !.terms = t])
    BY <2>1, PlainFields DEF IsQuote, QuoteFields
  <2> QED
    BY <2>2 DEF t
<1>8. IsQuote([Plain EXCEPT !.price = 400, !.lead = 100, !.terms = [upfront |-> TRUE, numbers |-> <<>>], !.moq = 100])
  <2> DEFINE t == [upfront |-> TRUE, numbers |-> <<>>]
  <2>1. t.numbers \in Seq(Int)
    BY <1>a
  <2> HIDE DEF t
  <2>2. IsQuote([Plain EXCEPT !.price = 400, !.lead = 100, !.terms = t, !.moq = 100])
    BY <2>1, PlainFields DEF IsQuote, QuoteFields
  <2> QED
    BY <2>2 DEF t
<1>9. IsQuote([Plain EXCEPT !.price = 3000, !.unit = [unit |-> "carton", pack |-> 10], !.shipping = 1000, !.incoterms = "ex works"])
  BY PlainFields DEF IsQuote, QuoteFields, Each
<1>10. IsQuote([Plain EXCEPT !.price = 500, !.currency = "Pounds", !.lead = None, !.discount = 1000, !.moq = None])
  BY PlainFields DEF IsQuote, QuoteFields
<1>11. IsQuote([Plain EXCEPT !.price = 600, !.gst = 9, !.duties = 350, !.callout = 250, !.validity = -1, !.lead = -5])
  BY PlainFields DEF IsQuote, QuoteFields
<1>12. IsQuote([Plain EXCEPT !.price = 450, !.discount = 4000, !.risk = "medium"])
  BY PlainFields DEF IsQuote, QuoteFields
<1>13. IsQuote([Plain EXCEPT !.unit = Each("kg")])
  BY PlainFields DEF IsQuote, QuoteFields, Each
<1>14. IsQuote([Plain EXCEPT !.currency = "XAU"])
  BY PlainFields DEF IsQuote, QuoteFields
<1>15. IsQuote([Plain EXCEPT !.price = None, !.complete = FALSE, !.missing = {"price"}])
  BY PlainFields, <1>b DEF IsQuote, QuoteFields
<1> QED
  BY <1>1, <1>2, <1>3, <1>4, <1>5, <1>6, <1>7, <1>8, <1>9, <1>10, <1>11, <1>12, <1>13, <1>14, <1>15 DEF Offers

LEMMA RequestsAreRequests == ASSUME NEW r \in Requests PROVE IsRequest(r)
<1>1. r.quantity \in Nat /\ r.gst \in Nat \union {None}
  BY DEF Requests
<1>2. IsFiniteSet(r.required)
  <2>1. r.required \in {{}, {"bca"}, {"bca", "iso"}}
    BY DEF Requests
  <2>2. IsFiniteSet({}) /\ IsFiniteSet({"bca"}) /\ IsFiniteSet({"bca"} \union {"iso"})
    BY FS_EmptySet, FS_Singleton, FS_AddElement
  <2>3. {"bca", "iso"} = {"bca"} \union {"iso"}
    OBVIOUS
  <2> QED
    BY <2>1, <2>2, <2>3
<1>3. \A c \in Criteria : c \in DOMAIN r.weights => r.weights[c] \in Int
  <2> DEFINE own == [c \in {"price", "lead", "risk"} |->
                        CASE c = "price" -> 5 [] c = "lead" -> 60 [] c = "risk" -> -5]
  <2>1. r.weights = <<>> \/ r.weights = own
    BY DEF Requests
  <2>2. \A c \in DOMAIN own : own[c] \in Int
    OBVIOUS
  <2>3. DOMAIN <<>> = {}
    OBVIOUS
  <2> HIDE DEF own
  <2> QED
    BY <2>1, <2>2, <2>3
<1> QED
  BY <1>1, <1>2, <1>3 DEF IsRequest

\* Whatever the run compares is a batch of quotes on a request.
THEOREM BatchesHold == RulesSpec => []BatchHolds
<1>1. RulesInit => BatchHolds
  <2> SUFFICES ASSUME RulesInit, matter.kind = "batch"
               PROVE  IsBatch(matter.batch) /\ IsRequest(matter.rfq)
    BY DEF BatchHolds
  <2>1. matter \in Comparisons
    BY DEF RulesInit, Submissions
  <2>2. matter.rfq \in Requests
    BY <2>1 DEF Comparisons
  <2>3. PICK n \in 1 .. 3 : matter.batch \in [1 .. n -> Offers]
    BY <2>1 DEF Comparisons
  <2>4. DOMAIN matter.batch = 1 .. n /\ IsFiniteSet(1 .. n) /\ 1 .. n \subseteq Nat
    BY <2>3, FS_Interval
  <2>5. \A i \in DOMAIN matter.batch : IsQuote(matter.batch[i])
    BY <2>3, OffersAreQuotes
  <2> QED
    BY <2>2, <2>4, <2>5, RequestsAreRequests DEF IsBatch
<1>2. BatchHolds /\ [RulesNext]_<<vars, limiterVars, matter>> => BatchHolds'
  BY DEF BatchHolds, RulesNext
<1> QED
  BY <1>1, <1>2, PTL DEF RulesSpec

TotalsOf(batch, r) == {Total(batch[i], r) : i \in Rankable(batch, r)}

LEMMA TotalsSpan ==
    ASSUME NEW batch, IsBatch(batch), NEW r, IsRequest(r)
    PROVE  /\ Rankable(batch, r) \subseteq DOMAIN batch /\ IsFiniteSet(Rankable(batch, r))
           /\ TotalsOf(batch, r) \in SUBSET Int
           /\ Rankable(batch, r) # {} =>
                \E low, high \in TotalsOf(batch, r) : \A t \in TotalsOf(batch, r) : low <= t /\ t <= high
<1> DEFINE S == Rankable(batch, r)
           T == TotalsOf(batch, r)
           f == [i \in S |-> Total(batch[i], r)]
<1>1. S \subseteq DOMAIN batch /\ IsFiniteSet(S)
  BY FS_Subset DEF IsBatch, Rankable
<1>2. \A i \in S : Total(batch[i], r) \in Int
  BY CostParts DEF Rankable, IsBatch
<1>3. T \in SUBSET Int
  BY <1>2 DEF TotalsOf
<1>4. ASSUME S # {} PROVE \E low, high \in T : \A t \in T : low <= t /\ t <= high
  <2>1. \A i \in S : f[i] \in Int
    BY <1>2
  <2>2. /\ \A i \in S : f[i] \in T
        /\ \A t \in T : \E i \in S : t = f[i]
    BY DEF TotalsOf
  <2> HIDE DEF f, S, T
  <2>3. /\ \E i \in S : \A k \in S : f[k] <= f[i]
        /\ \E i \in S : \A k \in S : f[i] <= f[k]
    BY <1>1, <1>4, <2>1, Extremes
  <2>4. PICK i \in S : \A k \in S : f[k] <= f[i]
    BY <2>3
  <2>5. PICK j \in S : \A k \in S : f[j] <= f[k]
    BY <2>3
  <2>6. \A t \in T : f[j] <= t /\ t <= f[i]
    BY <2>2, <2>4, <2>5
  <2> QED
    BY <2>2, <2>6
<1> QED
  BY <1>1, <1>3, <1>4

LEMMA PriceScoreIsNat ==
    ASSUME NEW batch, IsBatch(batch), NEW r, IsRequest(r), NEW i \in Rankable(batch, r)
    PROVE  ScorePrice(TotalsOf(batch, r), Total(batch[i], r)) \in Nat
<1> DEFINE T == TotalsOf(batch, r)
           t == Total(batch[i], r)
<1>1. t \in T
  BY DEF TotalsOf
<1>2. T \in SUBSET Int /\ \E low, high \in T : \A u \in T : low <= u /\ u <= high
  BY TotalsSpan
<1> HIDE DEF T, t
<1>3. PICK low \in T, high \in T : \A u \in T : low <= u /\ u <= high
  BY <1>2
<1>4. ScorePrice(T, t) \in Nat
  BY <1>1, <1>2, <1>3, PriceScores
<1> QED
  BY <1>4 DEF T, t

LEMMA NoWorseThanItself == ASSUME NEW p, p.complete \in BOOLEAN PROVE NoWorse(p, p)
BY DEF NoWorse, NoMore, NoLater

\* What a run knows of each quote it ranks.
LEMMA CardIs ==
    ASSUME NEW batch, IsBatch(batch), NEW r, IsRequest(r)
    PROVE  /\ DOMAIN Card(batch, r) = Rankable(batch, r)
           /\ \A i \in Rankable(batch, r) :
                /\ Card(batch, r)[i].late = IF batch[i].complete THEN 0 ELSE 1
                /\ Card(batch, r)[i].score = Composite(batch[i], r, TotalsOf(batch, r))
                /\ Card(batch, r)[i].total = Total(batch[i], r)
                /\ Card(batch, r)[i].late \in {0, 1}
                /\ Card(batch, r)[i].score \in Int
                /\ Card(batch, r)[i].total \in Int
<1>1. /\ DOMAIN Card(batch, r) = Rankable(batch, r)
      /\ \A i \in Rankable(batch, r) :
           /\ Card(batch, r)[i].late = IF batch[i].complete THEN 0 ELSE 1
           /\ Card(batch, r)[i].score = Composite(batch[i], r, TotalsOf(batch, r))
           /\ Card(batch, r)[i].total = Total(batch[i], r)
  BY DEF Card, TotalsOf
<1>2. ASSUME NEW i \in Rankable(batch, r)
      PROVE  Composite(batch[i], r, TotalsOf(batch, r)) \in Int /\ Total(batch[i], r) \in Int
  <2>1. IsQuote(batch[i]) /\ Comparable(batch[i], r)
    BY DEF Rankable, IsBatch
  <2>2. Total(batch[i], r) \in Int
    BY <2>1, CostParts
  <2>3. batch[i].complete \in BOOLEAN
    BY <2>1 DEF IsQuote
  <2> DEFINE s == ScorePrice(TotalsOf(batch, r), Total(batch[i], r))
  <2>4. s \in Nat /\ s <= s
    BY PriceScoreIsNat
  <2>5. NoWorse(batch[i], batch[i])
    BY <2>3, NoWorseThanItself
  <2>6. Composite(batch[i], r, TotalsOf(batch, r)) \in Int
    BY <2>1, <2>4, <2>5, ScoresOrder
  <2> QED
    BY <2>2, <2>6
<1> QED
  BY <1>1, <1>2

LEMMA Dominated ==
    ASSUME NEW batch, IsBatch(batch), NEW r, IsRequest(r),
           NEW i \in Rankable(batch, r), NEW j \in Rankable(batch, r),
           Card(batch, r)[i].total < Card(batch, r)[j].total, NoWorse(batch[i], batch[j])
    PROVE  Ahead(Card(batch, r), i, j)
<1> DEFINE card == Card(batch, r)
           T == TotalsOf(batch, r)
           t == Total(batch[i], r)
           u == Total(batch[j], r)
<1>1. IsQuote(batch[i]) /\ IsQuote(batch[j])
  BY DEF Rankable, IsBatch
<1>2. t \in T /\ u \in T
  BY DEF TotalsOf
<1>3. t \in Int /\ u \in Int /\ t < u
  BY CardIs
<1>4. T \in SUBSET Int /\ \E low, high \in T : \A v \in T : low <= v /\ v <= high
  BY TotalsSpan
<1>5. ScorePrice(T, u) <= ScorePrice(T, t)
  <2> HIDE DEF T, t, u
  <2>1. PICK low \in T, high \in T : \A v \in T : low <= v /\ v <= high
    BY <1>4
  <2>2. t <= u
    BY <1>3
  <2> QED
    BY <1>2, <1>4, <2>1, <2>2, CheaperScoresMore
<1>6. ScorePrice(T, u) \in Nat /\ ScorePrice(T, t) \in Nat
  BY PriceScoreIsNat
<1>7. Composite(batch[j], r, T) <= Composite(batch[i], r, T)
  BY <1>1, <1>5, <1>6, ScoresOrder
<1>8. /\ card[i].late = IF batch[i].complete THEN 0 ELSE 1
      /\ card[j].late = IF batch[j].complete THEN 0 ELSE 1
      /\ card[i].score \in Int /\ card[j].score \in Int /\ card[j].score <= card[i].score
      /\ card[i].total < card[j].total
  BY <1>7, CardIs
<1>9. batch[i].complete \/ ~batch[j].complete
  BY DEF NoWorse
<1>10. card[i].late < card[j].late \/ card[i].late = card[j].late
  <2>1. CASE batch[i].complete
    BY <1>8, <2>1
  <2>2. CASE ~batch[i].complete
    BY <1>8, <1>9, <2>2
  <2> QED
    BY <2>1, <2>2
<1> HIDE DEF card
<1>11. card[i].score > card[j].score \/ card[i].score = card[j].score
  BY <1>8
<1>12. Ahead(card, i, j)
  BY <1>8, <1>10, <1>11 DEF Ahead
<1> QED
  BY <1>12 DEF card

(***************************************************************************)
(* A dominated offer is never ahead: what the runs check of batches of     *)
(* three holds of any batch on any request, whatever its weights.          *)
(***************************************************************************)
THEOREM DominatedNeverWins == [](BatchHolds => DominatedNeverAhead)
<1>1. BatchHolds => DominatedNeverAhead
  <2> SUFFICES ASSUME matter.kind = "batch", IsBatch(matter.batch), IsRequest(matter.rfq)
               PROVE  DominatedNeverAhead
    BY DEF BatchHolds, DominatedNeverAhead
  <2>1. DOMAIN Card(matter.batch, matter.rfq) = Rankable(matter.batch, matter.rfq)
    BY CardIs
  <2> QED
    BY <2>1, Dominated DEF DominatedNeverAhead
<1> QED
  BY <1>1, PTL

-----------------------------------------------------------------------------
(* The order of a ranking. *)

LEMMA AheadIsStrict ==
    ASSUME NEW card, DOMAIN card \subseteq Nat,
           \A i \in DOMAIN card : card[i].late \in Int /\ card[i].score \in Int /\ card[i].total \in Int
    PROVE  /\ \A i \in DOMAIN card : ~Ahead(card, i, i)
           /\ \A i, j, k \in DOMAIN card : Ahead(card, i, j) /\ Ahead(card, j, k) => Ahead(card, i, k)
           /\ \A i, j \in DOMAIN card : i # j => Ahead(card, i, j) \/ Ahead(card, j, i)
<1>1. \A i \in DOMAIN card : ~Ahead(card, i, i)
  BY DEF Ahead
<1>2. ASSUME NEW i \in DOMAIN card, NEW j \in DOMAIN card, NEW k \in DOMAIN card,
             Ahead(card, i, j), Ahead(card, j, k)
      PROVE  Ahead(card, i, k)
  <2>1. /\ card[i].late \in Int /\ card[i].score \in Int /\ card[i].total \in Int
        /\ card[j].late \in Int /\ card[j].score \in Int /\ card[j].total \in Int
        /\ card[k].late \in Int /\ card[k].score \in Int /\ card[k].total \in Int
        /\ i \in Nat /\ j \in Nat /\ k \in Nat
    OBVIOUS
  <2> QED
    BY <1>2, <2>1 DEF Ahead
<1>3. ASSUME NEW i \in DOMAIN card, NEW j \in DOMAIN card, i # j
      PROVE  Ahead(card, i, j) \/ Ahead(card, j, i)
  <2>1. /\ card[i].late \in Int /\ card[i].score \in Int /\ card[i].total \in Int
        /\ card[j].late \in Int /\ card[j].score \in Int /\ card[j].total \in Int
        /\ i \in Nat /\ j \in Nat
    OBVIOUS
  <2> QED
    BY <1>3, <2>1 DEF Ahead
<1> QED
  BY <1>1, <1>2, <1>3

LEMMA PlaceIs ==
    ASSUME NEW card, IsFiniteSet(DOMAIN card), NEW i \in DOMAIN card
    PROVE  /\ Place(card, i) \in Nat
           /\ Place(card, i) = 1 <=> \A j \in DOMAIN card : ~Ahead(card, j, i)
<1> DEFINE before == {j \in DOMAIN card : Ahead(card, j, i)}
<1>1. IsFiniteSet(before)
  BY FS_Subset
<1>2. Cardinality(before) \in Nat /\ (Cardinality(before) = 0 <=> before = {})
  BY <1>1, FS_EmptySet, FS_CardinalityType
<1>3. Place(card, i) = 1 + Cardinality(before)
  BY DEF Place
<1>4. before = {} <=> \A j \in DOMAIN card : ~Ahead(card, j, i)
  OBVIOUS
<1> HIDE DEF before
<1> QED
  BY <1>2, <1>3, <1>4

\* Somebody is first, and the recommendation is of him.
LEMMA FirstIsRecommended ==
    ASSUME NEW card, DOMAIN card \subseteq Nat, IsFiniteSet(DOMAIN card), DOMAIN card # {},
           \A i \in DOMAIN card : card[i].late \in Int /\ card[i].score \in Int /\ card[i].total \in Int
    PROVE  /\ Recommended(card) \in DOMAIN card
           /\ \A j \in DOMAIN card : ~Ahead(card, j, Recommended(card))
<1> DEFINE S == DOMAIN card
           R == {e \in S \X S : Ahead(card, e[1], e[2])}
<1>1. \A x, y \in S : <<x, y>> \in R <=> Ahead(card, x, y)
  OBVIOUS
<1>2. /\ \A x \in S : <<x, x>> \notin R
      /\ \A x, y, z \in S : <<x, y>> \in R /\ <<y, z>> \in R => <<x, z>> \in R
  BY <1>1, AheadIsStrict
<1> HIDE DEF R
<1>3. PICK first \in S : \A y \in S : <<y, first>> \notin R
  BY <1>2, FirstElement
<1>4. Place(card, first) = 1
  BY <1>1, <1>3, PlaceIs
<1>5. Recommended(card) = CHOOSE i \in DOMAIN card : Place(card, i) = 1
  BY <1>4 DEF Recommended, At
<1>6. Recommended(card) \in DOMAIN card /\ Place(card, Recommended(card)) = 1
  BY <1>4, <1>5
<1> QED
  BY <1>6, PlaceIs

LEMMA NobodyIsRecommended == ASSUME NEW card, DOMAIN card = {} PROVE Recommended(card) = None
BY DEF Recommended, At

\* There is a cheapest one, and the best placed among the cheapest is named.
LEMMA CheapestIsCheapest ==
    ASSUME NEW card, IsFiniteSet(DOMAIN card), DOMAIN card # {},
           \A i \in DOMAIN card : card[i].total \in Int
    PROVE  /\ CheapestOf(card) \in DOMAIN card
           /\ \A j \in DOMAIN card : card[CheapestOf(card)].total <= card[j].total
<1> DEFINE S == DOMAIN card
           t == [i \in S |-> card[i].total]
           p == [i \in S |-> Place(card, i)]
           R == {e \in S \X S : t[e[1]] < t[e[2]] \/ (t[e[1]] = t[e[2]] /\ p[e[1]] < p[e[2]])}
           Best(i) == \A j \in S : card[i].total < card[j].total
                                   \/ (card[i].total = card[j].total /\ Place(card, i) <= Place(card, j))
<1>1. \A x \in S : t[x] = card[x].total /\ p[x] = Place(card, x) /\ t[x] \in Int /\ p[x] \in Int
  BY PlaceIs
<1>2. \A x, y \in S : <<x, y>> \in R <=> (t[x] < t[y] \/ (t[x] = t[y] /\ p[x] < p[y]))
  OBVIOUS
<1> HIDE DEF t, p, R
<1>3. \A x \in S : <<x, x>> \notin R
  BY <1>1, <1>2
<1>4. ASSUME NEW x \in S, NEW y \in S, NEW z \in S, <<x, y>> \in R, <<y, z>> \in R PROVE <<x, z>> \in R
  <2>1. /\ t[x] < t[y] \/ (t[x] = t[y] /\ p[x] < p[y])
        /\ t[y] < t[z] \/ (t[y] = t[z] /\ p[y] < p[z])
    BY <1>2, <1>4
  <2>2. t[x] \in Int /\ t[y] \in Int /\ t[z] \in Int /\ p[x] \in Int /\ p[y] \in Int /\ p[z] \in Int
    BY <1>1
  <2>3. t[x] < t[z] \/ (t[x] = t[z] /\ p[x] < p[z])
    BY <2>1, <2>2
  <2> QED
    BY <1>2, <2>3
<1>5. PICK first \in S : \A y \in S : <<y, first>> \notin R
  BY <1>3, <1>4, FirstElement
<1>6. Best(first)
  <2> TAKE j \in S
  <2>1. t[first] \in Int /\ t[j] \in Int /\ p[first] \in Int /\ p[j] \in Int
    BY <1>1
  <2>2. ~(t[j] < t[first] \/ (t[j] = t[first] /\ p[j] < p[first]))
    BY <1>2, <1>5
  <2>3. t[first] < t[j] \/ (t[first] = t[j] /\ p[first] <= p[j])
    BY <2>1, <2>2
  <2> QED
    BY <1>1, <2>3
<1>7. CheapestOf(card) = CHOOSE i \in S : Best(i)
  BY DEF CheapestOf
<1> HIDE DEF Best
<1>8. CheapestOf(card) \in S /\ Best(CheapestOf(card))
  BY <1>6, <1>7
<1>9. \A j \in S : card[CheapestOf(card)].total <= card[j].total
  <2>1. card[CheapestOf(card)].total \in Int /\ \A j \in S : card[j].total \in Int
    BY <1>8
  <2> QED
    BY <1>8, <2>1 DEF Best
<1> QED
  BY <1>8, <1>9

-----------------------------------------------------------------------------
(* What the buyer reads. *)

LEMMA SaidOf ==
    ASSUME NEW batch, NEW r, NEW card, Recommended(card) \in Nat
    PROVE  /\ <<Recommended(card), "provisional">> \in Rationale(batch, r, card)
              <=> ~batch[Recommended(card)].complete
           /\ <<Recommended(card), "high risk">> \in Rationale(batch, r, card)
              <=> batch[Recommended(card)].risk = "high"
           /\ <<Recommended(card), "unlicensed">> \in Rationale(batch, r, card)
              <=> MissingAccreditations(batch[Recommended(card)], r) # {}
           /\ CheapestOf(card) # Recommended(card)
              => <<CheapestOf(card), "cheapest">> \in Rationale(batch, r, card)
<1> DEFINE w == Recommended(card)
           cheap == CheapestOf(card)
           c1 == \E i \in DOMAIN card : card[i].late = 1 /\ card[i].total < card[w].total
           c2 == ~batch[w].complete
           c3 == batch[w].risk = "high"
           c4 == MissingAccreditations(batch[w], r) # {}
           c5 == Tie(card)
           c6 == cheap # w
           said == (IF c1 THEN {<<None, "a cheaper one is incomplete">>} ELSE {})
                   \union (IF c2 THEN {<<w, "provisional">>} ELSE {})
                   \union (IF c3 THEN {<<w, "high risk">>} ELSE {})
                   \union (IF c4 THEN {<<w, "unlicensed">>} ELSE {})
                   \union (IF c5 THEN {<<w, "tie">>} ELSE {})
                   \union (IF c6 THEN {<<cheap, "cheapest">>} ELSE {})
<1>1. Rationale(batch, r, card) = said
  BY RulesConstants DEF Rationale
<1> HIDE DEF w, cheap, c1, c2, c3, c4, c5, c6
<1>2. /\ <<w, "provisional">> \in said <=> c2
      /\ <<w, "high risk">> \in said <=> c3
      /\ <<w, "unlicensed">> \in said <=> c4
      /\ c6 => <<cheap, "cheapest">> \in said
  OBVIOUS
<1> QED
  BY <1>1, <1>2 DEF w, cheap, c2, c3, c4, c6

LEMMA FlagsOf ==
    ASSUME NEW q, NEW r
    PROVE  /\ "high risk" \in RiskFlags(q, r) <=> q.risk = "high"
           /\ "unlicensed" \in RiskFlags(q, r) <=> MissingAccreditations(q, r) # {}
<1> DEFINE c1 == q.lead # None /\ q.lead >= 90
           c2 == q.lead # None /\ q.validity # None /\ q.validity >= 0 /\ q.lead > q.validity
           c3 == q.validity = None \/ q.validity > 14
           c4 == q.validity < 0
           c5 == q.moq # None /\ r.quantity # 0 /\ q.moq > r.quantity
           c6 == q.risk = "high"
           c7 == TermDays(q.terms) = 0
           c8 == ~q.complete
           c9 == UnitConverted(q.unit, r.unit)
           c10 == MissingAccreditations(q, r) # {}
           c11 == q.response = None
           c12 == q.response > 24
           c13 == GstRate(q, r) \notin {None, 0} /\ AddOn(q.taxes, q, r) = 0
           c14 == q.callout = None /\ q.response # None
           flags == (IF c1 THEN {"long lead time"} ELSE {})
                    \union (IF c2 THEN {"delivered after its validity"} ELSE {})
                    \union (IF c3 THEN {} ELSE IF c4 THEN {"expired"} ELSE {"expiring"})
                    \union (IF c5 THEN {"moq"} ELSE {})
                    \union (IF c6 THEN {"high risk"} ELSE {})
                    \union (IF c7 THEN {"payment up front"} ELSE {})
                    \union (IF c8 THEN {"incomplete"} ELSE {})
                    \union (IF c9 THEN {"unit"} ELSE {})
                    \union (IF c10 THEN {"unlicensed"} ELSE {})
                    \union (IF c11 THEN {"no response time"} ELSE IF c12 THEN {"slow response"} ELSE {})
                    \union (IF c13 THEN {"tax derived"} ELSE {})
                    \union (IF c14 THEN {"no callout charge"} ELSE {})
<1>1. RiskFlags(q, r) = flags
  BY DEF RiskFlags
<1> HIDE DEF c1, c2, c3, c4, c5, c6, c7, c8, c9, c10, c11, c12, c13, c14
<1>2. ("high risk" \in flags <=> c6) /\ ("unlicensed" \in flags <=> c10)
  OBVIOUS
<1> QED
  BY <1>1, <1>2 DEF c6, c10

LEMMA RisksOf ==
    ASSUME NEW batch, NEW r, NEW i \in Rankable(batch, r), i \in Nat, NEW flag
    PROVE  <<i, flag>> \in BatchRisks(batch, r) <=> flag \in RiskFlags(batch[i], r)
<1> DEFINE ranked == Rankable(batch, r)
           F(k) == RiskFlags(batch[k], r)
           c1 == \E k \in DOMAIN batch : ~batch[k].complete
           c2 == ranked # DOMAIN batch
           c3 == \E k \in ranked : CurrencyCode(batch[k].currency) # CurrencyCode(r.currency)
           c4 == \E k \in ranked : Total(batch[k], r) # Subtotal(batch[k], r)
           own == UNION {{k} \X F(k) : k \in ranked}
           risks == (IF c1 THEN {<<None, "incomplete">>} ELSE {})
                    \union (IF c2 THEN {<<None, "excluded">>} ELSE {})
                    \union (IF c3 THEN {<<None, "converted">>} ELSE {})
                    \union (IF c4 THEN {<<None, "rebased">>} ELSE {})
                    \union own
<1>1. BatchRisks(batch, r) = risks
  BY DEF BatchRisks
<1>2. i # None
  BY RulesConstants
<1>3. <<i, flag>> \in own <=> flag \in F(i)
  <2> HIDE DEF F
  <2>1. ASSUME <<i, flag>> \in own PROVE flag \in F(i)
    <3>1. PICK k \in ranked : <<i, flag>> \in {k} \X F(k)
      BY <2>1
    <3> QED
      BY <3>1
  <2>2. ASSUME flag \in F(i) PROVE <<i, flag>> \in own
    <3>1. <<i, flag>> \in {i} \X F(i)
      BY <2>2
    <3> QED
      BY <3>1
  <2> QED
    BY <2>1, <2>2
<1> HIDE DEF own, c1, c2, c3, c4, F
<1>4. <<i, flag>> \in risks <=> <<i, flag>> \in own
  BY <1>2
<1> QED
  BY <1>1, <1>3, <1>4 DEF F

\* What RecommendationExplained says of one card, its winner and what is said of them.
Explained(batch, rfq, card, winner, said) ==
    /\ (winner = None) <=> (Rankable(batch, rfq) = {})
    /\ winner # None =>
         /\ Conclusive(batch, card) <=> batch[winner].complete
         /\ Conclusive(batch, card) <=> (<<winner, "provisional">> \notin said)
         /\ \A flag \in {"high risk", "unlicensed"} :
                (<<winner, flag>> \in said) <=> (<<winner, flag>> \in BatchRisks(batch, rfq))
         /\ (\E i \in DOMAIN card : card[i].total < card[winner].total)
            => \E i \in DOMAIN card : /\ <<i, "cheapest">> \in said
                                      /\ \A j \in DOMAIN card : card[i].total <= card[j].total

(***************************************************************************)
(* The recommendation and its warnings fit any ranking.                    *)
(***************************************************************************)
THEOREM RecommendationIsExplained == [](BatchHolds => RecommendationExplained)
<1>1. BatchHolds => RecommendationExplained
  <2> SUFFICES ASSUME matter.kind = "batch", IsBatch(matter.batch), IsRequest(matter.rfq)
               PROVE  RecommendationExplained
    BY DEF BatchHolds, RecommendationExplained
  <2> DEFINE batch == matter.batch
             r == matter.rfq
             card == Card(batch, r)
             winner == Recommended(card)
             said == Rationale(batch, r, card)
  <2>1. /\ DOMAIN card = Rankable(batch, r)
        /\ \A i \in DOMAIN card : /\ card[i].late = IF batch[i].complete THEN 0 ELSE 1
                                  /\ card[i].late \in {0, 1} /\ card[i].score \in Int /\ card[i].total \in Int
    BY CardIs
  <2>2. DOMAIN card \subseteq Nat /\ IsFiniteSet(DOMAIN card)
    BY <2>1, TotalsSpan DEF IsBatch
  <2>3. \A i \in DOMAIN card : card[i].late \in Int /\ card[i].score \in Int /\ card[i].total \in Int
    BY <2>1
  <2>4. DOMAIN card # {} => winner \in DOMAIN card /\ \A j \in DOMAIN card : ~Ahead(card, j, winner)
    <3> HIDE DEF card
    <3> QED
      BY <2>2, <2>3, FirstIsRecommended
  <2>5. DOMAIN card = {} => winner = None
    <3> HIDE DEF card
    <3> QED
      BY NobodyIsRecommended
  <2>6. (winner = None) <=> (Rankable(batch, r) = {})
    BY <2>1, <2>2, <2>4, <2>5, RulesConstants
  <2>7. ASSUME winner # None
        PROVE  /\ Conclusive(batch, card) <=> batch[winner].complete
               /\ Conclusive(batch, card) <=> (<<winner, "provisional">> \notin said)
               /\ \A flag \in {"high risk", "unlicensed"} :
                      (<<winner, flag>> \in said) <=> (<<winner, flag>> \in BatchRisks(batch, r))
               /\ (\E i \in DOMAIN card : card[i].total < card[winner].total)
                  => \E i \in DOMAIN card : /\ <<i, "cheapest">> \in said
                                            /\ \A j \in DOMAIN card : card[i].total <= card[j].total
    <3>1. winner \in DOMAIN card /\ winner \in Rankable(batch, r) /\ winner \in Nat
      BY <2>1, <2>2, <2>4, <2>6, <2>7
    <3>2. \A j \in DOMAIN card : ~(card[j].late < card[winner].late)
      BY <2>4, <3>1 DEF Ahead
    <3>3. Conclusive(batch, card) <=> batch[winner].complete
      <4>1. ASSUME NEW j \in DOMAIN card, batch[j].complete PROVE batch[winner].complete
        <5>1. card[j].late = 0
          BY <2>1, <4>1
        <5>2. card[winner].late # 1
          BY <3>2, <5>1
        <5> QED
          BY <2>1, <3>1, <5>2
      <4> QED
        BY <3>1, <4>1 DEF Conclusive
    <3>4. /\ <<winner, "provisional">> \in said <=> ~batch[winner].complete
          /\ <<winner, "high risk">> \in said <=> batch[winner].risk = "high"
          /\ <<winner, "unlicensed">> \in said <=> MissingAccreditations(batch[winner], r) # {}
          /\ CheapestOf(card) # winner => <<CheapestOf(card), "cheapest">> \in said
      BY <3>1, SaidOf
    <3>5. /\ <<winner, "high risk">> \in BatchRisks(batch, r) <=> batch[winner].risk = "high"
          /\ <<winner, "unlicensed">> \in BatchRisks(batch, r)
             <=> MissingAccreditations(batch[winner], r) # {}
      BY <3>1, RisksOf, FlagsOf
    <3>6. ASSUME NEW i \in DOMAIN card, card[i].total < card[winner].total
          PROVE  \E k \in DOMAIN card : /\ <<k, "cheapest">> \in said
                                        /\ \A j \in DOMAIN card : card[k].total <= card[j].total
      <4>1. /\ CheapestOf(card) \in DOMAIN card
            /\ \A j \in DOMAIN card : card[CheapestOf(card)].total <= card[j].total
        <5> HIDE DEF card
        <5> QED
          BY <2>2, <2>3, <3>1, CheapestIsCheapest
      <4>2. card[CheapestOf(card)].total <= card[i].total
        BY <4>1
      <4>3. CheapestOf(card) # winner
        <5>1. card[CheapestOf(card)].total \in Int /\ card[i].total \in Int /\ card[winner].total \in Int
          BY <2>3, <3>1, <4>1
        <5> HIDE DEF card, winner
        <5> QED
          BY <3>6, <4>2, <5>1
      <4> QED
        BY <3>4, <4>1, <4>3
    <3> HIDE DEF batch, r, card, winner, said
    <3>7. Conclusive(batch, card) <=> (<<winner, "provisional">> \notin said)
      BY <3>3, <3>4
    <3>8. \A flag \in {"high risk", "unlicensed"} :
              (<<winner, flag>> \in said) <=> (<<winner, flag>> \in BatchRisks(batch, r))
      BY <3>4, <3>5
    <3> QED
      BY <3>3, <3>6, <3>7, <3>8
  <2>8. Explained(batch, r, card, winner, said)
    <3> HIDE DEF batch, r, card, winner, said
    <3> QED
      BY <2>6, <2>7 DEF Explained
  <2>9. \A c \in {Card(batch, r)} : \A w \in {Recommended(c)}, s \in {Rationale(batch, r, c)} :
            Explained(batch, r, c, w, s)
    BY <2>8
  <2> QED
    BY ONLY <2>9 DEF RecommendationExplained, Explained
<1> QED
  BY <1>1, PTL

-----------------------------------------------------------------------------
(* A lower price. *)

\* The span of a batch's totals.
Span(T, low, high) == T \in SUBSET Int /\ low \in T /\ high \in T /\ \A t \in T : low <= t /\ t <= high

LEMMA PriceScoreIs ==
    ASSUME NEW T, NEW low, NEW high, Span(T, low, high), NEW t \in T
    PROVE  /\ low \in Int /\ high \in Int /\ t \in Int /\ low <= t /\ t <= high
           /\ high = low => ScorePrice(T, t) = 10000
           /\ high # low => ScorePrice(T, t) = HalfUp(10000 * (high - t), high - low)
           /\ ScorePrice(T, t) \in Nat
           /\ t = low => ScorePrice(T, t) = 10000
           /\ t = high /\ high # low => ScorePrice(T, t) = 0
           /\ ScorePrice(T, t) <= 10000
<1>1. low \in Int /\ high \in Int /\ t \in Int /\ low <= t /\ t <= high
  BY DEF Span
<1>2. /\ ScorePrice(T, t) = IF high = low THEN 10000 ELSE HalfUp(10000 * (high - t), high - low)
      /\ ScorePrice(T, t) \in Nat
  BY PriceScores DEF Span
<1>3. ASSUME high # low
      PROVE  /\ t = low => HalfUp(10000 * (high - t), high - low) = 10000
             /\ t = high => HalfUp(10000 * (high - t), high - low) = 0
             /\ HalfUp(10000 * (high - t), high - low) <= 10000
  <2> DEFINE d == high - low
             x == high - t
             n == 10000
  <2>1. d \in Int /\ d > 0 /\ x \in Nat /\ x <= d /\ n \in Nat
    BY <1>1, <1>3
  <2>2. HalfUp(10000 * (high - t), high - low) = HalfUp(n * x, d)
    OBVIOUS
  <2>3. /\ t = low => x = d
        /\ t = high => x = 0
    BY <1>1
  <2> HIDE DEF d, x, n
  <2>4. HalfUp(n * d, d) = n
    BY <2>1, HalfUpWhole
  <2>5. HalfUp(0, d) = 0
    <3>1. HalfUp(0 * d, d) = 0
      BY <2>1, HalfUpWhole
    <3>2. 0 * d = 0
      BY <2>1
    <3> QED
      BY <3>1, <3>2
  <2>6. n * x \in Int /\ n * d \in Int /\ n * x <= n * d /\ n * 0 = 0
    BY <2>1
  <2>7. HalfUp(n * x, d) <= HalfUp(n * d, d)
    BY <2>1, <2>6, HalfUpMono
  <2>8. t = low => HalfUp(n * x, d) = n
    BY <2>3, <2>4
  <2>9. t = high => HalfUp(n * x, d) = 0
    BY <2>3, <2>5, <2>6
  <2>10. HalfUp(n * x, d) <= n
    BY <2>4, <2>7
  <2> QED
    BY <2>2, <2>8, <2>9, <2>10 DEF n
<1> QED
  BY <1>1, <1>2, <1>3

\* When both ends of the span fall, the price of nobody who keeps his scores more.
LEMMA SpanFalls ==
    ASSUME NEW T, NEW low, NEW high, Span(T, low, high),
           NEW U, NEW down, NEW up, Span(U, down, up),
           down <= low, up <= high, NEW t \in T, t \in U,
           up = down => t = low
    PROVE  ScorePrice(U, t) <= ScorePrice(T, t)
<1>1. /\ low \in Int /\ high \in Int /\ t \in Int /\ low <= t /\ t <= high
      /\ high = low => ScorePrice(T, t) = 10000
      /\ high # low => ScorePrice(T, t) = HalfUp(10000 * (high - t), high - low)
      /\ t = low => ScorePrice(T, t) = 10000
  BY PriceScoreIs
<1>2. /\ down \in Int /\ up \in Int /\ down <= t /\ t <= up
      /\ up # down => ScorePrice(U, t) = HalfUp(10000 * (up - t), up - down)
      /\ ScorePrice(U, t) <= 10000
      /\ ScorePrice(U, t) \in Nat
  BY PriceScoreIs
<1>3. CASE high = low \/ up = down
  BY <1>1, <1>2, <1>3
<1>4. CASE high # low /\ up # down
  <2> DEFINE x == high - up
             y == low - down
             a == up - t
             b == t - down
             d == up - down
             e == high - low
             f == high - t
  <2>1. /\ x \in Nat /\ y \in Nat /\ a \in Nat /\ b \in Nat /\ d \in Int /\ d > 0 /\ e \in Int /\ e > 0
        /\ f \in Nat /\ t - low \in Nat
    BY <1>1, <1>2, <1>4
  <2>2. d = a + b /\ e = a + b + x - y /\ f = a + x /\ b - y \in Nat
    BY <1>1, <1>2
  <2>3. ScorePrice(U, t) = HalfUp(10000 * a, d) /\ ScorePrice(T, t) = HalfUp(10000 * f, e)
    BY <1>1, <1>2, <1>4
  <2> HIDE DEF x, y, a, b, d, e, f
  <2>4. a * e <= f * d
    <3>1. a * e = a * (a + b + x) - a * y
      BY <2>1, <2>2
    <3>2. f * d = a * (a + b) + x * a + x * b
      BY <2>1, <2>2
    <3>3. a * (a + b + x) = a * (a + b) + x * a
      BY <2>1
    <3>4. x * b \in Nat /\ a * y \in Nat /\ x * a \in Nat /\ a * (a + b) \in Nat
      BY <2>1
    <3> QED
      BY <3>1, <3>2, <3>3, <3>4
  <2> DEFINE m == 10000 * a
             n == 10000 * f
  <2>5. m \in Int /\ n \in Int /\ m * e <= n * d
    <3>1. a * e \in Int /\ f * d \in Int
      BY <2>1
    <3>2. m * e = 10000 * (a * e) /\ n * d = 10000 * (f * d)
      BY <2>1
    <3>3. m \in Int /\ n \in Int
      BY <2>1
    <3> HIDE DEF m, n
    <3> QED
      BY <3>1, <3>2, <3>3, <2>4
  <2> HIDE DEF m, n
  <2>6. HalfUp(m, d) <= HalfUp(n, e)
    BY <2>1, <2>5, HalfUpRatio
  <2> QED
    BY <2>3, <2>6 DEF m, n
<1> QED
  BY <1>3, <1>4

\* The one whose price falls scores no less.
LEMMA OwnScoreRises ==
    ASSUME NEW T, NEW low, NEW high, Span(T, low, high),
           NEW U, NEW down, NEW up, Span(U, down, up),
           NEW t \in T, NEW u \in U, u <= t,
           u = down \/ down = low, t = high \/ up = high
    PROVE  ScorePrice(T, t) <= ScorePrice(U, u)
<1>1. /\ low \in Int /\ high \in Int /\ t \in Int /\ low <= t /\ t <= high
      /\ high # low => ScorePrice(T, t) = HalfUp(10000 * (high - t), high - low)
      /\ t = high /\ high # low => ScorePrice(T, t) = 0
      /\ ScorePrice(T, t) <= 10000 /\ ScorePrice(T, t) \in Nat
      /\ t = low => ScorePrice(T, t) = 10000
  BY PriceScoreIs
<1>2. /\ down \in Int /\ up \in Int /\ u \in Int /\ down <= u /\ u <= up
      /\ up = down => ScorePrice(U, u) = 10000
      /\ up # down => ScorePrice(U, u) = HalfUp(10000 * (up - u), up - down)
      /\ u = down => ScorePrice(U, u) = 10000
      /\ ScorePrice(U, u) \in Nat
  BY PriceScoreIs
<1>3. CASE u = down \/ up = down
  BY <1>1, <1>2, <1>3
<1>4. CASE t = high /\ high # low
  BY <1>1, <1>2, <1>4
<1>5. CASE u # down /\ up # down /\ ~(t = high /\ high # low)
  <2>1. down = low
    BY <1>5
  <2>2. high # low
    BY <1>1, <1>2, <1>5, <2>1
  <2>3. up = high
    BY <1>5, <2>2
  <2> DEFINE m == 10000 * (high - t)
             n == 10000 * (high - u)
             d == high - low
  <2>4. m \in Int /\ n \in Int /\ m <= n /\ d \in Int /\ d > 0
    BY <1>1, <1>2, <2>2
  <2>5. ScorePrice(T, t) = HalfUp(m, d) /\ ScorePrice(U, u) = HalfUp(n, d)
    BY <1>1, <1>2, <1>5, <2>1, <2>2, <2>3
  <2> HIDE DEF m, n, d
  <2> QED
    BY <2>4, <2>5, HalfUpMono
<1> QED
  BY <1>3, <1>4, <1>5

\* A quote and itself at a lower price.
LEMMA CutQuote ==
    ASSUME NEW q, IsQuote(q), NEW p, q.price \in Int, p = [q EXCEPT !.price = q.price - 150]
    PROVE  /\ IsQuote(p) /\ NoWorse(p, q) /\ p.price <= q.price
           /\ p.currency = q.currency /\ p.unit = q.unit /\ p.shipping = q.shipping
           /\ p.callout = q.callout /\ p.duties = q.duties /\ p.taxes = q.taxes
           /\ p.discount = q.discount /\ p.gst = q.gst /\ p.incoterms = q.incoterms
           /\ p.complete = q.complete
<1>1. DOMAIN q = QuoteFields /\ DOMAIN p = QuoteFields
  BY DEF IsQuote
<1>2. p.price = q.price - 150 /\ \A f \in QuoteFields \ {"price"} : p[f] = q[f]
  BY <1>1 DEF QuoteFields
<1>3. /\ p.currency = q.currency /\ p.unit = q.unit /\ p.shipping = q.shipping
      /\ p.callout = q.callout /\ p.duties = q.duties /\ p.taxes = q.taxes
      /\ p.discount = q.discount /\ p.gst = q.gst /\ p.incoterms = q.incoterms
      /\ p.response = q.response /\ p.lead = q.lead /\ p.held = q.held /\ p.terms = q.terms /\ p.moq = q.moq
      /\ p.validity = q.validity /\ p.warranty = q.warranty /\ p.risk = q.risk
      /\ p.complete = q.complete /\ p.missing = q.missing
  BY <1>2 DEF QuoteFields
<1>4. p.price \in Int /\ p.price <= q.price
  BY <1>2
<1>5. IsQuote(p)
  <2> HIDE DEF IsQuote
  <2>1. /\ q.unit.pack \in Nat
        /\ q.shipping \in Int \union {None} /\ q.callout \in Int \union {None} /\ q.duties \in Int \union {None}
        /\ q.taxes \in Int \union {None} /\ q.discount \in Int \union {None}
        /\ q.gst \in Nat \union {None}
        /\ q.response \in Int \union {None} /\ q.lead \in Int \union {None}
        /\ q.moq \in Int \union {None} /\ q.validity \in Int \union {None} /\ q.warranty \in Int \union {None}
        /\ q.terms # None => q.terms.numbers \in Seq(Int)
        /\ q.risk \in {"low", "medium", "high"}
        /\ q.complete \in BOOLEAN
        /\ IsFiniteSet(q.missing)
    BY DEF IsQuote
  <2>2. DOMAIN p = QuoteFields /\ p.price \in Int \union {None}
    BY <1>1, <1>4
  <2> QED
    BY ONLY <1>3, <2>1, <2>2 DEF IsQuote
<1>6. NoWorse(p, q)
  <2>1. q.complete \in BOOLEAN
    BY DEF IsQuote
  <2> QED
    BY ONLY <1>3, <2>1 DEF NoWorse, NoMore, NoLater
<1> QED
  BY <1>3, <1>4, <1>5, <1>6

Cut(cut, batch, i) == cut = [batch EXCEPT ![i].price = @ - 150]

LEMMA CutBatch ==
    ASSUME NEW batch, IsBatch(batch), NEW r, IsRequest(r), NEW i \in Rankable(batch, r),
           NEW cut, Cut(cut, batch, i), Comparable(cut[i], r)
    PROVE  /\ IsBatch(cut) /\ Rankable(cut, r) = Rankable(batch, r)
           /\ \A j \in Rankable(batch, r) : j # i => cut[j] = batch[j]
           /\ IsQuote(cut[i]) /\ NoWorse(cut[i], batch[i]) /\ cut[i].complete = batch[i].complete
           /\ Total(cut[i], r) <= Total(batch[i], r)
<1>1. i \in DOMAIN batch /\ IsQuote(batch[i]) /\ Comparable(batch[i], r)
  BY DEF Rankable, IsBatch
<1>2. /\ DOMAIN cut = DOMAIN batch
      /\ cut[i] = [batch[i] EXCEPT !.price = batch[i].price - 150]
      /\ \A j \in DOMAIN batch : j # i => cut[j] = batch[j]
  BY <1>1 DEF Cut
<1>3. batch[i].price \in Int
  BY <1>1, CostParts
<1> DEFINE q == batch[i]
           p == cut[i]
<1>4. /\ IsQuote(q) /\ q.price \in Int /\ p = [q EXCEPT !.price = q.price - 150]
      /\ Comparable(q, r) /\ Comparable(p, r)
  BY <1>1, <1>2, <1>3
<1> HIDE DEF p, q
<1>5. /\ IsQuote(p) /\ NoWorse(p, q) /\ p.price <= q.price
      /\ p.currency = q.currency /\ p.unit = q.unit /\ p.shipping = q.shipping
      /\ p.callout = q.callout /\ p.duties = q.duties /\ p.taxes = q.taxes
      /\ p.discount = q.discount /\ p.gst = q.gst /\ p.incoterms = q.incoterms
      /\ p.complete = q.complete
  BY <1>4, CutQuote
<1>6. Total(p, r) <= Total(q, r)
  BY <1>4, <1>5, LowerPriceCostsNoMore
<1>7. IsBatch(cut)
  <2>1. \A j \in DOMAIN batch : IsQuote(batch[j])
    BY DEF IsBatch
  <2>2. \A j \in DOMAIN cut : IsQuote(cut[j])
    BY <1>2, <1>5, <2>1 DEF p
  <2> QED
    BY <1>2, <2>2 DEF IsBatch
<1>8. Rankable(cut, r) = Rankable(batch, r)
  <2>1. \A j \in DOMAIN batch : Comparable(cut[j], r) <=> Comparable(batch[j], r)
    BY <1>1, <1>2
  <2> QED
    BY <1>2, <2>1 DEF Rankable
<1>9. \A j \in Rankable(batch, r) : j \in DOMAIN batch
  BY DEF Rankable
<1> QED
  BY <1>2, <1>5, <1>6, <1>7, <1>8, <1>9 DEF p, q

Values(T, f, S) == T = {f[j] : j \in S}

\* How the span of the totals moves with the one.
LEMMA CutSpan ==
    ASSUME NEW S, NEW i \in S, NEW f, NEW g,
           \A j \in S : j # i => g[j] = f[j], g[i] <= f[i],
           NEW T, Values(T, f, S), NEW low, NEW high, Span(T, low, high),
           NEW U, Values(U, g, S), NEW down, NEW up, Span(U, down, up)
    PROVE  /\ down <= low /\ up <= high
           /\ \A j \in S : j # i /\ up = down => f[j] = low
           /\ g[i] = down \/ down = low
           /\ f[i] = high \/ up = high
<1>1. /\ \A j \in S : f[j] \in T /\ g[j] \in U
      /\ \A t \in T : \E j \in S : t = f[j]
      /\ \A u \in U : \E j \in S : u = g[j]
  BY DEF Values
<1>2. /\ T \in SUBSET Int /\ low \in T /\ high \in T /\ \A t \in T : low <= t /\ t <= high
      /\ U \in SUBSET Int /\ down \in U /\ up \in U /\ \A u \in U : down <= u /\ u <= up
  BY DEF Span
<1>3. \A j \in S : /\ f[j] \in Int /\ g[j] \in Int /\ low <= f[j] /\ f[j] <= high /\ down <= g[j] /\ g[j] <= up
  BY <1>1, <1>2
<1>4. PICK a \in S : low = f[a]
  BY <1>1, <1>2
<1>5. PICK b \in S : high = f[b]
  BY <1>1, <1>2
<1>6. PICK c \in S : down = g[c]
  BY <1>1, <1>2
<1>7. PICK d \in S : up = g[d]
  BY <1>1, <1>2
<1>8. \A j \in S : g[j] <= f[j]
  BY <1>3
<1>9. down <= low
  <2>1. down <= g[a] /\ g[a] <= f[a] /\ g[a] \in Int /\ f[a] \in Int /\ down \in Int
    BY <1>2, <1>3, <1>8
  <2> QED
    BY <2>1, <1>4
<1>10. up <= high
  <2>1. g[d] <= f[d] /\ f[d] <= high /\ g[d] \in Int /\ f[d] \in Int /\ high \in Int
    BY <1>2, <1>3, <1>8
  <2> QED
    BY <2>1, <1>7
<1>11. ASSUME NEW j \in S, j # i, up = down PROVE f[j] = low
  <2>1. g[a] = g[j] /\ g[j] = f[j]
    BY <1>2, <1>3, <1>11
  <2>2. g[a] <= f[a] /\ low <= f[j] /\ g[a] \in Int /\ f[a] \in Int /\ f[j] \in Int
    BY <1>3, <1>8
  <2> QED
    BY <2>1, <2>2, <1>4
<1>12. g[i] = down \/ down = low
  <2>1. CASE c = i
    BY <2>1, <1>6
  <2>2. CASE c # i
    <3>1. down = f[c] /\ low <= f[c] /\ down <= low /\ f[c] \in Int /\ low \in Int
      BY <2>2, <1>2, <1>3, <1>6, <1>9
    <3> QED
      BY <3>1
  <2> QED
    BY <2>1, <2>2
<1>13. f[i] = high \/ up = high
  <2>1. CASE b = i
    BY <2>1, <1>5
  <2>2. CASE b # i
    <3>1. high = g[b] /\ g[b] <= up /\ up <= high /\ high \in Int /\ up \in Int
      BY <2>2, <1>2, <1>3, <1>5, <1>10
    <3> QED
      BY <3>1
  <2> QED
    BY <2>1, <2>2
<1> QED
  BY <1>9, <1>10, <1>11, <1>12, <1>13

\* The scores of a batch before and after the cut.
LEMMA CutScores ==
    ASSUME NEW batch, IsBatch(batch), NEW r, IsRequest(r), NEW i \in Rankable(batch, r),
           NEW cut, Cut(cut, batch, i), Comparable(cut[i], r)
    PROVE  /\ Card(batch, r)[i].score <= Card(cut, r)[i].score
           /\ \A j \in Rankable(batch, r) : j # i => Card(cut, r)[j].score <= Card(batch, r)[j].score
<1> DEFINE S == Rankable(batch, r)
           T == TotalsOf(batch, r)
           U == TotalsOf(cut, r)
           f == [j \in S |-> Total(batch[j], r)]
           g == [j \in S |-> Total(cut[j], r)]
<1>1. /\ IsBatch(cut) /\ Rankable(cut, r) = S
      /\ \A j \in S : j # i => cut[j] = batch[j]
      /\ IsQuote(cut[i]) /\ NoWorse(cut[i], batch[i])
      /\ Total(cut[i], r) <= Total(batch[i], r)
  BY CutBatch
<1>2. \A j \in S : IsQuote(batch[j]) /\ IsQuote(cut[j])
  BY <1>1 DEF Rankable, IsBatch
<1>3. /\ \A j \in S : f[j] = Total(batch[j], r) /\ g[j] = Total(cut[j], r)
      /\ Values(T, f, S) /\ Values(U, g, S)
  BY <1>1 DEF TotalsOf, Values
<1>4. /\ \E low, high : Span(T, low, high)
      /\ \E down, up : Span(U, down, up)
  <2>1. S # {}
    OBVIOUS
  <2>2. /\ T \in SUBSET Int /\ \E low, high \in T : \A t \in T : low <= t /\ t <= high
    BY <2>1, TotalsSpan
  <2>3. /\ U \in SUBSET Int /\ \E low, high \in U : \A t \in U : low <= t /\ t <= high
    BY <1>1, <2>1, TotalsSpan
  <2> HIDE DEF T, U
  <2> QED
    BY <2>2, <2>3 DEF Span
<1>5. PICK low, high : Span(T, low, high)
  BY <1>4
<1>6. PICK down, up : Span(U, down, up)
  BY <1>4
<1>7. \A j \in S : /\ ScorePrice(T, f[j]) \in Nat
                   /\ ScorePrice(U, g[j]) \in Nat
  BY <1>1, <1>3, PriceScoreIsNat
<1>8. /\ \A j \in S : Card(batch, r)[j].score = Composite(batch[j], r, T)
      /\ \A j \in S : Card(cut, r)[j].score = Composite(cut[j], r, U)
  BY <1>1, CardIs
<1>9. (\A j \in S : j # i => g[j] = f[j]) /\ g[i] <= f[i] /\ i \in S
  BY <1>1, <1>3
<1> HIDE DEF S, T, U, f, g
<1>10. /\ down <= low /\ up <= high
       /\ \A j \in S : j # i /\ up = down => f[j] = low
       /\ g[i] = down \/ down = low
       /\ f[i] = high \/ up = high
  BY <1>3, <1>5, <1>6, <1>9, CutSpan
<1>11. \A j \in S : f[j] \in T /\ g[j] \in U
  BY <1>3 DEF Values
<1>12. ScorePrice(T, f[i]) <= ScorePrice(U, g[i])
  BY <1>5, <1>6, <1>9, <1>10, <1>11, OwnScoreRises
<1>13. ASSUME NEW j \in S, j # i PROVE ScorePrice(U, f[j]) <= ScorePrice(T, f[j])
  <2>1. f[j] \in T /\ f[j] \in U
    BY <1>9, <1>11, <1>13
  <2> QED
    BY <1>5, <1>6, <1>10, <1>13, <2>1, SpanFalls
<1>14. Composite(batch[i], r, T) <= Composite(cut[i], r, U)
  <2>1. /\ ScorePrice(U, Total(cut[i], r)) \in Nat /\ ScorePrice(T, Total(batch[i], r)) \in Nat
        /\ ScorePrice(T, Total(batch[i], r)) <= ScorePrice(U, Total(cut[i], r))
    BY <1>3, <1>7, <1>9, <1>12
  <2> QED
    BY <1>1, <1>2, <1>9, <2>1, ScoresOrder
<1>15. ASSUME NEW j \in S, j # i PROVE Composite(cut[j], r, U) <= Composite(batch[j], r, T)
  <2>1. cut[j] = batch[j] /\ g[j] = f[j] /\ f[j] = Total(batch[j], r) /\ IsQuote(batch[j])
    BY <1>1, <1>2, <1>3, <1>9, <1>15
  <2>2. /\ ScorePrice(T, Total(batch[j], r)) \in Nat /\ ScorePrice(U, Total(batch[j], r)) \in Nat
        /\ ScorePrice(U, Total(batch[j], r)) <= ScorePrice(T, Total(batch[j], r))
    BY <1>7, <1>13, <1>15, <2>1
  <2>3. NoWorse(batch[j], batch[j])
    BY <2>1, NoWorseThanItself DEF IsQuote
  <2>4. Composite(batch[j], r, U) <= Composite(batch[j], r, T)
    BY <2>1, <2>2, <2>3, ScoresOrder
  <2> QED
    BY <2>1, <2>4
<1>16. Card(batch, r)[i].score <= Card(cut, r)[i].score
  BY <1>8, <1>9, <1>14
<1>17. \A j \in S : j # i => Card(cut, r)[j].score <= Card(batch, r)[j].score
  BY <1>8, <1>15
<1> QED
  BY <1>16, <1>17 DEF S

LEMMA CutPlaces ==
    ASSUME NEW batch, IsBatch(batch), NEW r, IsRequest(r), NEW i \in Rankable(batch, r),
           NEW cut, Cut(cut, batch, i), Comparable(cut[i], r)
    PROVE  Place(Card(cut, r), i) <= Place(Card(batch, r), i)
<1> DEFINE S == Rankable(batch, r)
           old == Card(batch, r)
           new == Card(cut, r)
           A == {j \in DOMAIN old : Ahead(old, j, i)}
           B == {j \in DOMAIN new : Ahead(new, j, i)}
<1>1. /\ IsBatch(cut) /\ Rankable(cut, r) = S
      /\ \A j \in S : j # i => cut[j] = batch[j]
      /\ cut[i].complete = batch[i].complete
      /\ Total(cut[i], r) <= Total(batch[i], r)
  BY CutBatch
<1>2. /\ DOMAIN old = S /\ DOMAIN new = S
      /\ \A j \in S : /\ old[j].late = IF batch[j].complete THEN 0 ELSE 1
                      /\ new[j].late = IF cut[j].complete THEN 0 ELSE 1
                      /\ old[j].total = Total(batch[j], r) /\ new[j].total = Total(cut[j], r)
                      /\ old[j].late \in {0, 1}
                      /\ old[j].score \in Int /\ new[j].score \in Int
                      /\ old[j].total \in Int /\ new[j].total \in Int
  BY <1>1, CardIs
<1>3. /\ old[i].score <= new[i].score
      /\ \A j \in S : j # i => new[j].score <= old[j].score
  BY CutScores
<1>4. \A j \in S : new[j].late = old[j].late
  <2> TAKE j \in S
  <2>1. cut[j].complete = batch[j].complete
    BY <1>1
  <2> QED
    BY <1>2, <2>1
<1>5. /\ new[i].total <= old[i].total
      /\ \A j \in S : j # i => new[j].total = old[j].total
  BY <1>1, <1>2
<1>6. i \in S /\ S \subseteq Nat /\ IsFiniteSet(S)
  BY TotalsSpan DEF IsBatch
<1> HIDE DEF S, old, new
<1>7. ASSUME NEW j \in S, Ahead(new, j, i) PROVE Ahead(old, j, i)
  <2>1. /\ old[j].late \in Int /\ old[j].score \in Int /\ old[j].total \in Int
        /\ new[j].score \in Int /\ new[j].total \in Int
        /\ old[i].late \in Int /\ old[i].score \in Int /\ old[i].total \in Int
        /\ new[i].score \in Int /\ new[i].total \in Int
        /\ i \in Nat /\ j \in Nat
    BY <1>2, <1>6
  <2>2. j # i
    BY <1>7, <2>1, <1>4, <1>6 DEF Ahead
  <2>3. /\ new[j].late = old[j].late /\ new[i].late = old[i].late
        /\ new[j].total = old[j].total /\ new[i].total <= old[i].total
        /\ new[j].score <= old[j].score /\ old[i].score <= new[i].score
    BY <1>3, <1>4, <1>5, <1>6, <2>2
  <2> QED
    BY <1>7, <2>1, <2>3 DEF Ahead
<1>8. B \subseteq A /\ IsFiniteSet(A)
  BY <1>2, <1>6, <1>7, FS_Subset
<1>9. Cardinality(B) <= Cardinality(A) /\ Cardinality(A) \in Nat /\ Cardinality(B) \in Nat
  BY <1>8, FS_Subset, FS_CardinalityType
<1>10. Place(old, i) = 1 + Cardinality(A) /\ Place(new, i) = 1 + Cardinality(B)
  BY DEF Place
<1> HIDE DEF A, B
<1>11. Place(new, i) <= Place(old, i)
  BY <1>9, <1>10
<1> QED
  BY <1>11 DEF old, new

(***************************************************************************)
(* Whoever lowers his price keeps his place or gains some, in any batch on *)
(* any request.                                                            *)
(***************************************************************************)
THEOREM CheaperIsNeverWorse == [](BatchHolds => CheaperNeverWorse)
<1>1. BatchHolds => CheaperNeverWorse
  <2> SUFFICES ASSUME matter.kind = "batch", IsBatch(matter.batch), IsRequest(matter.rfq),
                      NEW i \in Rankable(matter.batch, matter.rfq)
               PROVE  LET cut == [matter.batch EXCEPT ![i].price = @ - 150] IN
                      Comparable(cut[i], matter.rfq)
                      => PlaceOf(cut, matter.rfq, i) <= PlaceOf(matter.batch, matter.rfq, i)
    BY DEF BatchHolds, CheaperNeverWorse
  <2> DEFINE cut == [matter.batch EXCEPT ![i].price = @ - 150]
  <2>1. Cut(cut, matter.batch, i)
    BY DEF Cut
  <2> HIDE DEF cut
  <2>2. Comparable(cut[i], matter.rfq)
        => Place(Card(cut, matter.rfq), i) <= Place(Card(matter.batch, matter.rfq), i)
    BY <2>1, CutPlaces
  <2> QED
    BY <2>2 DEF cut, PlaceOf
<1> QED
  BY <1>1, PTL

-----------------------------------------------------------------------------
(* The same offer in other words. *)

\* Equal ratios round alike.
LEMMA HalfUpSame ==
    ASSUME NEW n \in Int, NEW d \in Int, d > 0, NEW m \in Int, NEW e \in Int, e > 0, n * e = m * d
    PROVE  HalfUp(n, d) = HalfUp(m, e)
<1>1. n * e \in Int /\ m * d \in Int
  OBVIOUS
<1>2. n * e <= m * d /\ m * d <= n * e
  BY <1>1
<1>3. HalfUp(n, d) <= HalfUp(m, e) /\ HalfUp(m, e) <= HalfUp(n, d)
  BY <1>2, HalfUpRatio
<1>4. HalfUp(n, d) \in Int /\ HalfUp(m, e) \in Int
  BY HalfUpBounds
<1> QED
  BY <1>3, <1>4

LEMMA WholeStays == ASSUME NEW n \in Int PROVE HalfUp(n, 1) = n
<1>1. HalfUp(1 * n, 1) = n
  BY HalfUpWhole
<1>2. 1 * n = n
  OBVIOUS
<1> QED
  BY <1>1, <1>2

\* A price of k times as much for the k-fold unit converts to the same.
LEMMA SameRatio ==
    ASSUME NEW from, NEW to, Convertible(from, to),
           NEW a \in Int, NEW num \in Int, num > 0, NEW den \in Int, den > 0,
           NEW b \in Int, NEW mun \in Int, mun > 0, NEW ned \in Int, ned > 0,
           (a * num) * ned = (b * mun) * den
    PROVE  Convert(a, from, to, num, den) = Convert(b, from, to, mun, ned)
<1>1. CASE CurrencyCode(from) = CurrencyCode(to)
  <2>1. /\ Convert(a, from, to, num, den) = HalfUp(a * num, den)
        /\ Convert(b, from, to, mun, ned) = HalfUp(b * mun, ned)
    BY <1>1 DEF Convert
  <2>2. a * num \in Int /\ b * mun \in Int
    OBVIOUS
  <2>3. HalfUp(a * num, den) = HalfUp(b * mun, ned)
    BY <2>2, HalfUpSame
  <2> QED
    BY <2>1, <2>3
<1>2. CASE CurrencyCode(from) # CurrencyCode(to)
  <2> DEFINE r == Rate(to)
             s == Rate(from)
             n == a * r * num
             m == b * r * mun
             d == s * den
             e == s * ned
  <2>1. r \in Int /\ r > 0 /\ s \in Int /\ s > 0
    BY <1>2, RatesArePositive DEF Convertible
  <2>2. /\ Convert(a, from, to, num, den) = HalfUp(n, d)
        /\ Convert(b, from, to, mun, ned) = HalfUp(m, e)
    BY <1>2 DEF Convert
  <2> HIDE DEF r, s
  <2>3. n \in Int /\ m \in Int /\ d \in Int /\ d > 0 /\ e \in Int /\ e > 0
    BY <2>1
  <2>4. n * e = m * d
    <3> DEFINE x == a * num
               y == b * mun
               k == r * s
    <3>1. x \in Int /\ y \in Int /\ k \in Int
      BY <2>1
    <3>2. n * e = k * (x * ned)
      BY <2>1
    <3>3. m * d = k * (y * den)
      BY <2>1
    <3>4. x * ned = y * den
      OBVIOUS
    <3> QED
      BY <3>2, <3>3, <3>4
  <2> HIDE DEF n, m, d, e
  <2>5. HalfUp(n, d) = HalfUp(m, e)
    BY <2>3, <2>4, HalfUpSame
  <2> QED
    BY <2>2, <2>5
<1> QED
  BY <1>1, <1>2

\* Dollars said in Singapore dollars.
LEMMA SameMoney ==
    ASSUME NEW to, Convertible("USD", to), NEW a \in Int, NEW b \in Int, 100 * b = 134 * a,
           NEW num \in Int, num > 0, NEW den \in Int, den > 0
    PROVE  Convert(b, "SGD", to, num, den) = Convert(a, "USD", to, num, den)
<1>1. CurrencyCode("USD") = "USD" /\ CurrencyCode("SGD") = "SGD" /\ Rate("USD") = 100 /\ Rate("SGD") = 134
  BY DEF CurrencyCode, CurrencyAliases, DefaultRates, Rate
<1>2. CASE CurrencyCode(to) = "USD"
  <2>1. Rate(to) = 100
    BY <1>2 DEF Rate, DefaultRates
  <2> DEFINE n == b * 100 * num
             d == 134 * den
             m == a * num
  <2>2. Convert(b, "SGD", to, num, den) = HalfUp(n, d) /\ Convert(a, "USD", to, num, den) = HalfUp(m, den)
    BY <1>1, <1>2, <2>1 DEF Convert
  <2>3. n \in Int /\ d \in Int /\ d > 0 /\ m \in Int
    OBVIOUS
  <2>4. n * den = m * d
    <3>1. n * den = (100 * b) * (num * den)
      OBVIOUS
    <3>2. m * d = (134 * a) * (num * den)
      OBVIOUS
    <3> QED
      BY <3>1, <3>2
  <2> HIDE DEF n, d, m
  <2> QED
    BY <2>2, <2>3, <2>4, HalfUpSame
<1>3. CASE CurrencyCode(to) = "SGD"
  <2>1. Rate(to) = 134
    BY <1>3 DEF Rate, DefaultRates
  <2> DEFINE n == b * num
             m == a * 134 * num
             e == 100 * den
  <2>2. Convert(b, "SGD", to, num, den) = HalfUp(n, den) /\ Convert(a, "USD", to, num, den) = HalfUp(m, e)
    BY <1>1, <1>3, <2>1 DEF Convert
  <2>3. n \in Int /\ e \in Int /\ e > 0 /\ m \in Int
    OBVIOUS
  <2>4. n * e = m * den
    <3>1. n * e = (100 * b) * (num * den)
      OBVIOUS
    <3>2. m * den = (134 * a) * (num * den)
      OBVIOUS
    <3> QED
      BY <3>1, <3>2
  <2> HIDE DEF n, e, m
  <2> QED
    BY <2>2, <2>3, <2>4, HalfUpSame
<1>4. CASE CurrencyCode(to) \notin {"USD", "SGD"}
  <2> DEFINE r == Rate(to)
             n == b * r * num
             d == 134 * den
             m == a * r * num
             e == 100 * den
  <2>1. r \in Int /\ r > 0
    BY <1>1, <1>4, RatesArePositive DEF Convertible
  <2>2. Convert(b, "SGD", to, num, den) = HalfUp(n, d) /\ Convert(a, "USD", to, num, den) = HalfUp(m, e)
    BY <1>1, <1>4 DEF Convert
  <2> HIDE DEF r
  <2>3. n \in Int /\ e \in Int /\ e > 0 /\ m \in Int /\ d \in Int /\ d > 0
    BY <2>1
  <2>4. n * e = m * d
    <3> DEFINE k == r * num * den
    <3>1. n * e = (100 * b) * k
      BY <2>1
    <3>2. m * d = (134 * a) * k
      BY <2>1
    <3> HIDE DEF k
    <3> QED
      BY <3>1, <3>2
  <2> HIDE DEF n, e, m, d
  <2> QED
    BY <2>2, <2>3, <2>4, HalfUpSame
<1> QED
  BY <1>2, <1>3, <1>4

\* What decides the cost of a quote decides whether it can be ranked.
LEMMA SameCost ==
    ASSUME NEW q, NEW p, NEW r, Comparable(q, r),
           p.price # None, ~(p.price <= 0), PriceMultiplier(p.unit, r.unit) # None,
           Convertible(p.currency, r.currency),
           UnitPriceBase(p, r) = UnitPriceBase(q, r),
           AddOn(p.shipping, p, r) = AddOn(q.shipping, q, r), AddOn(p.callout, p, r) = AddOn(q.callout, q, r),
           AddOn(p.duties, p, r) = AddOn(q.duties, q, r), AddOn(p.discount, p, r) = AddOn(q.discount, q, r),
           Taxes(p, r) = Taxes(q, r), FactorFor(p.incoterms) = FactorFor(q.incoterms)
    PROVE  Comparable(p, r) /\ Total(p, r) = Total(q, r)
<1>1. Taxable(p, r) = Taxable(q, r)
  BY DEF Taxable
<1>2. Subtotal(p, r) = Subtotal(q, r)
  BY <1>1 DEF Subtotal
<1>3. Total(p, r) = Total(q, r)
  BY <1>2 DEF Total
<1>4. ~(Total(q, r) < 0)
  BY ComparableMeans
<1>5. Comparable(p, r)
  BY <1>3, <1>4, ComparableMeans
<1> QED
  BY <1>3, <1>5

LEMMA SameTaxes ==
    ASSUME NEW q, NEW p, NEW r,
           UnitPriceBase(p, r) = UnitPriceBase(q, r),
           AddOn(p.shipping, p, r) = AddOn(q.shipping, q, r), AddOn(p.callout, p, r) = AddOn(q.callout, q, r),
           AddOn(p.taxes, p, r) = AddOn(q.taxes, q, r), p.gst = q.gst
    PROVE  Taxes(p, r) = Taxes(q, r)
<1>1. Taxable(p, r) = Taxable(q, r)
  BY DEF Taxable
<1>2. GstRate(p, r) = GstRate(q, r)
  BY DEF GstRate
<1> QED
  BY <1>1, <1>2 DEF Taxes

\* A quote that differs from another in its price and unit only.
LEMMA RepricedCostsTheSame ==
    ASSUME NEW q, IsQuote(q), NEW r, IsRequest(r), Comparable(q, r),
           NEW k \in Int, k > 0, NEW u,
           NEW p, p.price = k * q.price, p.unit = u,
           p.currency = q.currency, p.shipping = q.shipping, p.callout = q.callout, p.duties = q.duties,
           p.taxes = q.taxes, p.discount = q.discount, p.gst = q.gst, p.incoterms = q.incoterms,
           NEW num \in Int, num > 0, NEW den \in Int, den > 0, PriceMultiplier(q.unit, r.unit) = <<num, den>>,
           NEW mun \in Int, mun > 0, NEW ned \in Int, ned > 0, PriceMultiplier(u, r.unit) = <<mun, ned>>,
           num * ned = (k * mun) * den
    PROVE  Comparable(p, r) /\ Total(p, r) = Total(q, r)
<1>1. /\ p.price = k * q.price /\ p.unit = u
      /\ p.currency = q.currency /\ p.shipping = q.shipping /\ p.callout = q.callout /\ p.duties = q.duties
      /\ p.taxes = q.taxes /\ p.discount = q.discount /\ p.gst = q.gst /\ p.incoterms = q.incoterms
  OBVIOUS
<1>2. q.price \in Int /\ q.price > 0 /\ Convertible(q.currency, r.currency)
  BY CostParts, ComparableMeans
<1>3. k * q.price \in Int /\ k * q.price > 0
  BY <1>2
<1>4. UnitPriceBase(p, r) = UnitPriceBase(q, r)
  <2> DEFINE a == 100 * q.price
             b == 100 * p.price
             x == q.price
  <2>1. a \in Int /\ b \in Int /\ a = 100 * x /\ b = 100 * (k * x) /\ x \in Int
    BY <1>1, <1>2, <1>3
  <2>2. /\ UnitPriceBase(q, r) = Convert(a, q.currency, r.currency, num, den)
        /\ UnitPriceBase(p, r) = Convert(b, q.currency, r.currency, mun, ned)
    BY <1>1 DEF UnitPriceBase
  <2> HIDE DEF a, b, x
  <2>3. (a * num) * ned = (b * mun) * den
    <3>1. (a * num) * ned = a * (num * ned)
      BY <2>1
    <3>2. (b * mun) * den = a * ((k * mun) * den)
      BY <2>1
    <3> QED
      BY <3>1, <3>2
  <2> QED
    BY SMTT(60), ZenonT(90), <1>2, <2>1, <2>2, <2>3, SameRatio
<1>5. /\ AddOn(p.shipping, p, r) = AddOn(q.shipping, q, r) /\ AddOn(p.callout, p, r) = AddOn(q.callout, q, r)
      /\ AddOn(p.duties, p, r) = AddOn(q.duties, q, r) /\ AddOn(p.discount, p, r) = AddOn(q.discount, q, r)
      /\ AddOn(p.taxes, p, r) = AddOn(q.taxes, q, r) /\ p.gst = q.gst
      /\ FactorFor(p.incoterms) = FactorFor(q.incoterms)
  BY <1>1 DEF AddOn
<1>6. Taxes(p, r) = Taxes(q, r)
  BY ONLY <1>4, <1>5, SameTaxes
<1>7. <<mun, ned>> # None
  <2>1. mun \in Nat /\ ned \in Nat
    OBVIOUS
  <2>2. <<mun, ned>> \in Nat \X Nat
    BY <2>1
  <2> QED
    BY <2>2, NoneAssumption
<1>8. p.price # None /\ ~(p.price <= 0)
  <2> DEFINE x == k * q.price
  <2>1. x \in Int /\ x > 0 /\ p.price = x
    BY <1>1, <1>3
  <2> HIDE DEF x
  <2>2. x \in Nat /\ ~(x <= 0)
    BY <2>1
  <2> QED
    BY <2>1, <2>2, RulesConstants
<1>9. PriceMultiplier(p.unit, r.unit) # None /\ Convertible(p.currency, r.currency)
  BY <1>1, <1>2, <1>7
<1> QED
  BY ONLY Comparable(q, r), <1>4, <1>5, <1>6, <1>8, <1>9, SameCost

LEMMA PieceMultipliers ==
    ASSUME NEW target, PriceMultiplier(Each("pcs"), target) # None
    PROVE  /\ PriceMultiplier(Each("pcs"), target) = <<1, 1>>
           /\ PriceMultiplier(Each("each"), target) = <<1, 1>>
           /\ PriceMultiplier([unit |-> "carton", pack |-> 10], target) = <<1, 10>>
<1> DEFINE t == CanonicalUnit(target.unit)
           m == PriceMultiplier(Each("pcs"), target)
<1>1. CanonicalUnit("carton") = "box"
  BY NoneAssumption DEF CanonicalUnit, UnitAliases
<1>2. CanonicalUnit("pcs") = "pcs" /\ CanonicalUnit("each") = "pcs"
  BY DEF CanonicalUnit, UnitAliases
<1>3. CASE t = "pcs"
  <2>1. m = <<1, 1>> /\ PriceMultiplier(Each("each"), target) = <<1, 1>>
    BY <1>2, <1>3 DEF PriceMultiplier, Each
  <2>2. PriceMultiplier([unit |-> "carton", pack |-> 10], target) = <<1, 10>>
    <3> DEFINE u == [unit |-> "carton", pack |-> 10]
    <3>1. u.unit = "carton" /\ u.pack = 10
      OBVIOUS
    <3> HIDE DEF u
    <3>2. PriceMultiplier(u, target) = <<1, u.pack>>
      BY <1>1, <1>3, <3>1 DEF PriceMultiplier, Packable, Discrete
    <3> QED
      BY <3>1, <3>2 DEF u
  <2> QED
    BY <2>1, <2>2
<1>4. CASE t # "pcs"
  <2>1. m = None
    <3>1. "pcs" \notin DOMAIN Size
      BY DEF Size
    <3>2. {"pcs", t} \ DOMAIN Size # {}
      BY <3>1
    <3> QED
      BY <1>2, <1>4, <3>2 DEF PriceMultiplier, Each
  <2> QED
    BY <2>1
<1> QED
  BY <1>3, <1>4

LEMMA WeightMultipliers ==
    ASSUME NEW target, PriceMultiplier(Each("kg"), target) # None
    PROVE  \E num, den, mun, ned \in Int :
              /\ num > 0 /\ den > 0 /\ mun > 0 /\ ned > 0
              /\ PriceMultiplier(Each("kg"), target) = <<num, den>>
              /\ PriceMultiplier(Each("tonne"), target) = <<mun, ned>>
              /\ num * ned = (1000 * mun) * den
<1> DEFINE t == CanonicalUnit(target.unit)
           kg == Each("kg")
           tonne == Each("tonne")
<1>1. /\ CanonicalUnit(kg.unit) = "kg" /\ CanonicalUnit(tonne.unit) = "t" /\ kg.pack = 0 /\ tonne.pack = 0
  BY NoneAssumption DEF CanonicalUnit, UnitAliases, Each
<1>2. Size["g"] = 1 /\ Size["kg"] = 1000 /\ Size["t"] = 1000000 /\ {"g", "kg", "t"} \subseteq DOMAIN Size
  BY DEF Size
<1> HIDE DEF kg, tonne
<1>3. PriceMultiplier(kg, target) # None
  BY DEF kg
<1>4. t \in {"g", "kg", "t"}
  <2>1. t = "kg" \/ AreComparable("kg", t)
    BY <1>1, <1>3 DEF PriceMultiplier
  <2> QED
    BY <2>1 DEF AreComparable, Groups, Discrete, Packable
<1>5. AreComparable("kg", t) /\ AreComparable("t", t)
  BY <1>4 DEF AreComparable, Groups
<1>6. CASE t = "kg"
  <2>1. PriceMultiplier(kg, target) = <<1, 1>>
    BY <1>1, <1>6 DEF PriceMultiplier
  <2>2. PriceMultiplier(tonne, target) = <<1, 1000000 \div 1000>>
    BY <1>1, <1>2, <1>5, <1>6 DEF PriceMultiplier
  <2>3. 1000000 \div 1000 = 1000
    OBVIOUS
  <2>4. PriceMultiplier(tonne, target) = <<1, 1000>>
    BY <2>2, <2>3
  <2> QED
    BY <2>1, <2>4 DEF kg, tonne
<1>7. CASE t = "g"
  <2>1. PriceMultiplier(kg, target) = <<1, 1000 \div 1>>
    BY <1>1, <1>2, <1>5, <1>7 DEF PriceMultiplier
  <2>2. PriceMultiplier(tonne, target) = <<1, 1000000 \div 1>>
    BY <1>1, <1>2, <1>5, <1>7 DEF PriceMultiplier
  <2>3. 1000000 \div 1 = 1000000 /\ 1000 \div 1 = 1000
    OBVIOUS
  <2>4. PriceMultiplier(kg, target) = <<1, 1000>> /\ PriceMultiplier(tonne, target) = <<1, 1000000>>
    BY <2>1, <2>2, <2>3
  <2> QED
    BY <2>4 DEF kg, tonne
<1>8. CASE t = "t"
  <2>1. PriceMultiplier(kg, target) = <<1000000 \div 1000, 1>>
    BY <1>1, <1>2, <1>5, <1>8 DEF PriceMultiplier
  <2>2. PriceMultiplier(tonne, target) = <<1, 1>>
    BY <1>1, <1>8 DEF PriceMultiplier
  <2>3. 1000000 \div 1000 = 1000
    OBVIOUS
  <2>4. PriceMultiplier(kg, target) = <<1000, 1>>
    BY <2>1, <2>3
  <2> QED
    BY <2>2, <2>4 DEF kg, tonne
<1> QED
  BY <1>4, <1>6, <1>7, <1>8

PackedOf(q) == {[q EXCEPT !.price = 10 * @, !.unit = [unit |-> "carton", pack |-> 10]],
                [q EXCEPT !.unit = Each("each")]}

WeighedOf(q) == [q EXCEPT !.price = 1000 * @, !.unit = Each("tonne")]

LEMMA ByTheCarton ==
    ASSUME NEW q, IsQuote(q), NEW r, IsRequest(r), Comparable(q, r), q.unit = Each("pcs"),
           NEW p \in PackedOf(q)
    PROVE  Comparable(p, r) /\ Total(p, r) = Total(q, r)
<1>1. PriceMultiplier(Each("pcs"), r.unit) # None
  BY ComparableMeans
<1>2. /\ PriceMultiplier(q.unit, r.unit) = <<1, 1>>
      /\ PriceMultiplier(Each("each"), r.unit) = <<1, 1>>
      /\ PriceMultiplier([unit |-> "carton", pack |-> 10], r.unit) = <<1, 10>>
  BY <1>1, PieceMultipliers
<1>3. DOMAIN q = QuoteFields /\ q.price \in Int
  BY CostParts DEF IsQuote
<1>4. CASE p = [q EXCEPT !.price = 10 * @, !.unit = [unit |-> "carton", pack |-> 10]]
  <2> DEFINE u == [unit |-> "carton", pack |-> 10]
  <2>1. p = [q EXCEPT !.price = 10 * @, !.unit = u]
    BY <1>4
  <2>2. PriceMultiplier(u, r.unit) = <<1, 10>>
    BY <1>2
  <2> HIDE DEF u
  <2>3. /\ p.price = 10 * q.price /\ p.unit = u
        /\ p.currency = q.currency /\ p.shipping = q.shipping /\ p.callout = q.callout /\ p.duties = q.duties
        /\ p.taxes = q.taxes /\ p.discount = q.discount /\ p.gst = q.gst /\ p.incoterms = q.incoterms
    BY <1>3, <2>1 DEF QuoteFields
  <2>4. 1 * 10 = (10 * 1) * 1 /\ 1 \in Int /\ 10 \in Int /\ 1 > 0 /\ 10 > 0
    OBVIOUS
  <2> QED
    BY ONLY IsQuote(q), IsRequest(r), Comparable(q, r), <1>2, <2>2, <2>3, <2>4, RepricedCostsTheSame
<1>5. CASE p = [q EXCEPT !.unit = Each("each")]
  <2> DEFINE u == Each("each")
  <2>1. p = [q EXCEPT !.unit = u]
    BY <1>5
  <2>2. PriceMultiplier(u, r.unit) = <<1, 1>>
    BY <1>2
  <2> HIDE DEF u
  <2>3. /\ p.price = 1 * q.price /\ p.unit = u
        /\ p.currency = q.currency /\ p.shipping = q.shipping /\ p.callout = q.callout /\ p.duties = q.duties
        /\ p.taxes = q.taxes /\ p.discount = q.discount /\ p.gst = q.gst /\ p.incoterms = q.incoterms
    BY <1>3, <2>1 DEF QuoteFields
  <2>4. 1 * 1 = (1 * 1) * 1 /\ 1 \in Int /\ 1 > 0
    OBVIOUS
  <2> QED
    BY ONLY IsQuote(q), IsRequest(r), Comparable(q, r), <1>2, <2>2, <2>3, <2>4, RepricedCostsTheSame
<1> QED
  BY <1>4, <1>5 DEF PackedOf

LEMMA ByTheTonne ==
    ASSUME NEW q, IsQuote(q), NEW r, IsRequest(r), Comparable(q, r), q.unit = Each("kg"),
           NEW p, p = WeighedOf(q)
    PROVE  Comparable(p, r) /\ Total(p, r) = Total(q, r)
<1>1. PriceMultiplier(Each("kg"), r.unit) # None
  BY ComparableMeans
<1>2. PICK num \in Int, den \in Int, mun \in Int, ned \in Int :
          /\ num > 0 /\ den > 0 /\ mun > 0 /\ ned > 0
          /\ PriceMultiplier(Each("kg"), r.unit) = <<num, den>>
          /\ PriceMultiplier(Each("tonne"), r.unit) = <<mun, ned>>
          /\ num * ned = (1000 * mun) * den
  BY <1>1, WeightMultipliers
<1>3. DOMAIN q = QuoteFields /\ q.price \in Int
  BY CostParts DEF IsQuote
<1> DEFINE u == Each("tonne")
<1>4. p = [q EXCEPT !.price = 1000 * @, !.unit = u]
  BY DEF WeighedOf
<1>7. PriceMultiplier(u, r.unit) = <<mun, ned>>
  BY <1>2
<1> HIDE DEF u
<1>5. /\ p.price = 1000 * q.price /\ p.unit = u
      /\ p.currency = q.currency /\ p.shipping = q.shipping /\ p.callout = q.callout /\ p.duties = q.duties
      /\ p.taxes = q.taxes /\ p.discount = q.discount /\ p.gst = q.gst /\ p.incoterms = q.incoterms
  BY ONLY <1>3, <1>4 DEF QuoteFields
<1>6. PriceMultiplier(q.unit, r.unit) = <<num, den>> /\ 1000 \in Int /\ 1000 > 0
  BY <1>2
<1> QED
  BY ONLY IsQuote(q), IsRequest(r), Comparable(q, r), num \in Int, den \in Int, mun \in Int, ned \in Int,
          <1>2, <1>5, <1>6, <1>7, RepricedCostsTheSame

\* An amount of cents said in the other currency.
LEMMA SameAmount ==
    ASSUME NEW a \in Int \union {None}, a # None => (134 * a) % 100 = 0,
           NEW b, b = IF a # None THEN (134 * a) \div 100 ELSE a
    PROVE  \/ a = None /\ b = None
           \/ a \in Int /\ b \in Int /\ a # None /\ 100 * b = 134 * a
<1>1. CASE a = None
  <2>1. b = None
    BY <1>1
  <2> QED
    BY <1>1, <2>1
<1>2. CASE a # None
  <2> DEFINE n == 134 * a
  <2>1. a \in Int
    BY <1>2
  <2>2. n \in Int /\ n % 100 = 0 /\ b = n \div 100
    BY <1>2, <2>1
  <2> HIDE DEF n
  <2>3. b \in Int /\ 100 * b = n
    BY ONLY <2>2
  <2> QED
    BY <1>2, <2>1, <2>3 DEF n
<1> QED
  BY <1>1, <1>2

LEMMA InOtherMoney ==
    ASSUME NEW q, IsQuote(q), NEW r, IsRequest(r), Comparable(q, r), q.currency = "USD",
           \A c \in Amounts : q[c] # None => (134 * q[c]) % 100 = 0,
           NEW p, p = [c \in DOMAIN q |-> IF c = "currency" THEN "SGD"
                                          ELSE IF c \in Amounts /\ q[c] # None THEN (134 * q[c]) \div 100
                                          ELSE q[c]]
    PROVE  Comparable(p, r) /\ Total(p, r) = Total(q, r)
<1>1. DOMAIN q = QuoteFields
  BY DEF IsQuote
<1>2. /\ p.currency = "SGD" /\ p.unit = q.unit /\ p.gst = q.gst /\ p.incoterms = q.incoterms
      /\ \A c \in Amounts : p[c] = IF q[c] # None THEN (134 * q[c]) \div 100 ELSE q[c]
  BY <1>1 DEF QuoteFields, Amounts
<1>3. \A c \in Amounts : q[c] \in Int \union {None}
  BY DEF IsQuote, Amounts
<1>4. \A c \in Amounts : \/ q[c] = None /\ p[c] = None
                         \/ q[c] \in Int /\ p[c] \in Int /\ q[c] # None /\ 100 * p[c] = 134 * q[c]
  <2> TAKE c \in Amounts
  <2> DEFINE a == q[c]
             b == p[c]
  <2>1. a \in Int \union {None}
    BY <1>3
  <2>2. a # None => (134 * a) % 100 = 0
    OBVIOUS
  <2>3. b = IF a # None THEN (134 * a) \div 100 ELSE a
    BY <1>2
  <2> HIDE DEF a, b
  <2>4. \/ a = None /\ b = None
        \/ a \in Int /\ b \in Int /\ a # None /\ 100 * b = 134 * a
    BY ONLY <2>1, <2>2, <2>3, SameAmount
  <2> QED
    BY ONLY <2>4 DEF a, b
<1>5. /\ q.price \in Int /\ q.price > 0 /\ PriceMultiplier(q.unit, r.unit) # None
      /\ Convertible("USD", r.currency)
  BY CostParts, ComparableMeans
<1>6. p.price \in Int /\ 100 * p.price = 134 * q.price
  <2>1. q.price # None
    BY ComparableMeans
  <2> QED
    BY <1>4, <2>1 DEF Amounts
<1>7. Convertible("SGD", r.currency)
  <2>1. /\ CurrencyCode("USD") = "USD" /\ CurrencyCode("SGD") = "SGD"
        /\ Rate("USD") = 100 /\ Rate("SGD") = 134
    BY DEF CurrencyCode, CurrencyAliases, DefaultRates, Rate
  <2>2. CurrencyCode(r.currency) = "USD" => Rate(r.currency) = 100
    BY DEF Rate, DefaultRates
  <2> QED
    BY <1>5, <2>1, <2>2, RulesConstants DEF Convertible
<1>8. UnitPriceBase(p, r) = UnitPriceBase(q, r)
  <2> DEFINE by == PriceMultiplier(q.unit, r.unit)
             a == 100 * q.price
             b == 100 * p.price
  <2>1. by[1] \in Int /\ by[1] > 0 /\ by[2] \in Int /\ by[2] > 0
    BY <1>5, MultiplierIsRatio DEF IsQuote
  <2>2. a \in Int /\ b \in Int /\ 100 * b = 134 * a
    BY <1>5, <1>6
  <2>3. /\ UnitPriceBase(q, r) = Convert(a, "USD", r.currency, by[1], by[2])
        /\ UnitPriceBase(p, r) = Convert(b, "SGD", r.currency, by[1], by[2])
    BY <1>2 DEF UnitPriceBase
  <2> HIDE DEF by, a, b
  <2> QED
    BY <1>5, <2>1, <2>2, <2>3, SameMoney
<1>9. ASSUME NEW c \in Amounts PROVE AddOn(p[c], p, r) = AddOn(q[c], q, r)
  <2>1. CASE q[c] = None /\ p[c] = None
    BY <2>1 DEF AddOn
  <2>2. CASE q[c] \in Int /\ p[c] \in Int /\ q[c] # None /\ 100 * p[c] = 134 * q[c]
    <3>1. p[c] # None
      BY <2>2, NoneAssumption
    <3>2. Convert(p[c], "SGD", r.currency, 1, 1) = Convert(q[c], "USD", r.currency, 1, 1)
      BY <1>5, <2>2, SameMoney
    <3> QED
      BY <1>2, <2>2, <3>1, <3>2 DEF AddOn
  <2> QED
    BY <1>4, <2>1, <2>2
<1>10. /\ AddOn(p.shipping, p, r) = AddOn(q.shipping, q, r) /\ AddOn(p.callout, p, r) = AddOn(q.callout, q, r)
       /\ AddOn(p.duties, p, r) = AddOn(q.duties, q, r) /\ AddOn(p.discount, p, r) = AddOn(q.discount, q, r)
       /\ AddOn(p.taxes, p, r) = AddOn(q.taxes, q, r)
  BY <1>9 DEF Amounts
<1>11. p.gst = q.gst /\ FactorFor(p.incoterms) = FactorFor(q.incoterms)
  BY <1>2
<1>12. Taxes(p, r) = Taxes(q, r)
  BY ONLY <1>8, <1>10, <1>11, SameTaxes
<1>13. /\ p.price # None /\ ~(p.price <= 0) /\ PriceMultiplier(p.unit, r.unit) # None
       /\ Convertible(p.currency, r.currency)
  <2>1. ~(p.price <= 0)
    <3> DEFINE a == q.price
               b == p.price
    <3>1. a \in Int /\ a > 0 /\ b \in Int /\ 100 * b = 134 * a
      BY <1>5, <1>6
    <3> HIDE DEF a, b
    <3>2. ~(b <= 0)
      BY <3>1
    <3> QED
      BY <3>2 DEF b
  <2>2. p.price # None
    BY <1>6, NoneAssumption
  <2> QED
    BY <1>2, <1>5, <1>7, <2>1, <2>2
<1> QED
  BY ONLY Comparable(q, r), <1>8, <1>10, <1>11, <1>12, <1>13, SameCost

LEMMA TaxAsAnAmount ==
    ASSUME NEW q, IsQuote(q), NEW r, IsRequest(r), Comparable(q, r),
           CurrencyCode(q.currency) = r.currency, Taxes(q, r) > 0,
           NEW p, p = [q EXCEPT !.taxes = Taxes(q, r)]
    PROVE  Comparable(p, r) /\ Total(p, r) = Total(q, r)
<1> DEFINE x == Taxes(q, r)
<1>1. x \in Int /\ x > 0 /\ x # None
  BY CostParts, NoneAssumption
<1>2. p = [q EXCEPT !.taxes = x] /\ DOMAIN q = QuoteFields
  BY DEF IsQuote
<1> HIDE DEF x
<1>3. /\ p.price = q.price /\ p.unit = q.unit /\ p.taxes = x
      /\ p.currency = q.currency /\ p.shipping = q.shipping /\ p.callout = q.callout /\ p.duties = q.duties
      /\ p.discount = q.discount /\ p.gst = q.gst /\ p.incoterms = q.incoterms
  BY ONLY <1>2 DEF QuoteFields
<1>4. /\ UnitPriceBase(p, r) = UnitPriceBase(q, r)
      /\ AddOn(p.shipping, p, r) = AddOn(q.shipping, q, r) /\ AddOn(p.callout, p, r) = AddOn(q.callout, q, r)
      /\ AddOn(p.duties, p, r) = AddOn(q.duties, q, r) /\ AddOn(p.discount, p, r) = AddOn(q.discount, q, r)
  BY ONLY <1>3 DEF UnitPriceBase, AddOn
<1>5. CurrencyCode(p.currency) = CurrencyCode(r.currency)
  <2>1. \A w : CurrencyCode(CurrencyCode(w)) = CurrencyCode(w)
    BY DEF CurrencyCode, CurrencyAliases, DefaultRates
  <2> QED
    BY <1>3, <2>1
<1>6. AddOn(x, p, r) = x
  <2>1. Convert(x, p.currency, r.currency, 1, 1) = HalfUp(x * 1, 1)
    BY <1>5 DEF Convert
  <2>2. x * 1 = x
    BY <1>1
  <2>3. HalfUp(x, 1) = x
    BY <1>1, WholeStays
  <2> QED
    BY <1>1, <2>1, <2>2, <2>3 DEF AddOn
<1>7. Taxes(p, r) = x
  BY <1>1, <1>3, <1>6 DEF Taxes
<1>8. Taxes(p, r) = Taxes(q, r)
  BY <1>7 DEF x
<1>9. /\ p.price # None /\ ~(p.price <= 0) /\ PriceMultiplier(p.unit, r.unit) # None
      /\ Convertible(p.currency, r.currency) /\ FactorFor(p.incoterms) = FactorFor(q.incoterms)
  BY <1>3, ComparableMeans
<1> QED
  BY ONLY Comparable(q, r), <1>4, <1>8, <1>9, SameCost

LEMMA UnderTheOldTerm ==
    ASSUME NEW q, IsQuote(q), NEW r, IsRequest(r), Comparable(q, r), q.incoterms = "DAP",
           NEW p, p = [q EXCEPT !.incoterms = "DDU"]
    PROVE  Comparable(p, r) /\ Total(p, r) = Total(q, r)
<1>1. DOMAIN q = QuoteFields
  BY DEF IsQuote
<1>2. /\ p.price = q.price /\ p.unit = q.unit /\ p.taxes = q.taxes
      /\ p.currency = q.currency /\ p.shipping = q.shipping /\ p.callout = q.callout /\ p.duties = q.duties
      /\ p.discount = q.discount /\ p.gst = q.gst /\ p.incoterms = "DDU"
  BY <1>1 DEF QuoteFields
<1>3. FactorFor(p.incoterms) = FactorFor(q.incoterms)
  <2>1. Incoterm("DDU") = "DAP" /\ Incoterm("DAP") = "DAP"
    BY DEF Incoterm, IncotermAliases, Factors
  <2> QED
    BY <1>2, <2>1 DEF FactorFor
<1>4. /\ UnitPriceBase(p, r) = UnitPriceBase(q, r)
      /\ AddOn(p.shipping, p, r) = AddOn(q.shipping, q, r) /\ AddOn(p.callout, p, r) = AddOn(q.callout, q, r)
      /\ AddOn(p.duties, p, r) = AddOn(q.duties, q, r) /\ AddOn(p.discount, p, r) = AddOn(q.discount, q, r)
      /\ AddOn(p.taxes, p, r) = AddOn(q.taxes, q, r) /\ p.gst = q.gst
  BY ONLY <1>2 DEF UnitPriceBase, AddOn
<1>5. Taxes(p, r) = Taxes(q, r)
  BY ONLY <1>4, SameTaxes
<1>6. /\ p.price # None /\ ~(p.price <= 0) /\ PriceMultiplier(p.unit, r.unit) # None
      /\ Convertible(p.currency, r.currency)
  BY <1>2, ComparableMeans
<1> QED
  BY ONLY Comparable(q, r), <1>3, <1>4, <1>5, <1>6, SameCost

(***************************************************************************)
(* The same offer costs the same: by the carton, by the tonne, in the      *)
(* other currency when its amounts are whole there, with the tax as an     *)
(* amount or under the older Incoterm, whatever it offers and whatever the *)
(* request asks for.                                                       *)
(***************************************************************************)
THEOREM RestatedIsTheSame == [](BatchHolds => RestatedOfferCostsTheSame)
<1>1. BatchHolds => RestatedOfferCostsTheSame
  <2> SUFFICES ASSUME matter.kind = "batch", IsBatch(matter.batch), IsRequest(matter.rfq),
                      NEW i \in Rankable(matter.batch, matter.rfq),
                      NEW same \in Restatements(matter.batch[i], matter.rfq)
               PROVE  /\ Comparable(same, matter.rfq)
                      /\ Total(same, matter.rfq) = Total(matter.batch[i], matter.rfq)
    BY DEF BatchHolds, RestatedOfferCostsTheSame
  <2> DEFINE q == matter.batch[i]
             r == matter.rfq
  <2>1. IsQuote(q) /\ IsRequest(r) /\ Comparable(q, r)
    BY DEF Rankable, IsBatch
  <2>2. same \in Restatements(q, r)
    OBVIOUS
  <2> HIDE DEF q, r
  <2>3. CASE q.unit = Each("pcs") /\ same \in PackedOf(q)
    BY <2>1, <2>3, ByTheCarton DEF q, r
  <2>4. CASE q.unit = Each("kg") /\ same = WeighedOf(q)
    BY <2>1, <2>4, ByTheTonne DEF q, r
  <2>5. CASE /\ q.currency = "USD" /\ \A c \in Amounts : q[c] # None => (134 * q[c]) % 100 = 0
             /\ same = [c \in DOMAIN q |-> IF c = "currency" THEN "SGD"
                                           ELSE IF c \in Amounts /\ q[c] # None THEN (134 * q[c]) \div 100
                                           ELSE q[c]]
    BY <2>1, <2>5, InOtherMoney DEF q, r
  <2>6. CASE /\ CurrencyCode(q.currency) = r.currency /\ Taxes(q, r) > 0
             /\ same = [q EXCEPT !.taxes = Taxes(q, r)]
    BY <2>1, <2>6, TaxAsAnAmount DEF q, r
  <2>7. CASE q.incoterms = "DAP" /\ same = [q EXCEPT !.incoterms = "DDU"]
    BY <2>1, <2>7, UnderTheOldTerm DEF q, r
  <2> QED
    BY <2>2, <2>3, <2>4, <2>5, <2>6, <2>7 DEF Restatements, PackedOf, WeighedOf
<1> QED
  BY <1>1, PTL
=============================================================================
