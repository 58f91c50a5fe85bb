---------------------------- MODULE Services_proofs ----------------------------
(***************************************************************************)
(* Proofs about the services: the sliding windows of the public form       *)
(* (RateLimiter) and of the language model (LlmClient), and the import of  *)
(* the supplier directory (SupplierDirectory).                             *)
(***************************************************************************)
EXTENDS RateLimiter, LlmClient, SupplierDirectory, FiniteSetTheorems, SequenceTheorems,
        WellFoundedInduction, TLAPS

-----------------------------------------------------------------------------
(* Windows. *)

\* Oldest first.
OldestFirst(s) == \A i, j \in DOMAIN s : i <= j => s[j] <= s[i]

\* Every set of numbers but the empty one has a least element.
LEMMA LeastNumber ==
    ASSUME NEW T \in SUBSET Nat, T # {}
    PROVE  \E n \in T : \A m \in T : n <= m
<1>1. IsWellFoundedOn(OpToRel(<, Nat), Nat)
  BY NatLessThanWellFounded
<1>2. PICK n \in T : \A m \in T : ~ (<<m, n>> \in OpToRel(<, Nat))
  BY <1>1, WFMin
<1>3. \A m \in T : ~ (m < n)
  BY <1>2 DEF OpToRel
<1> QED
  BY <1>3

\* Where the window begins: everything before is older, nothing behind is.
Begins(s, w, k) ==
    /\ k \in 1 .. Len(s) + 1
    /\ \A i \in 1 .. k - 1 : s[i] > w
    /\ \A i \in k .. Len(s) : s[i] <= w

LEMMA WindowBegins ==
    ASSUME NEW s \in Seq(Nat), OldestFirst(s), NEW w \in Nat
    PROVE  \E k \in 1 .. Len(s) + 1 : Begins(s, w, k)
<1> DEFINE T == {k \in 1 .. Len(s) + 1 : k <= Len(s) => s[k] <= w}
<1>1. Len(s) + 1 \in T /\ T \in SUBSET Nat
  OBVIOUS
<1>2. PICK k \in T : \A m \in T : k <= m
  BY <1>1, LeastNumber
<1>3. \A i \in 1 .. k - 1 : s[i] > w
  <2> TAKE i \in 1 .. k - 1
  <2>1. i \notin T /\ i \in 1 .. Len(s) /\ s[i] \in Nat
    BY <1>2
  <2> QED
    BY <2>1
<1>4. \A i \in k .. Len(s) : s[i] <= w
  <2> TAKE i \in k .. Len(s)
  <2>1. k \in 1 .. Len(s) /\ i \in 1 .. Len(s) /\ s[k] \in Nat /\ s[i] \in Nat
    BY <1>2
  <2>2. s[i] <= s[k] /\ s[k] <= w
    BY <2>1, <1>2 DEF OldestFirst
  <2> QED
    BY <2>1, <2>2
<1> QED
  BY <1>2, <1>3, <1>4 DEF Begins

LEMMA PopIs ==
    ASSUME NEW s \in Seq(Nat), NEW w \in Nat, NEW k \in 1 .. Len(s) + 1, Begins(s, w, k)
    PROVE  PopOlder(s, w) = SubSeq(s, k, Len(s))
<1> DEFINE P(m) == (\A i \in 1 .. m - 1 : s[i] > w) /\ (m <= Len(s) => s[m] <= w)
           first == CHOOSE m \in 1 .. Len(s) + 1 : P(m)
<1>1. P(k)
  BY DEF Begins
<1>2. first \in 1 .. Len(s) + 1 /\ P(first)
  BY <1>1
<1>3. ~ (first < k)
  <2> SUFFICES ASSUME first < k PROVE FALSE
    OBVIOUS
  <2>1. first \in 1 .. k - 1 /\ first <= Len(s) /\ s[first] \in Nat
    BY <1>2
  <2> HIDE DEF first
  <2>2. s[first] > w /\ s[first] <= w
    BY <2>1, <1>2 DEF Begins
  <2> QED
    BY <2>1, <2>2
<1>4. ~ (k < first)
  <2> SUFFICES ASSUME k < first PROVE FALSE
    OBVIOUS
  <2>1. k \in 1 .. first - 1 /\ k \in k .. Len(s) /\ s[k] \in Nat
    BY <1>2
  <2> HIDE DEF first
  <2>2. s[k] > w /\ s[k] <= w
    BY <2>1, <1>2 DEF Begins
  <2> QED
    BY <2>1, <2>2
<1>5. first = k
  BY <1>2, <1>3, <1>4
<1> QED
  BY <1>5 DEF PopOlder

\* What is left of a window, element by element.
LEMMA PopShape ==
    ASSUME NEW s \in Seq(Nat), OldestFirst(s), NEW w \in Nat
    PROVE  \E k \in 1 .. Len(s) + 1 :
              /\ Begins(s, w, k)
              /\ PopOlder(s, w) \in Seq(Nat)
              /\ Len(PopOlder(s, w)) = Len(s) - k + 1
              /\ \A i \in 1 .. Len(s) - k + 1 : PopOlder(s, w)[i] = s[k + i - 1] /\ s[k + i - 1] <= w
<1>1. PICK k \in 1 .. Len(s) + 1 : Begins(s, w, k)
  BY WindowBegins
<1>2. PopOlder(s, w) = SubSeq(s, k, Len(s))
  BY <1>1, PopIs
<1>3. /\ SubSeq(s, k, Len(s)) \in Seq(Nat)
      /\ Len(SubSeq(s, k, Len(s))) = Len(s) - k + 1
      /\ \A i \in 1 .. Len(s) - k + 1 : SubSeq(s, k, Len(s))[i] = s[k + i - 1]
  OBVIOUS
<1>4. \A i \in 1 .. Len(s) - k + 1 : s[k + i - 1] <= w
  BY <1>1 DEF Begins
<1> QED
  BY <1>1, <1>2, <1>3, <1>4

LEMMA PopStaysSorted ==
    ASSUME NEW s \in Seq(Nat), OldestFirst(s), NEW w \in Nat
    PROVE  /\ PopOlder(s, w) \in Seq(Nat)
           /\ OldestFirst(PopOlder(s, w))
           /\ Len(PopOlder(s, w)) <= Len(s)
           /\ \A i \in DOMAIN PopOlder(s, w) : PopOlder(s, w)[i] <= w
<1> DEFINE p == PopOlder(s, w)
<1>1. PICK k \in 1 .. Len(s) + 1 :
         /\ p \in Seq(Nat) /\ Len(p) = Len(s) - k + 1
         /\ \A i \in 1 .. Len(s) - k + 1 : p[i] = s[k + i - 1] /\ s[k + i - 1] <= w
  BY PopShape
<1> HIDE DEF p
<1>2. \A i, j \in DOMAIN p : i <= j => p[j] <= p[i]
  <2> TAKE i, j \in DOMAIN p
  <2>1. i \in 1 .. Len(s) - k + 1 /\ j \in 1 .. Len(s) - k + 1
    BY SMTT(60), ZenonT(90), <1>1
  <2>2. k + i - 1 \in DOMAIN s /\ k + j - 1 \in DOMAIN s /\ (i <= j => k + i - 1 <= k + j - 1)
    BY <2>1
  <2>3. i <= j => s[k + j - 1] <= s[k + i - 1]
    BY <2>2 DEF OldestFirst
  <2> QED
    BY <2>1, <2>3, <1>1
<1>3. \A i \in DOMAIN p : p[i] <= w
  <2> TAKE i \in DOMAIN p
  <2>1. i \in 1 .. Len(s) - k + 1
    BY SMTT(60), ZenonT(90), <1>1
  <2> QED
    BY <2>1, <1>1
<1>4. Len(p) <= Len(s)
  BY <1>1
<1> QED
  BY <1>1, <1>2, <1>3, <1>4 DEF OldestFirst, p

LEMMA SameWindow ==
    ASSUME NEW s \in Seq(Nat), NEW t \in Seq(Nat), NEW w \in Nat,
           NEW k \in 1 .. Len(s) + 1, NEW m \in 1 .. Len(t) + 1, Begins(s, w, k), Begins(t, w, m),
           Len(s) - k = Len(t) - m,
           \A i \in 1 .. Len(s) - k + 1 : s[k + i - 1] = t[m + i - 1]
    PROVE  PopOlder(s, w) = PopOlder(t, w)
<1> DEFINE p == SubSeq(s, k, Len(s))
           q == SubSeq(t, m, Len(t))
<1>1. PopOlder(s, w) = p /\ PopOlder(t, w) = q
  BY PopIs
<1>2. /\ p \in Seq(Nat) /\ Len(p) = Len(s) - k + 1
      /\ \A i \in 1 .. Len(s) - k + 1 : p[i] = s[k + i - 1]
  BY SMTT(60), ZenonT(90)
<1>3. /\ q \in Seq(Nat) /\ Len(q) = Len(t) - m + 1
      /\ \A i \in 1 .. Len(t) - m + 1 : q[i] = t[m + i - 1]
  BY SMTT(60), ZenonT(90)
<1> HIDE DEF p, q
<1>4. Len(p) = Len(q) /\ \A i \in 1 .. Len(p) : p[i] = q[i]
  BY <1>2, <1>3
<1>5. p = q
  BY <1>2, <1>3, <1>4, SeqEqual
<1> QED
  BY <1>1, <1>5

LEMMA LessOne ==
    ASSUME NEW a \in Int, NEW b \in Int, NEW c \in Int, NEW d \in Int, a - b + 1 = c - d + 1
    PROVE  a - b = c - d
OBVIOUS

\* The converse: equal windows are as long and hold the same ages.
LEMMA WindowsAlike ==
    ASSUME NEW s \in Seq(Nat), NEW t \in Seq(Nat), NEW w \in Nat,
           NEW k \in 1 .. Len(s) + 1, NEW m \in 1 .. Len(t) + 1, Begins(s, w, k), Begins(t, w, m),
           PopOlder(s, w) = PopOlder(t, w)
    PROVE  /\ Len(s) - k = Len(t) - m
           /\ \A i \in 1 .. Len(s) - k + 1 : s[k + i - 1] = t[m + i - 1]
<1> DEFINE p == SubSeq(s, k, Len(s))
           q == SubSeq(t, m, Len(t))
<1>1. p = q
  BY PopIs
<1>2. Len(p) = Len(s) - k + 1 /\ \A i \in 1 .. Len(s) - k + 1 : p[i] = s[k + i - 1]
  OBVIOUS
<1>3. Len(q) = Len(t) - m + 1 /\ \A i \in 1 .. Len(t) - m + 1 : q[i] = t[m + i - 1]
  OBVIOUS
<1> HIDE DEF p, q
<1>4. Len(s) - k + 1 = Len(t) - m + 1
  BY <1>1, <1>2, <1>3
<1>5. \A i \in 1 .. Len(s) - k + 1 : s[k + i - 1] = t[m + i - 1]
  <2> TAKE i \in 1 .. Len(s) - k + 1
  <2>1. p[i] = s[k + i - 1] /\ q[i] = t[m + i - 1]
    BY <1>2, <1>3, <1>4
  <2> QED
    BY <2>1, <1>1
<1>6. Len(s) - k = Len(t) - m
  <2>1. Len(s) \in Int /\ Len(t) \in Int /\ k \in Int /\ m \in Int
    OBVIOUS
  <2>2. ASSUME NEW x \in Int, NEW y \in Int, Len(s) = x, Len(t) = y
        PROVE  x - k = y - m
    BY <2>1, <2>2, <1>4, LessOne
  <2> QED
    BY <2>1, <2>2
<1> QED
  BY <1>5, <1>6

\* Even if the sequence is not sorted.
LEMMA PopTyped ==
    ASSUME NEW s \in Seq(Nat), NEW w \in Nat
    PROVE  PopOlder(s, w) \in Seq(Nat)
<1> DEFINE P(k) == (\A i \in 1 .. k - 1 : s[i] > w) /\ (k <= Len(s) => s[k] <= w)
           T == {k \in 1 .. Len(s) + 1 : k <= Len(s) => s[k] <= w}
           first == CHOOSE k \in 1 .. Len(s) + 1 : P(k)
<1>1. Len(s) + 1 \in T /\ T \in SUBSET Nat
  OBVIOUS
<1>2. PICK k \in T : \A m \in T : k <= m
  BY <1>1, LeastNumber
<1>3. \A i \in 1 .. k - 1 : s[i] > w
  <2> TAKE i \in 1 .. k - 1
  <2>1. i \notin T /\ i \in 1 .. Len(s) /\ s[i] \in Nat
    BY <1>2
  <2> QED
    BY <2>1
<1>4. k \in 1 .. Len(s) + 1 /\ P(k)
  BY <1>2, <1>3
<1>5. first \in 1 .. Len(s) + 1
  BY <1>4
<1>6. PopOlder(s, w) = SubSeq(s, first, Len(s))
  BY DEF PopOlder
<1> HIDE DEF first
<1> QED
  BY <1>5, <1>6

\* What is left comes from the window.
LEMMA PopKeeps ==
    ASSUME NEW s \in Seq(Nat), OldestFirst(s), NEW w \in Nat, NEW a \in Nat, \A i \in DOMAIN s : s[i] >= a
    PROVE  \A i \in DOMAIN PopOlder(s, w) : PopOlder(s, w)[i] >= a
<1> DEFINE p == PopOlder(s, w)
<1>1. PICK k \in 1 .. Len(s) + 1 :
         /\ p \in Seq(Nat) /\ Len(p) = Len(s) - k + 1
         /\ \A i \in 1 .. Len(s) - k + 1 : p[i] = s[k + i - 1] /\ s[k + i - 1] <= w
  BY PopShape
<1> HIDE DEF p
<1>2. ASSUME NEW i \in DOMAIN p PROVE p[i] >= a
  <2>1. i \in 1 .. Len(s) - k + 1
    BY SMTT(60), ZenonT(90), <1>1
  <2>2. k + i - 1 \in DOMAIN s
    BY <2>1
  <2> QED
    BY <2>1, <2>2, <1>1
<1> QED
  BY <1>2 DEF p

\* A later instant, read some time ago, is the last of the window.
LEMMA PopAppendAge ==
    ASSUME NEW s \in Seq(Nat), OldestFirst(s), NEW w \in Nat, NEW a \in Nat, a <= w,
           \A i \in DOMAIN s : s[i] >= a
    PROVE  /\ Append(s, a) \in Seq(Nat)
           /\ OldestFirst(Append(s, a))
           /\ PopOlder(Append(s, a), w) = Append(PopOlder(s, w), a)
<1> DEFINE t == Append(s, a)
<1>1. t \in Seq(Nat) /\ Len(t) = Len(s) + 1 /\ t[Len(s) + 1] = a /\ \A i \in 1 .. Len(s) : t[i] = s[i]
  OBVIOUS
<1> HIDE DEF t
<1>2. OldestFirst(t)
  <2> SUFFICES ASSUME NEW i \in 1 .. Len(s) + 1, NEW j \in 1 .. Len(s) + 1, i <= j PROVE t[j] <= t[i]
    BY <1>1 DEF OldestFirst
  <2>1. CASE i = Len(s) + 1
    <3>1. j = i /\ t[i] \in Nat
      BY <2>1, <1>1
    <3> QED
      BY <3>1
  <2>2. CASE i # Len(s) + 1 /\ j = Len(s) + 1
    <3>1. i \in 1 .. Len(s) /\ i \in DOMAIN s
      BY <2>2
    <3>2. t[i] = s[i] /\ t[i] \in Nat /\ s[i] >= a
      BY <3>1, <1>1
    <3> QED
      BY <2>2, <3>2, <1>1
  <2>3. CASE j # Len(s) + 1
    <3>1. i \in DOMAIN s /\ j \in DOMAIN s /\ t[i] = s[i] /\ t[j] = s[j]
      BY SMTT(60), ZenonT(90), <2>3, <1>1
    <3> QED
      BY <3>1 DEF OldestFirst
  <2> QED
    BY <2>1, <2>2, <2>3
<1>3. PICK k \in 1 .. Len(s) + 1 : Begins(s, w, k)
  BY WindowBegins
<1>4. k \in 1 .. Len(t) + 1 /\ Begins(t, w, k)
  <2>1. \A i \in 1 .. k - 1 : t[i] > w
    <3> TAKE i \in 1 .. k - 1
    <3>1. i \in 1 .. Len(s)
      OBVIOUS
    <3> QED
      BY <3>1, <1>1, <1>3 DEF Begins
  <2>2. \A i \in k .. Len(s) + 1 : t[i] <= w
    <3> TAKE i \in k .. Len(s) + 1
    <3>1. CASE i = Len(s) + 1
      BY <3>1, <1>1
    <3>2. CASE i # Len(s) + 1
      <4>1. i \in k .. Len(s) /\ i \in 1 .. Len(s)
        BY <3>2
      <4> QED
        BY <4>1, <1>1, <1>3 DEF Begins
    <3> QED
      BY <3>1, <3>2
  <2> QED
    BY <2>1, <2>2, <1>1 DEF Begins
<1>5. PopOlder(t, w) = SubSeq(t, k, Len(t)) /\ PopOlder(s, w) = SubSeq(s, k, Len(s))
  BY <1>1, <1>3, <1>4, PopIs
<1>6. SubSeq(t, k, Len(t)) = Append(SubSeq(s, k, Len(s)), a)
  <2> DEFINE p == SubSeq(t, k, Len(t))
             q == SubSeq(s, k, Len(s))
             r == Append(q, a)
  <2>1. p \in Seq(Nat) /\ Len(p) = Len(s) - k + 2 /\ \A i \in 1 .. Len(s) - k + 2 : p[i] = t[k + i - 1]
    BY SMTT(60), ZenonT(90), <1>1
  <2>2. q \in Seq(Nat) /\ Len(q) = Len(s) - k + 1 /\ \A i \in 1 .. Len(s) - k + 1 : q[i] = s[k + i - 1]
    OBVIOUS
  <2> HIDE DEF p, q
  <2>3. r \in Seq(Nat) /\ Len(r) = Len(s) - k + 2 /\ r[Len(s) - k + 2] = a
        /\ \A i \in 1 .. Len(s) - k + 1 : r[i] = q[i]
    <3>0. q \in Seq(Nat)
      BY <2>2
    <3>1. r \in Seq(Nat) /\ Len(r) = Len(q) + 1 /\ r[Len(q) + 1] = a /\ \A i \in 1 .. Len(q) : r[i] = q[i]
      BY <3>0
    <3> QED
      BY <3>1, <2>2
  <2> HIDE DEF r
  <2>4. \A i \in 1 .. Len(p) : p[i] = r[i]
    <3> TAKE i \in 1 .. Len(p)
    <3>1. CASE i = Len(s) - k + 2
      <4>1. i \in 1 .. Len(s) - k + 2 /\ k + i - 1 = Len(s) + 1
        BY <3>1
      <4> QED
        BY <3>1, <4>1, <2>1, <2>3, <1>1
    <3>2. CASE i # Len(s) - k + 2
      <4>0. i \in 1 .. Len(s) - k + 2
        BY SMTT(60), ZenonT(90), <2>1
      <4>1. i \in 1 .. Len(s) - k + 1 /\ k + i - 1 \in 1 .. Len(s) /\ i \in 1 .. Len(s) - k + 2
        BY <3>2, <4>0
      <4>2. p[i] = t[k + i - 1] /\ t[k + i - 1] = s[k + i - 1] /\ r[i] = q[i] /\ q[i] = s[k + i - 1]
        BY <4>1, <2>1, <2>2, <2>3, <1>1
      <4> QED
        BY <4>2
    <3> QED
      BY <3>1, <3>2
  <2>5. p = r
    BY <2>1, <2>3, <2>4, SeqEqual
  <2> QED
    BY <2>5 DEF p, q, r
<1> QED
  BY <1>1, <1>2, <1>5, <1>6 DEF t

\* So is a new one.
LEMMA PopAppend ==
    ASSUME NEW s \in Seq(Nat), OldestFirst(s), NEW w \in Nat
    PROVE  /\ Append(s, 0) \in Seq(Nat)
           /\ OldestFirst(Append(s, 0))
           /\ PopOlder(Append(s, 0), w) = Append(PopOlder(s, w), 0)
<1>1. \A i \in DOMAIN s : s[i] >= 0
  OBVIOUS
<1> QED
  BY <1>1, PopAppendAge

\* Popping for a longer window first changes nothing.
LEMMA PopTwice ==
    ASSUME NEW s \in Seq(Nat), OldestFirst(s), NEW v \in Nat, NEW w \in Nat, w <= v
    PROVE  PopOlder(PopOlder(s, v), w) = PopOlder(s, w)
<1> DEFINE p == PopOlder(s, v)
<1>1. PICK k \in 1 .. Len(s) + 1 :
         /\ Begins(s, v, k) /\ p \in Seq(Nat) /\ Len(p) = Len(s) - k + 1
         /\ \A i \in 1 .. Len(s) - k + 1 : p[i] = s[k + i - 1]
  BY PopShape
<1>2. PICK m \in 1 .. Len(s) + 1 : Begins(s, w, m)
  BY WindowBegins
<1> HIDE DEF p
<1>3. k <= m
  <2> SUFFICES ASSUME m < k PROVE FALSE
    OBVIOUS
  <2>1. m \in 1 .. k - 1 /\ m \in m .. Len(s) /\ s[m] \in Nat
    OBVIOUS
  <2>2. s[m] > v /\ s[m] <= w
    BY <2>1, <1>1, <1>2 DEF Begins
  <2> QED
    BY <2>1, <2>2
<1>4. m - k + 1 \in 1 .. Len(p) + 1 /\ Begins(p, w, m - k + 1)
  <2>1. \A i \in 1 .. (m - k + 1) - 1 : p[i] > w
    <3> TAKE i \in 1 .. (m - k + 1) - 1
    <3>1. k + i - 1 \in 1 .. m - 1 /\ i \in 1 .. Len(s) - k + 1
      BY <1>3
    <3> QED
      BY <3>1, <1>1, <1>2 DEF Begins
  <2>2. \A i \in m - k + 1 .. Len(p) : p[i] <= w
    <3> TAKE i \in m - k + 1 .. Len(p)
    <3>1. k + i - 1 \in m .. Len(s) /\ i \in 1 .. Len(s) - k + 1
      BY <1>1, <1>3
    <3> QED
      BY <3>1, <1>1, <1>2 DEF Begins
  <2> QED
    BY <2>1, <2>2, <1>1, <1>3 DEF Begins
<1>5. PopOlder(p, w) = PopOlder(s, w)
  <2>1. Len(p) - (m - k + 1) = Len(s) - m
    BY <1>1
  <2>2. \A i \in 1 .. Len(p) - (m - k + 1) + 1 : p[(m - k + 1) + i - 1] = s[m + i - 1]
    <3> TAKE i \in 1 .. Len(p) - (m - k + 1) + 1
    <3>1. (m - k + 1) + i - 1 \in 1 .. Len(s) - k + 1
      <4>1. Len(s) \in Nat
        OBVIOUS
      <4>2. k \in Nat /\ m \in Nat
        BY <4>1
      <4>3. Len(p) = Len(s) - k + 1
        BY <1>1
      <4>4. i \in Int /\ 1 <= i /\ i <= Len(s) - k + 1 - (m - k + 1) + 1
        BY <4>1, <4>2, <4>3
      <4> QED
        BY <4>1, <4>2, <4>4, <1>3
    <3>2. p[(m - k + 1) + i - 1] = s[k + ((m - k + 1) + i - 1) - 1]
      BY <3>1, <1>1
    <3>3. k + ((m - k + 1) + i - 1) - 1 = m + i - 1
      OBVIOUS
    <3> QED
      BY <3>2, <3>3
  <2> QED
    BY <2>1, <2>2, <1>1, <1>2, <1>4, SameWindow
<1> QED
  BY <1>5 DEF p

-----------------------------------------------------------------------------
(* Time. *)

\* t is s some time later: what is recent has aged by a tick, what is too old
\* is no longer recent.
Ages(s, t, w) ==
    /\ Len(t) = Len(s)
    /\ \A i \in 1 .. Len(s) : s[i] > w => t[i] > w
    /\ \A i \in 1 .. Len(s) : s[i] <= w => t[i] = s[i] + 1

LEMMA LaterWindow ==
    ASSUME NEW s \in Seq(Nat), OldestFirst(s), NEW t \in Seq(Nat), OldestFirst(t), NEW w \in Nat, Ages(s, t, w)
    PROVE  \E k \in 1 .. Len(s) + 1, m \in 1 .. Len(s) + 1 :
              Begins(s, w, k) /\ Begins(t, w, m) /\ k <= m
<1>1. PICK k \in 1 .. Len(s) + 1 : Begins(s, w, k)
  BY WindowBegins
<1>2. PICK m \in 1 .. Len(t) + 1 : Begins(t, w, m)
  BY WindowBegins
<1>3. m \in 1 .. Len(s) + 1
  BY <1>2 DEF Ages
<1>4. k <= m
  <2> SUFFICES ASSUME m < k PROVE FALSE
    BY <1>3
  <2>1. m \in 1 .. k - 1 /\ m \in m .. Len(t) /\ m \in 1 .. Len(s) /\ t[m] \in Nat
    BY <1>3 DEF Ages
  <2>2. s[m] > w /\ t[m] <= w
    BY <2>1, <1>1, <1>2 DEF Begins
  <2>3. t[m] > w
    BY <2>1, <2>2 DEF Ages
  <2> QED
    BY <2>1, <2>2, <2>3
<1> QED
  BY <1>1, <1>2, <1>3, <1>4

LEMMA PopLater ==
    ASSUME NEW s \in Seq(Nat), OldestFirst(s), NEW t \in Seq(Nat), OldestFirst(t), NEW w \in Nat, Ages(s, t, w)
    PROVE  Len(PopOlder(t, w)) <= Len(PopOlder(s, w))
<1>1. PICK k \in 1 .. Len(s) + 1, m \in 1 .. Len(s) + 1 : Begins(s, w, k) /\ Begins(t, w, m) /\ k <= m
  BY LaterWindow
<1>2. m \in 1 .. Len(t) + 1 /\ Len(t) = Len(s)
  BY DEF Ages
<1>3. PopOlder(s, w) = SubSeq(s, k, Len(s)) /\ PopOlder(t, w) = SubSeq(t, m, Len(t))
  BY <1>1, <1>2, PopIs
<1>4. Len(SubSeq(s, k, Len(s))) = Len(s) - k + 1
  OBVIOUS
<1>5. Len(SubSeq(t, m, Len(t))) = Len(t) - m + 1
  BY <1>2
<1> QED
  BY <1>1, <1>2, <1>3, <1>4, <1>5

\* Windows that are alike stay alike.
LEMMA AlikeLater ==
    ASSUME NEW s \in Seq(Nat), OldestFirst(s), NEW t \in Seq(Nat), OldestFirst(t),
           NEW u \in Seq(Nat), OldestFirst(u), NEW v \in Seq(Nat), OldestFirst(v), NEW w \in Nat,
           Ages(s, t, w), Ages(u, v, w), PopOlder(s, w) = PopOlder(u, w)
    PROVE  PopOlder(t, w) = PopOlder(v, w)
<1>1. PICK k \in 1 .. Len(s) + 1, m \in 1 .. Len(s) + 1 : Begins(s, w, k) /\ Begins(t, w, m) /\ k <= m
  BY LaterWindow
<1>2. PICK c \in 1 .. Len(u) + 1 : Begins(u, w, c)
  BY WindowBegins
<1>3. Len(s) - k = Len(u) - c /\ \A i \in 1 .. Len(s) - k + 1 : s[k + i - 1] = u[c + i - 1]
  BY ZenonT(90), <1>1, <1>2, WindowsAlike
<1>4. Len(t) = Len(s) /\ Len(v) = Len(u) /\ m \in 1 .. Len(t) + 1
  BY DEF Ages
<1> DEFINE d == c + (m - k)
<1>5. d \in 1 .. Len(v) + 1 /\ Len(v) - d = Len(t) - m /\ c <= d
  BY <1>1, <1>3, <1>4
<1>6. \A i \in m .. Len(t) : t[i] = s[i] + 1 /\ s[i] \in Nat /\ s[i] = u[i - k + c]
  <2> TAKE i \in m .. Len(t)
  <2>1. i \in k .. Len(s) /\ i \in 1 .. Len(s) /\ i - k + 1 \in 1 .. Len(s) - k + 1
    BY <1>1, <1>4
  <2>2. s[i] <= w
    BY <2>1, <1>1 DEF Begins
  <2>3. t[i] = s[i] + 1 /\ s[i] \in Nat
    BY SMTT(60), ZenonT(90), <2>1, <2>2 DEF Ages
  <2>4. s[k + (i - k + 1) - 1] = u[c + (i - k + 1) - 1]
    BY <2>1, <1>3
  <2>5. k + (i - k + 1) - 1 = i /\ c + (i - k + 1) - 1 = i - k + c
    OBVIOUS
  <2> QED
    BY <2>3, <2>4, <2>5
<1>7. \A j \in d .. Len(v) : v[j] = t[j - c + k] /\ j - c + k \in m .. Len(t)
  <2> TAKE j \in d .. Len(v)
  <2>1. j - c + k \in m .. Len(t) /\ j \in c .. Len(u) /\ j \in 1 .. Len(u)
    <3>1. j \in Int /\ k \in Int /\ m \in Int /\ c \in Int /\ Len(t) \in Int /\ Len(v) \in Int
      BY <1>5
    <3>2. c <= j /\ j <= Len(v) /\ 1 <= j /\ Len(v) = Len(u) /\ c + (m - k) <= j
      BY SMTT(60), ZenonT(90), <1>4, <1>5
    <3>3. Len(v) - (c + (m - k)) = Len(t) - m
      BY <1>5
    <3>4. m <= j - c + k /\ j - c + k <= Len(t)
      BY <3>1, <3>2, <3>3
    <3> QED
      BY <3>1, <3>2, <3>4
  <2>2. u[j] <= w
    BY <2>1, <1>2 DEF Begins
  <2>3. v[j] = u[j] + 1
    BY <2>1, <2>2 DEF Ages
  <2>4. t[j - c + k] = s[j - c + k] + 1 /\ s[j - c + k] = u[(j - c + k) - k + c]
    BY <2>1, <1>6
  <2>5. (j - c + k) - k + c = j
    OBVIOUS
  <2> QED
    BY <2>1, <2>3, <2>4, <2>5
<1>8. Begins(v, w, d)
  <2>1. \A j \in d .. Len(v) : v[j] <= w
    BY <1>7, <1>1 DEF Begins
  <2>2. \A j \in 1 .. d - 1 : v[j] > w
    <3> TAKE j \in 1 .. d - 1
    <3>1. j \in 1 .. Len(u) /\ u[j] \in Nat /\ v[j] \in Nat
      BY SMTT(60), ZenonT(90), <1>4, <1>5
    <3>2. CASE j < c
      <4>1. u[j] > w
        BY <3>1, <3>2, <1>2 DEF Begins
      <4> QED
        BY <3>1, <4>1 DEF Ages
    <3>3. CASE c <= j
      <4>1. j - c + k \in 1 .. m - 1 /\ j - c + k \in k .. Len(s) /\ j \in c .. Len(u) /\ j - c + k \in 1 .. Len(s)
        BY SMTT(60), ZenonT(90), <3>1, <3>3, <1>3
      <4>2. t[j - c + k] > w /\ s[j - c + k] <= w /\ u[j] <= w
        BY <4>1, <1>1, <1>2 DEF Begins
      <4>3. t[j - c + k] = s[j - c + k] + 1 /\ v[j] = u[j] + 1
        BY <4>1, <4>2, <3>1 DEF Ages
      <4>4. j - c + 1 \in 1 .. Len(s) - k + 1 /\ k + (j - c + 1) - 1 = j - c + k /\ c + (j - c + 1) - 1 = j
        BY <4>1
      <4>5. s[j - c + k] = u[j]
        BY <4>4, <1>3
      <4> QED
        BY <4>2, <4>3, <4>5
    <3> QED
      BY <3>1, <3>2, <3>3
  <2> QED
    BY <2>1, <2>2, <1>5 DEF Begins
<1>9. Len(t) - m = Len(v) - d /\ \A i \in 1 .. Len(t) - m + 1 : t[m + i - 1] = v[d + i - 1]
  <2>1. \A i \in 1 .. Len(t) - m + 1 : t[m + i - 1] = v[d + i - 1]
    <3> TAKE i \in 1 .. Len(t) - m + 1
    <3>1. d + i - 1 \in d .. Len(v) /\ (d + i - 1) - c + k = m + i - 1
      BY <1>5
    <3> QED
      BY <3>1, <1>7
  <2> QED
    BY <2>1, <1>5
<1> HIDE DEF d
<1> QED
  BY <1>1, <1>4, <1>5, <1>8, <1>9, SameWindow

\* t is s a tick later, seen through a window that is a tick longer.
NextAges(s, t, w) ==
    /\ Len(t) = Len(s)
    /\ \A i \in 1 .. Len(s) : s[i] > w => t[i] > w + 1
    /\ \A i \in 1 .. Len(s) : s[i] <= w => t[i] = s[i] + 1

\* Such a window holds the same, a tick older.
LEMMA NextWindow ==
    ASSUME NEW s \in Seq(Nat), NEW t \in Seq(Nat), NEW w \in Nat, NextAges(s, t, w),
           NEW k \in 1 .. Len(s) + 1, Begins(s, w, k)
    PROVE  /\ k \in 1 .. Len(t) + 1 /\ Begins(t, w + 1, k)
           /\ \A i \in 1 .. Len(s) - k + 1 : t[k + i - 1] = s[k + i - 1] + 1
<1>1. Len(t) = Len(s)
  BY DEF NextAges
<1>2. \A i \in 1 .. k - 1 : t[i] > w + 1
  <2> TAKE i \in 1 .. k - 1
  <2>1. i \in 1 .. Len(s) /\ s[i] > w
    BY DEF Begins
  <2> QED
    BY <2>1 DEF NextAges
<1>3. \A i \in k .. Len(s) : t[i] = s[i] + 1 /\ t[i] <= w + 1
  <2> TAKE i \in k .. Len(s)
  <2>1. i \in 1 .. Len(s) /\ s[i] <= w /\ s[i] \in Nat
    BY DEF Begins
  <2>2. t[i] = s[i] + 1
    BY <2>1 DEF NextAges
  <2> QED
    BY <2>1, <2>2
<1>4. \A i \in 1 .. Len(s) - k + 1 : t[k + i - 1] = s[k + i - 1] + 1
  <2> TAKE i \in 1 .. Len(s) - k + 1
  <2>1. k + i - 1 \in k .. Len(s)
    OBVIOUS
  <2> QED
    BY <2>1, <1>3
<1> QED
  BY <1>1, <1>2, <1>3, <1>4 DEF Begins

LEMMA AlikeNext ==
    ASSUME NEW s \in Seq(Nat), OldestFirst(s), NEW t \in Seq(Nat),
           NEW u \in Seq(Nat), OldestFirst(u), NEW v \in Seq(Nat), NEW w \in Nat,
           NextAges(s, t, w), NextAges(u, v, w), PopOlder(s, w) = PopOlder(u, w)
    PROVE  PopOlder(t, w + 1) = PopOlder(v, w + 1)
<1>1. PICK k \in 1 .. Len(s) + 1 : Begins(s, w, k)
  BY WindowBegins
<1>2. PICK c \in 1 .. Len(u) + 1 : Begins(u, w, c)
  BY WindowBegins
<1>3. Len(s) - k = Len(u) - c /\ \A i \in 1 .. Len(s) - k + 1 : s[k + i - 1] = u[c + i - 1]
  BY ZenonT(90), <1>1, <1>2, WindowsAlike
<1>4. /\ k \in 1 .. Len(t) + 1 /\ Begins(t, w + 1, k)
      /\ \A i \in 1 .. Len(s) - k + 1 : t[k + i - 1] = s[k + i - 1] + 1
  BY <1>1, NextWindow
<1>5. /\ c \in 1 .. Len(v) + 1 /\ Begins(v, w + 1, c)
      /\ \A i \in 1 .. Len(u) - c + 1 : v[c + i - 1] = u[c + i - 1] + 1
  BY <1>2, NextWindow
<1>6. Len(t) = Len(s) /\ Len(v) = Len(u) /\ w + 1 \in Nat
  BY DEF NextAges
<1>7. Len(t) - k = Len(v) - c
  BY <1>3, <1>6
<1>8. \A i \in 1 .. Len(t) - k + 1 : t[k + i - 1] = v[c + i - 1]
  <2> TAKE i \in 1 .. Len(t) - k + 1
  <2>1. i \in 1 .. Len(s) - k + 1 /\ i \in 1 .. Len(u) - c + 1
    BY <1>3, <1>6
  <2> QED
    BY <2>1, <1>3, <1>4, <1>5
<1> QED
  BY <1>4, <1>5, <1>6, <1>7, <1>8, SameWindow

-----------------------------------------------------------------------------
(* The throttle of the language model. *)

Pcs == HasLock \union {"new", "slot", "joining", "queued", "permit", "admitting", "parking", "parked", "sharing",
                       "request", "returning", "backoff", "answered", "failed"}

Nexts == {"permit", "answered", "failed", "backoff"}

CallType == [pc : Pcs, next : Nexts, attempt : Nat, sleep : Nat]

LockType == [held : BOOLEAN, waiters : Seq(Calls), woken : BOOLEAN, loop : Int \union Calls]

LlmTypes ==
    /\ calls \in [Calls -> CallType]
    /\ throttle \in LockType
    /\ recent \in Seq(0 .. Period + 1) /\ OldestFirst(recent)
    /\ granted \in Seq(Nat) /\ OldestFirst(granted)
    /\ met \in BOOLEAN

\* Without a limit nobody wants the lock.
WaitsForSomething == \A c \in Calls : calls[c].pc \in HasLock \union {"joining", "queued"} => RPM > 0

\* The deque holds what was let through in the last minute.
DequeIsTrue == RPM > 0 => StillRecent(recent) = granted

\* Calls of one loop never have the lock at once.
OneLoopIsSafe == Private = {} => ~met

Alone == \A c, d \in Calls : calls[c].pc \in HasLock /\ calls[d].pc \in HasLock => c = d

HolderHolds ==
    \A c \in Calls : calls[c].pc \in {"inside", "throttled", "append", "unlocking"} => throttle.held

\* From the wake-up until the one that was woken takes it, the lock is free and nobody can pass its test.
WokenWhenFree ==
    throttle.woken => /\ throttle.waiters # <<>>
                      /\ \A c \in Calls : calls[c].pc \notin HasLock

\* When the sleeper wakes, the oldest attempt has left the window.
SleepsLongEnough ==
    \A c \in Calls : calls[c].pc = "throttled" =>
        Len(granted) < RPM \/ granted[1] + calls[c].sleep > Period

RoomToAppend == \A c \in Calls : calls[c].pc = "append" => Len(granted) < RPM

OrderlyLock == Alone /\ HolderHolds /\ WokenWhenFree /\ SleepsLongEnough /\ RoomToAppend

LlmInv ==
    /\ LlmTypes
    /\ WaitsForSomething
    /\ DequeIsTrue
    /\ OneLoopIsSafe
    /\ ~met => OrderlyLock
    /\ SlotsWithinLimit

LEMMA LlmConstants == {RPM, Period, MaxDelay, MaxRetries} \subseteq Nat
BY LlmAssumption

LEMMA LlmInitInv == LlmInit => LlmInv
<1> SUFFICES ASSUME LlmInit PROVE LlmInv
  OBVIOUS
<1> USE LlmConstants
<1>1. LlmTypes
  <2>1. calls \in [Calls -> CallType]
    <3>1. [pc |-> "new", next |-> "permit", attempt |-> 0, sleep |-> 0] \in CallType
      BY DEF CallType, Pcs, Nexts
    <3> QED
      BY <3>1 DEF LlmInit
  <2>2. throttle \in LockType
    BY DEF LlmInit, LockType, Unbound
  <2>3. recent = <<>> /\ granted = <<>> /\ met \in BOOLEAN
    BY DEF LlmInit
  <2> QED
    BY <2>1, <2>2, <2>3 DEF LlmTypes, OldestFirst
<1>2. \A c \in Calls : calls[c].pc = "new"
  BY DEF LlmInit
<1>3. StillRecent(<<>>) = <<>>
  <2>1. <<>> \in Seq(Nat) /\ OldestFirst(<<>>)
    BY DEF OldestFirst
  <2>2. PICK k \in 1 .. Len(<<>>) + 1 : Len(PopOlder(<<>>, Period)) = Len(<<>>) - k + 1 /\ PopOlder(<<>>, Period) \in Seq(Nat)
    BY <2>1, PopShape
  <2> QED
    BY <2>2 DEF StillRecent
<1>4. ~throttle.woken /\ ~met /\ recent = <<>> /\ granted = <<>>
  BY DEF LlmInit
<1>5. OrderlyLock /\ WaitsForSomething
  BY <1>2, <1>4 DEF OrderlyLock, Alone, HolderHolds, WokenWhenFree, SleepsLongEnough, RoomToAppend,
     WaitsForSomething, HasLock
<1>6. DequeIsTrue /\ SlotsWithinLimit /\ OneLoopIsSafe
  BY <1>3, <1>4 DEF DequeIsTrue, SlotsWithinLimit, OneLoopIsSafe
<1> QED
  BY <1>1, <1>5, <1>6 DEF LlmInv

\* What the proof needs to know of the two sequences, whoever changes them.
LEMMA DequeNow ==
    ASSUME LlmInv
    PROVE  /\ recent \in Seq(Nat) /\ granted \in Seq(Nat)
           /\ StillRecent(recent) \in Seq(0 .. Period + 1)
           /\ StillRecent(recent) \in Seq(Nat)
           /\ OldestFirst(StillRecent(recent))
           /\ StillRecent(StillRecent(recent)) = StillRecent(recent)
           /\ \A i \in DOMAIN StillRecent(recent) : StillRecent(recent)[i] <= Period
<1> USE LlmConstants
<1>1. recent \in Seq(Nat) /\ OldestFirst(recent)
  BY DEF LlmInv, LlmTypes
<1> DEFINE p == PopOlder(recent, Period)
<1>2. p \in Seq(Nat) /\ OldestFirst(p) /\ \A i \in DOMAIN p : p[i] <= Period
  BY <1>1, PopStaysSorted
<1>3. PopOlder(p, Period) = p
  BY <1>1, PopTwice
<1> HIDE DEF p
<1>4. p \in Seq(0 .. Period + 1)
  <2>1. \A i \in 1 .. Len(p) : p[i] \in 0 .. Period + 1
    BY <1>2
  <2> QED
    BY <1>2, <2>1
<1> QED
  BY <1>1, <1>2, <1>3, <1>4 DEF p, StillRecent, LlmInv, LlmTypes

(***************************************************************************)
(* A step of c that lets no attempt through. What it may disturb is listed *)
(* as hypotheses: who has the lock, whether it is held, who was woken.     *)
(***************************************************************************)
LEMMA LlmMoves ==
    ASSUME LlmInv, NEW c \in Calls, calls' \in [Calls -> CallType],
           \A d \in Calls \ {c} : calls'[d] = calls[d],
           throttle' \in LockType, UNCHANGED granted,
           recent' = recent \/ recent' = StillRecent(recent),
           met' \in BOOLEAN, met => met', Private = {} => ~met',
           calls'[c].pc \in HasLock \union {"joining", "queued"} => RPM > 0,
           (~met' /\ calls'[c].pc \in HasLock) => \A d \in Calls \ {c} : calls[d].pc \notin HasLock,
           ~met' => throttle'.held = throttle.held \/ \A d \in Calls \ {c} : calls[d].pc \notin HasLock,
           calls'[c].pc \in {"inside", "throttled", "append", "unlocking"} /\ ~met' => throttle'.held,
           (~met' /\ throttle'.woken) =>
               /\ throttle'.waiters # <<>> /\ calls'[c].pc \notin HasLock
               /\ \A d \in Calls \ {c} : calls[d].pc \notin HasLock,
           (~met' /\ calls'[c].pc = "append") => Len(granted) < RPM,
           (~met' /\ calls'[c].pc = "throttled") => Len(granted) < RPM \/ granted[1] + calls'[c].sleep > Period
    PROVE  LlmInv'
<1> USE LlmConstants
<1>1. LlmTypes'
  BY DequeNow DEF LlmInv, LlmTypes, OldestFirst
<1>2. WaitsForSomething'
  BY DEF LlmInv, WaitsForSomething
<1>3. DequeIsTrue' /\ SlotsWithinLimit' /\ OneLoopIsSafe'
  <2>1. StillRecent(recent') = StillRecent(recent)
    BY DequeNow
  <2>2. met => met'
    OBVIOUS
  <2>3. DequeIsTrue'
    BY <2>1 DEF LlmInv, DequeIsTrue, StillRecent, PopOlder
  <2> QED
    BY <2>2, <2>3 DEF LlmInv, SlotsWithinLimit, OneLoopIsSafe
<1>4. ASSUME ~met' PROVE OrderlyLock'
  <2>1. OrderlyLock
    BY <1>4 DEF LlmInv
  <2>2. Alone'
    BY <2>1, <1>4 DEF OrderlyLock, Alone
  <2>3. HolderHolds'
    BY <2>1, <1>4 DEF OrderlyLock, HolderHolds, HasLock
  <2>4. WokenWhenFree'
    BY <2>1, <1>4 DEF OrderlyLock, WokenWhenFree
  <2>5. SleepsLongEnough' /\ RoomToAppend'
    BY <2>1, <1>4 DEF OrderlyLock, SleepsLongEnough, RoomToAppend
  <2> QED
    BY <2>2, <2>3, <2>4, <2>5 DEF OrderlyLock
<1> QED
  BY <1>1, <1>2, <1>3, <1>4 DEF LlmInv

\* Where c has come to, and what it will do next, whatever else the step does.
LEMMA LlmGoes ==
    ASSUME LlmInv, NEW c \in Calls, NEW pc \in Pcs, NEW next \in Nexts,
           Goes(c, pc) \/ calls' = [calls EXCEPT ![c] = [@ EXCEPT !.pc = pc, !.next = next]]
    PROVE  /\ calls' \in [Calls -> CallType]
           /\ \A d \in Calls \ {c} : calls'[d] = calls[d]
           /\ calls'[c].pc = pc
<1>1. calls \in [Calls -> CallType]
  BY DEF LlmInv, LlmTypes
<1>2. CASE Goes(c, pc)
  <2>1. calls'[c] = [calls[c] EXCEPT !.pc = pc] /\ \A d \in Calls \ {c} : calls'[d] = calls[d]
    BY <1>1, <1>2 DEF Goes
  <2>2. calls'[c] \in CallType /\ calls'[c].pc = pc
    BY <1>1, <2>1 DEF CallType
  <2> QED
    BY <1>1, <1>2, <2>1, <2>2 DEF Goes
<1>3. CASE calls' = [calls EXCEPT ![c] = [@ EXCEPT !.pc = pc, !.next = next]]
  <2> DEFINE one == [calls[c] EXCEPT !.pc = pc]
             two == [one EXCEPT !.next = next]
  <2>1. one \in CallType /\ one.pc = pc
    BY <1>1 DEF CallType
  <2>2. calls'[c] = two /\ \A d \in Calls \ {c} : calls'[d] = calls[d]
    BY <1>1, <1>3
  <2>3. two \in CallType /\ two.pc = pc
    <3> HIDE DEF one
    <3> QED
      BY <2>1 DEF CallType
  <2> QED
    BY <1>1, <1>3, <2>2, <2>3
<1> QED
  BY <1>2, <1>3

\* A step of c that has nothing to do with the lock.
LEMMA LlmElsewhere ==
    ASSUME LlmInv, NEW c \in Calls, calls' \in [Calls -> CallType],
           \A d \in Calls \ {c} : calls'[d] = calls[d],
           calls'[c].pc \notin HasLock,
           calls'[c].pc \in {"joining", "queued"} => RPM > 0,
           UNCHANGED <<recent, granted, throttle, met>>
    PROVE  LlmInv'
<1>1. throttle \in LockType /\ met \in BOOLEAN /\ (Private = {} => ~met)
  BY DEF LlmInv, LlmTypes, OneLoopIsSafe
<1>2. (~met /\ throttle.woken) => throttle.waiters # <<>> /\ \A d \in Calls : calls[d].pc \notin HasLock
  BY DEF LlmInv, OrderlyLock, WokenWhenFree
<1>3. calls'[c].pc \notin {"inside", "throttled", "append", "unlocking"}
  BY DEF HasLock
<1> QED
  BY <1>1, <1>2, <1>3, LlmMoves

LEMMA LlmTestsLock == ASSUME LlmInv, NEW c \in Calls, TestLock(c) PROVE LlmInv'
<1> USE LlmConstants
<1>1. throttle \in LockType /\ met \in BOOLEAN /\ (Private = {} => ~met)
  BY DEF LlmInv, LlmTypes, OneLoopIsSafe
<1>2. CASE RPM > 0 /\ ~throttle.held /\ throttle.waiters = <<>>
  <2>1. Goes(c, "taking") /\ Meets(c) /\ UNCHANGED <<recent, granted, throttle>>
    BY <1>2 DEF TestLock
  <2>2. calls' \in [Calls -> CallType] /\ calls'[c].pc = "taking" /\ \A d \in Calls \ {c} : calls'[d] = calls[d]
    BY <2>1, LlmGoes DEF Pcs, HasLock, Nexts
  <2>3. met' \in BOOLEAN /\ (met => met')
    BY <2>1, <1>1 DEF Meets
  <2>4. Private = {} => ~met'
    BY <2>1, <1>1 DEF Meets, Loop
  <2>5. ASSUME ~met', NEW d \in Calls \ {c} PROVE calls[d].pc \notin HasLock
    <3>1. ~met /\ (Loop(d) # Loop(c) => calls[d].pc \notin HasLock)
      BY <2>1, <2>5 DEF Meets
    <3>2. CASE Loop(d) = Loop(c)
      <4>1. calls[d].pc \notin Busy
        BY <3>2 DEF TestLock, Runs
      <4>2. calls[d].pc # "throttled"
        BY <3>1, <1>2 DEF LlmInv, OrderlyLock, HolderHolds
      <4> QED
        BY <4>1, <4>2 DEF Busy
    <3> QED
      BY <3>1, <3>2
  <2>6. ~met' => ~throttle'.woken
    BY <2>1, <2>3, <1>2 DEF LlmInv, OrderlyLock, WokenWhenFree
  <2>7. calls'[c].pc \notin {"inside", "throttled", "append", "unlocking"}
    BY <2>2
  <2> QED
    BY <1>1, <1>2, <2>1, <2>2, <2>3, <2>4, <2>5, <2>6, <2>7, LlmMoves
<1>3. CASE ~ (RPM > 0 /\ ~throttle.held /\ throttle.waiters = <<>>)
  <2> DEFINE pc == IF RPM = 0 THEN "permit" ELSE "joining"
  <2>1. Goes(c, pc) /\ UNCHANGED <<recent, granted, throttle, met>>
    BY <1>3 DEF TestLock
  <2>2. pc \in Pcs /\ pc \notin HasLock /\ (pc \in {"joining", "queued"} => RPM > 0)
    BY DEF Pcs, HasLock
  <2> HIDE DEF pc
  <2>3. calls' \in [Calls -> CallType] /\ calls'[c].pc = pc /\ \A d \in Calls \ {c} : calls'[d] = calls[d]
    BY <2>1, <2>2, LlmGoes DEF Nexts
  <2> QED
    BY <2>1, <2>2, <2>3, LlmElsewhere
<1> QED
  BY <1>2, <1>3

LEMMA LlmJoins == ASSUME LlmInv, NEW c \in Calls, JoinQueue(c) PROVE LlmInv'
<1> USE LlmConstants
<1>1. throttle \in LockType /\ met \in BOOLEAN /\ (Private = {} => ~met) /\ calls[c].pc = "joining" /\ RPM > 0
  BY DEF LlmInv, LlmTypes, OneLoopIsSafe, WaitsForSomething, JoinQueue
<1>2. CASE MayWait(c, throttle)
  <2>1. throttle' = Queued(c, throttle) /\ Goes(c, "queued") /\ UNCHANGED <<recent, granted, met>>
    BY <1>2 DEF JoinQueue
  <2>2. calls' \in [Calls -> CallType] /\ calls'[c].pc = "queued" /\ \A d \in Calls \ {c} : calls'[d] = calls[d]
    BY <2>1, LlmGoes DEF Pcs, Nexts
  <2>3. throttle' \in LockType /\ throttle'.held = throttle.held /\ throttle'.woken = throttle.woken
    <3>1. Append(throttle.waiters, c) \in Seq(Calls) /\ Loop(c) \in Int \union Calls
      BY <1>1 DEF LockType, Loop
    <3> QED
      BY <2>1, <1>1, <3>1 DEF Queued, LockType
  <2>4. throttle'.waiters # <<>>
    <3>1. throttle.waiters \in Seq(Calls) /\ throttle'.waiters = Append(throttle.waiters, c)
      BY <2>1, <1>1 DEF Queued, LockType
    <3> QED
      BY <3>1
  <2>5. (~met /\ throttle.woken) => \A d \in Calls : calls[d].pc \notin HasLock
    BY DEF LlmInv, OrderlyLock, WokenWhenFree
  <2>6. calls'[c].pc \notin HasLock /\ calls'[c].pc \notin {"inside", "throttled", "append", "unlocking"}
    BY <2>2 DEF HasLock
  <2> QED
    BY <1>1, <2>1, <2>2, <2>3, <2>4, <2>5, <2>6, LlmMoves
<1>3. CASE ~ MayWait(c, throttle)
  <2>1. Goes(c, "failed") /\ UNCHANGED <<recent, granted, throttle, met>>
    BY <1>3 DEF JoinQueue
  <2>2. calls' \in [Calls -> CallType] /\ calls'[c].pc = "failed" /\ \A d \in Calls \ {c} : calls'[d] = calls[d]
    BY <2>1, LlmGoes DEF Pcs, Nexts
  <2> QED
    BY <2>1, <2>2, LlmElsewhere DEF HasLock
<1> QED
  BY <1>2, <1>3

LEMMA LlmGetsLock == ASSUME LlmInv, NEW c \in Calls, GetLock(c) PROVE LlmInv'
<1> USE LlmConstants
<1>1. throttle \in LockType /\ met \in BOOLEAN /\ (Private = {} => ~met) /\ RPM > 0
  BY DEF LlmInv, LlmTypes, OneLoopIsSafe, WaitsForSomething, GetLock
<1>2. /\ throttle' = [throttle EXCEPT !.waiters = Tail(@), !.woken = FALSE] /\ Goes(c, "taking") /\ Meets(c)
      /\ UNCHANGED <<recent, granted>> /\ throttle.woken
  BY DEF GetLock
<1>3. calls' \in [Calls -> CallType] /\ calls'[c].pc = "taking" /\ \A d \in Calls \ {c} : calls'[d] = calls[d]
  BY <1>2, LlmGoes DEF Pcs, HasLock, Nexts
<1>4. met' \in BOOLEAN /\ (met => met')
  BY <1>2, <1>1 DEF Meets
<1>5. Private = {} => ~met'
  BY <1>2, <1>1 DEF Meets, Loop
<1>6. throttle'.woken = FALSE /\ throttle'.held = throttle.held /\ throttle' \in LockType
  <2>1. throttle.waiters # <<>> => Tail(throttle.waiters) \in Seq(Calls)
    BY <1>1 DEF LockType
  <2>2. Tail(throttle.waiters) \in Seq(Calls)
    <3>1. CASE throttle.waiters = <<>>
      BY <3>1, <1>1 DEF LockType
    <3> QED
      BY <2>1, <3>1
  <2> DEFINE one == [throttle EXCEPT !.waiters = Tail(@)]
  <2>3. one \in LockType /\ one.held = throttle.held
    BY <2>2, <1>1 DEF LockType
  <2>4. throttle' = [one EXCEPT !.woken = FALSE]
    BY <1>2
  <2> HIDE DEF one
  <2> QED
    BY <2>3, <2>4 DEF LockType
<1>7. ~met' => \A d \in Calls : calls[d].pc \notin HasLock
  BY <1>2, <1>4 DEF LlmInv, OrderlyLock, WokenWhenFree
<1>8. calls'[c].pc \notin {"inside", "throttled", "append", "unlocking"}
  BY <1>3
<1> QED
  BY <1>1, <1>2, <1>3, <1>4, <1>5, <1>6, <1>7, <1>8, LlmMoves

\* While two loops have not met, c is the only one to have the lock, and nobody has been woken.
LEMMA OnlyHolder ==
    ASSUME LlmInv, NEW c \in Calls, calls[c].pc \in HasLock
    PROVE  /\ throttle \in LockType /\ met \in BOOLEAN /\ (Private = {} => ~met) /\ RPM > 0
           /\ ~met => (~throttle.woken /\ \A d \in Calls \ {c} : calls[d].pc \notin HasLock)
BY DEF LlmInv, LlmTypes, OneLoopIsSafe, WaitsForSomething, OrderlyLock, Alone, WokenWhenFree

LEMMA LlmTakesLock == ASSUME LlmInv, NEW c \in Calls, TakeLock(c) PROVE LlmInv'
<1>1. /\ throttle \in LockType /\ met \in BOOLEAN /\ (Private = {} => ~met) /\ RPM > 0
      /\ ~met => (~throttle.woken /\ \A d \in Calls \ {c} : calls[d].pc \notin HasLock)
  BY OnlyHolder DEF TakeLock, HasLock
<1>2. /\ throttle' = [throttle EXCEPT !.held = TRUE] /\ Goes(c, "inside") /\ UNCHANGED <<recent, granted, met>>
  BY DEF TakeLock
<1>3. calls' \in [Calls -> CallType] /\ calls'[c].pc = "inside" /\ \A d \in Calls \ {c} : calls'[d] = calls[d]
  BY <1>2, LlmGoes DEF Pcs, HasLock, Nexts
<1>4. throttle' \in LockType /\ throttle'.held /\ throttle'.woken = throttle.woken
  BY <1>1, <1>2 DEF LockType
<1> QED
  BY <1>1, <1>2, <1>3, <1>4, LlmMoves

LEMMA LlmCounts == ASSUME LlmInv, NEW c \in Calls, Count(c) PROVE LlmInv'
<1> USE LlmConstants
<1>1. /\ throttle \in LockType /\ met \in BOOLEAN /\ (Private = {} => ~met) /\ RPM > 0
      /\ ~met => (~throttle.woken /\ \A d \in Calls \ {c} : calls[d].pc \notin HasLock)
  BY OnlyHolder DEF Count, HasLock
<1>2. recent' = StillRecent(recent) /\ UNCHANGED <<granted, throttle, met>> /\ calls[c].pc = "inside"
  BY DEF Count
<1>3. ~met => throttle.held
  BY <1>2 DEF LlmInv, OrderlyLock, HolderHolds
<1>4. StillRecent(recent) = granted
  BY <1>1 DEF LlmInv, DequeIsTrue
<1>5. CASE Len(recent') < RPM
  <2>1. Goes(c, "append")
    BY <1>5 DEF Count
  <2>2. calls' \in [Calls -> CallType] /\ calls'[c].pc = "append" /\ \A d \in Calls \ {c} : calls'[d] = calls[d]
    BY <2>1, LlmGoes DEF Pcs, HasLock, Nexts
  <2> QED
    BY <1>1, <1>2, <1>3, <1>4, <1>5, <2>2, LlmMoves
<1>6. CASE ~ (Len(recent') < RPM)
  <2> DEFINE n == Period - granted[1] + 1
  <2>1. granted \in Seq(Nat) /\ Len(granted) > 0 /\ Head(granted) = granted[1] /\ granted[1] \in Nat /\ granted[1] <= Period
    <3>1. granted \in Seq(Nat) /\ \A i \in DOMAIN granted : granted[i] <= Period
      BY <1>4, DequeNow
    <3>2. Len(granted) \in Nat /\ ~ (Len(granted) < RPM)
      BY <3>1, <1>2, <1>4, <1>6
    <3>3. Len(granted) > 0 /\ 1 \in DOMAIN granted
      BY <3>1, <3>2, <1>1
    <3> QED
      BY <3>1, <3>3
  <2>2. n \in Nat
    BY <2>1
  <2>3. calls' = [calls EXCEPT ![c] = [@ EXCEPT !.pc = "throttled", !.sleep = n]]
    BY <1>2, <1>4, <1>6, <2>1 DEF Count
  <2>4. calls \in [Calls -> CallType]
    BY DEF LlmInv, LlmTypes
  <2> HIDE DEF n
  <2> DEFINE one == [calls[c] EXCEPT !.pc = "throttled"]
             two == [one EXCEPT !.sleep = n]
  <2>5. one \in CallType /\ one.pc = "throttled"
    BY <2>4 DEF CallType, Pcs, HasLock
  <2>6. calls'[c] = two /\ \A d \in Calls \ {c} : calls'[d] = calls[d]
    BY <2>3, <2>4
  <2>7. two \in CallType /\ two.pc = "throttled" /\ two.sleep = n
    <3> HIDE DEF one
    <3> QED
      BY <2>2, <2>5 DEF CallType
  <2> HIDE DEF one, two
  <2>8. calls' \in [Calls -> CallType]
    BY <2>3, <2>4, <2>6, <2>7
  <2>9. granted[1] + calls'[c].sleep > Period
    BY <2>1, <2>6, <2>7 DEF n
  <2> QED
    BY <1>1, <1>2, <1>3, <2>6, <2>7, <2>8, <2>9, LlmMoves
<1> QED
  BY <1>5, <1>6

LEMMA LlmCountFails == ASSUME LlmInv, NEW c \in Calls, CountFails(c) PROVE LlmInv'
<1>1. /\ throttle \in LockType /\ met \in BOOLEAN /\ (Private = {} => ~met) /\ RPM > 0
      /\ ~met => (~throttle.woken /\ \A d \in Calls \ {c} : calls[d].pc \notin HasLock)
  BY OnlyHolder DEF CountFails, HasLock
<1>2. /\ UNCHANGED <<recent, granted, throttle, met>> /\ calls[c].pc = "inside"
      /\ calls' = [calls EXCEPT ![c] = [@ EXCEPT !.pc = "unlocking", !.next = "failed"]]
  BY DEF CountFails
<1>3. ~met => throttle.held
  BY <1>2 DEF LlmInv, OrderlyLock, HolderHolds
<1>4. calls' \in [Calls -> CallType] /\ calls'[c].pc = "unlocking" /\ \A d \in Calls \ {c} : calls'[d] = calls[d]
  BY <1>2, LlmGoes DEF Pcs, HasLock, Nexts
<1> QED
  BY <1>1, <1>2, <1>3, <1>4, LlmMoves

LEMMA LlmEndsSleep == ASSUME LlmInv, NEW c \in Calls, EndSleep(c) PROVE LlmInv'
<1> USE LlmConstants
<1>1. /\ throttle \in LockType /\ met \in BOOLEAN /\ (Private = {} => ~met) /\ RPM > 0
      /\ ~met => (~throttle.woken /\ \A d \in Calls \ {c} : calls[d].pc \notin HasLock)
  BY OnlyHolder DEF EndSleep, HasLock
<1>2. /\ recent' = StillRecent(recent) /\ UNCHANGED <<granted, throttle, met>> /\ Goes(c, "append")
      /\ calls[c].pc = "throttled" /\ calls[c].sleep = 0
  BY DEF EndSleep
<1>3. ~met => throttle.held
  BY <1>2 DEF LlmInv, OrderlyLock, HolderHolds
<1>4. StillRecent(recent) = granted /\ granted \in Seq(Nat)
  BY <1>1 DEF LlmInv, DequeIsTrue, LlmTypes
<1>5. ~met => Len(granted) < RPM
  <2> SUFFICES ASSUME ~met, ~ (Len(granted) < RPM) PROVE FALSE
    OBVIOUS
  <2>1. granted[1] + 0 > Period
    BY <1>2 DEF LlmInv, OrderlyLock, SleepsLongEnough
  <2>2. Len(granted) \in Nat
    BY <1>4
  <2>3. 1 \in DOMAIN granted /\ granted[1] \in Nat
    BY <1>1, <1>4, <2>2
  <2>4. granted[1] <= Period
    BY <1>4, <2>3, DequeNow
  <2> QED
    BY <2>1, <2>3, <2>4
<1>6. calls' \in [Calls -> CallType] /\ calls'[c].pc = "append" /\ \A d \in Calls \ {c} : calls'[d] = calls[d]
  BY <1>2, LlmGoes DEF Pcs, HasLock, Nexts
<1> QED
  BY <1>1, <1>2, <1>3, <1>5, <1>6, LlmMoves

\* c is let through: its attempt joins the deque.
LEMMA LlmAdds == ASSUME LlmInv, NEW c \in Calls, AddAttempt(c) PROVE LlmInv'
<1> USE LlmConstants
<1>1. /\ throttle \in LockType /\ met \in BOOLEAN /\ (Private = {} => ~met) /\ RPM > 0
      /\ ~met => (~throttle.woken /\ \A d \in Calls \ {c} : calls[d].pc \notin HasLock)
  BY OnlyHolder DEF AddAttempt, HasLock
<1>2. /\ recent' = Append(recent, 0) /\ granted' = Append(granted, 0) /\ UNCHANGED <<throttle, met>>
      /\ calls' = [calls EXCEPT ![c] = [@ EXCEPT !.pc = "unlocking", !.next = "permit"]] /\ calls[c].pc = "append"
  BY DEF AddAttempt
<1>3. calls' \in [Calls -> CallType] /\ calls'[c].pc = "unlocking" /\ \A d \in Calls \ {c} : calls'[d] = calls[d]
  BY <1>2, LlmGoes DEF Pcs, HasLock, Nexts
<1>4. /\ recent \in Seq(0 .. Period + 1) /\ recent \in Seq(Nat) /\ OldestFirst(recent)
      /\ granted \in Seq(Nat) /\ OldestFirst(granted)
  BY DequeNow DEF LlmInv, LlmTypes
<1>5. /\ OldestFirst(Append(recent, 0)) /\ PopOlder(Append(recent, 0), Period) = Append(PopOlder(recent, Period), 0)
      /\ OldestFirst(Append(granted, 0))
  BY <1>4, PopAppend
<1>6. Append(recent, 0) \in Seq(0 .. Period + 1) /\ Append(granted, 0) \in Seq(Nat) /\ Len(Append(granted, 0)) = Len(granted) + 1
  BY <1>4
<1>7. LlmTypes'
  BY <1>1, <1>2, <1>3, <1>5, <1>6 DEF LlmTypes, OldestFirst
<1>8. DequeIsTrue'
  <2>1. PopOlder(recent, Period) = granted
    BY <1>1 DEF LlmInv, DequeIsTrue, StillRecent
  <2> QED
    BY <2>1, <1>2, <1>5 DEF DequeIsTrue, StillRecent, PopOlder
<1>9. WaitsForSomething' /\ OneLoopIsSafe'
  BY <1>1, <1>2, <1>3 DEF LlmInv, WaitsForSomething, OneLoopIsSafe
<1>10. SlotsWithinLimit'
  <2>1. ~met => Len(granted) < RPM
    BY <1>2 DEF LlmInv, OrderlyLock, RoomToAppend
  <2>2. Len(granted) \in Nat
    BY <1>4
  <2> QED
    BY <2>1, <2>2, <1>2, <1>6 DEF SlotsWithinLimit
<1>11. ASSUME ~met PROVE OrderlyLock'
  <2>1. OrderlyLock /\ throttle.held
    BY <1>2, <1>11 DEF LlmInv, OrderlyLock, HolderHolds
  <2>2. \A d \in Calls \ {c} : calls'[d].pc \notin HasLock
    BY <1>1, <1>3, <1>11
  <2>3. Alone' /\ HolderHolds'
    BY <2>1, <2>2, <1>2 DEF Alone, HolderHolds
  <2>4. WokenWhenFree'
    BY <1>1, <1>2, <1>11 DEF WokenWhenFree
  <2>5. SleepsLongEnough' /\ RoomToAppend'
    BY <2>2, <1>3 DEF SleepsLongEnough, RoomToAppend, HasLock
  <2> QED
    BY <2>3, <2>4, <2>5 DEF OrderlyLock
<1> QED
  BY <1>2, <1>7, <1>8, <1>9, <1>10, <1>11 DEF LlmInv

LEMMA LlmUnlocks == ASSUME LlmInv, NEW c \in Calls, Unlock(c) PROVE LlmInv'
<1>1. /\ throttle \in LockType /\ met \in BOOLEAN /\ (Private = {} => ~met) /\ RPM > 0
      /\ ~met => (~throttle.woken /\ \A d \in Calls \ {c} : calls[d].pc \notin HasLock)
  BY OnlyHolder DEF Unlock, HasLock
<1> DEFINE pc == IF throttle.held THEN "waking" ELSE "failed"
<1>2. throttle' = [throttle EXCEPT !.held = FALSE] /\ UNCHANGED <<recent, granted, met>> /\ Goes(c, pc)
  BY DEF Unlock
<1>3. pc \in Pcs /\ pc \notin {"inside", "throttled", "append", "unlocking", "joining", "queued"}
  BY DEF Pcs, HasLock
<1> HIDE DEF pc
<1>4. calls' \in [Calls -> CallType] /\ calls'[c].pc = pc /\ \A d \in Calls \ {c} : calls'[d] = calls[d]
  BY <1>2, <1>3, LlmGoes DEF Nexts
<1>5. throttle' \in LockType /\ throttle'.woken = throttle.woken
  BY <1>1, <1>2 DEF LockType
<1> QED
  BY <1>1, <1>2, <1>3, <1>4, <1>5, LlmMoves

LEMMA LlmWakesFirst == ASSUME LlmInv, NEW c \in Calls, WakeFirst(c) PROVE LlmInv'
<1>1. /\ throttle \in LockType /\ met \in BOOLEAN /\ (Private = {} => ~met) /\ RPM > 0
      /\ ~met => (~throttle.woken /\ \A d \in Calls \ {c} : calls[d].pc \notin HasLock)
  BY OnlyHolder DEF WakeFirst, HasLock
<1> DEFINE pc == calls[c].next
<1>2. /\ throttle' = [throttle EXCEPT !.woken = (throttle.waiters # <<>>)]
      /\ UNCHANGED <<recent, granted, met>> /\ Goes(c, pc)
  BY DEF WakeFirst
<1>3. pc \in Pcs /\ pc \notin HasLock /\ pc \notin {"joining", "queued"}
  <2>1. calls[c].next \in Nexts
    BY DEF LlmInv, LlmTypes, CallType
  <2> QED
    BY <2>1 DEF Pcs, HasLock, Nexts
<1> HIDE DEF pc
<1>4. calls' \in [Calls -> CallType] /\ calls'[c].pc = pc /\ \A d \in Calls \ {c} : calls'[d] = calls[d]
  BY <1>2, <1>3, LlmGoes DEF Nexts
<1>5. /\ throttle' \in LockType /\ throttle'.woken = (throttle.waiters # <<>>)
      /\ throttle'.waiters = throttle.waiters /\ throttle'.held = throttle.held
  BY <1>1, <1>2 DEF LockType
<1>6. pc \notin {"inside", "throttled", "append", "unlocking"}
  BY <1>3 DEF HasLock
<1> QED
  BY <1>1, <1>2, <1>3, <1>4, <1>5, <1>6, LlmMoves

\* A failed attempt goes to sleep before the next.
LEMMA LlmReturns == ASSUME LlmInv, NEW c \in Calls, Return(c) PROVE LlmInv'
<1>1. calls \in [Calls -> CallType] /\ UNCHANGED <<recent, granted, throttle, met>>
  BY DEF LlmInv, LlmTypes, Return
<1>2. CASE calls[c].next # "backoff"
  <2> DEFINE pc == calls[c].next
  <2>1. pc \in Pcs /\ pc \notin HasLock /\ pc \notin {"joining", "queued"} /\ Goes(c, pc)
    <3>1. calls[c].next \in Nexts
      BY <1>1 DEF CallType
    <3> QED
      BY <3>1, <1>2 DEF Pcs, HasLock, Nexts, Return
  <2> HIDE DEF pc
  <2>2. calls' \in [Calls -> CallType] /\ calls'[c].pc = pc /\ \A d \in Calls \ {c} : calls'[d] = calls[d]
    BY <2>1, LlmGoes DEF Nexts
  <2> QED
    BY <1>1, <2>1, <2>2, LlmElsewhere
<1>3. CASE calls[c].next = "backoff"
  <2>1. PICK delay \in 0 .. MaxDelay :
           calls' = [calls EXCEPT ![c] =
               [pc |-> "backoff", next |-> "permit", attempt |-> @.attempt + 1, sleep |-> delay]]
    BY <1>3 DEF Return
  <2>2. /\ calls'[c] = [pc |-> "backoff", next |-> "permit", attempt |-> calls[c].attempt + 1, sleep |-> delay]
        /\ \A d \in Calls \ {c} : calls'[d] = calls[d]
    BY <1>1, <2>1
  <2>3. calls'[c] \in CallType /\ calls'[c].pc = "backoff"
    <3>1. calls[c].attempt + 1 \in Nat /\ delay \in Nat
      BY <1>1, LlmConstants DEF CallType
    <3> QED
      BY <2>2, <3>1 DEF CallType, Pcs, Nexts
  <2>4. calls' \in [Calls -> CallType]
    BY <1>1, <2>1, <2>3
  <2> QED
    BY <1>1, <2>2, <2>3, <2>4, LlmElsewhere DEF HasLock
<1> QED
  BY <1>2, <1>3

\* The other steps of the semaphore leave the lock and the deque alone.
LEMMA LlmAtSemaphore ==
    ASSUME LlmInv, NEW c \in Calls,
           \/ TestPermit(c) \/ TakePermit(c) \/ Park(c) \/ GetPermit(c) \/ Share(c)
           \/ Answer(c, "answered") \/ Answer(c, "failed") \/ RetryLater(c)
           \/ TryAgain(c) \/ Call(c)
    PROVE  LlmInv'
<1> DEFINE Elsewhere == Pcs \ (HasLock \union {"joining", "queued"})
<1>1. UNCHANGED <<recent, granted, throttle, met>>
  BY DEF TestPermit, TakePermit, Park, GetPermit, Share, Answer, RetryLater, GiveBack, TryAgain, Call
<1>2. calls \in [Calls -> CallType]
  BY DEF LlmInv, LlmTypes
<1>3. ASSUME NEW pc \in Elsewhere, NEW next \in Nexts,
             Goes(c, pc) \/ calls' = [calls EXCEPT ![c] = [@ EXCEPT !.pc = pc, !.next = next]]
      PROVE  LlmInv'
  <2>1. calls' \in [Calls -> CallType] /\ calls'[c].pc = pc /\ \A d \in Calls \ {c} : calls'[d] = calls[d]
    BY <1>3, LlmGoes
  <2> QED
    BY <1>1, <2>1, LlmElsewhere
<1>4. "permit" \in Nexts /\ {"slot", "permit", "admitting", "parking", "parked", "sharing", "request", "returning",
                             "answered", "failed"} \subseteq Elsewhere
  BY DEF Pcs, HasLock, Nexts
<1> HIDE DEF Elsewhere
<1>5. CASE TestPermit(c)
  <2>1. Goes(c, "admitting") \/ Goes(c, "parking")
    BY <1>5 DEF TestPermit
  <2> QED
    BY <2>1, <1>3, <1>4
<1>6. CASE TakePermit(c) \/ GetPermit(c) \/ Call(c)
  <2>1. Goes(c, "request") \/ Goes(c, "sharing") \/ Goes(c, "slot")
    BY <1>6 DEF TakePermit, GetPermit, Call
  <2> QED
    BY <2>1, <1>3, <1>4
<1>7. CASE Park(c)
  <2>1. Goes(c, "parked") \/ Goes(c, "failed")
    BY <1>7 DEF Park
  <2> QED
    BY <2>1, <1>3, <1>4
<1>8. CASE Share(c)
  <2>1. Goes(c, "request") \/ (UNCHANGED calls /\ calls[c].pc = "sharing")
    BY <1>8 DEF Share
  <2>2. CASE UNCHANGED calls /\ calls[c].pc = "sharing"
    BY <1>1, <1>2, <2>2, LlmElsewhere DEF HasLock
  <2> QED
    BY <2>1, <2>2, <1>3, <1>4
<1>9. CASE Answer(c, "answered") \/ Answer(c, "failed") \/ RetryLater(c)
  <2>1. PICK next \in Nexts : calls' = [calls EXCEPT ![c] = [@ EXCEPT !.pc = "returning", !.next = next]]
    BY <1>9 DEF Answer, RetryLater, GiveBack, Nexts
  <2> QED
    BY <2>1, <1>3, <1>4
<1>10. CASE TryAgain(c)
  <2>1. Goes(c, "failed") \/ Goes(c, "slot")
    BY <1>10 DEF TryAgain
  <2> QED
    BY <2>1, <1>3, <1>4
<1> QED
  BY <1>5, <1>6, <1>7, <1>8, <1>9, <1>10

LEMMA LlmElapses == ASSUME LlmInv, Elapse PROVE LlmInv'
<1> USE LlmConstants
<1>1. /\ recent \in Seq(0 .. Period + 1) /\ recent \in Seq(Nat) /\ OldestFirst(recent)
      /\ granted \in Seq(Nat) /\ OldestFirst(granted)
  BY DequeNow DEF LlmInv, LlmTypes
<1> DEFINE aged == [i \in DOMAIN granted |-> granted[i] + 1]
<1>2. /\ recent' \in Seq(0 .. Period + 1) /\ Len(recent') = Len(recent)
      /\ \A i \in 1 .. Len(recent) : recent'[i] = IF recent[i] + 1 <= Period + 1 THEN recent[i] + 1 ELSE Period + 1
  <2>1. \A i \in 1 .. Len(recent) :
           Min({recent[i] + 1, Period + 1}) = IF recent[i] + 1 <= Period + 1 THEN recent[i] + 1 ELSE Period + 1
    <3> TAKE i \in 1 .. Len(recent)
    <3>1. recent[i] + 1 \in Int /\ Period + 1 \in Int
      BY <1>1
    <3>2. \A a, b \in Int : Min({a, b}) = IF a <= b THEN a ELSE b
      BY DEF Min
    <3> QED
      BY <3>1, <3>2
  <2>2. recent' = [i \in 1 .. Len(recent) |-> Min({recent[i] + 1, Period + 1})]
    BY <1>1 DEF Elapse
  <2>3. \A i \in 1 .. Len(recent) : Min({recent[i] + 1, Period + 1}) \in 0 .. Period + 1
    <3> TAKE i \in 1 .. Len(recent)
    <3>1. recent[i] \in 0 .. Period + 1
      BY <1>1
    <3> QED
      BY <3>1, <2>1
  <2> DEFINE r == [i \in 1 .. Len(recent) |-> Min({recent[i] + 1, Period + 1})]
  <2>4. r \in [1 .. Len(recent) -> 0 .. Period + 1]
    BY <2>3
  <2> HIDE DEF r
  <2>5. r \in Seq(0 .. Period + 1) /\ Len(r) = Len(recent)
    <3>1. Len(recent) \in Nat
      BY <1>1
    <3> QED
      BY <2>4, <3>1
  <2>6. recent' = r /\ \A i \in 1 .. Len(recent) : r[i] = Min({recent[i] + 1, Period + 1})
    BY <2>2 DEF r
  <2> QED
    BY <2>1, <2>5, <2>6
<1>3. OldestFirst(recent') /\ recent' \in Seq(Nat)
  <2>1. recent' \in Seq(Nat)
    BY <1>1, <1>2
  <2>2. \A i, j \in 1 .. Len(recent) : i <= j => recent'[j] <= recent'[i]
    <3> TAKE i, j \in 1 .. Len(recent)
    <3>1. recent[i] \in Nat /\ recent[j] \in Nat /\ (i <= j => recent[j] <= recent[i])
      BY SMTT(60), ZenonT(90), <1>1 DEF OldestFirst
    <3> QED
      BY SMTT(60), ZenonT(90), <3>1, <1>2
  <2> QED
    BY SMTT(60), ZenonT(90), <2>1, <2>2, <1>2 DEF OldestFirst
<1>4. Ages(recent, recent', Period)
  <2>1. \A i \in 1 .. Len(recent) : /\ (recent[i] > Period => recent'[i] > Period)
                                   /\ (recent[i] <= Period => recent'[i] = recent[i] + 1)
    <3> TAKE i \in 1 .. Len(recent)
    <3>1. recent[i] \in 0 .. Period + 1
      BY <1>1
    <3>2. recent'[i] = IF recent[i] + 1 <= Period + 1 THEN recent[i] + 1 ELSE Period + 1
      BY <1>2
    <3> QED
      BY <3>1, <3>2
  <2>2. Len(recent') = Len(recent)
    BY <1>2
  <2> QED
    BY <2>1, <2>2 DEF Ages
<1>5. /\ aged \in Seq(Nat) /\ Len(aged) = Len(granted)
      /\ \A i \in 1 .. Len(granted) : aged[i] = granted[i] + 1 /\ granted[i] \in Nat
  <2>1. aged \in [1 .. Len(granted) -> Nat] /\ Len(granted) \in Nat
    BY <1>1
  <2>2. aged \in Seq(Nat) /\ Len(aged) = Len(granted)
    BY <2>1
  <2> QED
    BY <2>2, <1>1
<1> HIDE DEF aged
<1>6. OldestFirst(aged)
  <2>1. \A i, j \in 1 .. Len(granted) : i <= j => aged[j] <= aged[i]
    <3> TAKE i, j \in 1 .. Len(granted)
    <3>1. granted[i] \in Nat /\ granted[j] \in Nat /\ (i <= j => granted[j] <= granted[i])
      BY SMTT(60), ZenonT(90), <1>1 DEF OldestFirst
    <3> QED
      BY <3>1, <1>5
  <2> QED
    BY SMTT(60), ZenonT(90), <2>1, <1>5 DEF OldestFirst
<1>7. Ages(granted, aged, Period)
  BY SMTT(60), ZenonT(90), <1>5 DEF Ages
<1>8. granted' = PopOlder(aged, Period)
  BY DEF aged, Elapse
<1>9. granted' \in Seq(Nat) /\ OldestFirst(granted') /\ Len(granted') <= Len(granted)
  BY <1>5, <1>6, <1>8, PopStaysSorted
<1>10. \A c \in Calls : /\ calls'[c] = [calls[c] EXCEPT !.sleep = IF @ > 0 THEN @ - 1 ELSE 0]
                        /\ calls'[c] \in CallType /\ calls'[c].pc = calls[c].pc
                        /\ calls'[c].sleep = IF calls[c].sleep > 0 THEN calls[c].sleep - 1 ELSE 0
  <2> TAKE c \in Calls
  <2>1. calls[c] \in CallType /\ calls[c].sleep \in Nat
    BY DEF LlmInv, LlmTypes, CallType
  <2>2. \A b \in Nat : Max({0, b - 1}) = IF b > 0 THEN b - 1 ELSE 0
    BY DEF Max
  <2>3. calls'[c] = [calls[c] EXCEPT !.sleep = Max({0, @ - 1})]
    BY DEF Elapse
  <2> QED
    BY <2>1, <2>2, <2>3 DEF CallType
<1>11. calls' \in [Calls -> CallType]
  BY <1>10 DEF Elapse
<1>12. LlmTypes'
  BY <1>2, <1>3, <1>9, <1>11 DEF LlmTypes, LlmInv, Elapse, OldestFirst
<1>13. /\ UNCHANGED <<throttle, met>> /\ \A c \in Calls : calls'[c].pc = calls[c].pc
       /\ WaitsForSomething' /\ OneLoopIsSafe'
  <2>1. UNCHANGED <<throttle, met>> /\ \A c \in Calls : calls'[c].pc = calls[c].pc
    BY <1>10 DEF Elapse
  <2> QED
    BY <2>1 DEF LlmInv, OneLoopIsSafe, WaitsForSomething
<1>14. DequeIsTrue'
  <2> SUFFICES ASSUME RPM > 0 PROVE PopOlder(recent', Period) = granted'
    BY DEF DequeIsTrue, StillRecent, PopOlder
  <2>1. PopOlder(recent, Period) = granted
    BY DEF LlmInv, DequeIsTrue, StillRecent
  <2>2. PopOlder(granted, Period) = PopOlder(recent, Period)
    BY <2>1, <1>1, PopTwice
  <2> QED
    BY <2>2, <1>1, <1>3, <1>4, <1>5, <1>6, <1>7, <1>8, AlikeLater
<1>15. SlotsWithinLimit'
  <2>1. Len(granted) \in Nat /\ Len(granted') \in Nat
    BY <1>1, <1>9
  <2> QED
    BY <2>1, <1>9, <1>13 DEF LlmInv, SlotsWithinLimit
<1>16. ASSUME ~met PROVE SleepsLongEnough'
  <2> SUFFICES ASSUME NEW c \in Calls, calls[c].pc = "throttled"
               PROVE  Len(granted') < RPM \/ granted'[1] + calls'[c].sleep > Period
    BY <1>10 DEF SleepsLongEnough
  <2>1. RPM > 0
    BY DEF LlmInv, WaitsForSomething, HasLock
  <2>2. Len(granted) \in Nat /\ Len(granted') \in Nat /\ Len(granted) <= RPM
    BY <2>1, <1>1, <1>9, <1>16 DEF LlmInv, SlotsWithinLimit
  <2>3. CASE Len(granted) < RPM
    BY <2>2, <2>3, <1>9
  <2>4. CASE ~ (Len(granted) < RPM)
    <3>1. granted[1] + calls[c].sleep > Period
      BY <2>4, <1>16 DEF LlmInv, OrderlyLock, SleepsLongEnough
    <3>2. granted[1] \in Nat /\ granted[1] <= Period /\ aged[1] = granted[1] + 1
      <4>1. 1 \in 1 .. Len(granted)
        BY <2>1, <2>2, <2>4
      <4>2. granted = StillRecent(recent)
        BY <2>1 DEF LlmInv, DequeIsTrue
      <4> QED
        <5>1. 1 \in DOMAIN granted /\ granted[1] \in Nat /\ aged[1] = granted[1] + 1
          BY <4>1, <1>5, <1>1
        <5>2. granted[1] <= Period
          BY <5>1, <4>2, DequeNow
        <5> QED
          BY <5>1, <5>2
    <3>3. calls[c].sleep \in Nat /\ calls'[c].sleep = calls[c].sleep - 1
      <4>1. calls[c].sleep \in Nat
        BY DEF LlmInv, LlmTypes, CallType
      <4>2. calls[c].sleep > 0
        BY <4>1, <3>1, <3>2
      <4> QED
        BY <4>1, <4>2, <1>10
    <3>4. PICK k \in 1 .. Len(aged) + 1 :
             /\ Len(granted') = Len(aged) - k + 1
             /\ \A i \in 1 .. Len(aged) - k + 1 : granted'[i] = aged[k + i - 1]
      BY <1>5, <1>6, <1>8, PopShape
    <3>5. CASE k = 1
      <4>1. 1 \in 1 .. Len(aged) - k + 1 /\ k + 1 - 1 = 1
        BY <3>5, <2>1, <2>2, <2>4, <1>5
      <4>2. granted'[1] = aged[1]
        BY <4>1, <3>4
      <4> QED
        BY SMTT(60), ZenonT(90), <4>2, <3>1, <3>2, <3>3
    <3>6. CASE k # 1
      BY <3>6, <3>4, <2>2, <1>5
    <3> QED
      BY <3>5, <3>6
  <2> QED
    BY <2>3, <2>4
<1>17. ASSUME ~met PROVE OrderlyLock'
  <2>1. OrderlyLock
    BY <1>17 DEF LlmInv
  <2>2. Alone' /\ HolderHolds' /\ WokenWhenFree'
    BY <2>1, <1>13 DEF OrderlyLock, Alone, HolderHolds, WokenWhenFree
  <2>3. RoomToAppend'
    <3>1. Len(granted) \in Nat /\ Len(granted') \in Nat /\ RPM \in Nat
      BY <1>1, <1>9
    <3> QED
      BY <2>1, <3>1, <1>9, <1>13 DEF OrderlyLock, RoomToAppend
  <2> QED
    BY <2>2, <2>3, <1>16, <1>17 DEF OrderlyLock
<1> QED
  BY <1>12, <1>13, <1>14, <1>15, <1>17 DEF LlmInv

LEMMA LlmNextInv == LlmInv /\ [LlmNext]_llmVars => LlmInv'
<1> SUFFICES ASSUME LlmInv, [LlmNext]_llmVars PROVE LlmInv'
  OBVIOUS
<1>1. CASE Elapse
  BY <1>1, LlmElapses
<1>2. ASSUME NEW c \in Calls, Call(c) PROVE LlmInv'
  BY <1>2, LlmAtSemaphore
<1>3. ASSUME NEW c \in Calls, Proceed(c) PROVE LlmInv'
  <2>1. CASE TestLock(c) \/ JoinQueue(c) \/ TakeLock(c)
    BY <2>1, LlmTestsLock, LlmJoins, LlmTakesLock
  <2>2. CASE Count(c) \/ CountFails(c) \/ EndSleep(c) \/ AddAttempt(c)
    BY <2>2, LlmCounts, LlmCountFails, LlmEndsSleep, LlmAdds
  <2>3. CASE Unlock(c) \/ WakeFirst(c)
    BY <2>3, LlmUnlocks, LlmWakesFirst
  <2>4. CASE TestPermit(c) \/ TakePermit(c) \/ Park(c) \/ Share(c)
    BY <2>4, LlmAtSemaphore
  <2>5. CASE Answer(c, "answered") \/ Answer(c, "failed") \/ RetryLater(c) \/ TryAgain(c)
    BY <2>5, LlmAtSemaphore
  <2>6. CASE Return(c)
    BY <2>6, LlmReturns
  <2> QED
    BY <1>3, <2>1, <2>2, <2>3, <2>4, <2>5, <2>6 DEF Proceed
<1>4. ASSUME NEW c \in Calls, Resume(c) PROVE LlmInv'
  BY <1>4, LlmGetsLock, LlmAtSemaphore DEF Resume
<1>5. CASE UNCHANGED llmVars
  BY <1>5 DEF llmVars, LlmInv, LlmTypes, OldestFirst, WaitsForSomething, DequeIsTrue, OneLoopIsSafe, OrderlyLock,
              Alone, HolderHolds, WokenWhenFree, SleepsLongEnough, RoomToAppend, SlotsWithinLimit, StillRecent, PopOlder
<1> QED
  BY <1>1, <1>2, <1>3, <1>4, <1>5 DEF LlmNext

(***************************************************************************)
(* The throttle lets at most RPM attempts through in any minute, retries   *)
(* included, for every number of calls and of loops, limit and length of   *)
(* the minute, as long as no two loops have had its lock at once           *)
(* (LLMClient._wait_for_slot, every operation of the lock a step of its    *)
(* own).                                                                   *)
(***************************************************************************)
THEOREM SlotsNeverExceeded == LlmSpec => []SlotsWithinLimit
<1>1. LlmInv => SlotsWithinLimit
  BY DEF LlmInv
<1> QED
  BY LlmInitInv, LlmNextInv, <1>1, PTL DEF LlmSpec

(***************************************************************************)
(* A process in which every call runs on the loop of the server keeps the  *)
(* limit without exception: its calls never meet at the lock.              *)
(***************************************************************************)
THEOREM OneLoopWithinLimit == LlmSpec => [](Private = {} /\ RPM > 0 => Len(granted) <= RPM)
<1>1. LlmInv => (Private = {} /\ RPM > 0 => Len(granted) <= RPM)
  BY DEF LlmInv, OneLoopIsSafe, SlotsWithinLimit
<1> QED
  BY LlmInitInv, LlmNextInv, <1>1, PTL DEF LlmSpec

-----------------------------------------------------------------------------
(* The windows of the public form. *)

Beginning == [pc : {"begin"}, address : Addresses, link : Links, step : 1 .. 4, age : {0}, orphan : {FALSE}]

Looking == [pc : {"look"}, address : Addresses, link : Links, step : 1 .. 3, age : 0 .. Pause, orphan : {FALSE}]

Adding == [pc : {"append"}, address : Addresses, link : Links, step : 1 .. 3, age : 0 .. Pause, orphan : BOOLEAN]

Listing == [pc : {"list"}, age : 0 .. Pause, todo : SUBSET Buckets, stale : SUBSET Buckets]

VisitType == {Away} \union Beginning \union Looking \union Adding \union Listing

LimiterTypes ==
    /\ buckets \in [Buckets -> Seq(Nat)]
    /\ admitted \in [Buckets -> Seq(Nat)]
    /\ visits \in [Workers -> VisitType]
    /\ raced \subseteq Buckets
    /\ refusal \in [bucket : Buckets \union {<<"none", 0>>}, wait : Nat]

\* A visit that checks bucket b, and one that has listed it as stale.
Checks(v, b) == v.pc \in {"look", "append"} /\ BucketOf(v) = b

Lists(v, b) == v.pc = "list" /\ b \in v.stale

\* Only one worker is at a bucket that is not raced.
UsersAlone == \A b \in Buckets \ raced : \A v, w \in Users(b) : v = w

\* Only a bucket that was dropped under its check is without its key.
OrphansRaced == \A w \in Workers : visits[w].pc = "append" /\ visits[w].orphan => BucketOf(visits[w]) \in raced

\* Only limited buckets are checked.
ChecksAreLimited == \A w \in Workers : visits[w].pc \in {"look", "append"} => Limit(BucketOf(visits[w])) > 0

\* Nobody used the bucket at the same time as another, and it has a limit.
Calm(b) == b \notin raced /\ Limit(b) > 0

\* By a clock read age ticks ago, the bucket holds within its window what it let pass; nothing came since.
TrueSince(hits, passed, b, age) ==
    /\ Prune(hits, Window(b) + age) = Prune(passed, Window(b) + age)
    /\ \A i \in DOMAIN hits : hits[i] >= age
    /\ \A i \in DOMAIN passed : passed[i] >= age

\* One hit and the one Limit(b) later are more than a window apart.
Spread(passed, b) ==
    \A i \in DOMAIN passed : i + Limit(b) \in DOMAIN passed => passed[i] - passed[i + Limit(b)] > Window(b)

\* A bucket by itself: what it holds, what it let pass.
Sound(hits, passed, b) ==
    /\ OldestFirst(hits) /\ OldestFirst(passed)
    /\ \A i \in DOMAIN passed : passed[i] <= Past
    /\ Len(hits) <= Limit(b)
    /\ Spread(passed, b)
    /\ Prune(hits, Window(b)) = Prune(passed, Window(b))

\* What a visit knows of the bucket it is at.
Knows(v, hits, passed, b) ==
    /\ Checks(v, b) => TrueSince(hits, passed, b, v.age)
    /\ Checks(v, b) /\ v.pc = "append" => Len(hits) < Limit(b)
    /\ Lists(v, b) => \A i \in DOMAIN hits : hits[i] > Hour

BucketsAreTrue ==
    \A b \in Buckets : Calm(b) =>
        /\ Sound(buckets[b], admitted[b], b)
        /\ \A w \in Workers : Knows(visits[w], buckets[b], admitted[b], b)

\* Room again, or the oldest hit leaves the window before the wait is over.
RoomAgain(hits, b, wait) == Len(Prune(hits, Window(b))) < Limit(b) \/ hits[1] + wait > Window(b)

RefusalHolds ==
    refusal # NoRefusal =>
        /\ refusal.bucket \in Buckets /\ Calm(refusal.bucket)
        /\ RoomAgain(buckets[refusal.bucket], refusal.bucket, refusal.wait)

LimiterInv ==
    /\ LimiterTypes
    /\ UsersAlone
    /\ OrphansRaced
    /\ ChecksAreLimited
    /\ BucketsAreTrue
    /\ RefusalHolds

LEMMA LimiterConstants ==
    /\ PerMinute \in Nat /\ PerHour \in Nat /\ Minute \in Nat /\ Hour \in Nat /\ Pause \in Nat
    /\ Minute <= Hour /\ Second \in Nat /\ Second > 0
    /\ Past \in Nat /\ Past = Hour + Pause
BY LimiterAssumption DEF Past

LEMMA WindowConstants ==
    ASSUME NEW b
    PROVE  Limit(b) \in Nat /\ Window(b) \in Nat /\ Window(b) <= Hour
BY LimiterConstants DEF Limit, Window

-----------------------------------------------------------------------------
(* What a tick does to one bucket. *)

LEMMA OlderTyped ==
    ASSUME NEW s \in Seq(Nat)
    PROVE  /\ Older(s) \in Seq(Nat) /\ Len(Older(s)) = Len(s)
           /\ \A i \in 1 .. Len(s) : Older(s)[i] = IF s[i] > Past THEN s[i] ELSE s[i] + 1
<1> DEFINE t == Older(s)
<1>1. t = [i \in 1 .. Len(s) |-> IF s[i] > Past THEN s[i] ELSE s[i] + 1]
  BY DEF Older
<1>2. \A i \in 1 .. Len(s) : s[i] \in Nat /\ (IF s[i] > Past THEN s[i] ELSE s[i] + 1) \in Nat
  OBVIOUS
<1> HIDE DEF t
<1>3. t \in [1 .. Len(s) -> Nat] /\ \A i \in 1 .. Len(s) : t[i] = IF s[i] > Past THEN s[i] ELSE s[i] + 1
  BY <1>1, <1>2
<1>4. t \in Seq(Nat) /\ Len(t) = Len(s)
  <2> DEFINE n == Len(s)
  <2>1. n \in Nat
    OBVIOUS
  <2>2. t \in [1 .. n -> Nat]
    BY <1>3
  <2> HIDE DEF n
  <2>3. t \in Seq(Nat)
    BY <2>1, <2>2
  <2>4. Len(t) = n
    BY <2>1, <2>2
  <2> QED
    BY <2>3, <2>4 DEF n
<1> QED
  BY <1>3, <1>4 DEF t

LEMMA OlderSorted ==
    ASSUME NEW s \in Seq(Nat), OldestFirst(s)
    PROVE  OldestFirst(Older(s))
<1> DEFINE t == Older(s)
<1>1. t \in Seq(Nat) /\ Len(t) = Len(s) /\ \A i \in 1 .. Len(s) : t[i] = IF s[i] > Past THEN s[i] ELSE s[i] + 1
  BY OlderTyped
<1> HIDE DEF t
<1>2. DOMAIN t = 1 .. Len(s)
  BY <1>1
<1>3. \A i, j \in 1 .. Len(s) : i <= j => t[j] <= t[i]
  <2> TAKE i, j \in 1 .. Len(s)
  <2>1. s[i] \in Nat /\ s[j] \in Nat /\ (i <= j => s[j] <= s[i]) /\ Past \in Nat
    BY LimiterConstants DEF OldestFirst
  <2>2. /\ t[i] = IF s[i] > Past THEN s[i] ELSE s[i] + 1
        /\ t[j] = IF s[j] > Past THEN s[j] ELSE s[j] + 1
    BY <1>1
  <2> QED
    BY <2>1, <2>2
<1> QED
  BY <1>2, <1>3 DEF OldestFirst, t

LEMMA OlderAges ==
    ASSUME NEW s \in Seq(Nat), NEW w \in Nat, w <= Past
    PROVE  Ages(s, Older(s), w) /\ (w < Past => NextAges(s, Older(s), w))
<1> DEFINE t == Older(s)
<1>1. Len(t) = Len(s) /\ \A i \in 1 .. Len(s) : t[i] = IF s[i] > Past THEN s[i] ELSE s[i] + 1
  BY OlderTyped
<1> HIDE DEF t
<1>2. \A i \in 1 .. Len(s) : /\ s[i] > w => t[i] > w
                             /\ s[i] <= w => t[i] = s[i] + 1
                             /\ w < Past /\ s[i] > w => t[i] > w + 1
  <2> TAKE i \in 1 .. Len(s)
  <2>1. s[i] \in Nat /\ Past \in Nat
    BY LimiterConstants
  <2> QED
    BY <2>1, <1>1
<1> QED
  BY <1>1, <1>2 DEF Ages, NextAges, t

\* Nothing gets younger.
LEMMA OlderBound ==
    ASSUME NEW s \in Seq(Nat), NEW a \in Nat, \A i \in DOMAIN s : s[i] >= a
    PROVE  /\ \A i \in DOMAIN Older(s) : Older(s)[i] >= a
           /\ a < Past => \A i \in DOMAIN Older(s) : Older(s)[i] >= a + 1
<1> DEFINE t == Older(s)
<1>1. t \in Seq(Nat) /\ Len(t) = Len(s) /\ \A i \in 1 .. Len(s) : t[i] = IF s[i] > Past THEN s[i] ELSE s[i] + 1
  BY OlderTyped
<1> HIDE DEF t
<1>2. ASSUME NEW i \in DOMAIN t PROVE t[i] >= a /\ (a < Past => t[i] >= a + 1)
  <2>1. i \in 1 .. Len(s)
    BY SMTT(60), ZenonT(90), <1>1
  <2>2. s[i] \in Nat /\ s[i] >= a /\ Past \in Nat
    BY <2>1, LimiterConstants
  <2> QED
    BY <2>1, <2>2, <1>1
<1> QED
  BY <1>2 DEF t

\* What a bucket let pass, a tick later.
Aged(passed) == PopOlder(Older(passed), Past)

LEMMA AgedTyped ==
    ASSUME NEW s \in Seq(Nat)
    PROVE  Aged(s) \in Seq(Nat)
<1>1. Older(s) \in Seq(Nat) /\ Past \in Nat
  BY OlderTyped, LimiterConstants
<1> QED
  BY <1>1, PopTyped DEF Aged

LEMMA SpreadTicks ==
    ASSUME NEW s \in Seq(Nat), OldestFirst(s), NEW b, Limit(b) > 0,
           \A i \in DOMAIN s : s[i] <= Past, Spread(s, b)
    PROVE  Spread(Aged(s), b)
<1> DEFINE o == Older(s)
           p == Aged(s)
<1>1. o \in Seq(Nat) /\ OldestFirst(o) /\ Len(o) = Len(s) /\ Past \in Nat
  BY OlderTyped, OlderSorted, LimiterConstants
<1>2. \A i \in 1 .. Len(s) : o[i] = s[i] + 1 /\ s[i] \in Nat
  <2> TAKE i \in 1 .. Len(s)
  <2>1. s[i] \in Nat /\ s[i] <= Past
    OBVIOUS
  <2> QED
    BY <2>1, <1>1, OlderTyped
<1> HIDE DEF o
<1>3. PICK k \in 1 .. Len(o) + 1 :
         /\ p \in Seq(Nat) /\ Len(p) = Len(o) - k + 1
         /\ \A i \in 1 .. Len(o) - k + 1 : p[i] = o[k + i - 1]
  BY <1>1, PopShape DEF Aged, o
<1> HIDE DEF p
<1>4. Limit(b) \in Nat /\ Window(b) \in Nat
  BY WindowConstants
<1>5. ASSUME NEW i \in DOMAIN p, i + Limit(b) \in DOMAIN p
      PROVE  p[i] - p[i + Limit(b)] > Window(b)
  <2>1. i \in 1 .. Len(o) - k + 1 /\ i + Limit(b) \in 1 .. Len(o) - k + 1
    BY SMTT(60), ZenonT(90), <1>3, <1>5
  <2> DEFINE j == k + i - 1
  <2>2. j \in 1 .. Len(s) /\ j + Limit(b) \in 1 .. Len(s) /\ k + (i + Limit(b)) - 1 = j + Limit(b)
    <3>1. i \in Int /\ 1 <= i /\ 1 <= k /\ k \in Int /\ Limit(b) \in Int /\ 0 <= Limit(b)
      BY <2>1, <1>4
    <3>2. i + Limit(b) <= Len(s) - k + 1 /\ Len(s) \in Int
      BY <2>1, <1>1
    <3>3. j \in 1 .. Len(s)
      BY SMTT(30), <3>1, <3>2
    <3>4. j + Limit(b) \in 1 .. Len(s)
      BY SMTT(30), <3>1, <3>2
    <3>5. k + (i + Limit(b)) - 1 = j + Limit(b)
      BY <3>1
    <3> QED
      BY <3>3, <3>4, <3>5
  <2>3. p[i] = o[j] /\ p[i + Limit(b)] = o[j + Limit(b)]
    BY <2>1, <2>2, <1>3
  <2> HIDE DEF j
  <2>4. s[j] - s[j + Limit(b)] > Window(b)
    BY <2>2 DEF Spread
  <2>5. o[j] = s[j] + 1 /\ o[j + Limit(b)] = s[j + Limit(b)] + 1 /\ s[j] \in Nat /\ s[j + Limit(b)] \in Nat
    BY <2>2, <1>2
  <2>6. \A x, y, w \in Nat : x - y > w => (x + 1) - (y + 1) > w
    OBVIOUS
  <2>7. (s[j] + 1) - (s[j + Limit(b)] + 1) > Window(b)
    BY <2>4, <2>5, <2>6, <1>4
  <2> QED
    BY <2>3, <2>5, <2>7
<1> QED
  BY <1>5 DEF Spread, p

LEMMA SoundTicks ==
    ASSUME NEW hits \in Seq(Nat), NEW passed \in Seq(Nat), NEW b, Limit(b) > 0, Sound(hits, passed, b)
    PROVE  Sound(Older(hits), Aged(passed), b)
<1>1. Window(b) \in Nat /\ Window(b) <= Past /\ Past \in Nat
  BY WindowConstants, LimiterConstants
<1>2. /\ Older(hits) \in Seq(Nat) /\ OldestFirst(Older(hits)) /\ Ages(hits, Older(hits), Window(b))
      /\ Older(passed) \in Seq(Nat) /\ OldestFirst(Older(passed)) /\ Ages(passed, Older(passed), Window(b))
      /\ OldestFirst(hits) /\ OldestFirst(passed)
  BY <1>1, OlderTyped, OlderSorted, OlderAges DEF Sound
<1>3. PopOlder(Older(hits), Window(b)) = PopOlder(Older(passed), Window(b))
  BY <1>1, <1>2, AlikeLater DEF Sound, Prune
<1>4. PopOlder(Aged(passed), Window(b)) = PopOlder(Older(passed), Window(b))
  BY <1>1, <1>2, PopTwice DEF Aged
<1>5. OldestFirst(Aged(passed)) /\ \A i \in DOMAIN Aged(passed) : Aged(passed)[i] <= Past
  BY <1>1, <1>2, PopStaysSorted DEF Aged
<1>6. Spread(Aged(passed), b)
  BY SpreadTicks DEF Sound
<1>7. Len(Older(hits)) <= Limit(b)
  BY OlderTyped DEF Sound
<1> QED
  BY <1>2, <1>3, <1>4, <1>5, <1>6, <1>7 DEF Sound, Prune

LEMMA TrueTicks ==
    ASSUME NEW hits \in Seq(Nat), NEW passed \in Seq(Nat), NEW b, Limit(b) > 0, Sound(hits, passed, b),
           NEW age \in Nat, age < Pause, TrueSince(hits, passed, b, age)
    PROVE  TrueSince(Older(hits), Aged(passed), b, age + 1)
<1> DEFINE w == Window(b) + age
<1>1. w \in Nat /\ w < Past /\ w + 1 <= Past /\ Past \in Nat /\ Window(b) + (age + 1) = w + 1 /\ age < Past /\ w + 1 \in Nat
  BY WindowConstants, LimiterConstants
<1>2. PopOlder(hits, w) = PopOlder(passed, w)
  BY DEF TrueSince, Prune
<1>3. \A i \in DOMAIN hits : hits[i] >= age
  BY DEF TrueSince
<1>4. \A i \in DOMAIN passed : passed[i] >= age
  BY DEF TrueSince
<1> HIDE DEF w
<1>5. /\ Older(hits) \in Seq(Nat) /\ OldestFirst(Older(hits)) /\ NextAges(hits, Older(hits), w)
      /\ Older(passed) \in Seq(Nat) /\ OldestFirst(Older(passed)) /\ NextAges(passed, Older(passed), w)
      /\ OldestFirst(hits) /\ OldestFirst(passed)
  BY <1>1, OlderTyped, OlderSorted, OlderAges DEF Sound
<1>6. PopOlder(Older(hits), w + 1) = PopOlder(Older(passed), w + 1)
  BY <1>1, <1>2, <1>5, AlikeNext
<1>7. PopOlder(Aged(passed), w + 1) = PopOlder(Older(passed), w + 1)
  BY <1>1, <1>5, PopTwice DEF Aged
<1>8. \A i \in DOMAIN Older(hits) : Older(hits)[i] >= age + 1
  BY <1>1, <1>3, OlderBound
<1>9. \A i \in DOMAIN Older(passed) : Older(passed)[i] >= age + 1
  BY <1>1, <1>4, OlderBound
<1>10. \A i \in DOMAIN Aged(passed) : Aged(passed)[i] >= age + 1
  <2>1. age + 1 \in Nat
    OBVIOUS
  <2> QED
    BY <2>1, <1>1, <1>5, <1>9, PopKeeps DEF Aged
<1> QED
  BY <1>1, <1>6, <1>7, <1>8, <1>10 DEF TrueSince, Prune

-----------------------------------------------------------------------------
(* What a check does to one bucket. *)

\* An oldest hit outside the window is not counted.
LEMMA OldestLeaves ==
    ASSUME NEW s \in Seq(Nat), OldestFirst(s), NEW w \in Nat, Len(s) > 0, s[1] > w
    PROVE  Len(PopOlder(s, w)) < Len(s)
<1>1. PICK k \in 1 .. Len(s) + 1 : Begins(s, w, k) /\ Len(PopOlder(s, w)) = Len(s) - k + 1
  BY PopShape
<1>2. k # 1
  <2> SUFFICES ASSUME k = 1 PROVE FALSE
    OBVIOUS
  <2>1. 1 \in k .. Len(s) /\ s[1] \in Nat
    OBVIOUS
  <2> QED
    BY <2>1, <1>1 DEF Begins
<1> QED
  BY <1>1, <1>2

\* Hits outside the window are not counted.
LEMMA AllLeave ==
    ASSUME NEW s \in Seq(Nat), OldestFirst(s), NEW w \in Nat, \A i \in DOMAIN s : s[i] > w
    PROVE  PopOlder(s, w) = <<>>
<1>1. PICK k \in 1 .. Len(s) + 1 : Begins(s, w, k) /\ PopOlder(s, w) \in Seq(Nat) /\ Len(PopOlder(s, w)) = Len(s) - k + 1
  BY PopShape
<1>2. k = Len(s) + 1
  <2> SUFFICES ASSUME k <= Len(s) PROVE FALSE
    OBVIOUS
  <2>1. Len(s) \in k .. Len(s) /\ Len(s) \in DOMAIN s /\ s[Len(s)] \in Nat
    OBVIOUS
  <2> QED
    BY SMTT(60), ZenonT(90), <2>1, <1>1 DEF Begins
<1>3. Len(PopOlder(s, w)) = 0
  BY <1>1, <1>2
<1> QED
  BY <1>1, <1>3

LEMMA SoundLooks ==
    ASSUME NEW hits \in Seq(Nat), NEW passed \in Seq(Nat), NEW b, Sound(hits, passed, b),
           NEW age \in Nat, TrueSince(hits, passed, b, age)
    PROVE  LET left == Prune(hits, Window(b) + age)
           IN /\ left \in Seq(Nat) /\ Len(left) <= Len(hits)
              /\ Sound(left, passed, b) /\ TrueSince(left, passed, b, age)
              /\ \A i \in DOMAIN left : left[i] <= Window(b) + age
<1> DEFINE w == Window(b) + age
           left == PopOlder(hits, w)
<1>1. w \in Nat /\ Window(b) \in Nat /\ Window(b) <= w /\ w <= w /\ Limit(b) \in Nat
  BY WindowConstants
<1>2. OldestFirst(hits) /\ \A i \in DOMAIN hits : hits[i] >= age
  BY DEF Sound, TrueSince
<1>3. left \in Seq(Nat) /\ OldestFirst(left) /\ Len(left) <= Len(hits) /\ \A i \in DOMAIN left : left[i] <= w
  BY <1>1, <1>2, PopStaysSorted
<1>4. PopOlder(left, Window(b)) = PopOlder(hits, Window(b)) /\ PopOlder(left, w) = PopOlder(hits, w)
  BY <1>1, <1>2, PopTwice
<1>5. \A i \in DOMAIN left : left[i] >= age
  BY <1>1, <1>2, PopKeeps
<1>6. Prune(hits, Window(b) + age) = left
  BY DEF Prune
<1> HIDE DEF left
<1>7. TrueSince(left, passed, b, age)
  BY <1>4, <1>5 DEF TrueSince, Prune
<1>8. Len(left) <= Limit(b)
  <2>1. Len(hits) \in Nat /\ Len(left) \in Nat /\ Len(hits) <= Limit(b)
    BY <1>3 DEF Sound
  <2> QED
    BY <2>1, <1>1, <1>3
<1>9. Sound(left, passed, b)
  BY <1>3, <1>4, <1>8 DEF Sound, Prune
<1> QED
  BY <1>3, <1>6, <1>7, <1>9

\* One more hit than the window holds is more than a window older.
LEMMA SpreadAdds ==
    ASSUME NEW hits \in Seq(Nat), NEW passed \in Seq(Nat), NEW b, Limit(b) > 0, Sound(hits, passed, b),
           NEW age \in Nat, TrueSince(hits, passed, b, age), Len(hits) < Limit(b)
    PROVE  Spread(Append(passed, age), b)
<1> DEFINE w == Window(b) + age
           next == Append(passed, age)
<1>1. w \in Nat /\ Window(b) \in Nat /\ Limit(b) \in Nat
  BY WindowConstants
<1>2. OldestFirst(hits) /\ OldestFirst(passed) /\ PopOlder(hits, w) = PopOlder(passed, w)
  BY DEF Sound, TrueSince, Prune
<1>3. PICK k \in 1 .. Len(passed) + 1 :
         Begins(passed, w, k) /\ Len(PopOlder(passed, w)) = Len(passed) - k + 1
  BY <1>1, <1>2, PopShape
<1>4. Len(passed) - k + 1 < Limit(b)
  <2>1. Len(PopOlder(hits, w)) <= Len(hits) /\ PopOlder(hits, w) \in Seq(Nat)
    BY <1>1, <1>2, PopStaysSorted
  <2>2. Len(PopOlder(hits, w)) = Len(passed) - k + 1
    BY <1>2, <1>3
  <2>3. Len(hits) \in Nat /\ Len(passed) \in Nat
    OBVIOUS
  <2> HIDE DEF w
  <2> QED
    BY <2>1, <2>2, <2>3, <1>1
<1>5. next \in Seq(Nat) /\ Len(next) = Len(passed) + 1 /\ next[Len(passed) + 1] = age
      /\ \A i \in 1 .. Len(passed) : next[i] = passed[i]
  OBVIOUS
<1> HIDE DEF next
<1>6. ASSUME NEW i \in DOMAIN next, i + Limit(b) \in DOMAIN next
      PROVE  next[i] - next[i + Limit(b)] > Window(b)
  <2>1. i \in 1 .. Len(passed) /\ i + Limit(b) \in 1 .. Len(passed) + 1
    <3>1. i \in 1 .. Len(passed) + 1 /\ i + Limit(b) \in 1 .. Len(passed) + 1
      BY SMTT(60), ZenonT(90), <1>5, <1>6
    <3> QED
      BY <3>1, <1>1
  <2>2. CASE i + Limit(b) = Len(passed) + 1
    <3>1. i \in 1 .. k - 1
      BY <2>1, <2>2, <1>1, <1>4
    <3>2. passed[i] > w /\ passed[i] \in Nat
      BY <3>1, <2>1, <1>3 DEF Begins
    <3>3. next[i] = passed[i] /\ next[i + Limit(b)] = age
      BY <2>1, <2>2, <1>5
    <3> QED
      BY <3>2, <3>3, <1>1
  <2>3. CASE i + Limit(b) # Len(passed) + 1
    <3>0. i + Limit(b) \in Int /\ 1 <= i + Limit(b) /\ i + Limit(b) <= Len(passed) + 1 /\ Len(passed) \in Int
      BY <2>1
    <3>1. i + Limit(b) \in 1 .. Len(passed)
      BY <2>3, <3>0
    <3>2. passed[i] - passed[i + Limit(b)] > Window(b)
      <4>1. i \in DOMAIN passed /\ i + Limit(b) \in DOMAIN passed /\ Spread(passed, b)
        BY <2>1, <3>1 DEF Sound
      <4> QED
        BY <4>1 DEF Spread
    <3> QED
      BY <2>1, <3>1, <3>2, <1>5
  <2> QED
    BY <2>2, <2>3
<1> QED
  BY <1>6 DEF Spread, next

LEMMA SoundAdds ==
    ASSUME NEW hits \in Seq(Nat), NEW passed \in Seq(Nat), NEW b, Limit(b) > 0, Sound(hits, passed, b),
           NEW age \in 0 .. Pause, TrueSince(hits, passed, b, age), Len(hits) < Limit(b)
    PROVE  Sound(Append(hits, age), Append(passed, age), b)
<1>1. Window(b) \in Nat /\ Limit(b) \in Nat /\ age \in Nat /\ age <= Past /\ Past \in Nat
  BY WindowConstants, LimiterConstants
<1>2. OldestFirst(hits) /\ OldestFirst(passed) /\ PopOlder(hits, Window(b)) = PopOlder(passed, Window(b))
  BY DEF Sound, Prune
<1>3. \A i \in DOMAIN hits : hits[i] >= age
  BY DEF TrueSince
<1>4. \A i \in DOMAIN passed : passed[i] >= age
  BY DEF TrueSince
<1>5. OldestFirst(Append(hits, age)) /\ OldestFirst(Append(passed, age))
  <2>1. age <= age
    BY <1>1
  <2> QED
    BY <2>1, <1>1, <1>2, <1>3, <1>4, PopAppendAge
<1>6. Append(hits, age) \in Seq(Nat) /\ Append(passed, age) \in Seq(Nat)
  BY <1>1
<1>7. PopOlder(Append(hits, age), Window(b)) = PopOlder(Append(passed, age), Window(b))
  <2>1. CASE age <= Window(b)
    <3>1. PopOlder(Append(hits, age), Window(b)) = Append(PopOlder(hits, Window(b)), age)
      BY <2>1, <1>1, <1>2, <1>3, PopAppendAge
    <3>2. PopOlder(Append(passed, age), Window(b)) = Append(PopOlder(passed, Window(b)), age)
      BY <2>1, <1>1, <1>2, <1>4, PopAppendAge
    <3> QED
      BY <3>1, <3>2, <1>2
  <2>2. CASE ~ (age <= Window(b))
    <3>1. \A i \in DOMAIN Append(hits, age) : Append(hits, age)[i] > Window(b)
      BY <2>2, <1>1, <1>3
    <3>2. \A i \in DOMAIN Append(passed, age) : Append(passed, age)[i] > Window(b)
      BY <2>2, <1>1, <1>4
    <3> QED
      BY <3>1, <3>2, <1>1, <1>5, <1>6, AllLeave
  <2> QED
    BY <2>1, <2>2
<1>8. \A i \in DOMAIN Append(passed, age) : Append(passed, age)[i] <= Past
  <2>1. \A i \in DOMAIN passed : passed[i] <= Past
    BY DEF Sound
  <2> QED
    BY <2>1, <1>1
<1>9. Len(Append(hits, age)) <= Limit(b)
  BY <1>1
<1>10. Spread(Append(passed, age), b)
  BY <1>1, SpreadAdds
<1> QED
  BY <1>5, <1>7, <1>8, <1>9, <1>10 DEF Sound, Prune

LEMMA SoundDrops ==
    ASSUME NEW hits \in Seq(Nat), NEW passed \in Seq(Nat), NEW b, Sound(hits, passed, b),
           \A i \in DOMAIN hits : hits[i] > Hour
    PROVE  Sound(<<>>, passed, b)
<1>1. Window(b) \in Nat /\ Limit(b) \in Nat /\ Window(b) <= Hour /\ Hour \in Nat
  BY WindowConstants, LimiterConstants
<1>2. \A i \in DOMAIN hits : hits[i] > Window(b)
  BY <1>1
<1>3. PopOlder(hits, Window(b)) = <<>>
  BY <1>1, <1>2, AllLeave DEF Sound
<1>4. <<>> \in Seq(Nat) /\ OldestFirst(<<>>) /\ Len(<<>>) = 0 /\ DOMAIN <<>> = {}
  BY DEF OldestFirst
<1>5. PopOlder(<<>>, Window(b)) = <<>>
  BY <1>1, <1>4, AllLeave
<1> QED
  BY <1>1, <1>3, <1>4, <1>5 DEF Sound, Prune

-----------------------------------------------------------------------------
(* Workers at buckets. *)

LEMMA UsersAre == \A b : Users(b) = {w \in Workers : Checks(visits[w], b) \/ Lists(visits[w], b)}
BY DEF Users, Checks, Lists

LEMMA VisitBucket ==
    ASSUME NEW v \in VisitType, v.pc \in {"look", "append"}
    PROVE  v \in Looking \union Adding /\ BucketOf(v) \in Buckets
<1>1. v \in Looking \union Adding
  <2>1. v # Away
    BY DEF Away
  <2>2. v \notin Beginning
    BY DEF Beginning
  <2>3. v \notin Listing
    BY DEF Listing
  <2> QED
    BY <2>1, <2>2, <2>3 DEF VisitType
<1>2. v.step \in 1 .. 3 /\ v.address \in Addresses /\ v.link \in Links
  BY <1>1 DEF Looking, Adding
<1>3. v.step = 1 \/ v.step = 2 \/ v.step = 3
  BY <1>2
<1> QED
  BY <1>1, <1>2, <1>3 DEF BucketOf, Buckets

\* The worker of a check is alone at a bucket that is not raced, and knows it.
LEMMA UserAlone ==
    ASSUME LimiterInv, NEW w \in Workers, NEW b \in Buckets, b \notin raced,
           Checks(visits[w], b) \/ Lists(visits[w], b)
    PROVE  /\ \A v \in Workers \ {w} : ~Checks(visits[v], b) /\ ~Lists(visits[v], b)
           /\ Limit(b) > 0 => Sound(buckets[b], admitted[b], b) /\ Knows(visits[w], buckets[b], admitted[b], b)
<1>1. \A v \in Workers \ {w} : ~Checks(visits[v], b) /\ ~Lists(visits[v], b)
  BY UsersAre DEF LimiterInv, UsersAlone
<1>2. Limit(b) > 0 => Sound(buckets[b], admitted[b], b) /\ Knows(visits[w], buckets[b], admitted[b], b)
  BY DEF LimiterInv, BucketsAreTrue, Calm
<1> QED
  BY <1>1, <1>2

(***************************************************************************)
(* A step of worker w at bucket b alone: what has to be shown of b, and of *)
(* nothing else.                                                           *)
(***************************************************************************)
LEMMA StepAt ==
    ASSUME LimiterInv, NEW w \in Workers, NEW b \in Buckets,
           raced \subseteq raced', raced' \subseteq raced \union {b},
           \A c \in Buckets \ {b} : buckets'[c] = buckets[c] /\ admitted'[c] = admitted[c],
           \A v \in Workers \ {w}, c \in Buckets :
               /\ Checks(visits'[v], c) <=> Checks(visits[v], c)
               /\ Lists(visits'[v], c) <=> Lists(visits[v], c)
               /\ Checks(visits[v], c) => visits'[v].age = visits[v].age /\ visits'[v].pc = visits[v].pc,
           \A c \in Buckets \ {b} : ~Checks(visits'[w], c) /\ (Lists(visits'[w], c) => Lists(visits[w], c)),
           b \notin raced' => \A v \in Workers \ {w} : ~Checks(visits[v], b) /\ ~Lists(visits[v], b),
           b \notin raced' /\ Limit(b) > 0 =>
               Sound(buckets'[b], admitted'[b], b) /\ Knows(visits'[w], buckets'[b], admitted'[b], b),
           refusal' # NoRefusal =>
               \/ refusal' = refusal /\ refusal.bucket # b
               \/ /\ refusal'.bucket = b /\ b \notin raced' /\ Limit(b) > 0
                  /\ RoomAgain(buckets'[b], b, refusal'.wait)
    PROVE  UsersAlone' /\ BucketsAreTrue' /\ RefusalHolds'
<1>1. UsersAlone'
  <2> SUFFICES ASSUME NEW c \in Buckets, c \notin raced', NEW u \in Workers, NEW v \in Workers,
                      Checks(visits'[u], c) \/ Lists(visits'[u], c), Checks(visits'[v], c) \/ Lists(visits'[v], c)
               PROVE  u = v
    BY DEF UsersAlone, Users, Checks, Lists
  <2>1. CASE c = b
    BY <2>1
  <2>2. CASE c # b
    <3>1. Checks(visits[u], c) \/ Lists(visits[u], c)
      BY <2>2
    <3>2. Checks(visits[v], c) \/ Lists(visits[v], c)
      BY <2>2
    <3> QED
      BY <3>1, <3>2, UserAlone
  <2> QED
    BY <2>1, <2>2
<1>2. BucketsAreTrue'
  <2> SUFFICES ASSUME NEW c \in Buckets, c \notin raced', Limit(c) > 0
               PROVE  /\ Sound(buckets'[c], admitted'[c], c)
                      /\ \A v \in Workers : Knows(visits'[v], buckets'[c], admitted'[c], c)
    BY DEF BucketsAreTrue, Calm, Sound, Knows, TrueSince, Spread, OldestFirst, Checks, Lists, Prune, PopOlder
  <2>1. CASE c = b
    <3>1. \A v \in Workers \ {w} : ~Checks(visits'[v], b) /\ ~Lists(visits'[v], b)
      BY <2>1
    <3>2. \A v \in Workers \ {w} : Knows(visits'[v], buckets'[b], admitted'[b], b)
      BY <3>1 DEF Knows
    <3> QED
      BY <2>1, <3>2
  <2>2. CASE c # b
    <3>1. Sound(buckets[c], admitted[c], c) /\ \A v \in Workers : Knows(visits[v], buckets[c], admitted[c], c)
      BY DEF LimiterInv, BucketsAreTrue, Calm
    <3>2. buckets'[c] = buckets[c] /\ admitted'[c] = admitted[c]
      BY <2>2
    <3>3. Knows(visits'[w], buckets[c], admitted[c], c)
      BY <2>2, <3>1 DEF Knows
    <3>4. ASSUME NEW v \in Workers \ {w} PROVE Knows(visits'[v], buckets[c], admitted[c], c)
      BY <3>1 DEF Knows
    <3> QED
      BY <3>1, <3>2, <3>3, <3>4
  <2> QED
    BY <2>1, <2>2
<1>3. RefusalHolds'
  <2> SUFFICES ASSUME refusal' # NoRefusal
               PROVE  /\ refusal'.bucket \in Buckets /\ refusal'.bucket \notin raced' /\ Limit(refusal'.bucket) > 0
                      /\ RoomAgain(buckets'[refusal'.bucket], refusal'.bucket, refusal'.wait)
    BY DEF RefusalHolds, Calm, RoomAgain, Prune, PopOlder
  <2>1. CASE refusal' = refusal /\ refusal.bucket # b
    <3>1. /\ refusal.bucket \in Buckets /\ refusal.bucket \notin raced /\ Limit(refusal.bucket) > 0
          /\ RoomAgain(buckets[refusal.bucket], refusal.bucket, refusal.wait)
      BY <2>1 DEF LimiterInv, RefusalHolds, Calm
    <3> QED
      BY <2>1, <3>1
  <2>2. CASE ~(refusal' = refusal /\ refusal.bucket # b)
    BY <2>2
  <2> QED
    BY <2>1, <2>2
<1> QED
  BY <1>1, <1>2, <1>3

\* A step that only moves worker w, and to no bucket it was not at.
LEMMA WorkerMoves ==
    ASSUME LimiterInv, NEW w \in Workers, NEW v \in VisitType, visits' = [visits EXCEPT ![w] = v],
           v.pc \notin {"look", "append"},
           \A b \in Buckets : Lists(v, b) => Lists(visits[w], b),
           UNCHANGED <<buckets, admitted, raced, refusal>>
    PROVE  LimiterInv'
<1>1. visits \in [Workers -> VisitType]
  BY DEF LimiterInv, LimiterTypes
<1>2. visits'[w] = v /\ \A u \in Workers \ {w} : visits'[u] = visits[u]
  BY <1>1
<1>3. LimiterTypes'
  BY <1>1 DEF LimiterInv, LimiterTypes
<1>4. \A b \in Buckets : ~Checks(v, b)
  BY DEF Checks
<1>5. UsersAlone'
  <2> SUFFICES ASSUME NEW b \in Buckets, b \notin raced, NEW x \in Workers, NEW y \in Workers,
                      Checks(visits'[x], b) \/ Lists(visits'[x], b), Checks(visits'[y], b) \/ Lists(visits'[y], b)
               PROVE  x = y
    BY DEF UsersAlone, Users, Checks, Lists
  <2>1. Checks(visits[x], b) \/ Lists(visits[x], b)
    BY <1>2, <1>4
  <2>2. Checks(visits[y], b) \/ Lists(visits[y], b)
    BY <1>2, <1>4
  <2> QED
    BY <2>1, <2>2, UserAlone
<1>6. OrphansRaced' /\ ChecksAreLimited'
  <2>1. ASSUME NEW u \in Workers, visits'[u].pc \in {"look", "append"}
        PROVE  u # w /\ visits'[u] = visits[u]
    BY <2>1, <1>2
  <2>2. ASSUME NEW u \in Workers, visits'[u].pc = "append", visits'[u].orphan
        PROVE  BucketOf(visits'[u]) \in raced'
    BY <2>1, <2>2 DEF LimiterInv, OrphansRaced
  <2>3. ASSUME NEW u \in Workers, visits'[u].pc \in {"look", "append"}
        PROVE  Limit(BucketOf(visits'[u])) > 0
    BY <2>1, <2>3 DEF LimiterInv, ChecksAreLimited
  <2> QED
    BY <2>2, <2>3 DEF OrphansRaced, ChecksAreLimited, BucketOf
<1>7. BucketsAreTrue'
  <2> SUFFICES ASSUME NEW b \in Buckets, b \notin raced', Limit(b) > 0
               PROVE  /\ Sound(buckets'[b], admitted'[b], b)
                      /\ \A u \in Workers : Knows(visits'[u], buckets'[b], admitted'[b], b)
    BY DEF BucketsAreTrue, Calm, Sound, Knows, TrueSince, Spread, OldestFirst, Checks, Lists, Prune, PopOlder
  <2>1. Sound(buckets[b], admitted[b], b) /\ \A u \in Workers : Knows(visits[u], buckets[b], admitted[b], b)
    BY DEF LimiterInv, BucketsAreTrue, Calm
  <2>2. Knows(v, buckets[b], admitted[b], b)
    BY <2>1, <1>4 DEF Knows
  <2> QED
    BY <2>1, <2>2, <1>2
<1>8. RefusalHolds'
  BY DEF LimiterInv, RefusalHolds, Calm, RoomAgain, Prune, PopOlder
<1> QED
  BY <1>3, <1>5, <1>6, <1>7, <1>8 DEF LimiterInv

\* To the next bucket.
LEMMA PassedOn ==
    ASSUME LimiterInv, NEW w \in Workers, Passed(w), visits[w] \in Beginning \union Looking \union Adding,
           visits[w].step <= 3
    PROVE  LET v == [visits[w] EXCEPT !.pc = "begin", !.step = visits[w].step + 1, !.age = 0, !.orphan = FALSE]
           IN  v \in Beginning /\ visits' = [visits EXCEPT ![w] = v]
<1> DEFINE v == [visits[w] EXCEPT !.pc = "begin", !.step = visits[w].step + 1, !.age = 0, !.orphan = FALSE]
<1>1. visits \in [Workers -> VisitType]
  BY DEF LimiterInv, LimiterTypes
<1>2. visits[w].step + 1 \in 1 .. 4
  <2>1. visits[w].step \in 1 .. 4
    <3>1. CASE visits[w] \in Beginning
      BY <3>1 DEF Beginning
    <3>2. CASE visits[w] \in Looking
      <4>1. visits[w].step \in 1 .. 3
        BY SMTT(60), ZenonT(90), <3>2 DEF Looking
      <4> QED
        BY <4>1
    <3>3. CASE visits[w] \in Adding
      <4>1. visits[w].step \in 1 .. 3
        BY SMTT(60), ZenonT(90), <3>3 DEF Adding
      <4> QED
        BY <4>1
    <3> QED
      BY <3>1, <3>2, <3>3
  <2> QED
    BY <2>1
<1>3. v \in Beginning
  <2>1. CASE visits[w] \in Beginning
    BY <2>1, <1>2 DEF Beginning
  <2>2. CASE visits[w] \in Looking
    BY <2>2, <1>2 DEF Beginning, Looking
  <2>3. CASE visits[w] \in Adding
    BY <2>3, <1>2 DEF Beginning, Adding
  <2> QED
    BY <2>1, <2>2, <2>3
<1>4. visits' = [visits EXCEPT ![w] = v]
  BY DEF Passed
<1> QED
  BY <1>3, <1>4

-----------------------------------------------------------------------------
(* Steps. *)

LEMMA InitialLimiter == LimiterInit => LimiterInv
<1> SUFFICES ASSUME LimiterInit PROVE LimiterInv
  OBVIOUS
<1>1. LimiterTypes
  BY DEF LimiterInit, LimiterTypes, VisitType, NoRefusal
<1>2. \A w \in Workers : visits[w].pc = "away"
  BY DEF LimiterInit, Away
<1>3. UsersAlone /\ OrphansRaced /\ ChecksAreLimited
  BY <1>2 DEF UsersAlone, Users, OrphansRaced, ChecksAreLimited
<1>4. BucketsAreTrue
  <2> SUFFICES ASSUME NEW b \in Buckets PROVE Sound(<<>>, <<>>, b) /\ \A w \in Workers : Knows(visits[w], <<>>, <<>>, b)
    BY DEF BucketsAreTrue, LimiterInit
  <2>1. Sound(<<>>, <<>>, b)
    BY WindowConstants DEF Sound, OldestFirst, Spread
  <2> QED
    BY <2>1, <1>2 DEF Knows, Checks, Lists
<1> QED
  BY <1>1, <1>3, <1>4 DEF LimiterInv, RefusalHolds, LimiterInit

LEMMA RoomTicks ==
    ASSUME NEW hits \in Seq(Nat), OldestFirst(hits), NEW b, Limit(b) > 0, Len(hits) <= Limit(b),
           NEW wait \in Nat, RoomAgain(hits, b, wait)
    PROVE  RoomAgain(Older(hits), b, IF wait > 0 THEN wait - 1 ELSE 0)
<1>1. Window(b) \in Nat /\ Window(b) <= Past /\ Limit(b) \in Nat
  BY WindowConstants, LimiterConstants
<1>2. Older(hits) \in Seq(Nat) /\ OldestFirst(Older(hits)) /\ Ages(hits, Older(hits), Window(b))
  BY <1>1, OlderTyped, OlderSorted, OlderAges
<1>3. /\ Len(Prune(Older(hits), Window(b))) <= Len(Prune(hits, Window(b)))
      /\ Len(Prune(hits, Window(b))) <= Len(hits)
  BY <1>1, <1>2, PopLater, PopStaysSorted DEF Prune
<1>4. Prune(hits, Window(b)) \in Seq(Nat) /\ Prune(Older(hits), Window(b)) \in Seq(Nat)
  BY <1>1, <1>2, PopStaysSorted DEF Prune
<1>5. /\ Len(hits) \in Nat /\ Len(Prune(hits, Window(b))) \in Nat
      /\ Len(Prune(Older(hits), Window(b))) \in Nat
  BY <1>4
<1>6. CASE Len(Prune(hits, Window(b))) < Limit(b)
  BY <1>6, <1>1, <1>3, <1>5 DEF RoomAgain
<1>7. CASE ~ (Len(Prune(hits, Window(b))) < Limit(b))
  <2>1. hits[1] + wait > Window(b)
    BY <1>7 DEF RoomAgain
  <2>2. Len(hits) > 0 /\ 1 \in 1 .. Len(hits) /\ hits[1] \in Nat
    BY <1>7, <1>1, <1>3, <1>5
  <2>3. CASE hits[1] > Window(b)
    <3>1. Len(Prune(hits, Window(b))) < Len(hits)
      BY <2>2, <2>3, <1>1, OldestLeaves DEF Prune
    <3> QED
      BY <3>1, <1>1, <1>3, <1>5, <1>7
  <2>4. CASE ~ (hits[1] > Window(b))
    <3>1. Older(hits)[1] = hits[1] + 1
      BY <2>2, <2>4, <1>1, <1>2 DEF Ages
    <3>2. wait > 0
      BY <2>1, <2>2, <2>4, <1>1
    <3> QED
      BY <3>1, <3>2, <2>1, <2>2, <1>1 DEF RoomAgain
  <2> QED
    BY <2>3, <2>4
<1> QED
  BY <1>6, <1>7

LEMMA LimiterTicks == ASSUME LimiterInv, HitsAge PROVE LimiterInv'
<1>t. buckets \in [Buckets -> Seq(Nat)] /\ admitted \in [Buckets -> Seq(Nat)] /\ visits \in [Workers -> VisitType]
  BY DEF LimiterInv, LimiterTypes
<1>1. \A b \in Buckets : buckets'[b] = Older(buckets[b]) /\ admitted'[b] = Aged(admitted[b])
  BY DEF HitsAge, Aged
<1>2. \A b \in Buckets : buckets'[b] \in Seq(Nat) /\ admitted'[b] \in Seq(Nat)
  BY <1>t, <1>1, OlderTyped, AgedTyped
<1>3. \A w \in Workers :
         /\ visits'[w] = IF HasRead(visits[w]) THEN [visits[w] EXCEPT !.age = visits[w].age + 1] ELSE visits[w]
         /\ HasRead(visits[w]) => visits[w].age < Pause
  BY DEF HitsAge
<1>4. ASSUME NEW w \in Workers
      PROVE  /\ visits'[w] \in VisitType /\ visits'[w].pc = visits[w].pc
             /\ HasRead(visits[w]) => visits[w].age \in Nat /\ visits[w].age < Pause /\ visits'[w].age = visits[w].age + 1
             /\ visits[w].pc \in {"look", "append"} =>
                  BucketOf(visits'[w]) = BucketOf(visits[w]) /\ visits'[w].orphan = visits[w].orphan
             /\ visits[w].pc = "list" => visits'[w].stale = visits[w].stale
  <2> DEFINE v == visits[w]
             u == [v EXCEPT !.age = v.age + 1]
  <2>1. v \in VisitType /\ Pause \in Nat
    BY <1>t, LimiterConstants
  <2>2. visits'[w] = (IF HasRead(v) THEN u ELSE v) /\ (HasRead(v) => v.age < Pause)
    BY <1>3
  <2> HIDE DEF v
  <2>3. CASE ~HasRead(v)
    <3>1. v.pc \notin {"look", "append", "list"} /\ visits'[w] = v
      BY <2>2, <2>3 DEF HasRead
    <3> QED
      BY <3>1, <2>1, <2>3 DEF v
  <2>4. CASE HasRead(v)
    <3>1. visits'[w] = u /\ v.age < Pause
      BY <2>2, <2>4
    <3>2. CASE v.pc = "list"
      <4>1. v \in Listing
        <5>1. v # Away
          BY <3>2 DEF Away
        <5>2. v \notin Beginning
          BY <3>2 DEF Beginning
        <5>3. v \notin Looking
          BY <3>2 DEF Looking
        <5>4. v \notin Adding
          BY <3>2 DEF Adding
        <5> QED
          BY <5>1, <5>2, <5>3, <5>4, <2>1 DEF VisitType
      <4>2. v.age \in 0 .. Pause
        BY <4>1 DEF Listing
      <4>3. v.age \in Nat /\ v.age + 1 \in 0 .. Pause
        BY <4>2, <3>1, <2>1
      <4>4. u \in Listing /\ u.pc = v.pc /\ u.stale = v.stale /\ u.age = v.age + 1
        BY <4>1, <4>3 DEF Listing
      <4> QED
        BY <4>3, <4>4, <3>1, <3>2 DEF VisitType, v
    <3>3. CASE v.pc \in {"look", "append"}
      <4>1. v \in Looking \union Adding
        BY <3>3, <2>1, VisitBucket
      <4>2. v.age \in 0 .. Pause
        <5>1. CASE v \in Looking
          BY <5>1 DEF Looking
        <5>2. CASE v \in Adding
          BY <5>2 DEF Adding
        <5> QED
          BY <4>1, <5>1, <5>2
      <4>3. v.age \in Nat /\ v.age + 1 \in 0 .. Pause
        BY <4>2, <3>1, <2>1
      <4>4. u.pc = v.pc /\ u.orphan = v.orphan /\ u.age = v.age + 1 /\ BucketOf(u) = BucketOf(v)
        <5>1. CASE v \in Looking
          BY <5>1 DEF Looking, BucketOf
        <5>2. CASE v \in Adding
          BY <5>2 DEF Adding, BucketOf
        <5> QED
          BY <4>1, <5>1, <5>2
      <4>5. u \in Looking \union Adding
        <5>1. CASE v \in Looking
          BY <5>1, <4>3 DEF Looking
        <5>2. CASE v \in Adding
          BY <5>2, <4>3 DEF Adding
        <5> QED
          BY <4>1, <5>1, <5>2
      <4> QED
        BY <4>3, <4>4, <4>5, <3>1, <3>3 DEF VisitType, v
    <3> QED
      BY <2>4, <3>2, <3>3 DEF HasRead
  <2> QED
    BY <2>3, <2>4
<1>5. \A w \in Workers, b \in Buckets :
         (Checks(visits'[w], b) <=> Checks(visits[w], b)) /\ (Lists(visits'[w], b) <=> Lists(visits[w], b))
  BY <1>4 DEF Checks, Lists
<1>6. /\ refusal'.bucket = refusal.bucket
      /\ refusal'.wait = IF refusal.wait > 0 THEN refusal.wait - 1 ELSE 0
      /\ refusal.wait \in Nat /\ refusal' \in [bucket : Buckets \union {<<"none", 0>>}, wait : Nat]
  <2>1. refusal \in [bucket : Buckets \union {<<"none", 0>>}, wait : Nat]
    BY DEF LimiterInv, LimiterTypes
  <2> QED
    BY <2>1 DEF HitsAge
<1>7. LimiterTypes'
  <2>1. buckets' \in [Buckets -> Seq(Nat)]
    BY <1>2 DEF HitsAge
  <2>2. admitted' \in [Buckets -> Seq(Nat)]
    BY <1>2 DEF HitsAge
  <2>3. visits' \in [Workers -> VisitType]
    BY <1>4 DEF HitsAge
  <2>4. raced' \subseteq Buckets
    BY DEF HitsAge, LimiterInv, LimiterTypes
  <2> QED
    BY <2>1, <2>2, <2>3, <2>4, <1>6 DEF LimiterTypes
<1>8. UsersAlone'
  <2> SUFFICES ASSUME NEW c \in Buckets, c \notin raced, NEW u \in Workers, NEW v \in Workers,
                      Checks(visits'[u], c) \/ Lists(visits'[u], c), Checks(visits'[v], c) \/ Lists(visits'[v], c)
               PROVE  u = v
    BY DEF UsersAlone, Users, Checks, Lists, HitsAge
  <2>1. Checks(visits[u], c) \/ Lists(visits[u], c)
    BY <1>5
  <2>2. Checks(visits[v], c) \/ Lists(visits[v], c)
    BY <1>5
  <2> QED
    BY <2>1, <2>2, UserAlone
<1>9. OrphansRaced'
  <2> SUFFICES ASSUME NEW w \in Workers, visits'[w].pc = "append", visits'[w].orphan
               PROVE  BucketOf(visits'[w]) \in raced
    BY DEF OrphansRaced, HitsAge, BucketOf
  <2>1. visits[w].pc = "append" /\ visits[w].orphan /\ BucketOf(visits'[w]) = BucketOf(visits[w])
    BY <1>4
  <2> QED
    BY <2>1 DEF LimiterInv, OrphansRaced
<1>10. ChecksAreLimited'
  <2> SUFFICES ASSUME NEW w \in Workers, visits'[w].pc \in {"look", "append"}
               PROVE  Limit(BucketOf(visits'[w])) > 0
    BY DEF ChecksAreLimited, BucketOf, Limit
  <2>1. visits[w].pc \in {"look", "append"} /\ BucketOf(visits'[w]) = BucketOf(visits[w])
    BY <1>4
  <2> QED
    BY <2>1 DEF LimiterInv, ChecksAreLimited
<1>11. BucketsAreTrue'
  <2> SUFFICES ASSUME NEW b \in Buckets, b \notin raced', Limit(b) > 0
               PROVE  /\ Sound(buckets'[b], admitted'[b], b)
                      /\ \A u \in Workers : Knows(visits'[u], buckets'[b], admitted'[b], b)
    BY DEF BucketsAreTrue, Calm, Sound, Knows, TrueSince, Spread, OldestFirst, Checks, Lists, Prune, PopOlder
  <2>1. Sound(buckets[b], admitted[b], b) /\ \A u \in Workers : Knows(visits[u], buckets[b], admitted[b], b)
    BY DEF LimiterInv, BucketsAreTrue, Calm, HitsAge
  <2>2. buckets[b] \in Seq(Nat) /\ admitted[b] \in Seq(Nat)
    BY <1>t
  <2>3. Sound(buckets'[b], admitted'[b], b)
    BY <2>1, <2>2, <1>1, SoundTicks
  <2>4. ASSUME NEW u \in Workers PROVE Knows(visits'[u], buckets'[b], admitted'[b], b)
    <3>1. Checks(visits'[u], b) => TrueSince(buckets'[b], admitted'[b], b, visits'[u].age)
      <4> SUFFICES ASSUME Checks(visits[u], b) PROVE TrueSince(buckets'[b], admitted'[b], b, visits'[u].age)
        BY <1>5
      <4>1. visits[u].age \in Nat /\ visits[u].age < Pause /\ visits'[u].age = visits[u].age + 1
        BY <1>4 DEF Checks, HasRead
      <4>2. TrueSince(buckets[b], admitted[b], b, visits[u].age)
        BY <2>1 DEF Knows
      <4> QED
        BY <4>1, <4>2, <2>1, <2>2, <1>1, TrueTicks
    <3>2. Checks(visits'[u], b) /\ visits'[u].pc = "append" => Len(buckets'[b]) < Limit(b)
      <4>1. Len(buckets'[b]) = Len(buckets[b])
        BY <2>2, <1>1, OlderTyped
      <4> QED
        BY <4>1, <2>1, <1>4, <1>5 DEF Knows
    <3>3. Lists(visits'[u], b) => \A i \in DOMAIN buckets'[b] : buckets'[b][i] > Hour
      <4> SUFFICES ASSUME Lists(visits[u], b) PROVE \A i \in DOMAIN buckets'[b] : buckets'[b][i] > Hour
        BY <1>5
      <4>1. \A i \in DOMAIN buckets[b] : buckets[b][i] > Hour
        BY <2>1 DEF Knows
      <4>2. Hour \in Nat /\ Hour + 1 \in Nat
        BY LimiterConstants
      <4>3. \A i \in DOMAIN buckets[b] : buckets[b][i] >= Hour + 1
        BY <4>1, <4>2, <2>2
      <4>4. \A i \in DOMAIN Older(buckets[b]) : Older(buckets[b])[i] >= Hour + 1
        BY <4>2, <4>3, <2>2, OlderBound
      <4>5. Older(buckets[b]) \in Seq(Nat)
        BY <2>2, OlderTyped
      <4> HIDE DEF Older
      <4> QED
        BY <4>2, <4>4, <4>5, <1>1
    <3> QED
      BY <3>1, <3>2, <3>3 DEF Knows
  <2> QED
    BY <2>3, <2>4
<1>12. RefusalHolds'
  <2> SUFFICES ASSUME refusal' # NoRefusal
               PROVE  /\ refusal.bucket \in Buckets /\ refusal.bucket \notin raced /\ Limit(refusal.bucket) > 0
                      /\ RoomAgain(buckets'[refusal.bucket], refusal.bucket, refusal'.wait)
    BY <1>6 DEF RefusalHolds, Calm, RoomAgain, Prune, PopOlder, HitsAge
  <2>1. refusal # NoRefusal
    BY DEF HitsAge, NoRefusal
  <2>2. /\ refusal.bucket \in Buckets /\ refusal.bucket \notin raced /\ Limit(refusal.bucket) > 0
        /\ RoomAgain(buckets[refusal.bucket], refusal.bucket, refusal.wait)
    BY <2>1 DEF LimiterInv, RefusalHolds, Calm
  <2>3. Sound(buckets[refusal.bucket], admitted[refusal.bucket], refusal.bucket)
    BY <2>2 DEF LimiterInv, BucketsAreTrue, Calm
  <2>4. OldestFirst(buckets[refusal.bucket]) /\ Len(buckets[refusal.bucket]) <= Limit(refusal.bucket)
    BY <2>3 DEF Sound
  <2>5. RoomAgain(Older(buckets[refusal.bucket]), refusal.bucket, refusal'.wait)
    BY <2>2, <2>4, <1>t, <1>6, RoomTicks
  <2> QED
    BY <2>2, <2>5, <1>1
<1> QED
  BY <1>7, <1>8, <1>9, <1>10, <1>11, <1>12 DEF LimiterInv

\* What meeting another worker does.
LEMMA MeetShape ==
    ASSUME LimiterInv, NEW w \in Workers, NEW b \in Buckets, Meet(w, b), buckets' = buckets
    PROVE  /\ raced \subseteq raced' /\ raced' \subseteq raced \union {b} /\ raced' \subseteq Buckets
           /\ admitted' \in [Buckets -> Seq(Nat)]
           /\ \A c \in Buckets \ {b} : buckets'[c] = buckets[c] /\ admitted'[c] = admitted[c]
           /\ b \notin raced' =>
                /\ b \notin raced /\ admitted' = admitted
                /\ \A v \in Workers \ {w} : ~Checks(visits[v], b) /\ ~Lists(visits[v], b)
           /\ refusal' \in [bucket : Buckets \union {<<"none", 0>>}, wait : Nat]
           /\ refusal' # NoRefusal =>
                \/ refusal' = refusal /\ refusal.bucket # b
                \/ /\ refusal'.bucket = b /\ b \notin raced' /\ Limit(b) > 0
                   /\ RoomAgain(buckets'[b], b, refusal'.wait)
<1>1. /\ raced' = IF Users(b) \subseteq {w} THEN raced ELSE raced \union {b}
      /\ admitted' = IF b \in raced' THEN [admitted EXCEPT ![b] = <<>>] ELSE admitted
      /\ refusal' = IF refusal.bucket \in raced' THEN NoRefusal ELSE refusal
  BY DEF Meet
<1>2. /\ admitted \in [Buckets -> Seq(Nat)] /\ raced \subseteq Buckets
      /\ refusal \in [bucket : Buckets \union {<<"none", 0>>}, wait : Nat]
  BY DEF LimiterInv, LimiterTypes
<1>3. admitted' \in [Buckets -> Seq(Nat)] /\ \A c \in Buckets \ {b} : admitted'[c] = admitted[c]
  BY <1>1, <1>2
<1>4. ASSUME b \notin raced'
      PROVE  /\ b \notin raced /\ admitted' = admitted
             /\ \A v \in Workers \ {w} : ~Checks(visits[v], b) /\ ~Lists(visits[v], b)
  <2>1. Users(b) \subseteq {w} /\ b \notin raced
    BY <1>1, <1>4
  <2> QED
    BY <2>1, <1>1, <1>4, UsersAre
<1>5. refusal' \in [bucket : Buckets \union {<<"none", 0>>}, wait : Nat]
  BY <1>1, <1>2 DEF NoRefusal
<1>6. ASSUME refusal' # NoRefusal, ~(refusal' = refusal /\ refusal.bucket # b)
      PROVE  /\ refusal'.bucket = b /\ b \notin raced' /\ Limit(b) > 0
             /\ RoomAgain(buckets'[b], b, refusal'.wait)
  <2>1. refusal' = refusal /\ refusal.bucket = b /\ b \notin raced'
    BY <1>1, <1>6
  <2>2. Calm(b) /\ RoomAgain(buckets[b], b, refusal.wait)
    BY <2>1, <1>6 DEF LimiterInv, RefusalHolds
  <2> QED
    BY <2>1, <2>2 DEF Calm
<1> QED
  BY <1>1, <1>2, <1>3, <1>4, <1>5, <1>6

LEMMA LimiterBegins == ASSUME LimiterInv, NEW w \in Workers, BeginCheck(w) PROVE LimiterInv'
<1> DEFINE b == BucketOf(visits[w])
           v == [visits[w] EXCEPT !.pc = "look"]
<1>1. visits \in [Workers -> VisitType] /\ buckets \in [Buckets -> Seq(Nat)] /\ admitted \in [Buckets -> Seq(Nat)]
  BY DEF LimiterInv, LimiterTypes
<1>2. visits[w] \in Beginning /\ visits[w].step <= 3 /\ visits[w].pc = "begin"
  <2>1. visits[w].pc = "begin" /\ visits[w].step <= 3
    BY DEF BeginCheck
  <2>2. visits[w] # Away
    BY <2>1 DEF Away
  <2>3. visits[w] \notin Looking
    BY <2>1 DEF Looking
  <2>4. visits[w] \notin Adding
    BY <2>1 DEF Adding
  <2>5. visits[w] \notin Listing
    BY <2>1 DEF Listing
  <2> QED
    BY <2>1, <2>2, <2>3, <2>4, <2>5, <1>1 DEF VisitType
<1>3. v \in Looking /\ v.pc = "look" /\ v.age = 0 /\ v.orphan = FALSE /\ BucketOf(v) = b
  <2>1. visits[w].step \in 1 .. 3 /\ 0 \in 0 .. Pause
    <3>1. visits[w].step \in 1 .. 4 /\ Pause \in Nat
      BY <1>2, LimiterConstants DEF Beginning
    <3> QED
      BY <3>1, <1>2
  <2> QED
    BY <2>1, <1>2 DEF Beginning, Looking, BucketOf
<1>4. b \in Buckets
  BY <1>3, VisitBucket DEF VisitType
<1>5. Limit(b) \in Nat /\ Window(b) \in Nat
  BY WindowConstants
<1>6. buckets' = buckets
  BY DEF BeginCheck
<1>7. CASE Limit(b) = 0
  <2>1. Passed(w) /\ UNCHANGED <<admitted, raced, refusal>>
    BY <1>7 DEF BeginCheck
  <2> DEFINE u == [visits[w] EXCEPT !.pc = "begin", !.step = visits[w].step + 1, !.age = 0, !.orphan = FALSE]
  <2>2. u \in Beginning /\ visits' = [visits EXCEPT ![w] = u]
    BY <2>1, <1>2, PassedOn
  <2> HIDE DEF u
  <2>3. u \in VisitType /\ u.pc = "begin"
    BY <2>2 DEF VisitType, Beginning
  <2>4. \A c \in Buckets : ~Lists(u, c)
    BY <2>3 DEF Lists
  <2> QED
    BY <2>1, <2>2, <2>3, <2>4, <1>6, WorkerMoves
<1>8. CASE Limit(b) # 0
  <2>1. visits' = [visits EXCEPT ![w] = v] /\ Meet(w, b)
    BY <1>8 DEF BeginCheck
  <2>2. visits'[w] = v /\ \A u \in Workers \ {w} : visits'[u] = visits[u]
    BY <2>1, <1>1
  <2>3. Limit(b) > 0
    BY <1>5, <1>8
  <2> HIDE DEF v, b
  <2>4. /\ raced \subseteq raced' /\ raced' \subseteq raced \union {b} /\ raced' \subseteq Buckets
        /\ admitted' \in [Buckets -> Seq(Nat)]
        /\ \A c \in Buckets \ {b} : buckets'[c] = buckets[c] /\ admitted'[c] = admitted[c]
        /\ b \notin raced' =>
             /\ b \notin raced /\ admitted' = admitted
             /\ \A u \in Workers \ {w} : ~Checks(visits[u], b) /\ ~Lists(visits[u], b)
        /\ refusal' \in [bucket : Buckets \union {<<"none", 0>>}, wait : Nat]
        /\ refusal' # NoRefusal =>
             \/ refusal' = refusal /\ refusal.bucket # b
             \/ /\ refusal'.bucket = b /\ b \notin raced' /\ Limit(b) > 0
                /\ RoomAgain(buckets'[b], b, refusal'.wait)
    BY <2>1, <1>4, <1>6, MeetShape
  <2>5. \A c \in Buckets \ {b} : ~Checks(visits'[w], c) /\ ~Lists(visits'[w], c)
    BY <2>2, <1>3 DEF Checks, Lists
  <2>6. ASSUME b \notin raced'
        PROVE  Sound(buckets'[b], admitted'[b], b) /\ Knows(visits'[w], buckets'[b], admitted'[b], b)
    <3>1. b \notin raced /\ admitted' = admitted
      BY <2>4, <2>6
    <3>2. Sound(buckets[b], admitted[b], b)
      BY <3>1, <2>3, <1>4 DEF LimiterInv, BucketsAreTrue, Calm
    <3>3. TrueSince(buckets[b], admitted[b], b, 0)
      <4>1. Prune(buckets[b], Window(b)) = Prune(admitted[b], Window(b)) /\ Window(b) + 0 = Window(b)
        BY <3>2, <1>5 DEF Sound
      <4>2. buckets[b] \in Seq(Nat) /\ admitted[b] \in Seq(Nat)
        BY <1>1, <1>4
      <4>3. \A i \in DOMAIN buckets[b] : buckets[b][i] >= 0
        BY <4>2
      <4>4. \A i \in DOMAIN admitted[b] : admitted[b][i] >= 0
        BY <4>2
      <4> QED
        BY <4>1, <4>3, <4>4 DEF TrueSince
    <3>4. Knows(v, buckets[b], admitted[b], b)
      BY <3>3, <1>3 DEF Knows, Lists
    <3> QED
      BY <3>1, <3>2, <3>4, <2>2, <1>6
  <2>7. UsersAlone' /\ BucketsAreTrue' /\ RefusalHolds'
    <3>1. \A u \in Workers \ {w}, c \in Buckets :
             /\ Checks(visits'[u], c) <=> Checks(visits[u], c)
             /\ Lists(visits'[u], c) <=> Lists(visits[u], c)
             /\ Checks(visits[u], c) => visits'[u].age = visits[u].age /\ visits'[u].pc = visits[u].pc
      BY <2>2
    <3> QED
      BY <3>1, <2>4, <2>5, <2>6, <1>4, StepAt
  <2>8. LimiterTypes'
    <3>1. visits' \in [Workers -> VisitType]
      BY <2>1, <1>1, <1>3 DEF VisitType
    <3> QED
      BY <3>1, <2>4, <1>1, <1>6 DEF LimiterTypes
  <2>9. OrphansRaced'
    <3> SUFFICES ASSUME NEW u \in Workers, visits'[u].pc = "append", visits'[u].orphan
                 PROVE  BucketOf(visits'[u]) \in raced'
      BY DEF OrphansRaced, BucketOf
    <3>1. u # w /\ visits'[u] = visits[u]
      BY <2>2, <1>3
    <3>2. BucketOf(visits[u]) \in raced
      BY <3>1 DEF LimiterInv, OrphansRaced
    <3> QED
      BY <3>1, <3>2, <2>4
  <2>10. ChecksAreLimited'
    <3> SUFFICES ASSUME NEW u \in Workers, visits'[u].pc \in {"look", "append"}
                 PROVE  Limit(BucketOf(visits'[u])) > 0
      BY DEF ChecksAreLimited, BucketOf, Limit
    <3>1. CASE u = w
      BY <3>1, <2>2, <2>3, <1>3
    <3>2. CASE u # w
      BY <3>2, <2>2 DEF LimiterInv, ChecksAreLimited
    <3> QED
      BY <3>1, <3>2
  <2> QED
    BY <2>7, <2>8, <2>9, <2>10 DEF LimiterInv
<1> QED
  BY <1>7, <1>8

\* The wait a refusal names is over when its oldest hit has left the window.
LEMMA WaitIsLong ==
    ASSUME NEW hits \in Seq(Nat), Len(hits) > 0, NEW window \in Nat, NEW age \in Nat,
           \A i \in DOMAIN hits : hits[i] <= window + age, \A i \in DOMAIN hits : hits[i] >= age
    PROVE  RetryAfter(hits, window, age) \in Nat /\ hits[1] + RetryAfter(hits, window, age) > window
<1>1. 1 \in DOMAIN hits /\ Head(hits) = hits[1] /\ hits[1] \in Nat
  OBVIOUS
<1> DEFINE a == window - (hits[1] - age)
<1>2. a \in Nat /\ Second \in Nat /\ Second > 0 /\ a >= window - hits[1] /\ a \in Int
  BY <1>1, LimiterConstants
<1>3. RetryAfter(hits, window, age) = Second * (a \div Second) + Second
  BY <1>1 DEF RetryAfter
<1> HIDE DEF a
<1>4. a \div Second \in Int /\ a < Second * (a \div Second) + Second
  BY <1>2
<1> DEFINE q == Second * (a \div Second)
<1>5. q \in Int
  BY <1>2, <1>4
<1> HIDE DEF q
<1>6. RetryAfter(hits, window, age) = q + Second /\ a < q + Second
  BY <1>3, <1>4 DEF q
<1> QED
  BY <1>1, <1>2, <1>5, <1>6

LEMMA LimiterLooks == ASSUME LimiterInv, NEW w \in Workers, Look(w) PROVE LimiterInv'
<1> DEFINE b == BucketOf(visits[w])
           age == visits[w].age
           hits == Prune(buckets[b], Window(b) + age)
           v == IF Len(hits) >= Limit(b) THEN Away ELSE [visits[w] EXCEPT !.pc = "append"]
<1>1. visits \in [Workers -> VisitType] /\ buckets \in [Buckets -> Seq(Nat)] /\ admitted \in [Buckets -> Seq(Nat)]
  BY DEF LimiterInv, LimiterTypes
<1>2. visits[w].pc = "look"
  BY DEF Look
<1>3. visits[w] \in Looking /\ b \in Buckets
  <2>1. visits[w] \in VisitType /\ visits[w].pc \in {"look", "append"}
    BY <1>1, <1>2
  <2>2. visits[w] \in Looking \union Adding /\ b \in Buckets
    BY <2>1, VisitBucket
  <2>3. visits[w] \notin Adding
    BY <1>2 DEF Adding
  <2> QED
    BY <2>2, <2>3
<1>4. age \in Nat /\ age \in 0 .. Pause /\ visits[w].orphan = FALSE
  <2>1. age \in 0 .. Pause /\ Pause \in Nat /\ visits[w].orphan = FALSE
    BY <1>3, LimiterConstants DEF Looking
  <2> QED
    BY <2>1
<1>5. Window(b) \in Nat /\ Limit(b) \in Nat
  BY WindowConstants
<1>6. Limit(b) > 0
  BY <1>2 DEF LimiterInv, ChecksAreLimited
<1>7. hits \in Seq(Nat)
  <2>1. buckets[b] \in Seq(Nat) /\ Window(b) + age \in Nat
    BY <1>1, <1>3, <1>4, <1>5
  <2> QED
    BY <2>1, PopTyped DEF Prune
<1>8. /\ buckets' = [buckets EXCEPT ![b] = hits] /\ admitted' = admitted /\ raced' = raced
      /\ visits' = [visits EXCEPT ![w] = v]
      /\ refusal' = IF ~(Len(hits) >= Limit(b)) THEN refusal
                    ELSE IF b \in raced THEN NoRefusal
                    ELSE [bucket |-> b, wait |-> RetryAfter(hits, Window(b), age)]
  BY DEF Look
<1>9. /\ v \in VisitType /\ v.pc \in {"away", "append"}
      /\ v.pc = "append" => v.age = age /\ v.orphan = FALSE /\ BucketOf(v) = b /\ ~(Len(hits) >= Limit(b))
  <2>1. CASE Len(hits) >= Limit(b)
    BY <2>1 DEF VisitType, Away
  <2>2. CASE ~(Len(hits) >= Limit(b))
    <3>1. v = [visits[w] EXCEPT !.pc = "append"]
      BY <2>2
    <3>2. v \in Adding /\ v.pc = "append" /\ v.age = age /\ v.orphan = FALSE /\ BucketOf(v) = b
      BY <3>1, <1>3 DEF Looking, Adding, BucketOf
    <3> QED
      BY <3>2, <2>2 DEF VisitType
  <2> QED
    BY <2>1, <2>2
<1>10. Checks(visits[w], b)
  BY <1>2 DEF Checks
<1>11. b \notin raced => \A u \in Workers \ {w} : ~Checks(visits[u], b) /\ ~Lists(visits[u], b)
  BY <1>3, <1>10, UserAlone
<1>12. ASSUME b \notin raced
       PROVE  /\ Len(hits) <= Limit(b) /\ Sound(hits, admitted[b], b) /\ TrueSince(hits, admitted[b], b, age)
              /\ \A i \in DOMAIN hits : hits[i] <= Window(b) + age
  <2>1. Sound(buckets[b], admitted[b], b) /\ Knows(visits[w], buckets[b], admitted[b], b)
    BY <1>3, <1>6, <1>10, <1>12, UserAlone
  <2>2. TrueSince(buckets[b], admitted[b], b, age)
    BY <2>1, <1>10 DEF Knows
  <2>3. buckets[b] \in Seq(Nat) /\ admitted[b] \in Seq(Nat)
    BY <1>1, <1>3
  <2>4. /\ Sound(hits, admitted[b], b) /\ TrueSince(hits, admitted[b], b, age)
        /\ \A i \in DOMAIN hits : hits[i] <= Window(b) + age
    BY <2>1, <2>2, <2>3, <1>4, SoundLooks
  <2> QED
    BY <2>4 DEF Sound
<1> HIDE DEF hits, v, b, age
<1>13. /\ buckets'[b] = hits /\ \A c \in Buckets \ {b} : buckets'[c] = buckets[c]
       /\ buckets' \in [Buckets -> Seq(Nat)]
       /\ visits'[w] = v /\ \A u \in Workers \ {w} : visits'[u] = visits[u]
       /\ visits' \in [Workers -> VisitType]
  BY <1>1, <1>3, <1>7, <1>8, <1>9
<1>14. ASSUME b \notin raced, Len(hits) >= Limit(b)
       PROVE  /\ RetryAfter(hits, Window(b), age) \in Nat
              /\ RoomAgain(hits, b, RetryAfter(hits, Window(b), age))
  <2>1. Len(hits) > 0
    <3>1. Len(hits) \in Nat
      BY <1>7
    <3> QED
      BY <3>1, <1>5, <1>6, <1>14
  <2>2. \A i \in DOMAIN hits : hits[i] <= Window(b) + age
    BY <1>12, <1>14
  <2>3. \A i \in DOMAIN hits : hits[i] >= age
    BY <1>12, <1>14 DEF TrueSince
  <2> QED
    BY <2>1, <2>2, <2>3, <1>4, <1>5, <1>7, WaitIsLong DEF RoomAgain
<1>15. LimiterTypes'
  <2>1. refusal' \in [bucket : Buckets \union {<<"none", 0>>}, wait : Nat]
    <3>1. refusal \in [bucket : Buckets \union {<<"none", 0>>}, wait : Nat]
      BY DEF LimiterInv, LimiterTypes
    <3>2. NoRefusal \in [bucket : Buckets \union {<<"none", 0>>}, wait : Nat]
      BY DEF NoRefusal
    <3> QED
      BY <3>1, <3>2, <1>3, <1>8, <1>14
  <2> QED
    BY <2>1, <1>1, <1>8, <1>13 DEF LimiterTypes, LimiterInv
<1>16. OrphansRaced'
  <2> SUFFICES ASSUME NEW u \in Workers, visits'[u].pc = "append", visits'[u].orphan
               PROVE  BucketOf(visits'[u]) \in raced'
    BY DEF OrphansRaced, BucketOf
  <2>1. u # w /\ visits'[u] = visits[u]
    BY <1>9, <1>13
  <2> QED
    BY <2>1, <1>8 DEF LimiterInv, OrphansRaced
<1>17. ChecksAreLimited'
  <2> SUFFICES ASSUME NEW u \in Workers, visits'[u].pc \in {"look", "append"}
               PROVE  Limit(BucketOf(visits'[u])) > 0
    BY DEF ChecksAreLimited, BucketOf, Limit
  <2>1. CASE u = w
    BY <2>1, <1>6, <1>9, <1>13
  <2>2. CASE u # w
    BY <2>2, <1>13 DEF LimiterInv, ChecksAreLimited
  <2> QED
    BY <2>1, <2>2
<1>18. UsersAlone' /\ BucketsAreTrue' /\ RefusalHolds'
  <2>1. \A u \in Workers \ {w}, c \in Buckets :
           /\ Checks(visits'[u], c) <=> Checks(visits[u], c)
           /\ Lists(visits'[u], c) <=> Lists(visits[u], c)
           /\ Checks(visits[u], c) => visits'[u].age = visits[u].age /\ visits'[u].pc = visits[u].pc
    BY <1>13
  <2>2. \A c \in Buckets \ {b} : ~Checks(visits'[w], c) /\ ~Lists(visits'[w], c)
    BY <1>9, <1>13 DEF Checks, Lists
  <2>3. b \notin raced' => Sound(buckets'[b], admitted'[b], b) /\ Knows(visits'[w], buckets'[b], admitted'[b], b)
    <3> SUFFICES ASSUME b \notin raced PROVE Sound(hits, admitted[b], b) /\ Knows(v, hits, admitted[b], b)
      BY <1>8, <1>13
    <3>1. Checks(v, b) => v.pc = "append"
      BY <1>9 DEF Checks
    <3>2. ~Lists(v, b)
      BY <1>9 DEF Lists
    <3>3. Checks(v, b) => Len(hits) < Limit(b)
      <4>1. Len(hits) \in Nat
        BY <1>7
      <4> QED
        BY <3>1, <4>1, <1>5, <1>9
    <3>4. Checks(v, b) => TrueSince(hits, admitted[b], b, v.age)
      BY <3>1, <1>9, <1>12
    <3> QED
      BY <3>2, <3>3, <3>4, <1>12 DEF Knows
  <2>4. refusal' # NoRefusal =>
             \/ refusal' = refusal /\ refusal.bucket # b
             \/ /\ refusal'.bucket = b /\ b \notin raced' /\ Limit(b) > 0
                /\ RoomAgain(buckets'[b], b, refusal'.wait)
    <3>1. CASE Len(hits) >= Limit(b)
      <4>1. CASE b \in raced
        BY <3>1, <4>1, <1>8
      <4>2. CASE b \notin raced
        <5>1. refusal' = [bucket |-> b, wait |-> RetryAfter(hits, Window(b), age)]
          BY <3>1, <4>2, <1>8
        <5> QED
          BY <5>1, <3>1, <4>2, <1>6, <1>8, <1>13, <1>14
      <4> QED
        BY <4>1, <4>2
    <3>2. CASE ~(Len(hits) >= Limit(b))
      <4>1. refusal' = refusal
        BY <3>2, <1>8
      <4> SUFFICES ASSUME refusal # NoRefusal, refusal.bucket = b
                   PROVE  b \notin raced /\ RoomAgain(hits, b, refusal.wait)
        BY <4>1, <1>6, <1>8, <1>13
      <4>2. b \notin raced
        BY DEF LimiterInv, RefusalHolds, Calm
      <4>3. Len(Prune(hits, Window(b))) <= Len(hits) /\ Prune(hits, Window(b)) \in Seq(Nat)
        BY <4>2, <1>5, <1>7, <1>12, PopStaysSorted DEF Sound, Prune
      <4>4. Len(Prune(hits, Window(b))) \in Nat /\ Len(hits) \in Nat
        BY <4>3, <1>7
      <4> QED
        BY <4>2, <4>3, <4>4, <3>2, <1>5 DEF RoomAgain
    <3> QED
      BY <3>1, <3>2
  <2> QED
    BY <2>1, <2>2, <2>3, <2>4, <1>3, <1>8, <1>11, <1>13, StepAt
<1> QED
  BY <1>15, <1>16, <1>17, <1>18 DEF LimiterInv

LEMMA LimiterAdds == ASSUME LimiterInv, NEW w \in Workers, AddHit(w) PROVE LimiterInv'
<1> DEFINE b == BucketOf(visits[w])
           age == visits[w].age
           v == [visits[w] EXCEPT !.pc = "begin", !.step = visits[w].step + 1, !.age = 0, !.orphan = FALSE]
<1>1. visits \in [Workers -> VisitType] /\ buckets \in [Buckets -> Seq(Nat)] /\ admitted \in [Buckets -> Seq(Nat)]
  BY DEF LimiterInv, LimiterTypes
<1>2. visits[w].pc = "append"
  BY DEF AddHit
<1>3. visits[w] \in Adding /\ b \in Buckets
  <2>1. visits[w] \in VisitType /\ visits[w].pc \in {"look", "append"}
    BY <1>1, <1>2
  <2>2. visits[w] \in Looking \union Adding /\ b \in Buckets
    BY <2>1, VisitBucket
  <2>3. visits[w] \notin Looking
    BY <1>2 DEF Looking
  <2> QED
    BY <2>2, <2>3
<1>4. age \in 0 .. Pause /\ age \in Nat /\ visits[w].step <= 3
  <2>1. age \in 0 .. Pause /\ Pause \in Nat /\ visits[w].step \in 1 .. 3
    BY <1>3, LimiterConstants DEF Adding
  <2> QED
    BY <2>1
<1>5. Limit(b) > 0
  BY <1>2 DEF LimiterInv, ChecksAreLimited
<1>6. /\ buckets' = IF visits[w].orphan THEN buckets ELSE [buckets EXCEPT ![b] = Append(buckets[b], age)]
      /\ admitted' = IF b \in raced THEN admitted ELSE [admitted EXCEPT ![b] = Append(admitted[b], age)]
      /\ refusal' = IF refusal.bucket = b THEN NoRefusal ELSE refusal
      /\ raced' = raced /\ Passed(w)
  BY DEF AddHit
<1>7. v \in Beginning /\ visits' = [visits EXCEPT ![w] = v]
  BY <1>3, <1>4, <1>6, PassedOn
<1>8. Checks(visits[w], b)
  BY <1>2 DEF Checks
<1>9. b \notin raced => \A u \in Workers \ {w} : ~Checks(visits[u], b) /\ ~Lists(visits[u], b)
  BY <1>3, <1>8, UserAlone
<1>10. b \notin raced => ~visits[w].orphan
  BY <1>2 DEF LimiterInv, OrphansRaced
<1>11. b \notin raced =>
          /\ Sound(buckets[b], admitted[b], b) /\ TrueSince(buckets[b], admitted[b], b, age)
          /\ Len(buckets[b]) < Limit(b)
  <2> SUFFICES ASSUME b \notin raced
               PROVE  /\ Sound(buckets[b], admitted[b], b) /\ TrueSince(buckets[b], admitted[b], b, age)
                      /\ Len(buckets[b]) < Limit(b)
    OBVIOUS
  <2>1. Sound(buckets[b], admitted[b], b) /\ Knows(visits[w], buckets[b], admitted[b], b)
    BY <1>3, <1>5, <1>8, UserAlone
  <2> QED
    BY <2>1, <1>2, <1>8 DEF Knows
<1> HIDE DEF v, b, age
<1>12. /\ Append(buckets[b], age) \in Seq(Nat) /\ Append(admitted[b], age) \in Seq(Nat)
       /\ buckets[b] \in Seq(Nat) /\ admitted[b] \in Seq(Nat)
  <2>1. buckets[b] \in Seq(Nat) /\ admitted[b] \in Seq(Nat)
    BY <1>1, <1>3
  <2> QED
    BY <2>1, <1>4
<1>13. /\ \A c \in Buckets \ {b} : buckets'[c] = buckets[c] /\ admitted'[c] = admitted[c]
       /\ buckets' \in [Buckets -> Seq(Nat)] /\ admitted' \in [Buckets -> Seq(Nat)]
       /\ b \notin raced => buckets'[b] = Append(buckets[b], age) /\ admitted'[b] = Append(admitted[b], age)
  BY <1>1, <1>3, <1>6, <1>10, <1>12
<1>14. /\ visits'[w] = v /\ \A u \in Workers \ {w} : visits'[u] = visits[u]
       /\ visits' \in [Workers -> VisitType] /\ v.pc = "begin"
  <2>1. v \in VisitType /\ v.pc = "begin"
    BY <1>7 DEF VisitType, Beginning
  <2> QED
    BY <2>1, <1>1, <1>7
<1>15. LimiterTypes'
  <2>1. refusal' \in [bucket : Buckets \union {<<"none", 0>>}, wait : Nat]
    BY <1>6 DEF LimiterInv, LimiterTypes, NoRefusal
  <2> QED
    BY <2>1, <1>6, <1>13, <1>14 DEF LimiterTypes, LimiterInv
<1>16. OrphansRaced'
  <2> SUFFICES ASSUME NEW u \in Workers, visits'[u].pc = "append", visits'[u].orphan
               PROVE  BucketOf(visits'[u]) \in raced'
    BY DEF OrphansRaced, BucketOf
  <2>1. visits'[u] = visits[u]
    BY <1>14
  <2> QED
    BY <2>1, <1>6 DEF LimiterInv, OrphansRaced
<1>17. ChecksAreLimited'
  <2> SUFFICES ASSUME NEW u \in Workers, visits'[u].pc \in {"look", "append"}
               PROVE  Limit(BucketOf(visits'[u])) > 0
    BY DEF ChecksAreLimited, BucketOf, Limit
  <2>1. visits'[u] = visits[u]
    BY <1>14
  <2> QED
    BY <2>1 DEF LimiterInv, ChecksAreLimited
<1>18. UsersAlone' /\ BucketsAreTrue' /\ RefusalHolds'
  <2>1. \A u \in Workers \ {w}, c \in Buckets :
           /\ Checks(visits'[u], c) <=> Checks(visits[u], c)
           /\ Lists(visits'[u], c) <=> Lists(visits[u], c)
           /\ Checks(visits[u], c) => visits'[u].age = visits[u].age /\ visits'[u].pc = visits[u].pc
    BY <1>14
  <2>2. \A c \in Buckets : ~Checks(visits'[w], c) /\ ~Lists(visits'[w], c)
    BY <1>14 DEF Checks, Lists
  <2>3. b \notin raced' => Sound(buckets'[b], admitted'[b], b) /\ Knows(visits'[w], buckets'[b], admitted'[b], b)
    <3> SUFFICES ASSUME b \notin raced
                 PROVE  /\ Sound(Append(buckets[b], age), Append(admitted[b], age), b)
                        /\ Knows(visits'[w], buckets'[b], admitted'[b], b)
      BY <1>6, <1>13
    <3>1. Sound(Append(buckets[b], age), Append(admitted[b], age), b)
      BY <1>4, <1>5, <1>11, <1>12, SoundAdds
    <3>2. Knows(visits'[w], buckets'[b], admitted'[b], b)
      BY <2>2, <1>3 DEF Knows
    <3> QED
      BY <3>1, <3>2
  <2>4. refusal' # NoRefusal => refusal' = refusal /\ refusal.bucket # b
    BY <1>6
  <2> QED
    BY <2>1, <2>2, <2>3, <2>4, <1>3, <1>6, <1>9, <1>13, StepAt
<1> QED
  BY <1>15, <1>16, <1>17, <1>18 DEF LimiterInv

\* The last hit is the youngest.
LEMMA StaleIsOld ==
    ASSUME NEW s \in Seq(Nat), OldestFirst(s), Stale(s, 0)
    PROVE  \A i \in DOMAIN s : s[i] > Hour
<1> TAKE i \in DOMAIN s
<1>1. i \in 1 .. Len(s) /\ Len(s) \in DOMAIN s /\ i <= Len(s) /\ s # <<>>
  OBVIOUS
<1>2. s[Len(s)] <= s[i] /\ s[Len(s)] \in Nat /\ s[i] \in Nat /\ Hour \in Nat
  BY <1>1, LimiterConstants DEF OldestFirst
<1>3. s[Len(s)] - 0 > Hour
  BY <1>1 DEF Stale
<1> QED
  BY <1>2, <1>3

\* By an earlier clock what is stale is older still.
LEMMA StaleByNow ==
    ASSUME NEW s \in Seq(Nat), NEW age \in Nat, Stale(s, age)
    PROVE  Stale(s, 0)
<1>1. CASE s = <<>>
  BY <1>1 DEF Stale
<1>2. CASE s # <<>>
  <2>1. s[Len(s)] \in Nat /\ s[Len(s)] - age > Hour /\ Hour \in Nat
    BY <1>2, LimiterConstants DEF Stale
  <2>2. s[Len(s)] - 0 > Hour
    BY <2>1
  <2> QED
    BY <2>2 DEF Stale
<1> QED
  BY <1>1, <1>2

\* A worker that walks over the table.
LEMMA WalkShape ==
    ASSUME NEW v \in VisitType, v.pc = "list"
    PROVE  /\ v \in Listing /\ v.age \in Nat
           /\ \A S \in SUBSET Buckets : [v EXCEPT !.todo = S] \in Listing
           /\ \A S \in SUBSET Buckets : [v EXCEPT !.stale = S] \in Listing
           /\ \A S, T \in SUBSET Buckets : [v EXCEPT !.todo = S, !.stale = T] \in Listing
<1>1. v \in Listing
  <2>1. v # Away
    BY DEF Away
  <2>2. v \notin Beginning
    BY DEF Beginning
  <2>3. v \notin Looking
    BY DEF Looking
  <2>4. v \notin Adding
    BY DEF Adding
  <2> QED
    BY <2>1, <2>2, <2>3, <2>4 DEF VisitType
<1>2. v.age \in 0 .. Pause /\ Pause \in Nat
  BY <1>1, LimiterConstants DEF Listing
<1>3. v.age \in Nat
  BY <1>2
<1> QED
  BY <1>1, <1>3 DEF Listing

LEMMA LimiterTests == ASSUME LimiterInv, NEW w \in Workers, NEW b \in Buckets, Test(w, b) PROVE LimiterInv'
<1>1. visits \in [Workers -> VisitType] /\ buckets \in [Buckets -> Seq(Nat)] /\ admitted \in [Buckets -> Seq(Nat)]
  BY DEF LimiterInv, LimiterTypes
<1>2. visits[w].pc = "list" /\ buckets' = buckets
  BY DEF Test
<1>3. /\ visits[w] \in Listing /\ visits[w].age \in Nat
      /\ visits[w].todo \in SUBSET Buckets /\ visits[w].stale \in SUBSET Buckets
  <2>1. visits[w] \in VisitType
    BY <1>1
  <2>2. visits[w] \in Listing /\ visits[w].age \in Nat
    BY <2>1, <1>2, WalkShape
  <2> QED
    BY <2>2 DEF Listing
<1>4. CASE ~(InTable(b) /\ Stale(buckets[b], visits[w].age))
  <2> DEFINE v == [visits[w] EXCEPT !.todo = visits[w].todo \ {b}]
  <2>1. visits' = [visits EXCEPT ![w] = v] /\ UNCHANGED <<admitted, raced, refusal>>
    BY <1>4 DEF Test
  <2>2. v \in Listing /\ v.pc = "list" /\ v.stale = visits[w].stale
    BY <1>3 DEF Listing
  <2> HIDE DEF v
  <2>3. v \in VisitType /\ v.pc \notin {"look", "append"} /\ \A c \in Buckets : Lists(v, c) => Lists(visits[w], c)
    BY <2>2, <1>2 DEF VisitType, Lists
  <2> QED
    BY <2>1, <2>3, <1>2, WorkerMoves
<1>5. CASE InTable(b) /\ Stale(buckets[b], visits[w].age)
  <2> DEFINE v == [visits[w] EXCEPT !.todo = visits[w].todo \ {b}, !.stale = visits[w].stale \union {b}]
  <2>1. visits' = [visits EXCEPT ![w] = v] /\ Meet(w, b)
    BY <1>5 DEF Test
  <2>2. v \in Listing /\ v.pc = "list" /\ v.stale = visits[w].stale \union {b}
    BY <1>3 DEF Listing
  <2> HIDE DEF v
  <2>3. /\ visits'[w] = v /\ \A u \in Workers \ {w} : visits'[u] = visits[u]
        /\ visits' \in [Workers -> VisitType]
    <3>1. v \in VisitType
      BY <2>2 DEF VisitType
    <3> QED
      BY <3>1, <2>1, <1>1
  <2>4. /\ raced \subseteq raced' /\ raced' \subseteq raced \union {b} /\ raced' \subseteq Buckets
        /\ admitted' \in [Buckets -> Seq(Nat)]
        /\ \A c \in Buckets \ {b} : buckets'[c] = buckets[c] /\ admitted'[c] = admitted[c]
        /\ b \notin raced' =>
             /\ b \notin raced /\ admitted' = admitted
             /\ \A u \in Workers \ {w} : ~Checks(visits[u], b) /\ ~Lists(visits[u], b)
        /\ refusal' \in [bucket : Buckets \union {<<"none", 0>>}, wait : Nat]
        /\ refusal' # NoRefusal =>
             \/ refusal' = refusal /\ refusal.bucket # b
             \/ /\ refusal'.bucket = b /\ b \notin raced' /\ Limit(b) > 0
                /\ RoomAgain(buckets'[b], b, refusal'.wait)
    BY <2>1, <1>2, MeetShape
  <2>5. \A c \in Buckets \ {b} : ~Checks(visits'[w], c) /\ (Lists(visits'[w], c) => Lists(visits[w], c))
    BY <2>2, <2>3, <1>2 DEF Checks, Lists
  <2>6. ASSUME b \notin raced', Limit(b) > 0
        PROVE  Sound(buckets'[b], admitted'[b], b) /\ Knows(visits'[w], buckets'[b], admitted'[b], b)
    <3>1. b \notin raced /\ admitted' = admitted
      BY <2>4, <2>6
    <3>2. Sound(buckets[b], admitted[b], b)
      BY <3>1, <2>6 DEF LimiterInv, BucketsAreTrue, Calm
    <3>3. buckets[b] \in Seq(Nat) /\ OldestFirst(buckets[b])
      BY <3>2, <1>1 DEF Sound
    <3>4. Stale(buckets[b], 0)
      BY <3>3, <1>3, <1>5, StaleByNow
    <3>5. \A i \in DOMAIN buckets[b] : buckets[b][i] > Hour
      BY <3>3, <3>4, StaleIsOld
    <3>6. Knows(v, buckets[b], admitted[b], b)
      BY <3>5, <2>2 DEF Knows, Checks
    <3> QED
      BY <3>1, <3>2, <3>6, <2>3, <1>2
  <2>7. UsersAlone' /\ BucketsAreTrue' /\ RefusalHolds'
    <3>1. \A u \in Workers \ {w}, c \in Buckets :
             /\ Checks(visits'[u], c) <=> Checks(visits[u], c)
             /\ Lists(visits'[u], c) <=> Lists(visits[u], c)
             /\ Checks(visits[u], c) => visits'[u].age = visits[u].age /\ visits'[u].pc = visits[u].pc
      BY <2>3
    <3> QED
      BY <3>1, <2>4, <2>5, <2>6, StepAt
  <2>8. LimiterTypes'
    BY <2>3, <2>4, <1>1, <1>2 DEF LimiterTypes
  <2>9. OrphansRaced'
    <3> SUFFICES ASSUME NEW u \in Workers, visits'[u].pc = "append", visits'[u].orphan
                 PROVE  BucketOf(visits'[u]) \in raced'
      BY DEF OrphansRaced, BucketOf
    <3>1. visits'[u] = visits[u]
      BY <2>2, <2>3
    <3>2. BucketOf(visits[u]) \in raced
      BY <3>1 DEF LimiterInv, OrphansRaced
    <3> QED
      BY <3>1, <3>2, <2>4
  <2>10. ChecksAreLimited'
    <3> SUFFICES ASSUME NEW u \in Workers, visits'[u].pc \in {"look", "append"}
                 PROVE  Limit(BucketOf(visits'[u])) > 0
      BY DEF ChecksAreLimited, BucketOf, Limit
    <3>1. visits'[u] = visits[u]
      BY <2>2, <2>3
    <3> QED
      BY <3>1 DEF LimiterInv, ChecksAreLimited
  <2> QED
    BY <2>7, <2>8, <2>9, <2>10 DEF LimiterInv
<1> QED
  BY <1>4, <1>5

LEMMA LimiterDrops == ASSUME LimiterInv, NEW w \in Workers, NEW b \in Buckets, Drop(w, b) PROVE LimiterInv'
<1>1. visits \in [Workers -> VisitType] /\ buckets \in [Buckets -> Seq(Nat)] /\ admitted \in [Buckets -> Seq(Nat)]
  BY DEF LimiterInv, LimiterTypes
<1>2. /\ visits[w].pc = "list" /\ b \in visits[w].stale
      /\ buckets' = [buckets EXCEPT ![b] = <<>>] /\ UNCHANGED <<admitted, raced, refusal>>
      /\ visits' = [v \in Workers |->
            IF v = w THEN [visits[w] EXCEPT !.stale = visits[w].stale \ {b}]
            ELSE IF visits[v].pc = "append" /\ BucketOf(visits[v]) = b THEN [visits[v] EXCEPT !.orphan = TRUE]
            ELSE visits[v]]
  BY DEF Drop
<1>3. /\ visits[w] \in Listing /\ visits[w].stale \in SUBSET Buckets
      /\ visits'[w] \in Listing /\ visits'[w].pc = "list" /\ visits'[w].stale = visits[w].stale \ {b}
  <2>1. visits[w] \in VisitType
    BY <1>1
  <2>2. visits[w] \in Listing
    BY <2>1, <1>2, WalkShape
  <2>3. visits'[w] = [visits[w] EXCEPT !.stale = visits[w].stale \ {b}]
    BY <1>2
  <2> QED
    BY <2>2, <2>3 DEF Listing
<1>4. Lists(visits[w], b)
  BY <1>2 DEF Lists
<1>5. b \notin raced => \A u \in Workers \ {w} : ~Checks(visits[u], b) /\ ~Lists(visits[u], b)
  BY <1>4, UserAlone
<1>6. ASSUME NEW u \in Workers \ {w}
      PROVE  /\ visits'[u] \in VisitType
             /\ visits'[u].pc = visits[u].pc
             /\ visits[u].pc \in {"look", "append"} =>
                  BucketOf(visits'[u]) = BucketOf(visits[u]) /\ visits'[u].age = visits[u].age
             /\ visits[u].pc = "list" => visits'[u].stale = visits[u].stale
             /\ visits'[u].pc = "append" /\ visits'[u].orphan => BucketOf(visits'[u]) \in raced
  <2>1. visits[u] \in VisitType
    BY <1>1
  <2>2. CASE visits[u].pc = "append" /\ BucketOf(visits[u]) = b
    <3>1. visits[u] \in Adding
      <4>1. visits[u] \in Looking \union Adding
        BY <2>1, <2>2, VisitBucket
      <4>2. visits[u] \notin Looking
        BY <2>2 DEF Looking
      <4> QED
        BY <4>1, <4>2
    <3>2. visits'[u] = [visits[u] EXCEPT !.orphan = TRUE]
      BY <2>2, <1>2
    <3>3. /\ visits'[u] \in Adding /\ visits'[u].pc = "append" /\ visits'[u].age = visits[u].age
          /\ BucketOf(visits'[u]) = BucketOf(visits[u])
      BY <3>1, <3>2 DEF Adding, BucketOf
    <3>4. b \in raced
      BY <2>2, <1>5 DEF Checks
    <3> QED
      BY <3>3, <3>4, <2>2 DEF VisitType
  <2>3. CASE ~(visits[u].pc = "append" /\ BucketOf(visits[u]) = b)
    <3>1. visits'[u] = visits[u]
      BY <2>3, <1>2
    <3> QED
      BY <3>1, <2>1 DEF LimiterInv, OrphansRaced
  <2> QED
    BY <2>2, <2>3
<1>7. \A c \in Buckets \ {b} : buckets'[c] = buckets[c] /\ admitted'[c] = admitted[c]
  BY <1>1, <1>2
<1>8. buckets'[b] = <<>> /\ buckets' \in [Buckets -> Seq(Nat)] /\ admitted' = admitted /\ raced' = raced /\ refusal' = refusal
  BY <1>1, <1>2
<1>9. LimiterTypes'
  <2>1. visits' \in [Workers -> VisitType]
    <3>1. \A u \in Workers : visits'[u] \in VisitType
      BY <1>3, <1>6 DEF VisitType
    <3> QED
      BY <3>1, <1>2
  <2> QED
    BY <2>1, <1>8 DEF LimiterInv, LimiterTypes
<1>10. OrphansRaced'
  <2> SUFFICES ASSUME NEW u \in Workers, visits'[u].pc = "append", visits'[u].orphan
               PROVE  BucketOf(visits'[u]) \in raced'
    BY DEF OrphansRaced, BucketOf
  <2> QED
    BY <1>3, <1>6, <1>8
<1>11. ChecksAreLimited'
  <2> SUFFICES ASSUME NEW u \in Workers, visits'[u].pc \in {"look", "append"}
               PROVE  Limit(BucketOf(visits'[u])) > 0
    BY DEF ChecksAreLimited, BucketOf, Limit
  <2>1. u # w
    BY <1>3
  <2>2. visits[u].pc \in {"look", "append"} /\ BucketOf(visits'[u]) = BucketOf(visits[u])
    BY <2>1, <1>6
  <2> QED
    BY <2>2 DEF LimiterInv, ChecksAreLimited
<1>12. UsersAlone' /\ BucketsAreTrue' /\ RefusalHolds'
  <2>1. \A u \in Workers \ {w}, c \in Buckets :
           /\ Checks(visits'[u], c) <=> Checks(visits[u], c)
           /\ Lists(visits'[u], c) <=> Lists(visits[u], c)
           /\ Checks(visits[u], c) => visits'[u].age = visits[u].age /\ visits'[u].pc = visits[u].pc
    BY <1>6 DEF Checks, Lists
  <2>2. \A c \in Buckets \ {b} : ~Checks(visits'[w], c) /\ (Lists(visits'[w], c) => Lists(visits[w], c))
    BY <1>2, <1>3 DEF Checks, Lists
  <2>3. b \notin raced' /\ Limit(b) > 0 =>
           Sound(buckets'[b], admitted'[b], b) /\ Knows(visits'[w], buckets'[b], admitted'[b], b)
    <3> SUFFICES ASSUME b \notin raced, Limit(b) > 0
                 PROVE  Sound(<<>>, admitted[b], b) /\ Knows(visits'[w], <<>>, admitted[b], b)
      BY <1>8
    <3>1. Sound(buckets[b], admitted[b], b) /\ Knows(visits[w], buckets[b], admitted[b], b)
      BY <1>4, UserAlone
    <3>2. \A i \in DOMAIN buckets[b] : buckets[b][i] > Hour
      BY <3>1, <1>4 DEF Knows
    <3>3. buckets[b] \in Seq(Nat) /\ admitted[b] \in Seq(Nat)
      BY <1>1
    <3>4. Sound(<<>>, admitted[b], b)
      BY <3>1, <3>2, <3>3, SoundDrops
    <3>5. ~Checks(visits'[w], b) /\ ~Lists(visits'[w], b)
      BY <1>3 DEF Checks, Lists
    <3> QED
      BY <3>4, <3>5 DEF Knows
  <2>4. refusal' # NoRefusal =>
             \/ refusal' = refusal /\ refusal.bucket # b
             \/ /\ refusal'.bucket = b /\ b \notin raced' /\ Limit(b) > 0
                /\ RoomAgain(buckets'[b], b, refusal'.wait)
    <3> SUFFICES ASSUME refusal # NoRefusal, refusal.bucket = b
                 PROVE  b \notin raced /\ Limit(b) > 0 /\ RoomAgain(<<>>, b, refusal.wait)
      BY <1>8
    <3>1. b \notin raced /\ Limit(b) > 0
      BY DEF LimiterInv, RefusalHolds, Calm
    <3>2. Window(b) \in Nat /\ <<>> \in Seq(Nat) /\ OldestFirst(<<>>) /\ DOMAIN <<>> = {} /\ Len(<<>>) = 0
      BY WindowConstants DEF OldestFirst
    <3>3. Prune(<<>>, Window(b)) = <<>>
      BY <3>2, AllLeave DEF Prune
    <3> QED
      BY <3>1, <3>2, <3>3 DEF RoomAgain
  <2> QED
    BY <2>1, <2>2, <2>3, <2>4, <1>5, <1>7, <1>8, StepAt
<1> QED
  BY <1>9, <1>10, <1>11, <1>12 DEF LimiterInv

LEMMA LimiterNextInv == LimiterInv /\ [LimiterNext]_limiterVars => LimiterInv'
<1> SUFFICES ASSUME LimiterInv, [LimiterNext]_limiterVars PROVE LimiterInv'
  OBVIOUS
<1>1. CASE HitsAge
  BY <1>1, LimiterTicks
<1>2. ASSUME NEW w \in Workers, NEW a \in Addresses, NEW l \in Links, Arrive(w, a, l) PROVE LimiterInv'
  <2> DEFINE v == [pc |-> "begin", address |-> a, link |-> l, step |-> 1, age |-> 0, orphan |-> FALSE]
  <2>1. visits' = [visits EXCEPT ![w] = v] /\ UNCHANGED <<buckets, admitted, raced, refusal>>
    BY <1>2 DEF Arrive
  <2>2. v \in VisitType /\ v.pc = "begin"
    BY DEF VisitType, Beginning
  <2> HIDE DEF v
  <2>3. v.pc \notin {"look", "append"} /\ \A b \in Buckets : Lists(v, b) => Lists(visits[w], b)
    BY <2>2 DEF Lists
  <2> QED
    BY <2>1, <2>2, <2>3, WorkerMoves
<1>3. ASSUME NEW w \in Workers, visits' = [visits EXCEPT ![w] = Away], UNCHANGED <<buckets, admitted, raced, refusal>>
      PROVE  LimiterInv'
  <2>1. Away \in VisitType /\ Away.pc \notin {"look", "append"} /\ \A b \in Buckets : ~Lists(Away, b)
    BY DEF VisitType, Away, Lists
  <2> HIDE DEF Away
  <2> QED
    BY <1>3, <2>1, WorkerMoves
<1>4. ASSUME NEW w \in Workers, BeginCheck(w) PROVE LimiterInv'
  BY <1>4, LimiterBegins
<1>5. ASSUME NEW w \in Workers, Look(w) PROVE LimiterInv'
  BY <1>5, LimiterLooks
<1>6. ASSUME NEW w \in Workers, LookFails(w) PROVE LimiterInv'
  BY <1>3, <1>6 DEF LookFails
<1>7. ASSUME NEW w \in Workers, AddHit(w) PROVE LimiterInv'
  BY <1>7, LimiterAdds
<1>8. ASSUME NEW w \in Workers, BeginPrune(w) PROVE LimiterInv'
  <2> DEFINE v == [pc |-> "list", age |-> 0, todo |-> {b \in Buckets : InTable(b)}, stale |-> {}]
  <2>1. visits' = [visits EXCEPT ![w] = v] /\ UNCHANGED <<buckets, admitted, raced, refusal>>
    BY <1>8 DEF BeginPrune
  <2>2. {b \in Buckets : InTable(b)} \subseteq Buckets /\ 0 \in 0 .. Pause
    BY LimiterConstants
  <2>3. v \in VisitType /\ v.pc = "list" /\ v.stale = {}
    BY <2>2 DEF VisitType, Listing
  <2> HIDE DEF v
  <2>4. v.pc \notin {"look", "append"} /\ \A b \in Buckets : Lists(v, b) => Lists(visits[w], b)
    BY <2>3 DEF Lists
  <2> QED
    BY <2>1, <2>3, <2>4, WorkerMoves
<1>9. ASSUME NEW w \in Workers, EndPrune(w) PROVE LimiterInv'
  BY <1>3, <1>9 DEF EndPrune
<1>10. ASSUME NEW w \in Workers, PruneFails(w) PROVE LimiterInv'
  BY <1>3, <1>10 DEF PruneFails
<1>11. ASSUME NEW w \in Workers, NEW b \in Buckets, Test(w, b) PROVE LimiterInv'
  BY <1>11, LimiterTests
<1>12. ASSUME NEW w \in Workers, NEW b \in Buckets, Drop(w, b) PROVE LimiterInv'
  BY <1>12, LimiterDrops
<1>13. CASE UNCHANGED limiterVars
  <2>1. UNCHANGED <<buckets, visits, admitted, raced, refusal>>
    BY <1>13 DEF limiterVars
  <2>2. LimiterTypes'
    BY <2>1 DEF LimiterInv, LimiterTypes
  <2>3. UsersAlone'
    <3> SUFFICES ASSUME NEW c \in Buckets, c \notin raced', NEW u \in Workers, NEW v \in Workers,
                        Checks(visits'[u], c) \/ Lists(visits'[u], c), Checks(visits'[v], c) \/ Lists(visits'[v], c)
                 PROVE  u = v
      BY DEF UsersAlone, Users, Checks, Lists
    <3> QED
      BY <2>1, UserAlone
  <2>4. OrphansRaced'
    <3> SUFFICES ASSUME NEW u \in Workers, visits'[u].pc = "append", visits'[u].orphan
                 PROVE  BucketOf(visits'[u]) \in raced'
      BY DEF OrphansRaced, BucketOf
    <3> QED
      BY <2>1 DEF LimiterInv, OrphansRaced
  <2>5. ChecksAreLimited'
    <3> SUFFICES ASSUME NEW u \in Workers, visits'[u].pc \in {"look", "append"}
                 PROVE  Limit(BucketOf(visits'[u])) > 0
      BY DEF ChecksAreLimited, BucketOf, Limit
    <3> QED
      BY <2>1 DEF LimiterInv, ChecksAreLimited
  <2>6. BucketsAreTrue'
    <3> SUFFICES ASSUME NEW b \in Buckets, b \notin raced', Limit(b) > 0
                 PROVE  /\ Sound(buckets'[b], admitted'[b], b)
                        /\ \A u \in Workers : Knows(visits'[u], buckets'[b], admitted'[b], b)
      BY DEF BucketsAreTrue, Calm, Sound, Knows, TrueSince, Spread, OldestFirst, Checks, Lists, Prune, PopOlder
    <3> QED
      BY <2>1 DEF LimiterInv, BucketsAreTrue, Calm
  <2>7. RefusalHolds'
    BY <2>1 DEF LimiterInv, RefusalHolds, Calm, RoomAgain, Prune, PopOlder
  <2> QED
    BY <2>2, <2>3, <2>4, <2>5, <2>6, <2>7 DEF LimiterInv
<1> QED
  BY <1>1, <1>2, <1>4, <1>5, <1>6, <1>7, <1>8, <1>9, <1>10, <1>11, <1>12, <1>13 DEF LimiterNext

(***************************************************************************)
(* In no minute and no hour, whenever it begins, does a bucket let more    *)
(* requests pass than its limit, each counted at the instant its check     *)
(* read the clock, unless two workers were at the bucket at once, for any  *)
(* number of workers, addresses and links, any limits and windows and      *)
(* however long a worker is interrupted (SlidingWindowRateLimiter.check    *)
(* and prune_all).                                                         *)
(***************************************************************************)
THEOREM WindowsNeverOverfull == LimiterSpec => []WindowsHold
<1>1. LimiterInv => WindowsHold
  BY DEF LimiterInv, BucketsAreTrue, Calm, Sound, Spread, WindowsHold
<1> QED
  BY InitialLimiter, LimiterNextInv, <1>1, PTL DEF LimiterSpec

\* The rounded wait is long enough, from the invariant.
LEMMA RetryAfterInside == ASSUME LimiterInv PROVE RetryAfterHonest
<1> SUFFICES ASSUME refusal # NoRefusal, refusal.wait = 0
             PROVE  Len(Prune(buckets[refusal.bucket], Window(refusal.bucket))) < Limit(refusal.bucket)
  BY DEF RetryAfterHonest
<1> DEFINE b == refusal.bucket
<1>1. b \in Buckets /\ Calm(b) /\ RoomAgain(buckets[b], b, 0)
  BY DEF LimiterInv, RefusalHolds
<1>2. Sound(buckets[b], admitted[b], b) /\ Limit(b) > 0
  BY <1>1 DEF LimiterInv, BucketsAreTrue, Calm
<1>3. buckets[b] \in Seq(Nat) /\ OldestFirst(buckets[b]) /\ Len(buckets[b]) <= Limit(b)
  BY <1>1, <1>2 DEF LimiterInv, LimiterTypes, Sound
<1>4. Window(b) \in Nat /\ Limit(b) \in Nat
  BY WindowConstants
<1>5. PopOlder(buckets[b], Window(b)) \in Seq(Nat) /\ Len(PopOlder(buckets[b], Window(b))) <= Len(buckets[b])
  BY <1>3, <1>4, PopStaysSorted
<1> HIDE DEF b
<1>6. CASE Len(Prune(buckets[b], Window(b))) < Limit(b)
  BY <1>6 DEF b
<1>7. CASE ~ (Len(Prune(buckets[b], Window(b))) < Limit(b))
  <2>1. Len(buckets[b]) > 0 /\ buckets[b][1] \in Nat
    BY <1>2, <1>3, <1>4, <1>5, <1>7 DEF Prune
  <2>2. buckets[b][1] > Window(b)
    BY <2>1, <1>1, <1>4, <1>7 DEF RoomAgain
  <2>3. Len(PopOlder(buckets[b], Window(b))) < Len(buckets[b])
    BY <2>1, <2>2, <1>3, <1>4, OldestLeaves
  <2> QED
    BY <2>3, <1>3, <1>4, <1>5 DEF Prune, b
<1> QED
  BY <1>6, <1>7

(***************************************************************************)
(* Once the seconds of Retry-After have passed, and nobody else has used   *)
(* the bucket, the bucket that refused has room again, whatever fraction   *)
(* of a second its oldest hit is old and however long ago its check read   *)
(* the clock (check, the rounding of retry_after).                         *)
(***************************************************************************)
THEOREM RetryAfterKept == LimiterSpec => []RetryAfterHonest
<1>1. LimiterInv => RetryAfterHonest
  BY RetryAfterInside
<1> QED
  BY InitialLimiter, LimiterNextInv, <1>1, PTL DEF LimiterSpec

-----------------------------------------------------------------------------
(* The import of the supplier directory. *)

SheetRows == Emails \union {"malformed", "blank"}

Supplier == [id : Nat, email : Emails, info : {"buyer", "sheet"}]

ImportType ==
    [pc : {"none", "row", "create", "update", "reported", "broken"}, sheet : Seq(SheetRows),
     mode : {"skip", "update"}, row : Nat, found : Nat,
     created : Nat, updated : Nat, skipped : Nat, failed : Nat]

DirectoryTypes ==
    /\ suppliers \subseteq Supplier
    /\ issuedIds \in Nat
    /\ import \in ImportType
    /\ effects \in [added : SUBSET Nat, changed : SUBSET (Nat \X Nat), kept : SUBSET (Nat \X Supplier)]

OneAddressEach == \A s, t \in suppliers : s.email = t.email => s = t

\* The rows the import is done with.
Done == {row \in Valid(import.sheet) : row < import.row}

Counted == import.created + import.updated + import.skipped + import.failed

ImportIsWhere ==
    /\ import.pc = "none" => import = NoImport
    /\ import.pc \in {"create", "update"} => RowsLeft # {}
    /\ import.pc = "update" => import.mode = "update"
    /\ import.pc = "reported" => RowsLeft = {}

\* Every row that is done is counted once.
RowsCounted ==
    /\ import.pc \in {"none", "row", "create", "update"} => Counted = Cardinality(Done)
    /\ import.pc = "reported" => Counted = Cardinality(Done) + Cardinality(Malformed(import.sheet))

\* The counts are those of the effects, and no row and no id has two.
EffectsCounted ==
    /\ IsFiniteSet(effects.added) /\ import.created = Cardinality(effects.added)
    /\ IsFiniteSet(effects.changed) /\ import.updated = Cardinality(effects.changed)
    /\ IsFiniteSet(effects.kept) /\ import.skipped = Cardinality(effects.kept)
    /\ \A id \in effects.added : id <= issuedIds
    /\ \A e \in effects.changed \union effects.kept : e[1] < import.row
    /\ import.mode = "skip" => effects.changed = {}

DirectoryInv ==
    /\ DirectoryTypes
    /\ OneAddressEach
    /\ ImportIsWhere
    /\ RowsCounted
    /\ EffectsCounted

LEMMA DirectoryConstants ==
    /\ MaxSuppliers \in Nat /\ "malformed" \notin Emails /\ "blank" \notin Emails
    /\ Sheets \subseteq Seq(SheetRows)
BY DirectoryAssumption DEF SheetRows

LEMMA InitialDirectory == DirectoryInit => DirectoryInv
<1> SUFFICES ASSUME DirectoryInit PROVE DirectoryInv
  OBVIOUS
<1>1. import = NoImport /\ suppliers = {} /\ issuedIds = 0 /\ effects = [added |-> {}, changed |-> {}, kept |-> {}]
  BY DEF DirectoryInit
<1>2. NoImport \in ImportType
  BY DEF NoImport, ImportType
<1>3. IsFiniteSet({}) /\ Cardinality({}) = 0
  BY FS_EmptySet
<1>4. Done = {}
  BY <1>1 DEF Done, Valid, NoImport
<1>5. Counted = 0 /\ import.created = 0 /\ import.updated = 0 /\ import.skipped = 0 /\ import.pc = "none"
  BY <1>1 DEF Counted, NoImport
<1>6. DirectoryTypes /\ OneAddressEach
  BY <1>1, <1>2 DEF DirectoryTypes, OneAddressEach
<1>7. ImportIsWhere /\ RowsCounted
  BY <1>1, <1>3, <1>4, <1>5 DEF ImportIsWhere, RowsCounted
<1>8. EffectsCounted
  BY <1>1, <1>3, <1>5 DEF EffectsCounted
<1> QED
  BY <1>6, <1>7, <1>8 DEF DirectoryInv

LEMMA SheetIsFinite ==
    ASSUME DirectoryInv
    PROVE  /\ DOMAIN import.sheet \subseteq Nat
           /\ \A S \in SUBSET (DOMAIN import.sheet) : IsFiniteSet(S) /\ Cardinality(S) \in Nat
<1>1. import.sheet \in Seq(SheetRows)
  BY DEF DirectoryInv, DirectoryTypes, ImportType
<1>2. DOMAIN import.sheet = 1 .. Len(import.sheet) /\ Len(import.sheet) \in Int
  BY <1>1
<1>3. IsFiniteSet(DOMAIN import.sheet)
  BY <1>2, FS_Interval
<1>4. \A S \in SUBSET (DOMAIN import.sheet) : IsFiniteSet(S) /\ Cardinality(S) \in Nat
  BY <1>3, FS_Subset, FS_CardinalityType
<1> QED
  BY <1>2, <1>4

\* The next row is the first one left.
LEMMA NextIsFirst ==
    ASSUME DirectoryInv, RowsLeft # {}
    PROVE  Row \in RowsLeft /\ Row \in Nat /\ import.row <= Row /\ \A other \in RowsLeft : Row <= other
<1>1. RowsLeft \in SUBSET Nat
  BY SheetIsFinite DEF RowsLeft, Valid
<1>2. \E row \in RowsLeft : \A other \in RowsLeft : row <= other
  BY <1>1, LeastNumber
<1>3. Row \in RowsLeft /\ \A other \in RowsLeft : Row <= other
  BY <1>2 DEF Row
<1> QED
  BY <1>1, <1>3 DEF RowsLeft

\* Once it is done, one row more is.
LEMMA OneRowMore ==
    ASSUME DirectoryInv, RowsLeft # {}
    PROVE  /\ Cardinality({row \in Valid(import.sheet) : row < Row + 1}) = Cardinality(Done) + 1
           /\ Cardinality(Done) \in Nat
<1>1. Row \in RowsLeft /\ Row \in Nat /\ import.row <= Row /\ \A other \in RowsLeft : Row <= other
  BY NextIsFirst
<1>2. Valid(import.sheet) \subseteq DOMAIN import.sheet /\ Valid(import.sheet) \subseteq Nat /\ import.row \in Nat
  BY SheetIsFinite DEF Valid, DirectoryInv, DirectoryTypes, ImportType
<1>3. {row \in Valid(import.sheet) : row < Row + 1} = Done \union {Row}
  <2>1. \A row \in Valid(import.sheet) : row < Row + 1 => row < import.row \/ row = Row
    <3> TAKE row \in Valid(import.sheet)
    <3>1. row >= import.row => row \in RowsLeft
      BY DEF RowsLeft
    <3>2. row \in Nat
      BY <1>2
    <3> QED
      BY <3>1, <3>2, <1>1, <1>2
  <2>2. Row \in Valid(import.sheet)
    BY <1>1 DEF RowsLeft
  <2>3. \A row \in Done : row \in Valid(import.sheet) /\ row < Row + 1
    BY <1>1, <1>2 DEF Done
  <2>4. {row \in Valid(import.sheet) : row < Row + 1} \subseteq Done \union {Row}
    BY <2>1 DEF Done
  <2>5. Row < Row + 1
    BY <1>1
  <2>6. Done \union {Row} \subseteq {row \in Valid(import.sheet) : row < Row + 1}
    BY <2>2, <2>3, <2>5
  <2> QED
    BY <2>4, <2>6
<1>4. Row \notin Done
  BY <1>1, <1>2 DEF Done
<1>5. Done \in SUBSET (DOMAIN import.sheet)
  BY <1>2 DEF Done
<1>6. IsFiniteSet(Done) /\ Cardinality(Done) \in Nat
  BY <1>5, SheetIsFinite
<1> QED
  BY <1>3, <1>4, <1>6, FS_AddElement

LEMMA ReportInside == ASSUME DirectoryInv PROVE ReportIsTrue
<1>1. \A s, t \in suppliers : s.email = t.email => s = t
  BY DEF DirectoryInv, OneAddressEach
<1> SUFFICES ASSUME import.pc = "reported"
             PROVE  Counted = Cardinality({row \in DOMAIN import.sheet : import.sheet[row] # "blank"})
  BY <1>1 DEF ReportIsTrue, DirectoryInv, EffectsCounted, Counted
<1>2. Counted = Cardinality(Done) + Cardinality(Malformed(import.sheet)) /\ RowsLeft = {}
  BY DEF DirectoryInv, RowsCounted, ImportIsWhere
<1>3. Valid(import.sheet) \subseteq Nat /\ import.row \in Nat
  BY SheetIsFinite DEF Valid, DirectoryInv, DirectoryTypes, ImportType
<1>4. Done = Valid(import.sheet)
  BY <1>2, <1>3 DEF Done, RowsLeft
<1>5. import.sheet \in Seq(SheetRows)
  BY DEF DirectoryInv, DirectoryTypes, ImportType
<1>6. \A row \in DOMAIN import.sheet : import.sheet[row] \in SheetRows
  BY <1>5
<1>7. {row \in DOMAIN import.sheet : import.sheet[row] # "blank"} = Valid(import.sheet) \union Malformed(import.sheet)
  BY <1>6, DirectoryConstants DEF SheetRows, Valid, Malformed
<1>8. Valid(import.sheet) \intersect Malformed(import.sheet) = {}
  BY DirectoryConstants DEF Valid, Malformed
<1>9. /\ IsFiniteSet(Valid(import.sheet)) /\ Cardinality(Valid(import.sheet)) \in Nat
      /\ IsFiniteSet(Malformed(import.sheet)) /\ Cardinality(Malformed(import.sheet)) \in Nat
  BY SheetIsFinite DEF Valid, Malformed
<1>10. Cardinality(Valid(import.sheet) \union Malformed(import.sheet))
         = Cardinality(Valid(import.sheet)) + Cardinality(Malformed(import.sheet))
  <2>1. Cardinality(Valid(import.sheet) \intersect Malformed(import.sheet)) = 0
    BY <1>8, FS_EmptySet
  <2>2. Cardinality(Valid(import.sheet) \union Malformed(import.sheet))
          = Cardinality(Valid(import.sheet)) + Cardinality(Malformed(import.sheet))
              - Cardinality(Valid(import.sheet) \intersect Malformed(import.sheet))
    BY <1>9, FS_Union
  <2> QED
    BY <2>1, <2>2, <1>9
<1> QED
  BY <1>2, <1>4, <1>7, <1>10

LEMMA MovedOnType ==
    ASSUME NEW n \in ImportType, NEW r \in Nat
    PROVE  [n EXCEPT !.pc = "row", !.row = r, !.found = 0] \in ImportType
BY DEF ImportType

LEMMA ReportedType ==
    ASSUME NEW n \in ImportType, NEW m \in Nat
    PROVE  [n EXCEPT !.pc = "reported", !.failed = n.failed + m] \in ImportType
<1> DEFINE f == n.failed + m
<1>1. f \in Nat
  BY DEF ImportType
<1> HIDE DEF f
<1>2. [n EXCEPT !.pc = "reported", !.failed = f] \in ImportType
  BY <1>1 DEF ImportType
<1> QED
  BY <1>2 DEF f

\* A count of a set that grows by one grows by one.
LEMMA OneMore ==
    ASSUME NEW S, NEW x, IsFiniteSet(S), x \notin S, NEW m, m = Cardinality(S)
    PROVE  IsFiniteSet(S \union {x}) /\ m + 1 = Cardinality(S \union {x})
BY FS_AddElement

\* A row that is done keeps the counts true: the import moves behind Row, and
\* one of the five counts grows.
LEMMA RowIsCounted ==
    ASSUME DirectoryInv, RowsLeft # {},
           import.pc \in {"row", "create", "update"},
           NEW n \in ImportType,
           import' = NextRow(n),
           n.sheet = import.sheet, n.mode = import.mode,
           n.created + n.updated + n.skipped + n.failed = Counted + 1
    PROVE  /\ import' \in ImportType
           /\ import'.created = n.created /\ import'.updated = n.updated /\ import'.skipped = n.skipped
           /\ import'.mode = import.mode /\ import'.row = Row + 1
           /\ ImportIsWhere' /\ RowsCounted'
<1>1. Row \in Nat /\ Row + 1 \in Nat
  BY NextIsFirst
<1>2. import' = [n EXCEPT !.pc = "row", !.row = Row + 1, !.found = 0]
  BY DEF NextRow
<1>3. import' \in ImportType
  BY <1>1, <1>2, MovedOnType
<1>4. /\ import'.created = n.created /\ import'.updated = n.updated /\ import'.skipped = n.skipped
      /\ import'.failed = n.failed /\ import'.mode = n.mode /\ import'.row = Row + 1
      /\ import'.pc = "row" /\ import'.sheet = n.sheet
  BY <1>2 DEF ImportType
<1>5. ImportIsWhere'
  BY <1>4 DEF ImportIsWhere
<1>6. Done' = {row \in Valid(import.sheet) : row < Row + 1}
  BY <1>4 DEF Done, Valid
<1>7. Counted' = Counted + 1
  BY <1>4 DEF Counted
<1>8. Counted = Cardinality(Done)
  BY DEF DirectoryInv, RowsCounted
<1>9. RowsCounted'
  BY <1>4, <1>6, <1>7, <1>8, OneRowMore DEF RowsCounted
<1> QED
  BY <1>3, <1>4, <1>5, <1>9

\* What the buyer does leaves the import alone.
LEMMA OnlyTheTable ==
    ASSUME DirectoryInv, UNCHANGED <<import, effects>>,
           suppliers' \subseteq Supplier, issuedIds' \in Nat, issuedIds' >= issuedIds, OneAddressEach'
    PROVE  DirectoryInv'
<1>1. DirectoryTypes'
  BY DEF DirectoryInv, DirectoryTypes
<1>2. RowsLeft' = RowsLeft /\ Done' = Done /\ Counted' = Counted
  BY DEF RowsLeft, Done, Counted, Valid
<1>3. ImportIsWhere'
  BY <1>2 DEF DirectoryInv, ImportIsWhere
<1>4. RowsCounted'
  BY <1>2 DEF DirectoryInv, RowsCounted
<1>5. \A id \in effects.added : id \in Nat /\ id <= issuedIds
  BY DEF DirectoryInv, EffectsCounted, DirectoryTypes
<1>6. \A id \in effects'.added : id <= issuedIds'
  BY <1>5 DEF DirectoryInv, DirectoryTypes
<1>7. EffectsCounted'
  BY <1>6 DEF DirectoryInv, EffectsCounted
<1> QED
  BY <1>1, <1>3, <1>4, <1>7 DEF DirectoryInv

LEMMA InsertIsNew ==
    ASSUME DirectoryInv, NEW email \in Emails, NEW info \in {"buyer", "sheet"}, Insert(email, info)
    PROVE  /\ suppliers' \subseteq Supplier /\ OneAddressEach'
           /\ issuedIds \in Nat /\ issuedIds' = issuedIds + 1
<1>1. suppliers \subseteq Supplier /\ issuedIds \in Nat
  BY DEF DirectoryInv, DirectoryTypes
<1>2. [id |-> issuedIds + 1, email |-> email, info |-> info] \in Supplier
  BY <1>1 DEF Supplier
<1>3. \A s \in suppliers : s.email # email
  BY DEF Insert, ByEmail
<1>4. OneAddressEach'
  BY <1>3 DEF Insert, DirectoryInv, OneAddressEach
<1> QED
  BY <1>1, <1>2, <1>4 DEF Insert

LEMMA EmailIsOne == ASSUME DirectoryInv, RowsLeft # {} PROVE Email \in Emails
BY NextIsFirst DEF RowsLeft, Valid, Email

LEMMA SupplierEdited ==
    ASSUME DirectoryInv, NEW s \in suppliers, NEW r \in Supplier,
           \A t \in suppliers : t.email = r.email => t = s,
           suppliers' = (suppliers \ {s}) \union {r}
    PROVE  suppliers' \subseteq Supplier /\ OneAddressEach'
BY DEF DirectoryInv, DirectoryTypes, OneAddressEach

LEMMA DirectoryFinds == ASSUME DirectoryInv, FindRow PROVE DirectoryInv'
<1>1. import \in ImportType /\ import.pc = "row" /\ RowsLeft # {}
  BY DEF FindRow, DirectoryInv, DirectoryTypes
<1>2. Row \in Nat /\ import.row <= Row /\ import.row \in Nat
  BY <1>1, NextIsFirst DEF ImportType
<1>3. suppliers' = suppliers /\ issuedIds' = issuedIds
  BY DEF FindRow
<1>4. OneAddressEach'
  BY <1>3 DEF DirectoryInv, OneAddressEach
<1>5. ASSUME NEW pc \in {"create", "update"}, NEW found \in Nat,
             pc = "update" => import.mode = "update",
             import' = [import EXCEPT !.pc = pc, !.found = found], UNCHANGED effects
      PROVE  DirectoryInv'
  <2>1. import' \in ImportType
    BY <1>1, <1>5 DEF ImportType
  <2>2. /\ import'.pc = pc /\ import'.sheet = import.sheet /\ import'.mode = import.mode
        /\ import'.row = import.row /\ import'.created = import.created
        /\ import'.updated = import.updated /\ import'.skipped = import.skipped
        /\ import'.failed = import.failed
    BY <1>1, <1>5 DEF ImportType
  <2>3. RowsLeft' = RowsLeft /\ Done' = Done /\ Counted' = Counted
    BY <2>2 DEF RowsLeft, Done, Counted, Valid
  <2>4. DirectoryTypes'
    BY <2>1, <1>3, <1>5 DEF DirectoryInv, DirectoryTypes
  <2>5. ImportIsWhere'
    BY <2>2, <2>3, <1>1, <1>5 DEF ImportIsWhere
  <2>6. RowsCounted'
    BY <2>2, <2>3, <1>1 DEF DirectoryInv, RowsCounted
  <2>7. EffectsCounted'
    BY <2>2, <1>3, <1>5 DEF DirectoryInv, EffectsCounted
  <2> QED
    BY <2>4, <1>4, <2>5, <2>6, <2>7 DEF DirectoryInv
<1>6. CASE import' = [import EXCEPT !.pc = "create"] /\ UNCHANGED effects
  <2>1. import' = [import EXCEPT !.pc = "create", !.found = import.found] /\ import.found \in Nat
    BY <1>1, <1>6 DEF ImportType
  <2> QED
    BY <1>5, <1>6, <2>1
<1>7. ASSUME NEW s \in ByEmail(Email), Updates(import.mode),
             import' = [import EXCEPT !.pc = "update", !.found = s.id], UNCHANGED effects
      PROVE  DirectoryInv'
  <2>1. s.id \in Nat
    BY DEF ByEmail, DirectoryInv, DirectoryTypes, Supplier
  <2> QED
    BY <1>5, <1>7, <2>1 DEF Updates
<1>8. ASSUME NEW s \in ByEmail(Email),
             import' = NextRow([import EXCEPT !.skipped = import.skipped + 1]),
             effects' = [effects EXCEPT !.kept = effects.kept \union {<<Row, s>>}]
      PROVE  DirectoryInv'
  <2> DEFINE n == [import EXCEPT !.skipped = import.skipped + 1]
  <2>1. /\ n \in ImportType /\ n.created = import.created /\ n.updated = import.updated
        /\ n.skipped = import.skipped + 1 /\ n.failed = import.failed
        /\ n.sheet = import.sheet /\ n.mode = import.mode
    BY <1>1 DEF ImportType
  <2>2. n.created + n.updated + n.skipped + n.failed = Counted + 1
    BY SMTT(60), ZenonT(90), <1>1, <2>1 DEF ImportType, Counted
  <2>3. import' = NextRow(n)
    BY <1>8
  <2> HIDE DEF n
  <2>4. /\ import' \in ImportType
        /\ import'.created = n.created /\ import'.updated = n.updated /\ import'.skipped = n.skipped
        /\ import'.mode = import.mode /\ import'.row = Row + 1
        /\ ImportIsWhere' /\ RowsCounted'
    BY <1>1, <2>1, <2>2, <2>3, RowIsCounted
  <2>5. effects \in [added : SUBSET Nat, changed : SUBSET (Nat \X Nat), kept : SUBSET (Nat \X Supplier)]
    BY DEF DirectoryInv, DirectoryTypes
  <2>6. <<Row, s>> \in Nat \X Supplier
    BY <1>2, <1>8 DEF ByEmail, DirectoryInv, DirectoryTypes
  <2>7. /\ effects'.added = effects.added /\ effects'.changed = effects.changed
        /\ effects'.kept = effects.kept \union {<<Row, s>>}
    BY <1>8, <2>5
  <2>8. effects' \in [added : SUBSET Nat, changed : SUBSET (Nat \X Nat), kept : SUBSET (Nat \X Supplier)]
    BY <1>8, <2>5, <2>6
  <2>9. \A e \in effects.changed \union effects.kept : e[1] \in Nat /\ e[1] < import.row
    BY <2>5 DEF DirectoryInv, EffectsCounted
  <2>10. <<Row, s>> \notin effects.kept
    BY <2>9, <1>2
  <2>11. IsFiniteSet(effects'.kept) /\ import'.skipped = Cardinality(effects'.kept)
    BY SMTT(60), ZenonT(90), <2>1, <2>4, <2>7, <2>10, FS_AddElement DEF DirectoryInv, EffectsCounted
  <2>12. \A e \in effects'.changed \union effects'.kept : e[1] < import'.row
    <3>1. \A e \in effects.changed \union effects.kept : e[1] < Row + 1
      BY <2>9, <1>2
    <3>2. <<Row, s>>[1] < Row + 1
      BY <1>2
    <3> QED
      BY <3>1, <3>2, <2>4, <2>7
  <2>13. EffectsCounted'
    BY <2>1, <2>4, <2>7, <2>11, <2>12, <1>3 DEF DirectoryInv, EffectsCounted
  <2>14. DirectoryTypes'
    BY <2>4, <2>8, <1>3 DEF DirectoryInv, DirectoryTypes
  <2> QED
    BY <2>4, <2>13, <2>14, <1>4 DEF DirectoryInv
<1> QED
  BY <1>6, <1>7, <1>8 DEF FindRow

LEMMA DirectoryCreates == ASSUME DirectoryInv, CreateRow PROVE DirectoryInv'
<1>1. import \in ImportType /\ import.pc = "create"
  BY DEF CreateRow, DirectoryInv, DirectoryTypes
<1>2. RowsLeft # {}
  BY <1>1 DEF DirectoryInv, ImportIsWhere
<1>3. Row \in Nat /\ import.row <= Row /\ import.row \in Nat
  BY <1>1, <1>2, NextIsFirst DEF ImportType
<1>4. suppliers' \subseteq Supplier /\ OneAddressEach' /\ issuedIds \in Nat /\ issuedIds' = issuedIds + 1
  BY <1>2, EmailIsOne, InsertIsNew DEF CreateRow
<1> DEFINE n == [import EXCEPT !.created = import.created + 1]
<1>5. /\ n \in ImportType /\ n.created = import.created + 1 /\ n.updated = import.updated
      /\ n.skipped = import.skipped /\ n.failed = import.failed
      /\ n.sheet = import.sheet /\ n.mode = import.mode
  BY <1>1 DEF ImportType
<1>6. n.created + n.updated + n.skipped + n.failed = Counted + 1
  BY SMTT(60), ZenonT(90), <1>1, <1>5 DEF ImportType, Counted
<1>7. import' = NextRow(n)
  BY DEF CreateRow
<1> HIDE DEF n
<1>8. /\ import' \in ImportType
      /\ import'.created = n.created /\ import'.updated = n.updated /\ import'.skipped = n.skipped
      /\ import'.mode = import.mode /\ import'.row = Row + 1
      /\ ImportIsWhere' /\ RowsCounted'
  BY <1>1, <1>2, <1>5, <1>6, <1>7, RowIsCounted
<1>9. effects \in [added : SUBSET Nat, changed : SUBSET (Nat \X Nat), kept : SUBSET (Nat \X Supplier)]
  BY DEF DirectoryInv, DirectoryTypes
<1>10. effects' = [effects EXCEPT !.added = effects.added \union {issuedIds + 1}]
  BY DEF CreateRow
<1>11. /\ effects'.added = effects.added \union {issuedIds + 1} /\ effects'.changed = effects.changed
       /\ effects'.kept = effects.kept
       /\ effects' \in [added : SUBSET Nat, changed : SUBSET (Nat \X Nat), kept : SUBSET (Nat \X Supplier)]
  BY <1>4, <1>9, <1>10
<1>12. \A id \in effects.added : id \in Nat /\ id <= issuedIds
  BY <1>9 DEF DirectoryInv, EffectsCounted
<1>13. issuedIds + 1 \notin effects.added
  BY <1>4, <1>12
<1>14. IsFiniteSet(effects'.added) /\ import'.created = Cardinality(effects'.added)
  <2>1. IsFiniteSet(effects.added) /\ import.created = Cardinality(effects.added)
    BY DEF DirectoryInv, EffectsCounted
  <2> QED
    BY SMTT(60), ZenonT(90), <2>1, <1>5, <1>8, <1>11, <1>13, OneMore
<1>15. \A id \in effects'.added : id <= issuedIds'
  BY <1>4, <1>11, <1>12
<1>16. \A e \in effects.changed \union effects.kept : e[1] \in Nat /\ e[1] < Row + 1
  BY <1>3, <1>9 DEF DirectoryInv, EffectsCounted
<1>17. EffectsCounted'
  BY <1>5, <1>8, <1>11, <1>14, <1>15, <1>16 DEF DirectoryInv, EffectsCounted
<1>18. DirectoryTypes'
  BY <1>4, <1>8, <1>11 DEF DirectoryTypes
<1> QED
  BY <1>4, <1>8, <1>17, <1>18 DEF DirectoryInv

LEMMA DirectoryConflicts == ASSUME DirectoryInv, RowConflicts PROVE DirectoryInv'
<1>1. import \in ImportType /\ import.pc \in {"create", "update"}
  BY DEF RowConflicts, DirectoryInv, DirectoryTypes
<1>2. RowsLeft # {}
  BY <1>1 DEF DirectoryInv, ImportIsWhere
<1>3. Row \in Nat /\ import.row <= Row /\ import.row \in Nat
  BY <1>1, <1>2, NextIsFirst DEF ImportType
<1> DEFINE n == [import EXCEPT !.failed = import.failed + 1]
<1>5. /\ n \in ImportType /\ n.created = import.created /\ n.updated = import.updated
      /\ n.skipped = import.skipped /\ n.failed = import.failed + 1
      /\ n.sheet = import.sheet /\ n.mode = import.mode
  BY <1>1 DEF ImportType
<1>6. n.created + n.updated + n.skipped + n.failed = Counted + 1
  BY SMTT(60), ZenonT(90), <1>1, <1>5 DEF ImportType, Counted
<1>7. import' = NextRow(n)
  BY DEF RowConflicts
<1> HIDE DEF n
<1>8. /\ import' \in ImportType
      /\ import'.created = n.created /\ import'.updated = n.updated /\ import'.skipped = n.skipped
      /\ import'.mode = import.mode /\ import'.row = Row + 1
      /\ ImportIsWhere' /\ RowsCounted'
  BY <1>1, <1>2, <1>5, <1>6, <1>7, RowIsCounted
<1>9. effects \in [added : SUBSET Nat, changed : SUBSET (Nat \X Nat), kept : SUBSET (Nat \X Supplier)]
  BY DEF DirectoryInv, DirectoryTypes
<1>10. UNCHANGED <<suppliers, issuedIds, effects>>
  BY DEF RowConflicts
<1>11. \A e \in effects.changed \union effects.kept : e[1] \in Nat /\ e[1] < Row + 1
  BY <1>3, <1>9 DEF DirectoryInv, EffectsCounted
<1>12. EffectsCounted'
  BY <1>5, <1>8, <1>10, <1>11 DEF DirectoryInv, EffectsCounted
<1>13. DirectoryTypes' /\ OneAddressEach'
  BY <1>8, <1>10 DEF DirectoryInv, DirectoryTypes, OneAddressEach
<1> QED
  BY <1>8, <1>12, <1>13 DEF DirectoryInv

LEMMA DirectoryUpdates == ASSUME DirectoryInv, UpdateRow PROVE DirectoryInv'
<1>1. import \in ImportType /\ import.pc = "update" /\ import.mode = "update"
  BY DEF UpdateRow, DirectoryInv, DirectoryTypes, ImportIsWhere
<1>2. RowsLeft # {}
  BY <1>1 DEF DirectoryInv, ImportIsWhere
<1>3. Row \in Nat /\ import.row <= Row /\ import.row \in Nat
  BY <1>1, <1>2, NextIsFirst DEF ImportType
<1>4. PICK s \in suppliers :
        /\ suppliers' = (suppliers \ {s}) \union {[s EXCEPT !.info = "sheet"]}
        /\ effects' = [effects EXCEPT !.changed = effects.changed \union {<<Row, s.id>>}]
  BY DEF UpdateRow
<1>5. s \in Supplier /\ s.id \in Nat /\ issuedIds \in Nat /\ issuedIds' = issuedIds
  BY DEF UpdateRow, DirectoryInv, DirectoryTypes, Supplier
<1>6. [s EXCEPT !.info = "sheet"] \in Supplier /\ [s EXCEPT !.info = "sheet"].email = s.email
  BY <1>5 DEF Supplier
<1>7. suppliers' \subseteq Supplier /\ OneAddressEach'
  <2> DEFINE r == [s EXCEPT !.info = "sheet"]
  <2>1. r \in Supplier /\ r.email = s.email /\ suppliers' = (suppliers \ {s}) \union {r}
    BY <1>4, <1>6
  <2> HIDE DEF r
  <2>2. \A t \in suppliers : t.email = r.email => t = s
    BY <2>1 DEF DirectoryInv, OneAddressEach
  <2> QED
    BY <2>1, <2>2, SupplierEdited
<1> DEFINE n == [import EXCEPT !.updated = import.updated + 1]
<1>8. /\ n \in ImportType /\ n.created = import.created /\ n.updated = import.updated + 1
      /\ n.skipped = import.skipped /\ n.failed = import.failed
      /\ n.sheet = import.sheet /\ n.mode = import.mode
  BY <1>1 DEF ImportType
<1>9. n.created + n.updated + n.skipped + n.failed = Counted + 1
  BY SMTT(60), ZenonT(90), <1>1, <1>8 DEF ImportType, Counted
<1>10. import' = NextRow(n)
  BY DEF UpdateRow
<1> HIDE DEF n
<1>11. /\ import' \in ImportType
       /\ import'.created = n.created /\ import'.updated = n.updated /\ import'.skipped = n.skipped
       /\ import'.mode = import.mode /\ import'.row = Row + 1
       /\ ImportIsWhere' /\ RowsCounted'
  BY <1>1, <1>2, <1>8, <1>9, <1>10, RowIsCounted
<1>12. effects \in [added : SUBSET Nat, changed : SUBSET (Nat \X Nat), kept : SUBSET (Nat \X Supplier)]
  BY DEF DirectoryInv, DirectoryTypes
<1>13. /\ effects'.changed = effects.changed \union {<<Row, s.id>>} /\ effects'.added = effects.added
       /\ effects'.kept = effects.kept
       /\ effects' \in [added : SUBSET Nat, changed : SUBSET (Nat \X Nat), kept : SUBSET (Nat \X Supplier)]
  BY <1>3, <1>4, <1>5, <1>12
<1>14. \A e \in effects.changed \union effects.kept : e[1] \in Nat /\ e[1] < import.row
  BY <1>12 DEF DirectoryInv, EffectsCounted
<1>15. <<Row, s.id>> \notin effects.changed
  BY <1>3, <1>14
<1>16. IsFiniteSet(effects'.changed) /\ import'.updated = Cardinality(effects'.changed)
  <2>1. IsFiniteSet(effects.changed) /\ import.updated = Cardinality(effects.changed)
    BY DEF DirectoryInv, EffectsCounted
  <2> QED
    BY SMTT(60), ZenonT(90), <2>1, <1>8, <1>11, <1>13, <1>15, OneMore
<1>17. \A e \in effects'.changed \union effects'.kept : e[1] < import'.row
  <2>1. \A e \in effects.changed \union effects.kept : e[1] < Row + 1
    BY <1>3, <1>14
  <2>2. <<Row, s.id>>[1] < Row + 1
    BY <1>3
  <2> QED
    BY <2>1, <2>2, <1>11, <1>13
<1>18. EffectsCounted'
  BY <1>1, <1>5, <1>8, <1>11, <1>13, <1>16, <1>17 DEF DirectoryInv, EffectsCounted
<1>19. DirectoryTypes'
  BY <1>5, <1>7, <1>11, <1>13 DEF DirectoryTypes
<1> QED
  BY <1>7, <1>11, <1>18, <1>19 DEF DirectoryInv

LEMMA DirectoryReports == ASSUME DirectoryInv, Report PROVE DirectoryInv'
<1>1. import \in ImportType /\ import.pc = "row" /\ RowsLeft = {}
  BY DEF Report, DirectoryInv, DirectoryTypes
<1> DEFINE m == Cardinality(Malformed(import.sheet))
<1>2. m \in Nat
  BY SheetIsFinite DEF Malformed
<1>3. import' = [import EXCEPT !.pc = "reported", !.failed = import.failed + m]
  BY DEF Report
<1>4. UNCHANGED <<suppliers, issuedIds, effects>>
  BY DEF Report
<1> HIDE DEF m
<1>5. import' \in ImportType
  BY <1>1, <1>2, <1>3, ReportedType
<1>6. /\ import'.pc = "reported" /\ import'.sheet = import.sheet /\ import'.mode = import.mode
      /\ import'.row = import.row /\ import'.created = import.created
      /\ import'.updated = import.updated /\ import'.skipped = import.skipped
      /\ import'.failed = import.failed + m
  BY <1>1, <1>3 DEF ImportType
<1>7. RowsLeft' = RowsLeft /\ Done' = Done /\ Malformed(import'.sheet) = Malformed(import.sheet)
  BY <1>6 DEF RowsLeft, Done, Valid
<1>8. Counted' = Counted + m
  BY <1>1, <1>2, <1>6 DEF Counted, ImportType
<1>9. ImportIsWhere'
  BY <1>1, <1>6, <1>7 DEF ImportIsWhere
<1>10. RowsCounted'
  BY <1>1, <1>6, <1>7, <1>8 DEF DirectoryInv, RowsCounted, m
<1>11. EffectsCounted'
  BY <1>4, <1>6 DEF DirectoryInv, EffectsCounted
<1> QED
  BY <1>4, <1>5, <1>9, <1>10, <1>11 DEF DirectoryInv, DirectoryTypes, OneAddressEach

LEMMA DirectoryNextInv == DirectoryInv /\ [DirectoryNext]_directoryVars => DirectoryInv'
<1> SUFFICES ASSUME DirectoryInv, [DirectoryNext]_directoryVars PROVE DirectoryInv'
  OBVIOUS
<1>t. import \in ImportType /\ suppliers \subseteq Supplier /\ issuedIds \in Nat
  BY DEF DirectoryInv, DirectoryTypes
<1>1. CASE AddSupplier
  <2>1. PICK email \in Emails : Insert(email, "buyer")
    BY <1>1 DEF AddSupplier
  <2>2. suppliers' \subseteq Supplier /\ OneAddressEach' /\ issuedIds' = issuedIds + 1
    BY <2>1, InsertIsNew
  <2> QED
    BY <1>1, <1>t, <2>2, OnlyTheTable DEF AddSupplier
<1>2. CASE EditSupplier
  <2>1. PICK s \in suppliers, email \in Emails :
          /\ ByEmail(email) \subseteq {s}
          /\ suppliers' = (suppliers \ {s}) \union {[s EXCEPT !.email = email, !.info = "buyer"]}
    BY <1>2 DEF EditSupplier
  <2> DEFINE r == [s EXCEPT !.email = email, !.info = "buyer"]
  <2>2. r \in Supplier /\ r.email = email
    BY <1>t DEF Supplier
  <2>3. \A t \in suppliers : t.email = r.email => t = s
    BY <2>1, <2>2 DEF ByEmail
  <2>4. suppliers' = (suppliers \ {s}) \union {r}
    BY <2>1
  <2> HIDE DEF r
  <2>5. suppliers' \subseteq Supplier /\ OneAddressEach'
    BY <2>2, <2>3, <2>4, SupplierEdited
  <2> QED
    BY <1>2, <1>t, <2>5, OnlyTheTable DEF EditSupplier
<1>3. CASE RemoveSupplier
  <2>1. suppliers' \subseteq suppliers
    BY <1>3 DEF RemoveSupplier
  <2>2. suppliers' \subseteq Supplier /\ OneAddressEach'
    BY <2>1, <1>t DEF DirectoryInv, OneAddressEach
  <2> QED
    BY <1>3, <1>t, <2>2, OnlyTheTable DEF RemoveSupplier
<1>4. CASE StartImport
  <2>1. PICK sheet \in Sheets, mode \in {"skip", "update"} :
          import' = [NoImport EXCEPT !.pc = "row", !.sheet = sheet, !.mode = mode]
    BY <1>4 DEF StartImport
  <2>2. sheet \in Seq(SheetRows)
    BY DirectoryConstants
  <2>3. import = NoImport /\ UNCHANGED <<suppliers, issuedIds, effects>>
    BY <1>4 DEF StartImport, DirectoryInv, ImportIsWhere
  <2>4. /\ import'.pc = "row" /\ import'.sheet = sheet /\ import'.mode = mode
        /\ import'.row = 1 /\ import'.created = 0 /\ import'.updated = 0 /\ import'.skipped = 0
        /\ import'.failed = 0 /\ import' \in ImportType
    BY <2>1, <2>2 DEF NoImport, ImportType
  <2>5. Done' = {}
    <3>1. \A row \in DOMAIN sheet : row \in Nat /\ ~ row < 1
      BY <2>2
    <3> QED
      BY <2>4, <3>1 DEF Done, Valid
  <2>6. RowsCounted' /\ ImportIsWhere'
    BY <2>4, <2>5, FS_EmptySet DEF RowsCounted, ImportIsWhere, Counted
  <2>7. import.created = 0 /\ import.updated = 0 /\ import.skipped = 0 /\ import.row = 1 /\ import.mode = "skip"
    BY <2>3 DEF NoImport
  <2>8. EffectsCounted'
    BY <2>3, <2>4, <2>7 DEF DirectoryInv, EffectsCounted
  <2> QED
    BY <2>3, <2>4, <2>6, <2>8 DEF DirectoryInv, DirectoryTypes, OneAddressEach
<1>5. CASE FindRow
  BY <1>5, DirectoryFinds
<1>6. CASE CreateRow
  BY <1>6, DirectoryCreates
<1>7. CASE RowConflicts
  BY <1>7, DirectoryConflicts
<1>8. CASE UpdateRow
  BY <1>8, DirectoryUpdates
<1>9. CASE ImportBreaks
  <2>1. import' = [import EXCEPT !.pc = "broken"] /\ UNCHANGED <<suppliers, issuedIds, effects>>
    BY <1>9 DEF ImportBreaks
  <2>2. /\ import'.pc = "broken" /\ import'.mode = import.mode
        /\ import'.row = import.row /\ import'.created = import.created
        /\ import'.updated = import.updated /\ import'.skipped = import.skipped /\ import' \in ImportType
    BY <1>t, <2>1 DEF ImportType
  <2>3. ImportIsWhere' /\ RowsCounted'
    BY <2>2 DEF ImportIsWhere, RowsCounted
  <2>4. EffectsCounted'
    BY <2>1, <2>2 DEF DirectoryInv, EffectsCounted
  <2> QED
    BY <2>1, <2>2, <2>3, <2>4 DEF DirectoryInv, DirectoryTypes, OneAddressEach
<1>10. CASE Report
  BY <1>10, DirectoryReports
<1>11. CASE UNCHANGED directoryVars
  <2>1. RowsLeft' = RowsLeft /\ Done' = Done /\ Counted' = Counted
    BY <1>11 DEF directoryVars, RowsLeft, Done, Counted, Valid
  <2> QED
    BY <1>11, <1>t, OnlyTheTable DEF directoryVars, DirectoryInv, OneAddressEach
<1> QED
  BY <1>1, <1>2, <1>3, <1>4, <1>5, <1>6, <1>7, <1>8, <1>9, <1>10, <1>11 DEF DirectoryNext

(***************************************************************************)
(* An import that ends with a report has reported what it did, whatever    *)
(* the buyer does to the directory between any two of its rows, for any    *)
(* sheets and addresses: every row that is not blank counts once, what it  *)
(* says it added, changed and skipped is what it added, changed and kept,  *)
(* and no address belongs to two suppliers (SupplierService.import_many).  *)
(***************************************************************************)
THEOREM ReportsAreTrue == DirectorySpec => []ReportIsTrue
<1>1. DirectoryInv => ReportIsTrue
  BY ReportInside
<1> QED
  BY InitialDirectory, DirectoryNextInv, <1>1, PTL DEF DirectorySpec
=============================================================================
