---------------------------- MODULE Policy_proofs ----------------------------
(***************************************************************************)
(* Proofs that the follow-up policy stops, makes the last call and agrees  *)
(* with the dashboard, for every clock, allowance and list of intervals.   *)
(***************************************************************************)
EXTENDS MCFollowUpPolicy, SequenceTheorems, FiniteSetTheorems, TLAPS

(***************************************************************************)
(* What a conversation keeps its shape by.                                 *)
(***************************************************************************)
Shape ==
    /\ now \in Int
    /\ snap \in [status : {"pending", "incomplete", "submitted"},
                 deadline : {None} \union Nat, blocked : BOOLEAN,
                 completeness : {"none", "incomplete", "complete"},
                 missing : BOOLEAN, asked : Nat, highRisk : BOOLEAN,
                 reminders : Nat, lastSent : {None} \union Nat,
                 expires : Nat]

LEMMA ShapeInit == Init => Shape
  BY ClockAssumption DEF Init, Shape

\* What a decision that is acted on counts, and what it does not touch.
LEMMA ChaseCounts ==
  ASSUME Shape, Chase
  PROVE  /\ now' = now
         /\ \/ /\ Decision.action = "remind"
               /\ snap' = [snap EXCEPT !.reminders = snap.reminders + 1]
               /\ snap.reminders < Allowance(snap)
            \/ /\ snap' = [snap EXCEPT !.asked = snap.asked + 1]
               /\ snap.asked < MaxIncomplete
  <1>1. CASE Decision = Skip \/ Decision = Escalate
    BY <1>1 DEF Chase, IsActionable, Skip, Escalate
  <1>2. CASE HasIncompleteQuote(snap) /\ Decision = DecideIncomplete(snap)
    <2>1. CASE snap.missing /\ snap.asked < MaxIncomplete
      <3>1. Decision.action = "request_missing_fields"
        BY <1>2, <2>1 DEF DecideIncomplete, Ask
      <3> QED BY <3>1, <2>1 DEF Chase
    <2>2. CASE ~(snap.missing /\ snap.asked < MaxIncomplete)
      BY <1>2, <2>2, <1>1 DEF DecideIncomplete
    <2> QED BY <2>1, <2>2
  <1>3. CASE Decision = DecideOpen(snap, now)
    <2>1. CASE MayRemind(snap, now)
      <3>1. Decision.action = "remind"
        BY <1>3, <2>1 DEF DecideOpen, Reminder
      <3> QED BY <3>1, <2>1 DEF Chase, MayRemind
    <2>2. CASE ~MayRemind(snap, now)
      BY <1>3, <2>2, <1>1 DEF DecideOpen
    <2> QED BY <2>1, <2>2
  <1> QED BY <1>1, <1>2, <1>3 DEF Decision, Decide

LEMMA ShapeNext == Shape /\ [Next]_vars => Shape'
  <1> SUFFICES ASSUME Shape, [Next]_vars PROVE Shape'
    OBVIOUS
  <1>1. CASE Tick
    BY <1>1 DEF Tick, Shape
  <1>2. CASE Chase
    BY <1>2, ChaseCounts DEF Shape
  <1>3. CASE UNCHANGED vars
    BY <1>3 DEF vars, Shape
  <1> QED BY <1>1, <1>2, <1>3 DEF Next

LEMMA AlwaysShape == Spec => []Shape
  BY ShapeInit, ShapeNext, PTL DEF Spec

-----------------------------------------------------------------------------
LEMMA AllowanceIsNat ==
  ASSUME NEW s PROVE Allowance(s) \in Nat /\ Allowance(s) >= MaxFollowups
  BY PolicyAssumption DEF Allowance, HighRiskBonus

(***************************************************************************)
(* Chasing stops: however late or often the sweeps come, decide never lets *)
(* a reminder or a request for missing fields exceed its allowance. (The   *)
(* conversations begin with up to one reminder sent.)                      *)
(***************************************************************************)
THEOREM ChasingStops ==
  ASSUME MaxFollowups >= 1
  PROVE  Spec => []ChaseBounded
  <1>1. Init => ChaseBounded
    <2> SUFFICES ASSUME Init PROVE ChaseBounded
      OBVIOUS
    <2>1. snap.reminders \in 0 .. 1 /\ snap.asked = 0
      BY DEF Init
    <2> QED BY <2>1, AllowanceIsNat, PolicyAssumption DEF ChaseBounded
  <1>2. Shape /\ ChaseBounded /\ [Next]_vars => ChaseBounded'
    <2> SUFFICES ASSUME Shape, ChaseBounded, [Next]_vars PROVE ChaseBounded'
      OBVIOUS
    <2>1. CASE Tick
      BY <2>1 DEF Tick, ChaseBounded, Allowance
    <2>2. CASE Chase
      <3>1. snap.reminders \in Nat /\ snap.asked \in Nat /\ Allowance(snap) \in Nat /\ MaxIncomplete \in Nat
        BY AllowanceIsNat, PolicyAssumption DEF Shape
      <3>2. snap'.highRisk = snap.highRisk
        BY <2>2, ChaseCounts DEF Shape
      <3>3. Allowance(snap)' = Allowance(snap)
        BY <3>2 DEF Allowance
      <3>4. \/ snap'.reminders = snap.reminders + 1 /\ snap'.asked = snap.asked /\ snap.reminders < Allowance(snap)
            \/ snap'.reminders = snap.reminders /\ snap'.asked = snap.asked + 1 /\ snap.asked < MaxIncomplete
        BY <2>2, ChaseCounts DEF Shape
      <3> QED BY <3>1, <3>3, <3>4 DEF ChaseBounded
    <2>3. CASE UNCHANGED vars
      BY <2>3 DEF vars, ChaseBounded, Allowance
    <2> QED BY <2>1, <2>2, <2>3 DEF Next
  <1> QED BY <1>1, <1>2, AlwaysShape, PTL DEF Spec

-----------------------------------------------------------------------------
\* A silent supplier's fate is decided by the reminder rules alone.
LEMMA SilentIsOpen ==
  ASSUME Silent PROVE Decision = DecideOpen(snap, now)
  BY DEF Silent, Decision, Decide, TerminalStatuses, HasIncompleteQuote

LEMMA OpenActs ==
  ASSUME NEW s, NEW t PROVE IsActionable(DecideOpen(s, t)) <=> MayRemind(s, t)
  BY DEF IsActionable, DecideOpen, Reminder, Skip

(***************************************************************************)
(* The last call is made, whatever the intervals say: once the deadline is *)
(* within reach, a silent supplier with an allowance left is due.          *)
(***************************************************************************)
THEOREM LastCallMade == Spec => []LastCall
  <1>1. Shape => LastCall
    <2> SUFFICES ASSUME Shape, Silent, snap.deadline # None,
                        now >= snap.deadline - BeforeDeadline,
                        snap.reminders < Allowance(snap)
                 PROVE  IsActionable(Decision)
      BY DEF LastCall
    <2>1. now \in Int /\ snap.deadline \in Nat /\ BeforeDeadline \in Nat
      BY PolicyAssumption DEF Shape
    <2>2. DeadlineSoon(snap, now)
      BY <2>1 DEF DeadlineSoon
    <2>3. MayRemind(snap, now)
      BY <2>2 DEF MayRemind, Silent
    <2> QED BY <2>3, SilentIsOpen, OpenActs
  <1> QED BY <1>1, AlwaysShape, PTL

-----------------------------------------------------------------------------
(* Sorting: every place is taken, and by one interval.                     *)

Before(i, j) == Intervals[i] < Intervals[j] \/ (Intervals[i] = Intervals[j] /\ i <= j)

LEMMA PlacesOrder ==
  /\ \A i \in DOMAIN Intervals : SortedPlace(i) \in DOMAIN Intervals
  /\ \A i, j \in DOMAIN Intervals : Before(i, j) /\ i # j => SortedPlace(i) < SortedPlace(j)
  <1> DEFINE N == Len(Intervals)
             Upto(i) == {j \in 1 .. N : Before(j, i)}
  <1>1. N \in Nat /\ DOMAIN Intervals = 1 .. N /\ \A i \in 1 .. N : Intervals[i] \in Nat
    BY PolicyAssumption
  <1>2. \A i : SortedPlace(i) = Cardinality(Upto(i))
    BY <1>1 DEF SortedPlace, Before
  <1>3. IsFiniteSet(1 .. N) /\ Cardinality(1 .. N) = N
    BY <1>1, FS_Interval
  <1>4. \A i : IsFiniteSet(Upto(i)) /\ Cardinality(Upto(i)) \in Nat /\ Cardinality(Upto(i)) <= N
    BY <1>3, FS_Subset, FS_CardinalityType
  <1>5. ASSUME NEW i \in 1 .. N PROVE Cardinality(Upto(i)) >= 1
    <2>1. i \in Upto(i)
      BY <1>1 DEF Before
    <2>2. Upto(i) # {} /\ IsFiniteSet(Upto(i)) /\ Cardinality(Upto(i)) \in Nat
      BY <1>4, <2>1
    <2> HIDE DEF Upto
    <2>3. Cardinality(Upto(i)) # 0
      BY <2>2, FS_EmptySet
    <2> QED BY <2>2, <2>3
  <1>6. ASSUME NEW i \in 1 .. N, NEW j \in 1 .. N, Before(i, j), i # j
        PROVE  Cardinality(Upto(i)) < Cardinality(Upto(j))
    <2>1. Upto(i) \subseteq Upto(j)
      BY <1>1, <1>6 DEF Before
    <2>2. j \in Upto(j) /\ j \notin Upto(i)
      BY <1>1, <1>6 DEF Before
    <2> HIDE DEF Upto
    <2>3. Cardinality(Upto(i)) <= Cardinality(Upto(j)) /\ Cardinality(Upto(i)) # Cardinality(Upto(j))
      BY <1>4, <2>1, <2>2, FS_Subset
    <2> QED BY <1>4, <2>3
  <1> HIDE DEF Upto, N
  <1> QED BY <1>1, <1>2, <1>4, <1>5, <1>6

LEMMA EveryPlaceTaken ==
  ASSUME NEW n \in DOMAIN Intervals
  PROVE  \E i \in DOMAIN Intervals : SortedPlace(i) = n
  <1> DEFINE S == DOMAIN Intervals
             f == [i \in S |-> SortedPlace(i)]
  <1>1. Len(Intervals) \in Nat /\ S = 1 .. Len(Intervals) /\ \A i \in S : Intervals[i] \in Nat
    BY PolicyAssumption
  <1>2. f \in [S -> S]
    BY PlacesOrder
  <1>3. ASSUME NEW i \in S, NEW j \in S, f[i] = f[j] PROVE i = j
    <2>1. Before(i, j) \/ Before(j, i)
      BY <1>1 DEF Before
    <2>2. SortedPlace(i) \in Int /\ SortedPlace(j) \in Int
      BY <1>1, PlacesOrder
    <2> QED BY <1>3, <2>1, <2>2, PlacesOrder
  <1>4. f \in Injection(S, S)
    BY <1>2, <1>3 DEF Injection, IsInjective
  <1>5. IsFiniteSet(S)
    BY <1>1, FS_Interval
  <1>6. f \in Surjection(S, S)
    BY <1>4, <1>5, FS_Injection
  <1> QED BY <1>6 DEF Surjection

(***************************************************************************)
(* The intervals as decide uses them are the configured ones, shortest     *)
(* first, whatever their order and however often one is repeated, and      *)
(* never none (sorted(intervals_hours) or [72]).                           *)
(***************************************************************************)
THEOREM IntervalsAreSorted ==
  /\ Thresholds \in Seq(Nat) \ {<<>>}
  /\ \A m, n \in DOMAIN Thresholds : m <= n => Thresholds[m] <= Thresholds[n]
  /\ Intervals # <<>> => /\ Len(Thresholds) = Len(Intervals)
                        /\ \A i \in DOMAIN Intervals : \E n \in DOMAIN Thresholds : Thresholds[n] = Intervals[i]
  <1>1. CASE Intervals = <<>>
    <2>1. Thresholds = <<DefaultInterval>> /\ DefaultInterval \in Nat
      BY <1>1 DEF Thresholds, DefaultInterval
    <2> QED BY <1>1, <2>1
  <1>2. CASE Intervals # <<>>
    <2> DEFINE S == DOMAIN Intervals
               at(n) == CHOOSE i \in S : SortedPlace(i) = n
    <2>1. Len(Intervals) \in Nat /\ S = 1 .. Len(Intervals) /\ \A i \in S : Intervals[i] \in Nat
      BY PolicyAssumption
    <2>2. Len(Intervals) > 0
      BY <1>2, PolicyAssumption, EmptySeq
    <2>3. \A n \in S : at(n) \in S /\ SortedPlace(at(n)) = n
      BY EveryPlaceTaken
    <2>4. Thresholds = [n \in S |-> Intervals[at(n)]]
      BY <1>2 DEF Thresholds
    <2> HIDE DEF at
    <2>5. Thresholds \in [1 .. Len(Intervals) -> Nat]
      BY <2>1, <2>3, <2>4
    <2>6. Thresholds \in Seq(Nat) /\ Len(Thresholds) = Len(Intervals)
      BY <2>1, <2>5, SeqDef, LenProperties
    <2>7. ASSUME NEW m \in S, NEW n \in S, m <= n PROVE Thresholds[m] <= Thresholds[n]
      <3>1. /\ at(m) \in S /\ at(n) \in S /\ Intervals[at(m)] \in Nat /\ Intervals[at(n)] \in Nat
            /\ SortedPlace(at(m)) = m /\ SortedPlace(at(n)) = n /\ m \in Int /\ n \in Int
        BY <2>1, <2>3
      <3>2. ~(Intervals[at(n)] < Intervals[at(m)])
        <4> SUFFICES ASSUME Intervals[at(n)] < Intervals[at(m)] PROVE FALSE
          OBVIOUS
        <4>1. Before(at(n), at(m)) /\ at(n) # at(m)
          BY <3>1 DEF Before
        <4>2. SortedPlace(at(n)) < SortedPlace(at(m))
          BY <3>1, <4>1, PlacesOrder
        <4> QED BY <2>7, <3>1, <4>2
      <3> QED BY <2>4, <3>1, <3>2
    <2>8. ASSUME NEW i \in S PROVE \E n \in S : Thresholds[n] = Intervals[i]
      <3>1. SortedPlace(i) \in S
        BY PlacesOrder
      <3>2. at(SortedPlace(i)) = i
        <4> DEFINE k == at(SortedPlace(i))
        <4>1. k \in S /\ SortedPlace(k) = SortedPlace(i)
          BY <2>3, <3>1
        <4>2. Before(i, k) \/ Before(k, i)
          BY <2>1, <4>1 DEF Before
        <4>3. SortedPlace(i) \in Int
          BY <2>1, <3>1
        <4> HIDE DEF k
        <4>4. k = i
          BY <4>1, <4>2, <4>3, PlacesOrder
        <4> QED BY <4>4 DEF k
      <3> QED BY <2>4, <3>1, <3>2
    <2>9. Thresholds # <<>>
      BY <2>2, <2>6, EmptySeq
    <2>10. DOMAIN Thresholds = S
      BY <2>4
    <2> QED BY <2>6, <2>7, <2>8, <2>9, <2>10
  <1> QED BY <1>1, <1>2

(***************************************************************************)
(* The dashboard's index, which counts from 0, and the policy's sequence,  *)
(* which counts from 1, name the same interval of any list of them, so the *)
(* announced instant is the one from which the policy reminds.             *)
(***************************************************************************)
THEOREM DashboardTellsTheTruth == Spec => []DashboardAgrees
  <1>1. Shape => DashboardAgrees
    <2> SUFFICES ASSUME Shape, Silent, snap.deadline = None, ~snap.highRisk
                 PROVE  LET due == NextReminderDueAt(snap)
                        IN  IsActionable(Decision) <=> (due # None /\ now >= due)
      BY DEF DashboardAgrees
    <2> DEFINE r == snap.reminders
               index == IF r < Len(Thresholds) - 1 THEN r ELSE Len(Thresholds) - 1
    <2>1. IsActionable(Decision) <=> MayRemind(snap, now)
      BY SilentIsOpen, OpenActs
    <2>2. Allowance(snap) = MaxFollowups
      BY PolicyAssumption DEF Allowance
    <2>3. r \in Nat /\ Len(Thresholds) \in Nat /\ MaxFollowups \in Nat
          /\ now \in Int /\ snap.lastSent \in Nat
      BY PolicyAssumption DEF Shape, Silent
    <2>4. NextSequence(snap) = index + 1
      BY <2>3 DEF NextSequence
    <2>5. MayRemind(snap, now) <=> (r < MaxFollowups /\ now - snap.lastSent >= Thresholds[index + 1])
      BY <2>2, <2>4 DEF MayRemind, Silent, Elapsed, DeadlineSoon
    <2>6. NextReminderDueAt(snap)
          = IF r >= MaxFollowups THEN None ELSE snap.lastSent + Thresholds[index + 1]
      BY DEF NextReminderDueAt, Silent, TerminalStatuses
    <2>7. CASE r >= MaxFollowups
      BY <2>1, <2>3, <2>5, <2>6, <2>7
    <2>8. CASE r < MaxFollowups
      <3>1. Len(Thresholds) >= 1
        BY IntervalsAreSorted, EmptySeq, <2>3
      <3>2. index + 1 \in 1 .. Len(Thresholds)
        BY <2>3, <3>1
      <3>3. Thresholds[index + 1] \in Nat
        BY <3>2, IntervalsAreSorted, ElementOfSeq
      <3>4. snap.lastSent + Thresholds[index + 1] \in Nat
        BY <2>3, <3>3
      <3>5. NextReminderDueAt(snap) = snap.lastSent + Thresholds[index + 1]
        BY <2>3, <2>6, <2>8
      <3>6. NextReminderDueAt(snap) # None
        BY <3>4, <3>5, PolicyAssumption
      <3>7. (now - snap.lastSent >= Thresholds[index + 1]) <=> (now >= snap.lastSent + Thresholds[index + 1])
        BY <2>3, <3>3
      <3> HIDE DEF index
      <3> QED BY <2>1, <2>5, <2>8, <3>5, <3>6, <3>7
    <2> QED BY <2>3, <2>7, <2>8
  <1> QED BY <1>1, AlwaysShape, PTL

(***************************************************************************)
(* A message that is due stays due while nobody sends it, however late the *)
(* sweep comes: only the deadline and the link's expiry end it.            *)
(***************************************************************************)
THEOREM LateSweepsLoseNothing == Spec => DueStaysDue
  <1> DEFINE Stays == (snap' = snap /\ IsActionable(Decision))
                      => \/ IsActionable(Decision')
                         \/ now' >= snap.expires
                         \/ PastDeadline(snap, now')
  <1>1. Shape /\ [Next]_vars => [Stays]_vars
    <2> SUFFICES ASSUME Shape, Next, snap' = snap, IsActionable(Decision),
                        ~(now' >= snap.expires), ~PastDeadline(snap, now')
                 PROVE  IsActionable(Decision')
      BY DEF vars
    <2>1. CASE Chase
      <3>1. now' = now
        BY <2>1, ChaseCounts
      <3> QED BY <3>1 DEF Decision
    <2>2. CASE Tick
      <3>1. now \in Int /\ now' = now + 1 /\ now' < snap.expires /\ snap.expires \in Nat
        BY <2>2 DEF Tick, Shape
      <3>2. Decision' = Decide(snap, now')
        BY DEF Decision
      <3>3. CASE Decision = DecideOpen(snap, now)
                 /\ Decision' = DecideOpen(snap, now')
        <4>1. MayRemind(snap, now)
          BY <3>3, OpenActs
        <4>2. snap.lastSent \in Nat /\ snap.reminders \in Nat
          BY <4>1 DEF MayRemind, Shape
        <4>3. CASE Elapsed(snap, now)
          <5>1. NextSequence(snap) \in 1 .. Len(Thresholds)
            BY <4>2, IntervalsAreSorted, EmptySeq DEF NextSequence
          <5>2. Thresholds[NextSequence(snap)] \in Nat
            BY <5>1, IntervalsAreSorted, ElementOfSeq
          <5>3. Elapsed(snap, now')
            BY <3>1, <4>2, <4>3, <5>2 DEF Elapsed
          <5>4. MayRemind(snap, now')
            BY <3>1, <4>1, <5>3 DEF MayRemind
          <5> QED BY <3>3, <5>4, OpenActs
        <4>4. CASE DeadlineSoon(snap, now)
          <5>1. snap.deadline \in Nat /\ BeforeDeadline \in Nat
            BY <4>4, PolicyAssumption DEF DeadlineSoon, Shape
          <5>2. DeadlineSoon(snap, now')
            BY <3>1, <4>4, <5>1 DEF DeadlineSoon
          <5>3. MayRemind(snap, now')
            BY <3>1, <4>1, <5>2 DEF MayRemind
          <5> QED BY <3>3, <5>3, OpenActs
        <4> QED BY <4>1, <4>3, <4>4 DEF MayRemind
      <3>4. CASE Decision = DecideIncomplete(snap) /\ Decision' = DecideIncomplete(snap)
        BY <3>4
      <3>5. ~PastDeadline(snap, now)
        BY <3>1, PolicyAssumption DEF PastDeadline, Shape
      <3>6. Decision # Skip /\ Decision # Escalate
        BY DEF IsActionable, Skip, Escalate
      <3> QED BY <3>2, <3>3, <3>4, <3>5, <3>6 DEF Decision, Decide
    <2> QED BY <2>1, <2>2 DEF Next
  <1> QED BY <1>1, AlwaysShape, PTL DEF Spec, DueStaysDue
=============================================================================
