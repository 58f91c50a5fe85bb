----------------------------- MODULE AwardLedger -----------------------------
(***************************************************************************)
(* What the award component promises, without its database: the status of  *)
(* an RFQ and the record of decisions change only when a request of the    *)
(* buyer is carried out, each request is carried out at most once, and a   *)
(* recorded decision stays recorded. Everything else the component does    *)
(* (scoring, writing figures back, importing, deleting a quote) is a       *)
(* stuttering step here.                                                   *)
(***************************************************************************)
EXTENDS Sequences

CONSTANTS
    Clerks,       \* the requests the buyer can have in flight
    Statuses,     \* the statuses of an RFQ
    Decisions,    \* the decisions of an approval
    Nothing       \* no intention

VARIABLES
    status,       \* the status of the RFQ
    decisions,    \* the recorded decisions, oldest first
    intention     \* what each request in flight asks for

ledger == <<status, decisions, intention>>

Decide(d)    == [ask |-> "decide", what |-> d]
SetStatus(s) == [ask |-> "status", what |-> s]

Intentions == {Decide(d) : d \in Decisions} \union {SetStatus(s) : s \in Statuses}

\* The status a decision asks for.
Outcome(d, s) == IF d = "approved" THEN "awarded" ELSE IF d = "rejected" THEN "open" ELSE s

Init ==
    /\ status = "open"
    /\ decisions = <<>>
    /\ intention = [b \in Clerks |-> Nothing]

Intend(b) ==
    /\ intention[b] = Nothing
    /\ \E i \in Intentions : intention' = [intention EXCEPT ![b] = i]
    /\ UNCHANGED <<status, decisions>>

(* The status may stay what it is: a request that believes the RFQ has the  *)
(* status it asks for writes nothing.                                      *)
CarryOut(b) ==
    /\ intention[b] # Nothing
    /\ intention' = [intention EXCEPT ![b] = Nothing]
    /\ \/ \E d \in Decisions :
            /\ intention[b] = Decide(d)
            /\ decisions' = Append(decisions, d)
            /\ status' \in {status, Outcome(d, status)}
       \/ \E s \in Statuses :
            /\ intention[b] = SetStatus(s)
            /\ status' \in {status, s}
            /\ UNCHANGED decisions

\* Requests end without effect: refused, failed or cut off by a restart.
Abandon ==
    /\ \E gone \in SUBSET Clerks :
         intention' = [b \in Clerks |-> IF b \in gone THEN Nothing ELSE intention[b]]
    /\ UNCHANGED <<status, decisions>>

Next == Abandon \/ \E b \in Clerks : Intend(b) \/ CarryOut(b)

Spec == Init /\ [][Next]_ledger
=============================================================================
