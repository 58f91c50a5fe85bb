---------------------------- MODULE ContactLedger ----------------------------
(***************************************************************************)
(* What the outreach component promises about its emails, without its      *)
(* database rows, its sweeps and its sessions: who is written to, with     *)
(* what kind of message, on whose word, and what the communication log     *)
(* says of it afterwards.                                                  *)
(*                                                                         *)
(* An entry of the log never changes its addressee, its kind or its        *)
(* author. An email leaves only in an attempt, at most once in each. An    *)
(* attempt is begun by the buyer, or by the scheduler when sending is      *)
(* automatic, for an entry it writes at that very moment: the process      *)
(* never retries on its own. The log claims a message as sent when an      *)
(* attempt at it was accepted, and credits a supplier with no more         *)
(* reminders than were accepted.                                           *)
(***************************************************************************)
EXTENDS Naturals, FiniteSets

CONSTANTS
    Rows,         \* the entries the log has room for
    Suppliers,    \* the invitations
    Workers,      \* whoever may attempt to send an email
    Buyers,       \* those of them that act for the buyer
    Messages,     \* the kinds of message
    Reminders,    \* those that count as reminders
    Automatic,    \* whether the scheduler may send
    Nothing       \* no addressee, no entry

VARIABLES
    entry,        \* the log: addressee, kind and author of an entry
    attempt,      \* the attempt a worker is in
    accepted,     \* how often the provider accepted an entry's message
    claimed,      \* the entries the log says were sent
    forgotten,    \* the entries deleted with their invitation
    credited      \* the reminders counted for a supplier

ledger == <<entry, attempt, accepted, claimed, forgotten, credited>>

Entry(to, kind, auto) == [to |-> to, kind |-> kind, auto |-> auto]
Attempt(r, answer)    == [row |-> r, answer |-> answer]

Blank     == Entry(Nothing, "none", FALSE)
NoAttempt == Attempt(Nothing, "none")

IsWritten(r) == entry[r].to # Nothing
Kept(r)      == IsWritten(r) /\ r \notin forgotten

\* The accepted emails that remind a supplier.
RemindersTo(i) ==
    LET rows == {r \in Rows : entry[r].to = i /\ entry[r].kind \in Reminders}
    IN  UNION {{r} \X (1 .. accepted[r]) : r \in rows}

Init ==
    /\ entry = [r \in Rows |-> Blank]
    /\ attempt = [w \in Workers |-> NoAttempt]
    /\ accepted = [r \in Rows |-> 0]
    /\ claimed = {}
    /\ forgotten = {}
    /\ credited = [i \in Suppliers |-> 0]

-----------------------------------------------------------------------------
Write(r, e) ==
    /\ entry' = [entry EXCEPT ![r] = e]
    /\ UNCHANGED <<forgotten, credited>>

Begin(w, r) ==
    /\ attempt[w] = NoAttempt
    /\ attempt' = [attempt EXCEPT ![w] = Attempt(r, "none")]

\* A message is written down and goes nowhere yet.
Draft(r) ==
    /\ ~IsWritten(r) /\ IsWritten(r)'
    /\ \E to \in Suppliers, kind \in Messages, auto \in BOOLEAN : Write(r, Entry(to, kind, auto))
    /\ UNCHANGED <<attempt, accepted, claimed>>

\* The link to the form: by the time it is written down the provider has answered.
SendLink(r) ==
    /\ ~IsWritten(r) /\ IsWritten(r)'
    /\ \E to \in Suppliers : Write(r, Entry(to, "manual", FALSE))
    /\ \/ /\ accepted' = [accepted EXCEPT ![r] = @ + 1]
          /\ claimed' = claimed \union {r}
       \/ UNCHANGED <<accepted, claimed>>
    /\ UNCHANGED attempt

\* A message that is sent as it is written: the buyer's, or the scheduler's.
SendNew(w, r) ==
    /\ Begin(w, r)
    /\ w \notin Buyers => Automatic
    /\ ~IsWritten(r) /\ IsWritten(r)'
    /\ \E to \in Suppliers, kind \in Messages :
         Write(r, Entry(to, kind, w \notin Buyers))
    /\ UNCHANGED <<accepted, claimed>>

\* Only the buyer sends an entry that is there already, and none that counts as sent.
Ask(w, r) ==
    /\ w \in Buyers
    /\ Begin(w, r)
    /\ Kept(r)
    /\ claimed' = claimed \ {r}
    /\ UNCHANGED <<entry, accepted, forgotten, credited>>

Answer(w) ==
    /\ attempt[w] # NoAttempt
    /\ attempt[w].answer = "none"
    /\ \/ /\ attempt' = [attempt EXCEPT ![w].answer = "sent"]
          /\ accepted' = [accepted EXCEPT ![attempt[w].row] = @ + 1]
       \/ /\ attempt' = [attempt EXCEPT ![w].answer = "failed"]
          /\ UNCHANGED accepted
    /\ UNCHANGED <<entry, claimed, forgotten, credited>>

(***************************************************************************)
(* The end of an attempt. A refusal may leave what an earlier attempt      *)
(* claimed; the credit may be too low, never too high.                     *)
(***************************************************************************)
Settle(w) ==
    LET r  == attempt[w].row
        to == entry[r].to
    IN  /\ attempt[w].answer # "none"
        /\ Kept(r)
        /\ \/ /\ attempt[w].answer = "sent"
              /\ claimed' = claimed \union {r}
              /\ IF entry[r].kind \in Reminders
                 THEN \E n \in 1 .. Cardinality(RemindersTo(to)) :
                        credited' = [credited EXCEPT ![to] = n]
                 ELSE UNCHANGED credited
           \/ /\ attempt[w].answer = "failed"
              /\ claimed' \in {claimed, claimed \ {r}}
              /\ UNCHANGED credited
        /\ attempt' = [attempt EXCEPT ![w] = NoAttempt]
        /\ UNCHANGED <<entry, accepted, forgotten>>

\* The entry was deleted during the attempt: nothing is recorded.
Lose(w) ==
    /\ attempt[w].answer # "none"
    /\ attempt[w].row \in forgotten
    /\ attempt' = [attempt EXCEPT ![w] = NoAttempt]
    /\ UNCHANGED <<entry, accepted, claimed, forgotten, credited>>

\* The buyer rejects an entry or queues it again: it no longer counts as sent.
Retract(r) ==
    /\ Kept(r)
    /\ claimed' = claimed \ {r}
    /\ UNCHANGED <<entry, attempt, accepted, forgotten, credited>>

\* An invitation is deleted, and its entries with it; they never come back.
Forget(i) ==
    LET rows == {r \in Rows : entry[r].to = i}
    IN  /\ forgotten' = forgotten \union rows
        /\ claimed' = claimed \ rows
        /\ credited' = [credited EXCEPT ![i] = 0]
        /\ UNCHANGED <<entry, attempt, accepted>>

\* The process dies: attempts end unrecorded, and nobody takes them up again.
Crash ==
    /\ attempt' = [w \in Workers |-> NoAttempt]
    /\ UNCHANGED <<entry, accepted, claimed, forgotten, credited>>

Next ==
    \/ Crash
    \/ \E r \in Rows : Retract(r) \/ Draft(r) \/ SendLink(r)
    \/ \E i \in Suppliers : Forget(i)
    \/ \E w \in Workers : Answer(w) \/ Settle(w) \/ Lose(w)
    \/ \E w \in Workers, r \in Rows : SendNew(w, r) \/ Ask(w, r)

Spec == Init /\ [][Next]_ledger
=============================================================================
