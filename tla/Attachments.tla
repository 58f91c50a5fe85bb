------------------------------ MODULE Attachments ------------------------------
(***************************************************************************)
(* The files suppliers upload beside a quote: a bounded registry in memory *)
(* of the keys issued to each invitation, the objects in storage, and the  *)
(* files the quotes list. An upload validates, awaits the storage and only *)
(* then registers its key; a submission lists the keys it can claim.       *)
(***************************************************************************)
EXTENDS Integers, Sequences, FiniteSets

CONSTANTS
    Invitations,
    Uploads,        \* upload requests in flight
    Keys,           \* storage keys, every one generated once
    MaxTracked      \* MAX_TRACKED_PER_INVITATION

ASSUME AttachmentsAssumption == MaxTracked \in Nat \ {0}

VARIABLES
    issued,         \* _ISSUED: the keys registered for each invitation, oldest first
    stored,         \* the objects in storage
    uploads,        \* the uploads in flight: {} or {[invitation, key, saved]}
    files,          \* the attachments of each invitation's quote
    owner,          \* history: the generated keys and the invitation of each
    registered      \* history: the keys registered for each invitation since the process started

fileVars == <<issued, stored, uploads, files, owner, registered>>

-----------------------------------------------------------------------------
Issued(i) == {issued[i][n] : n \in DOMAIN issued[i]}

FilesInit ==
    /\ issued = [i \in Invitations |-> <<>>]
    /\ stored = {}
    /\ uploads = [u \in Uploads |-> {}]
    /\ files = [i \in Invitations |-> {}]
    /\ owner = {}
    /\ registered = [i \in Invitations |-> <<>>]

\* validate_upload has passed; a key is a new uuid in the invitation's scope.
BeginUpload(u, i, key) ==
    /\ uploads[u] = {}
    /\ \A pair \in owner : pair[1] # key
    /\ owner' = owner \union {<<key, i>>}
    /\ uploads' = [uploads EXCEPT ![u] = {[invitation |-> i, key |-> key, saved |-> FALSE]}]
    /\ UNCHANGED <<issued, stored, files, registered>>

\* storage.save in its thread.
Save(u) ==
    /\ \E up \in uploads[u] :
         /\ ~up.saved
         /\ stored' = stored \union {up.key}
         /\ uploads' = [uploads EXCEPT ![u] = {[up EXCEPT !.saved = TRUE]}]
    /\ UNCHANGED <<issued, files, owner, registered>>

\* The storage refuses the object: the request fails.
SaveFails(u) ==
    /\ \E up \in uploads[u] : ~up.saved
    /\ uploads' = [uploads EXCEPT ![u] = {}]
    /\ UNCHANGED <<issued, stored, files, owner, registered>>

\* Mutant: the newest key makes room.
WithNewestDropped(keys, key) ==
    Append(IF Len(keys) >= MaxTracked THEN SubSeq(keys, 1, Len(keys) - 1) ELSE keys, key)

\* A full registry forgets its oldest key.
WithKey(keys, key) == Append(IF Len(keys) >= MaxTracked THEN Tail(keys) ELSE keys, key)

\* The rest of store, after the await.
Register(u) ==
    /\ \E up \in uploads[u] :
         /\ up.saved
         /\ issued' = [issued EXCEPT ![up.invitation] = WithKey(@, up.key)]
         /\ registered' = [registered EXCEPT ![up.invitation] = Append(@, up.key)]
    /\ uploads' = [uploads EXCEPT ![u] = {}]
    /\ UNCHANGED <<stored, files, owner>>

\* Mutant: any key that was ever issued can be claimed.
ResolveAny(i, claimed) == claimed \intersect UNION {Issued(j) : j \in Invitations}

\* Keys not issued to the invitation are ignored.
Resolve(i, claimed) == claimed \intersect Issued(i)

(* A submission replaces the attachments of the quote, with nothing when it *)
(* claims nothing; one that claims keys and resolves none is refused.      *)
Claim(i, claimed) ==
    /\ claimed # {} => Resolve(i, claimed) # {}
    /\ files' = [files EXCEPT ![i] = Resolve(i, claimed)]
    /\ UNCHANGED <<issued, stored, uploads, owner, registered>>

\* The process ends: the registry and the uploads in flight are gone.
RestartFiles ==
    /\ issued' = [i \in Invitations |-> <<>>]
    /\ registered' = [i \in Invitations |-> <<>>]
    /\ uploads' = [u \in Uploads |-> {}]
    /\ UNCHANGED <<stored, files, owner>>

FilesNext ==
    \/ \E u \in Uploads : Save(u) \/ SaveFails(u) \/ Register(u)
    \/ \E u \in Uploads, i \in Invitations, key \in Keys : BeginUpload(u, i, key)
    \/ \E i \in Invitations, claimed \in SUBSET Keys : Claim(i, claimed)
    \/ RestartFiles

FilesSpec == FilesInit /\ [][FilesNext]_fileVars

-----------------------------------------------------------------------------
(***************************************************************************)
(* A quote lists only files that were uploaded with its own link and that  *)
(* the storage holds: no submission, whatever keys it names, takes in      *)
(* another supplier's file or one that was never saved.                    *)
(***************************************************************************)
FilesAreTheirOwn ==
    \A i \in Invitations : \A key \in files[i] : <<key, i>> \in owner /\ key \in stored

(***************************************************************************)
(* A supplier can claim every file he uploaded since the process started,  *)
(* but the oldest beyond MAX_TRACKED_PER_INVITATION: uploads that overlap  *)
(* never cost him a later file.                                            *)
(***************************************************************************)
LatestUploadsClaimable ==
    \A i \in Invitations :
        \A n \in DOMAIN registered[i] :
            n > Len(registered[i]) - MaxTracked => registered[i][n] \in Issued(i)
=============================================================================
