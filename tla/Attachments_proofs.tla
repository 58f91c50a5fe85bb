-------------------------- MODULE Attachments_proofs --------------------------
(***************************************************************************)
(* Proofs about the files of the suppliers, for any number of invitations, *)
(* uploads and keys and any size of the registry.                          *)
(***************************************************************************)
EXTENDS Attachments, SequenceTheorems, TLAPS

UploadRow == [invitation : Invitations, key : Keys, saved : BOOLEAN]

FilesTypeOK ==
    /\ issued \in [Invitations -> Seq(Keys)]
    /\ stored \subseteq Keys
    /\ uploads \in [Uploads -> SUBSET UploadRow]
    /\ files \in [Invitations -> SUBSET Keys]
    /\ owner \subseteq Keys \X Invitations
    /\ registered \in [Invitations -> Seq(Keys)]

(***************************************************************************)
(* What makes FilesAreTheirOwn inductive: a key in flight belongs to the   *)
(* link it was uploaded with, a saved one is in storage, and so is every   *)
(* key of the registry, since it is registered only after it was saved.    *)
(***************************************************************************)
Own(key, i) == <<key, i>> \in owner /\ key \in stored

OwnInv ==
    /\ FilesTypeOK
    /\ \A u \in Uploads : \A up \in uploads[u] :
          <<up.key, up.invitation>> \in owner /\ (up.saved => up.key \in stored)
    /\ \A i \in Invitations : \A n \in DOMAIN issued[i] : Own(issued[i][n], i)
    /\ FilesAreTheirOwn

LEMMA WithKeyProperties ==
    ASSUME NEW keys \in Seq(Keys), NEW key \in Keys
    PROVE  LET m   == Len(keys)
               new == WithKey(keys, key)
           IN /\ new \in Seq(Keys)
              /\ m < MaxTracked =>
                   /\ Len(new) = m + 1
                   /\ \A n \in 1 .. m : new[n] = keys[n]
                   /\ new[m + 1] = key
              /\ m >= MaxTracked =>
                   /\ Len(new) = m
                   /\ \A n \in 1 .. (m - 1) : new[n] = keys[n + 1]
                   /\ new[m] = key
<1> DEFINE m == Len(keys)
           new == WithKey(keys, key)
<1>1. m \in Nat
  BY LenProperties
<1>2. CASE m < MaxTracked
  <2>1. new = Append(keys, key)
    BY <1>1, <1>2, AttachmentsAssumption DEF WithKey
  <2> QED BY <1>1, <1>2, <2>1, AppendProperties, AttachmentsAssumption
<1>3. CASE m >= MaxTracked
  <2>1. new = Append(Tail(keys), key)
    BY <1>1, <1>3, AttachmentsAssumption DEF WithKey
  <2>2. keys # <<>>
    BY <1>1, <1>3, AttachmentsAssumption
  <2> DEFINE rest == Tail(keys)
  <2>3. /\ rest \in Seq(Keys) /\ Len(rest) = m - 1
        /\ \A n \in 1 .. Len(rest) : rest[n] = keys[n + 1]
    BY <2>2, HeadTailProperties
  <2> HIDE DEF rest
  <2>4. /\ Append(rest, key) \in Seq(Keys)
        /\ Len(Append(rest, key)) = m
        /\ \A n \in 1 .. (m - 1) : Append(rest, key)[n] = rest[n]
        /\ Append(rest, key)[m] = key
    BY <1>1, <2>3, AppendProperties
  <2>5. new = Append(rest, key)
    BY <2>1 DEF rest
  <2>6. \A n \in 1 .. (m - 1) : Append(rest, key)[n] = keys[n + 1]
    BY <1>1, <2>3, <2>4
  <2> QED BY <1>1, <1>3, <2>4, <2>5, <2>6, AttachmentsAssumption
<1> QED BY <1>1, <1>2, <1>3, AttachmentsAssumption

LEMMA FilesInitOwn == FilesInit => OwnInv
<1> SUFFICES ASSUME FilesInit PROVE OwnInv
  OBVIOUS
<1>1. /\ <<>> \in Seq(Keys) /\ DOMAIN <<>> = {}
  BY EmptySeq
<1> QED BY <1>1 DEF FilesInit, OwnInv, FilesTypeOK, FilesAreTheirOwn

(***************************************************************************)
(* What an upload does.                                                    *)
(***************************************************************************)
LEMMA BeginUploadOwn ==
    ASSUME OwnInv, NEW u \in Uploads, NEW i \in Invitations, NEW key \in Keys,
           BeginUpload(u, i, key)
    PROVE  OwnInv'
<1> DEFINE up == [invitation |-> i, key |-> key, saved |-> FALSE]
<1>1. /\ uploads' = [uploads EXCEPT ![u] = {up}]
      /\ owner' = owner \union {<<key, i>>}
      /\ UNCHANGED <<issued, stored, files, registered>>
  BY DEF BeginUpload
<1>2. up \in UploadRow /\ up.key = key /\ up.invitation = i /\ up.saved = FALSE
  BY DEF UploadRow
<1> HIDE DEF up
<1>3. FilesTypeOK'
  BY <1>1, <1>2 DEF OwnInv, FilesTypeOK
<1>4. \A v \in Uploads : \A x \in uploads'[v] :
        <<x.key, x.invitation>> \in owner' /\ (x.saved => x.key \in stored')
  BY <1>1, <1>2 DEF OwnInv, FilesTypeOK
<1>5. (\A j \in Invitations : \A n \in DOMAIN issued[j] : Own(issued[j][n], j))'
  BY <1>1 DEF OwnInv, Own
<1>6. FilesAreTheirOwn'
  BY <1>1 DEF OwnInv, FilesAreTheirOwn
<1> QED BY <1>3, <1>4, <1>5, <1>6 DEF OwnInv

LEMMA SaveOwn ==
    ASSUME OwnInv, NEW u \in Uploads, Save(u)
    PROVE  OwnInv'
<1>1. PICK up \in uploads[u] :
        /\ stored' = stored \union {up.key}
        /\ uploads' = [uploads EXCEPT ![u] = {[up EXCEPT !.saved = TRUE]}]
        /\ UNCHANGED <<issued, files, owner, registered>>
  BY DEF Save
<1>2. up \in UploadRow /\ <<up.key, up.invitation>> \in owner
  BY DEF OwnInv, FilesTypeOK
<1> DEFINE saved == [up EXCEPT !.saved = TRUE]
<1>3. saved \in UploadRow /\ saved.key = up.key /\ saved.invitation = up.invitation
  BY <1>2 DEF UploadRow
<1> HIDE DEF saved
<1>4. up.key \in Keys
  BY <1>2 DEF UploadRow
<1>5. uploads' = [uploads EXCEPT ![u] = {saved}]
  BY <1>1 DEF saved
<1>6. stored' = stored \union {up.key} /\ UNCHANGED <<issued, files, owner, registered>>
  BY <1>1
<1>7. FilesTypeOK'
  BY <1>3, <1>4, <1>5, <1>6 DEF OwnInv, FilesTypeOK
<1>8. \A v \in Uploads : \A x \in uploads'[v] :
        <<x.key, x.invitation>> \in owner' /\ (x.saved => x.key \in stored')
  BY <1>2, <1>3, <1>5, <1>6 DEF OwnInv, FilesTypeOK
<1>9. (\A j \in Invitations : \A n \in DOMAIN issued[j] : Own(issued[j][n], j))'
  BY <1>1 DEF OwnInv, Own
<1>10. FilesAreTheirOwn'
  BY <1>1 DEF OwnInv, FilesAreTheirOwn
<1> QED BY <1>7, <1>8, <1>9, <1>10 DEF OwnInv

LEMMA RegisterOwn ==
    ASSUME OwnInv, NEW u \in Uploads, Register(u)
    PROVE  OwnInv'
<1>1. PICK up \in uploads[u] :
        /\ up.saved
        /\ issued' = [issued EXCEPT ![up.invitation] = WithKey(@, up.key)]
        /\ registered' = [registered EXCEPT ![up.invitation] = Append(@, up.key)]
  BY DEF Register
<1>2. uploads' = [uploads EXCEPT ![u] = {}] /\ UNCHANGED <<stored, files, owner>>
  BY DEF Register
<1> DEFINE i == up.invitation
           key == up.key
           new == WithKey(issued[i], key)
<1>3. up \in UploadRow /\ Own(key, i)
  BY <1>1 DEF OwnInv, FilesTypeOK, Own
<1>4. i \in Invitations /\ key \in Keys
  BY <1>3 DEF UploadRow
<1>5. issued[i] \in Seq(Keys) /\ registered[i] \in Seq(Keys)
  BY <1>4 DEF OwnInv, FilesTypeOK
<1>6. /\ issued' = [issued EXCEPT ![i] = new]
      /\ registered' = [registered EXCEPT ![i] = Append(registered[i], key)]
  BY <1>1
<1> HIDE DEF i, key
<1>7. new \in Seq(Keys) /\ Append(registered[i], key) \in Seq(Keys)
  BY <1>4, <1>5, WithKeyProperties, AppendProperties
<1>8. ASSUME NEW n \in DOMAIN new
      PROVE  new[n] = key \/ \E k \in DOMAIN issued[i] : new[n] = issued[i][k]
  <2>1. /\ Len(issued[i]) \in Nat /\ DOMAIN issued[i] = 1 .. Len(issued[i])
        /\ DOMAIN new = 1 .. Len(new)
    BY <1>5, <1>7, LenProperties
  <2>2. CASE Len(issued[i]) < MaxTracked
    <3>1. /\ Len(new) = Len(issued[i]) + 1
          /\ \A k \in 1 .. Len(issued[i]) : new[k] = issued[i][k]
          /\ new[Len(issued[i]) + 1] = key
      BY <1>4, <1>5, <2>2, WithKeyProperties
    <3>2. n = Len(issued[i]) + 1 \/ n \in DOMAIN issued[i]
      BY <1>8, <2>1, <3>1
    <3> QED BY <2>1, <3>1, <3>2
  <2>3. CASE Len(issued[i]) >= MaxTracked
    <3>1. /\ Len(new) = Len(issued[i])
          /\ \A k \in 1 .. (Len(issued[i]) - 1) : new[k] = issued[i][k + 1]
          /\ new[Len(issued[i])] = key
      BY <1>4, <1>5, <2>3, WithKeyProperties
    <3>2. CASE n = Len(issued[i])
      BY <3>1, <3>2
    <3>3. CASE n # Len(issued[i])
      <4>1. n \in 1 .. (Len(issued[i]) - 1) /\ n + 1 \in DOMAIN issued[i]
        BY <1>8, <2>1, <3>1, <3>3
      <4> QED BY <3>1, <4>1
    <3> QED BY <3>2, <3>3
  <2> QED BY <2>1, <2>2, <2>3, AttachmentsAssumption
<1> HIDE DEF new
<1>9. FilesTypeOK'
  BY <1>2, <1>6, <1>7 DEF OwnInv, FilesTypeOK
<1>10. \A j \in Invitations : \A n \in DOMAIN issued'[j] : Own(issued'[j][n], j)
  BY ZenonT(90), <1>3, <1>6, <1>8 DEF OwnInv, FilesTypeOK
<1>11. (\A j \in Invitations : \A n \in DOMAIN issued[j] : Own(issued[j][n], j))'
  BY <1>2, <1>10 DEF Own
<1>12. \A v \in Uploads : \A x \in uploads'[v] :
         <<x.key, x.invitation>> \in owner' /\ (x.saved => x.key \in stored')
  BY <1>2 DEF OwnInv, FilesTypeOK
<1>13. FilesAreTheirOwn'
  BY <1>2 DEF OwnInv, FilesAreTheirOwn
<1> QED BY <1>9, <1>11, <1>12, <1>13 DEF OwnInv

(***************************************************************************)
(* What a submission takes over was registered for its own link.           *)
(***************************************************************************)
LEMMA ClaimOwn ==
    ASSUME OwnInv, NEW i \in Invitations, NEW claimed \in SUBSET Keys, Claim(i, claimed)
    PROVE  OwnInv'
<1>1. /\ files' = [files EXCEPT ![i] = Resolve(i, claimed)]
      /\ UNCHANGED <<issued, stored, uploads, owner, registered>>
  BY DEF Claim
<1>2. Resolve(i, claimed) \subseteq Keys /\ \A key \in Resolve(i, claimed) : Own(key, i)
  BY DEF Resolve, Issued, OwnInv
<1>3. FilesTypeOK'
  BY <1>1, <1>2 DEF OwnInv, FilesTypeOK
<1>4. FilesAreTheirOwn'
  BY <1>1, <1>2 DEF OwnInv, FilesAreTheirOwn, FilesTypeOK, Own
<1> QED BY <1>1, <1>3, <1>4 DEF OwnInv, Own

LEMMA FilesNextOwn ==
    ASSUME OwnInv, [FilesNext]_fileVars
    PROVE  OwnInv'
<1>1. ASSUME NEW u \in Uploads, SaveFails(u)
      PROVE  OwnInv'
  BY <1>1 DEF SaveFails, OwnInv, FilesTypeOK, FilesAreTheirOwn, Own
<1>2. CASE RestartFiles
  <2>1. <<>> \in Seq(Keys) /\ DOMAIN <<>> = {}
    BY EmptySeq
  <2> QED BY <1>2, <2>1 DEF RestartFiles, OwnInv, FilesTypeOK, FilesAreTheirOwn, Own
<1>3. CASE UNCHANGED fileVars
  BY <1>3 DEF fileVars, OwnInv, FilesTypeOK, FilesAreTheirOwn, Own
<1> QED
  BY <1>1, <1>2, <1>3, BeginUploadOwn, SaveOwn, RegisterOwn, ClaimOwn DEF FilesNext

LEMMA OwnHolds == FilesSpec => []OwnInv
<1>1. OwnInv /\ [FilesNext]_fileVars => OwnInv'
  BY FilesNextOwn
<1> QED BY <1>1, FilesInitOwn, PTL DEF FilesSpec

(***************************************************************************)
(* No quote ever lists a file of another supplier, or one that was never   *)
(* saved, whatever keys a submission names.                                *)
(***************************************************************************)
THEOREM NoForeignFiles == FilesSpec => []FilesAreTheirOwn
<1>1. OwnInv => FilesAreTheirOwn
  BY DEF OwnInv
<1> QED BY <1>1, OwnHolds, PTL

-----------------------------------------------------------------------------
(***************************************************************************)
(* The registry of a link is the end of what was registered for it: all of *)
(* it, or the last MaxTracked keys.                                        *)
(***************************************************************************)
IsEndOf(keys, all) ==
    /\ Len(keys) = IF Len(all) < MaxTracked THEN Len(all) ELSE MaxTracked
    /\ \A n \in 1 .. Len(keys) : keys[n] = all[Len(all) - Len(keys) + n]

EndInv == \A i \in Invitations : IsEndOf(issued[i], registered[i])

LEMMA EndGrows ==
    ASSUME NEW keys \in Seq(Keys), NEW all \in Seq(Keys), NEW key \in Keys, IsEndOf(keys, all)
    PROVE  IsEndOf(WithKey(keys, key), Append(all, key))
<1> DEFINE m == Len(keys)
           l == Len(all)
           new == WithKey(keys, key)
           longer == Append(all, key)
<1>1. m \in Nat /\ l \in Nat /\ MaxTracked \in Nat \ {0}
  BY LenProperties, AttachmentsAssumption
<1>2. /\ Len(longer) = l + 1
      /\ \A n \in 1 .. l : longer[n] = all[n]
      /\ longer[l + 1] = key
  BY AppendProperties
<1> HIDE DEF longer
<1>3. /\ m = IF l < MaxTracked THEN l ELSE MaxTracked
      /\ \A n \in 1 .. m : keys[n] = all[l - m + n]
  BY DEF IsEndOf
<1>4. CASE m < MaxTracked
  <2>1. /\ Len(new) = m + 1 /\ \A n \in 1 .. m : new[n] = keys[n]
        /\ new[m + 1] = key
    BY <1>4, WithKeyProperties
  <2> HIDE DEF new
  <2>2. l = m
    BY <1>1, <1>3, <1>4
  <2>3. ASSUME NEW n \in 1 .. m
        PROVE  new[n] = longer[n]
    <3>1. l - m + n = n /\ n \in 1 .. l
      BY <1>1, <2>2
    <3> QED BY <1>2, <1>3, <2>1, <3>1
  <2>4. \A n \in 1 .. m : new[n] = longer[n]
    BY <2>3
  <2>5. \A n \in 1 .. (m + 1) : new[n] = longer[n]
    BY <1>1, <1>2, <2>1, <2>2, <2>4
  <2> HIDE DEF m, l
  <2>6. IsEndOf(new, longer)
    BY <1>1, <1>2, <1>4, <2>1, <2>2, <2>5 DEF IsEndOf
  <2> QED BY <2>6 DEF new, longer
<1>5. CASE m >= MaxTracked
  <2>1. /\ Len(new) = m /\ \A n \in 1 .. (m - 1) : new[n] = keys[n + 1]
        /\ new[m] = key
    BY <1>5, WithKeyProperties
  <2> HIDE DEF new
  <2>2. m = MaxTracked /\ l >= m
    BY <1>1, <1>3, <1>5
  <2>3. ASSUME NEW n \in 1 .. m
        PROVE  new[n] = longer[l + 1 - m + n]
    <3>1. CASE n = m
      BY <1>1, <1>2, <2>1, <2>2, <3>1
    <3>2. CASE n # m
      <4>1. n \in 1 .. (m - 1) /\ n + 1 \in 1 .. m /\ l - m + (n + 1) \in 1 .. l
            /\ l + 1 - m + n = l - m + (n + 1)
        BY <1>1, <2>2, <3>2
      <4> QED BY <1>2, <1>3, <2>1, <4>1
    <3> QED BY <3>1, <3>2
  <2> HIDE DEF m, l
  <2>4. IsEndOf(new, longer)
    BY <1>1, <1>2, <2>1, <2>2, <2>3 DEF IsEndOf
  <2> QED BY <2>4 DEF new, longer
<1> QED BY <1>1, <1>4, <1>5

LEMMA FilesNextEnd ==
    ASSUME OwnInv, EndInv, [FilesNext]_fileVars
    PROVE  EndInv'
<1>1. ASSUME NEW u \in Uploads, Register(u)
      PROVE  EndInv'
  <2>1. PICK up \in uploads[u] :
          /\ issued' = [issued EXCEPT ![up.invitation] = WithKey(@, up.key)]
          /\ registered' = [registered EXCEPT ![up.invitation] = Append(@, up.key)]
    BY <1>1 DEF Register
  <2>2. up.invitation \in Invitations /\ up.key \in Keys
    BY DEF OwnInv, FilesTypeOK, UploadRow
  <2>3. ASSUME NEW i \in Invitations
        PROVE  IsEndOf(issued'[i], registered'[i])
    <3>1. issued[i] \in Seq(Keys) /\ registered[i] \in Seq(Keys)
      BY DEF OwnInv, FilesTypeOK
    <3>2. CASE i = up.invitation
      <4>1. /\ issued'[i] = WithKey(issued[i], up.key)
            /\ registered'[i] = Append(registered[i], up.key)
        BY <2>1, <3>2 DEF OwnInv, FilesTypeOK
      <4> QED BY <2>2, <3>1, <4>1, EndGrows DEF EndInv
    <3>3. CASE i # up.invitation
      BY <2>1, <3>3 DEF EndInv, OwnInv, FilesTypeOK
    <3> QED BY <3>2, <3>3
  <2> QED BY <2>3 DEF EndInv, IsEndOf
<1>2. CASE RestartFiles
  <2>1. <<>> \in Seq(Keys) /\ Len(<<>>) = 0
    BY EmptySeq
  <2>2. \A i \in Invitations : issued'[i] = <<>> /\ registered'[i] = <<>>
    BY <1>2 DEF RestartFiles
  <2>3. IsEndOf(<<>>, <<>>)
    <3>1. 1 .. Len(<<>>) = {} /\ Len(<<>>) = IF Len(<<>>) < MaxTracked THEN Len(<<>>) ELSE MaxTracked
      BY <2>1, AttachmentsAssumption
    <3> QED BY <3>1 DEF IsEndOf
  <2>4. \A i \in Invitations : IsEndOf(issued'[i], registered'[i])
    BY <2>2, <2>3
  <2> QED BY <2>4 DEF EndInv, IsEndOf
<1>3. ASSUME UNCHANGED <<issued, registered>>
      PROVE  EndInv'
  BY <1>3 DEF EndInv, IsEndOf
<1> QED
  BY <1>1, <1>2, <1>3 DEF FilesNext, BeginUpload, Save, SaveFails, Claim, fileVars

(***************************************************************************)
(* Whatever uploads overlap, a supplier can claim the last MaxTracked      *)
(* files he uploaded since the process started.                            *)
(***************************************************************************)
THEOREM LatestFilesClaimable == FilesSpec => []LatestUploadsClaimable
<1>1. FilesInit => EndInv
  <2>1. <<>> \in Seq(Keys) /\ Len(<<>>) = 0
    BY EmptySeq
  <2> QED BY <2>1, AttachmentsAssumption DEF FilesInit, EndInv, IsEndOf
<1>2. OwnInv /\ EndInv /\ [FilesNext]_fileVars => EndInv'
  BY FilesNextEnd
<1>3. OwnInv /\ EndInv => LatestUploadsClaimable
  <2> SUFFICES ASSUME OwnInv, EndInv, NEW i \in Invitations, NEW n \in DOMAIN registered[i],
                      n > Len(registered[i]) - MaxTracked
               PROVE  registered[i][n] \in Issued(i)
    BY DEF LatestUploadsClaimable
  <2> DEFINE m == Len(issued[i])
             l == Len(registered[i])
             k == n - (l - m)
  <2>1. /\ m \in Nat /\ l \in Nat /\ MaxTracked \in Nat
        /\ DOMAIN issued[i] = 1 .. m /\ DOMAIN registered[i] = 1 .. l
    BY LenProperties, AttachmentsAssumption DEF OwnInv, FilesTypeOK
  <2>2. /\ m = IF l < MaxTracked THEN l ELSE MaxTracked
        /\ \A j \in 1 .. m : issued[i][j] = registered[i][l - m + j]
    BY DEF EndInv, IsEndOf
  <2>3. n \in 1 .. l /\ n > l - MaxTracked
    BY <2>1
  <2>4. k \in 1 .. m /\ l - m + k = n
    <3> HIDE DEF m, l
    <3>1. CASE l < MaxTracked
      BY <2>1, <2>2, <2>3, <3>1
    <3>2. CASE ~ (l < MaxTracked)
      BY <2>1, <2>2, <2>3, <3>2
    <3> QED BY <3>1, <3>2
  <2>5. issued[i][k] = registered[i][n]
    BY <2>2, <2>4
  <2> QED BY <2>1, <2>4, <2>5 DEF Issued
<1> QED BY <1>1, <1>2, <1>3, OwnHolds, PTL DEF FilesSpec
=============================================================================
