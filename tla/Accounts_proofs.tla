---------------------------- MODULE Accounts_proofs ----------------------------
(***************************************************************************)
(* Accounts: what drivers, clients and admins keep about themselves, each  *)
(* other and their vehicles.  For each component an inductive invariant,   *)
(* that it holds at first and is kept by every step, and the property it   *)
(* gives, for any number of rows and of requests in flight.                *)
(***************************************************************************)
EXTENDS Uploads, DriverVerification, Vehicles, Sessions, Profiles, UsersPanel,
        OneTimeCodes, Safety, TLAPS, FiniteSetTheorems

-----------------------------------------------------------------------------
(* Uploads. Each of the requests that may yet add a file has seen all live  *)
(* files but those that another such request adds: so there are never more  *)
(* live files than requests.                                                *)

(* A request that joins, or leaves, those in flight.                        *)
LEMMA OneMore ==
    ASSUME NEW S, IsFiniteSet(S), NEW A \in SUBSET S, NEW r \in S, r \notin A
    PROVE  /\ Cardinality(A \cup {r}) = Cardinality(A) + 1
           /\ Cardinality(A) + 1 <= Cardinality(S) /\ Cardinality(A) \in Nat
           /\ Cardinality(S) \in Nat /\ IsFiniteSet(A)
  <1>1. IsFiniteSet(A) /\ A \cup {r} \in SUBSET S
    BY FS_Subset
  <1> QED
    BY <1>1, FS_AddElement, FS_Subset, FS_CardinalityType

\* A member leaves a finite set.
LEMMA OneLess ==
    ASSUME NEW S, IsFiniteSet(S), NEW A \in SUBSET S, NEW r \in A
    PROVE  /\ Cardinality(A \ {r}) = Cardinality(A) - 1 /\ Cardinality(A) \in Nat
           /\ Cardinality(S) \in Nat /\ Cardinality(A) <= Cardinality(S) /\ IsFiniteSet(A)
  BY FS_Subset, FS_RemoveElement, FS_CardinalityType

\* A part of a finite set.
LEMMA AtMostAll ==
    ASSUME NEW S, IsFiniteSet(S), NEW A \in SUBSET S
    PROVE  Cardinality(A) \in Nat /\ Cardinality(S) \in Nat /\ Cardinality(A) <= Cardinality(S)
           /\ IsFiniteSet(A)
  BY FS_Subset, FS_CardinalityType

\* At most one member more than a finite set has.
LEMMA OneBeyond ==
    ASSUME NEW S, IsFiniteSet(S), NEW x, NEW T \in SUBSET (S \cup {x})
    PROVE  /\ IsFiniteSet(T) /\ Cardinality(T) \in Nat /\ Cardinality(S) \in Nat
           /\ Cardinality(T) <= Cardinality(S) + 1
  <1>1. IsFiniteSet(S \cup {x}) /\ Cardinality(S \cup {x}) <= Cardinality(S) + 1
        /\ Cardinality(S) \in Nat
    BY FS_AddElement, FS_CardinalityType
  <1>2. IsFiniteSet(T) /\ Cardinality(T) <= Cardinality(S \cup {x}) /\ Cardinality(T) \in Nat
        /\ Cardinality(S \cup {x}) \in Nat
    BY <1>1, FS_Subset, FS_CardinalityType
  <1> QED
    BY <1>1, <1>2

UploadRows == [op : {"idle", "add", "remove", "submit", "photo"}, seen : SUBSET AssetRows]
AddingFiles == {r \in UploadRequests : uploadTx[r].op = "add"}
Photographing == {r \in UploadRequests : uploadTx[r].op = "photo"}
UploadsBusy == {r \in UploadRequests : uploadTx[r] # NoUpload}

\* The rows that none of the requests A, which may yet add one, has seen.
Unseen(A) == {f \in LiveAssets : \A r \in A : f \notin uploadTx[r].seen}

UploadsTypeOK ==
    /\ owner \in {"EDITABLE", "SUBMITTED", "APPROVED"}
    /\ asset \in [AssetRows -> {"NONE", "UPLOADED", "REPLACED", "DELETED"}]
    /\ photos \in Nat
    /\ uploadTx \in [UploadRequests -> UploadRows]
    /\ uploadsAlone \in BOOLEAN

UploadsAlone ==
    /\ \A r, q \in UploadsBusy : r = q
    /\ \A r \in AddingFiles : uploadTx[r].seen = LiveAssets
    /\ \A r \in UploadsBusy : uploadTx[r].op # "photo" => Editable
    /\ \A r \in UploadsBusy : uploadTx[r].op = "submit" => LiveAssets # {}
    /\ Cardinality(LiveAssets) <= 1
    /\ ~Editable => LiveAssets # {}
    /\ photos + Cardinality(Photographing) <= MaxPhotos

UploadsInv ==
    /\ UploadsTypeOK
    /\ IsFiniteSet(LiveAssets)
    /\ \A A \in SUBSET AddingFiles :
           Cardinality(Unseen(A)) + Cardinality(A) <= Cardinality(UploadRequests)
    /\ photos + Cardinality(Photographing) <= MaxPhotos + Cardinality(UploadRequests) - 1
    /\ uploadsAlone => UploadsAlone

\* A request that has not begun.
LEMMA IdleUpload == NoUpload \in UploadRows /\ NoUpload.op = "idle"
  BY DEF NoUpload, UploadRows

\* The invariant holds before a file is sent.
LEMMA UploadsStart == UploadsInit => UploadsInv
  <1> SUFFICES ASSUME UploadsInit PROVE UploadsInv
    OBVIOUS
  <1> USE UploadRequestsAssumption, MaxPhotosAssumption
  <1>1. UploadsTypeOK
    BY IdleUpload DEF UploadsInit, UploadsTypeOK
  <1>2. AddingFiles = {} /\ Photographing = {} /\ UploadsBusy = {} /\ LiveAssets = {} /\ photos = 0 /\ Editable
    BY IdleUpload DEF UploadsInit, AddingFiles, Photographing, UploadsBusy, LiveAssets, Editable
  <1>3. Cardinality(UploadRequests) \in Nat /\ Cardinality(UploadRequests) # 0
    BY FS_CardinalityType, FS_EmptySet
  <1>4. \A A \in SUBSET AddingFiles : A = {} /\ Unseen(A) = {}
    BY <1>2 DEF Unseen
  <1> QED
    <2>1. Cardinality({}) = 0 /\ IsFiniteSet({})
      BY FS_EmptySet
    <2>2. UploadsAlone
      BY <1>2, <2>1 DEF UploadsAlone
    <2>3. \A A \in SUBSET AddingFiles :
              Cardinality(Unseen(A)) + Cardinality(A) <= Cardinality(UploadRequests)
      BY <1>3, <1>4, <2>1
    <2>4. photos + Cardinality(Photographing) <= MaxPhotos + Cardinality(UploadRequests) - 1
      BY <1>2, <1>3, <2>1
    <2> QED
      BY <1>1, <1>2, <2>1, <2>2, <2>3, <2>4 DEF UploadsInv

\* Every step keeps it.
LEMMA UploadsStep == UploadsInv /\ [UploadsNext]_uploadVars => UploadsInv'
  <1> SUFFICES ASSUME UploadsInv, [UploadsNext]_uploadVars PROVE UploadsInv'
    OBVIOUS
  <1> USE UploadRequestsAssumption, MaxPhotosAssumption
  <1>type. UploadsTypeOK /\ IsFiniteSet(LiveAssets)
    BY DEF UploadsInv
  <1>n. Cardinality(UploadRequests) \in Nat /\ Cardinality(UploadRequests) >= 1
    BY FS_CardinalityType, FS_EmptySet
  <1>sets. /\ AddingFiles \in SUBSET UploadRequests /\ Photographing \in SUBSET UploadRequests
           /\ Cardinality(Photographing) \in Nat /\ Cardinality(Photographing) <= Cardinality(UploadRequests)
    BY AtMostAll DEF AddingFiles, Photographing
  \* A request begins: what it has seen is all there is, and it looked at the limits.
  <1>begin. ASSUME NEW r \in UploadRequests, NEW op \in {"add", "remove", "submit", "photo"},
                   NEW seen \in SUBSET AssetRows, BeginUpload(r, op, seen),
                   op = "add" => seen = LiveAssets, op = "submit" => LiveAssets # {},
                   op = "photo" => photos < MaxPhotos, op # "photo" => Editable
            PROVE  UploadsInv'
    <2> DEFINE t == [op |-> op, seen |-> seen]
    <2>1. /\ uploadTx' = [uploadTx EXCEPT ![r] = t] /\ uploadTx[r] = NoUpload
          /\ uploadsAlone => UploadsBusy = {}
          /\ UNCHANGED <<owner, asset, parcelOpen, photos, uploadsAlone>>
      BY <1>begin DEF BeginUpload, UploadsBusy
    <2>2. t \in UploadRows /\ t.op = op /\ t.seen = seen /\ t # NoUpload
      BY DEF UploadRows, NoUpload
    <2> HIDE DEF t
    <2>3. /\ \A q \in UploadRequests : uploadTx'[q] = IF q = r THEN t ELSE uploadTx[q]
          /\ uploadTx' \in [UploadRequests -> UploadRows]
      BY <2>1, <2>2, <1>type DEF UploadsTypeOK
    <2>4. /\ UploadsTypeOK' /\ LiveAssets' = LiveAssets /\ Editable' = Editable
      BY <2>1, <2>3, <1>type DEF UploadsTypeOK, LiveAssets, Editable
    <2>5. /\ r \notin Photographing /\ r \notin AddingFiles
          /\ Photographing' = IF op = "photo" THEN Photographing \cup {r} ELSE Photographing
          /\ AddingFiles' = IF op = "add" THEN AddingFiles \cup {r} ELSE AddingFiles
          /\ UploadsBusy' = UploadsBusy \cup {r}
      BY <2>1, <2>2, <2>3, IdleUpload DEF Photographing, AddingFiles, UploadsBusy
    <2>6. ASSUME NEW A \in SUBSET AddingFiles'
          PROVE  Cardinality(Unseen(A)') + Cardinality(A) <= Cardinality(UploadRequests)
      <3>1. A \in SUBSET UploadRequests
        BY DEF AddingFiles
      <3>2. CASE r \in A
        <4>1. op = "add" /\ Unseen(A)' = {}
          BY <2>2, <2>3, <2>4, <2>5, <3>2, <1>begin DEF Unseen
        <4> QED BY <3>1, <4>1, AtMostAll, FS_EmptySet
      <3>3. CASE r \notin A
        <4>1. A \in SUBSET AddingFiles /\ Unseen(A)' = Unseen(A)
          BY <2>3, <2>4, <2>5, <3>1, <3>3 DEF Unseen
        <4> QED BY <4>1 DEF UploadsInv
      <3> QED BY <3>2, <3>3
    <2>7. photos' + Cardinality(Photographing') <= MaxPhotos + Cardinality(UploadRequests) - 1
      <3>1. CASE op = "photo"
        <4>1. /\ Cardinality(Photographing') = Cardinality(Photographing) + 1
              /\ Cardinality(Photographing) + 1 <= Cardinality(UploadRequests)
          BY <2>5, <3>1, <1>sets, OneMore
        <4> QED BY <2>1, <3>1, <4>1, <1>begin, <1>n, <1>sets, <1>type DEF UploadsTypeOK
      <3>2. CASE op # "photo"
        BY <2>1, <2>5, <3>2 DEF UploadsInv
      <3> QED BY <3>1, <3>2
    <2>8. ASSUME uploadsAlone PROVE UploadsAlone'
      <3>1. UploadsBusy = {} /\ Photographing = {}
        BY <2>1, <2>8, IdleUpload DEF UploadsBusy, Photographing
      <3>2. photos' + Cardinality(Photographing') <= MaxPhotos
        <4>1. op = "photo" => Photographing' = {r}
          BY <2>5, <3>1
        <4>2. op # "photo" => Photographing' = {}
          BY <2>5, <3>1
        <4>3. photos + 0 <= MaxPhotos /\ photos \in Nat
          BY <2>8, <3>1, <1>type, FS_EmptySet DEF UploadsInv, UploadsAlone, UploadsTypeOK
        <4> QED BY <2>1, <4>1, <4>2, <4>3, <1>begin, FS_EmptySet, FS_Singleton, SMTT(30)
      <3>3. \A q \in AddingFiles' : q = r /\ uploadTx'[q].seen = seen /\ op = "add"
        BY <2>2, <2>3, <2>5, <3>1, IdleUpload DEF AddingFiles, UploadsBusy
      <3> QED
        BY <2>2, <2>3, <2>4, <2>5, <2>8, <3>1, <3>2, <3>3, <1>begin DEF UploadsInv, UploadsAlone
    <2> QED
      BY <2>1, <2>4, <2>6, <2>7, <2>8, <1>type DEF UploadsInv
  \* A request ends and leaves the rest alone.
  <1> DEFINE Ended(r) ==
                 /\ uploadTx' \in [UploadRequests -> UploadRows]
                 /\ \A q \in UploadRequests : uploadTx'[q] = IF q = r THEN NoUpload ELSE uploadTx[q]
                 /\ AddingFiles' = AddingFiles \ {r} /\ Photographing' = Photographing \ {r} /\ UploadsBusy' = UploadsBusy \ {r}
                 /\ uploadsAlone => UploadsBusy' = {} /\ AddingFiles' = {} /\ Photographing' = {}
                 /\ Cardinality(Photographing') \in Nat /\ Cardinality(Photographing) \in Nat
                 /\ photos \in Nat
                 /\ Cardinality(Photographing') <= Cardinality(Photographing)
                 /\ r \in Photographing => Cardinality(Photographing') = Cardinality(Photographing) - 1
  <1>end. ASSUME NEW r \in UploadRequests, uploadTx[r] # NoUpload,
                 uploadTx' = [uploadTx EXCEPT ![r] = NoUpload]
          PROVE  Ended(r)
    <2>1. /\ uploadTx' \in [UploadRequests -> UploadRows]
          /\ \A q \in UploadRequests : uploadTx'[q] = IF q = r THEN NoUpload ELSE uploadTx[q]
      BY <1>end, <1>type, IdleUpload DEF UploadsTypeOK
    <2>2. AddingFiles' = AddingFiles \ {r} /\ Photographing' = Photographing \ {r} /\ UploadsBusy' = UploadsBusy \ {r}
      BY <2>1, IdleUpload DEF AddingFiles, Photographing, UploadsBusy
    <2>3. uploadsAlone => UploadsBusy' = {}
      BY <2>2, <1>end DEF UploadsInv, UploadsAlone, UploadsBusy
    <2>4. AddingFiles' \subseteq UploadsBusy' /\ Photographing' \subseteq UploadsBusy'
      BY IdleUpload DEF AddingFiles, Photographing, UploadsBusy
    <2>5. IsFiniteSet(Photographing) /\ Photographing' \in SUBSET Photographing
      BY <2>2, <1>sets, AtMostAll
    <2> QED
      BY <2>1, <2>2, <2>3, <2>4, <2>5, <1>sets, <1>type, AtMostAll, OneLess DEF UploadsTypeOK
  <1> HIDE DEF Ended
  \* Only fewer rows are live, and nothing of the limits is used up.
  <1>fewer. ASSUME LiveAssets' \subseteq LiveAssets, UploadsTypeOK', AddingFiles' \subseteq AddingFiles,
                   \A q \in AddingFiles' : uploadTx'[q] = uploadTx[q],
                   Cardinality(Photographing') \in Nat,
                   photos' + Cardinality(Photographing') <= photos + Cardinality(Photographing),
                   uploadsAlone' => UploadsAlone'
            PROVE  UploadsInv'
    <2>1. IsFiniteSet(LiveAssets')
      BY <1>fewer, <1>type, FS_Subset
    <2>2. ASSUME NEW A \in SUBSET AddingFiles'
          PROVE  Cardinality(Unseen(A)') + Cardinality(A) <= Cardinality(UploadRequests)
      <3>1. Unseen(A)' \subseteq Unseen(A) /\ Unseen(A) \subseteq LiveAssets
        BY <1>fewer DEF Unseen
      <3>2. /\ Cardinality(Unseen(A)') \in Nat /\ Cardinality(Unseen(A)) \in Nat
            /\ Cardinality(Unseen(A)') <= Cardinality(Unseen(A))
        BY <3>1, <1>type, FS_Subset, FS_CardinalityType
      <3>3. A \in SUBSET AddingFiles /\ Cardinality(A) \in Nat
        BY <1>fewer, <1>sets, AtMostAll
      <3> QED BY <3>2, <3>3, <1>n DEF UploadsInv
    <2>3. photos' + Cardinality(Photographing') <= MaxPhotos + Cardinality(UploadRequests) - 1
      BY <1>fewer, <1>n, <1>sets, <1>type DEF UploadsInv, UploadsTypeOK
    <2> QED
      BY <2>1, <2>2, <2>3, <1>fewer DEF UploadsInv
  <1>live. \A f \in AssetRows : f \in LiveAssets <=> asset[f] = "UPLOADED"
    BY DEF LiveAssets
  <1>1. ASSUME NEW r \in UploadRequests, AddAssetBegin(r) PROVE UploadsInv'
    BY <1>1, <1>begin DEF AddAssetBegin, LiveAssets
  <1>2. ASSUME NEW r \in UploadRequests, AddAsset(r) PROVE UploadsInv'
    <2>1. PICK f \in AssetRows, replaced \in ReplacedRows(r) :
              asset' = [g \in AssetRows |-> IF g = f THEN "UPLOADED"
                                            ELSE IF g \in replaced THEN "REPLACED" ELSE asset[g]]
      BY <1>2 DEF AddAsset
    <2>2. /\ uploadTx[r].op = "add" /\ uploadTx' = [uploadTx EXCEPT ![r] = NoUpload]
          /\ UNCHANGED <<owner, parcelOpen, photos, uploadsAlone>> /\ uploadTx[r] # NoUpload
      BY <1>2, IdleUpload DEF AddAsset, EndUpload
    <2>e. Ended(r)
      BY <2>2, <1>end
    <2>3. LiveAssets \cap uploadTx[r].seen \subseteq replaced
      BY DEF ReplacedRows
    <2>4. LiveAssets' \subseteq {f} \cup (LiveAssets \ uploadTx[r].seen) /\ f \in LiveAssets'
      BY <2>1, <2>3 DEF LiveAssets
    <2>5. UploadsTypeOK'
      <3>1. asset' \in [AssetRows -> {"NONE", "UPLOADED", "REPLACED", "DELETED"}]
        BY <2>1, <1>type DEF UploadsTypeOK
      <3> QED BY <2>2, <3>1, <2>e, <1>type DEF UploadsTypeOK, Ended
    <2>6. IsFiniteSet(LiveAssets')
      BY <2>4, <1>type, OneBeyond
    <2>7. ASSUME NEW A \in SUBSET AddingFiles'
          PROVE  Cardinality(Unseen(A)') + Cardinality(A) <= Cardinality(UploadRequests)
      <3> DEFINE B == A \cup {r}
      <3>1. A \in SUBSET AddingFiles /\ r \notin A /\ B \in SUBSET AddingFiles
        BY <2>2, <2>e DEF AddingFiles, Ended
      <3>2. \A q \in A : uploadTx'[q] = uploadTx[q]
        BY <2>2, <3>1, <2>e, <1>sets DEF Ended
      <3>3. Unseen(A)' \subseteq Unseen(B) \cup {f}
        BY <2>4, <3>2 DEF Unseen
      <3>4. IsFiniteSet(Unseen(B)) /\ Cardinality(Unseen(B)) \in Nat
        BY <1>type, FS_Subset, FS_CardinalityType DEF Unseen
      <3>5. Cardinality(Unseen(B)) + Cardinality(B) <= Cardinality(UploadRequests)
        BY <3>1 DEF UploadsInv
      <3> HIDE DEF B
      <3>6. Cardinality(Unseen(A)') <= Cardinality(Unseen(B)) + 1 /\ Cardinality(Unseen(A)') \in Nat
        BY <3>3, <3>4, OneBeyond
      <3>7. Cardinality(B) = Cardinality(A) + 1 /\ Cardinality(A) \in Nat
        BY <3>1, <1>sets, OneMore DEF B
      <3> QED BY <3>4, <3>5, <3>6, <3>7, <1>n
    <2>8. photos' + Cardinality(Photographing') <= MaxPhotos + Cardinality(UploadRequests) - 1
      BY <2>2, <2>e, <1>n, <1>sets, <1>type DEF UploadsInv, UploadsTypeOK, Ended
    <2>9. ASSUME uploadsAlone PROVE UploadsAlone'
      <3>1. uploadTx[r].seen = LiveAssets /\ LiveAssets' = {f}
        BY <2>2, <2>4, <2>9 DEF UploadsInv, UploadsAlone, AddingFiles
      <3>2. UploadsBusy' = {} /\ AddingFiles' = {} /\ Photographing' = {}
        BY <2>2, <2>9, <2>e DEF Ended
      <3>3. photos' + Cardinality(Photographing') <= MaxPhotos
        BY <2>2, <2>9, <2>e, <1>sets, <1>type DEF UploadsInv, UploadsAlone, UploadsTypeOK, Ended
      <3> QED
        <4>1. Cardinality(LiveAssets') = 1
          BY <3>1, FS_Singleton
        <4> QED BY <3>1, <3>2, <3>3, <4>1 DEF UploadsAlone
    <2> QED
      BY <2>2, <2>5, <2>6, <2>7, <2>8, <2>9 DEF UploadsInv
  <1>3. ASSUME NEW r \in UploadRequests, RemoveAssetBegin(r) PROVE UploadsInv'
    BY <1>3, <1>begin DEF RemoveAssetBegin
  <1>4. ASSUME NEW r \in UploadRequests, RemoveAsset(r) PROVE UploadsInv'
    <2>1. /\ uploadTx[r].op = "remove" /\ uploadTx' = [uploadTx EXCEPT ![r] = NoUpload]
          /\ uploadTx[r] # NoUpload /\ UNCHANGED <<owner, parcelOpen, photos, uploadsAlone>>
          /\ asset' = [f \in AssetRows |-> IF f \in uploadTx[r].seen THEN "DELETED" ELSE asset[f]]
      BY <1>4, IdleUpload DEF RemoveAsset, EndUpload
    <2>e. Ended(r)
      BY <2>1, <1>end
    <2>2. asset' \in [AssetRows -> {"NONE", "UPLOADED", "REPLACED", "DELETED"}]
      BY <2>1, <1>type DEF UploadsTypeOK
    <2>3. UploadsTypeOK' /\ LiveAssets' \subseteq LiveAssets
      BY <2>1, <2>2, <2>e, <1>type DEF UploadsTypeOK, LiveAssets, Ended
    <2>4. photos' + Cardinality(Photographing') <= photos + Cardinality(Photographing)
      BY <2>1, <2>e, <1>sets, <1>type DEF UploadsTypeOK, Ended
    <2>5. ASSUME uploadsAlone PROVE UploadsAlone'
      <3>1. Editable'
        BY <2>1, <2>5 DEF UploadsInv, UploadsAlone, UploadsBusy, Editable
      <3>2. Cardinality(LiveAssets') <= 1
        BY <2>3, <2>5, <1>type, FS_Subset, FS_CardinalityType DEF UploadsInv, UploadsAlone
      <3>3. photos' + Cardinality(Photographing') <= MaxPhotos
        BY <2>1, <2>5, <2>e, <1>sets, <1>type DEF UploadsInv, UploadsAlone, UploadsTypeOK, Ended
      <3> QED
        BY <2>1, <2>5, <3>1, <3>2, <3>3, <2>e DEF UploadsAlone, Ended
    <2> QED
      BY <2>1, <2>3, <2>4, <2>5, <2>e, <1>fewer, <1>sets DEF Ended
  <1>5. ASSUME NEW r \in UploadRequests, SubmitAssetsBegin(r) PROVE UploadsInv'
    BY <1>5, <1>begin DEF SubmitAssetsBegin
  <1>6. ASSUME NEW r \in UploadRequests, SubmitAssets(r) PROVE UploadsInv'
    <2>1. /\ uploadTx[r].op = "submit" /\ uploadTx' = [uploadTx EXCEPT ![r] = NoUpload]
          /\ uploadTx[r] # NoUpload /\ UNCHANGED <<asset, parcelOpen, photos, uploadsAlone>>
          /\ owner' = "SUBMITTED"
      BY <1>6, IdleUpload DEF SubmitAssets, EndUpload
    <2>e. Ended(r)
      BY <2>1, <1>end
    <2>2. UploadsTypeOK' /\ LiveAssets' = LiveAssets
      BY <2>1, <2>e, <1>type DEF UploadsTypeOK, LiveAssets, Ended
    <2>3. photos' + Cardinality(Photographing') <= photos + Cardinality(Photographing)
      BY <2>1, <2>e, <1>sets, <1>type DEF UploadsTypeOK, Ended
    <2>4. ASSUME uploadsAlone PROVE UploadsAlone'
      <3>1. LiveAssets # {}
        BY <2>1, <2>4 DEF UploadsInv, UploadsAlone, UploadsBusy
      <3>2. photos' + Cardinality(Photographing') <= MaxPhotos
        BY <2>1, <2>4, <2>e, <1>sets, <1>type DEF UploadsInv, UploadsAlone, UploadsTypeOK, Ended
      <3> QED
        BY <2>1, <2>2, <2>4, <3>1, <3>2, <2>e DEF UploadsInv, UploadsAlone, Ended
    <2> QED
      BY <2>1, <2>2, <2>3, <2>4, <2>e, <1>fewer, <1>sets DEF Ended
  <1>7. ASSUME NEW r \in UploadRequests, AddPhotoBegin(r) PROVE UploadsInv'
    BY <1>7, <1>begin DEF AddPhotoBegin
  <1>8. ASSUME NEW r \in UploadRequests, AddPhoto(r) PROVE UploadsInv'
    <2>1. /\ uploadTx[r].op = "photo" /\ uploadTx' = [uploadTx EXCEPT ![r] = NoUpload]
          /\ uploadTx[r] # NoUpload /\ UNCHANGED <<owner, asset, parcelOpen, uploadsAlone>>
          /\ photos' = photos + 1
      BY <1>8, IdleUpload DEF AddPhoto, EndUpload
    <2>e. Ended(r)
      BY <2>1, <1>end
    <2>2. UploadsTypeOK' /\ LiveAssets' = LiveAssets /\ Editable' = Editable
      BY <2>1, <2>e, <1>type DEF UploadsTypeOK, LiveAssets, Editable, Ended
    <2>3. photos' + Cardinality(Photographing') = photos + Cardinality(Photographing)
      BY <2>1, <2>e, <1>sets, <1>type DEF UploadsTypeOK, Photographing, Ended
    <2>4. ASSUME uploadsAlone PROVE UploadsAlone'
      BY <2>1, <2>2, <2>3, <2>4, <2>e DEF UploadsInv, UploadsAlone, Ended
    <2>5. photos' + Cardinality(Photographing') <= photos + Cardinality(Photographing)
      BY <2>2, <2>3, <1>sets, <1>type DEF UploadsTypeOK
    <2> QED
      BY <2>1, <2>2, <2>4, <2>5, <2>e, <1>fewer, <1>sets DEF Ended
  <1>9. ASSUME NEW r \in UploadRequests, UploadFails(r) PROVE UploadsInv'
    <2>1. /\ uploadTx' = [uploadTx EXCEPT ![r] = NoUpload] /\ uploadTx[r] # NoUpload
          /\ UNCHANGED <<owner, asset, parcelOpen, photos, uploadsAlone>>
      BY <1>9 DEF UploadFails
    <2>e. Ended(r)
      BY <2>1, <1>end
    <2>2. UploadsTypeOK' /\ LiveAssets' = LiveAssets /\ Editable' = Editable
      BY <2>1, <2>e, <1>type DEF UploadsTypeOK, LiveAssets, Editable, Ended
    <2>3. photos' + Cardinality(Photographing') <= photos + Cardinality(Photographing)
      BY <2>1, <2>e, <1>sets, <1>type DEF UploadsTypeOK, Ended
    <2>4. ASSUME uploadsAlone PROVE UploadsAlone'
      <3>1. photos' + Cardinality(Photographing') <= MaxPhotos
        BY <2>1, <2>4, <2>e, <1>sets, <1>type DEF UploadsInv, UploadsAlone, UploadsTypeOK, Ended
      <3> QED BY <2>1, <2>2, <2>4, <3>1, <2>e DEF UploadsInv, UploadsAlone, Ended
    <2> QED
      BY <2>1, <2>2, <2>3, <2>4, <2>e, <1>fewer, <1>sets DEF Ended
  <1>10. CASE DecideOwner \/ ParcelMatched \/ RemovePhoto \/ UNCHANGED uploadVars
    <2>1. /\ UNCHANGED <<asset, uploadTx, uploadsAlone>>
          /\ owner' = owner \/ (owner' \in {"APPROVED", "EDITABLE"} /\ owner = "SUBMITTED"
                                /\ (uploadsAlone => UploadsBusy = {}))
          /\ photos' = photos \/ (photos' = photos - 1 /\ photos > 0)
      BY <1>10 DEF DecideOwner, ParcelMatched, RemovePhoto, uploadVars, UploadsBusy
    <2>2. /\ LiveAssets' = LiveAssets /\ AddingFiles' = AddingFiles /\ Photographing' = Photographing /\ UploadsBusy' = UploadsBusy
      BY <2>1 DEF LiveAssets, AddingFiles, Photographing, UploadsBusy
    <2>3. UploadsTypeOK' /\ photos' <= photos
      BY <2>1, <1>type DEF UploadsTypeOK
    <2>4. photos' + Cardinality(Photographing') <= photos + Cardinality(Photographing)
      BY <2>2, <2>3, <1>sets, <1>type DEF UploadsTypeOK
    <2>5. ASSUME uploadsAlone PROVE UploadsAlone'
      <3>1. photos' + Cardinality(Photographing') <= MaxPhotos
        BY <2>2, <2>3, <2>5, <1>sets, <1>type DEF UploadsInv, UploadsAlone, UploadsTypeOK
      <3> QED BY <2>1, <2>2, <2>5, <3>1 DEF UploadsInv, UploadsAlone, Editable
    <2> QED
      BY <2>1, <2>2, <2>3, <2>4, <2>5, <1>fewer, <1>sets
  <1> QED
    BY <1>1, <1>2, <1>3, <1>4, <1>5, <1>6, <1>7, <1>8, <1>9, <1>10 DEF UploadsNext

\* Files stay within their limits, and with what was submitted.
LEMMA UploadsHeld == UploadsInv => UploadsHold
  <1> SUFFICES ASSUME UploadsInv PROVE UploadsHold
    OBVIOUS
  <1>1. Downloadable = LiveAssets
    BY DEF UploadsInv, UploadsTypeOK, Downloadable, LiveAssets
  <1>2. Unseen({}) = LiveAssets /\ {} \in SUBSET AddingFiles
    BY DEF Unseen
  <1>3. Cardinality(LiveAssets) \in Nat /\ Cardinality(LiveAssets) <= Cardinality(UploadRequests)
    BY <1>2, FS_EmptySet, FS_CardinalityType DEF UploadsInv
  <1>4. Cardinality(Photographing) \in Nat /\ Cardinality(UploadRequests) \in Nat /\ photos \in Nat
    BY AtMostAll, UploadRequestsAssumption DEF Photographing, UploadsInv, UploadsTypeOK
  <1>5. PhotosWithinLimit
    BY <1>4, MaxPhotosAssumption DEF PhotosWithinLimit, UploadsInv, UploadsAlone
  <1>6. DocumentsHold
    BY <1>1, <1>3 DEF DocumentsHold, UploadsInv, UploadsAlone
  <1> QED
    BY <1>5, <1>6 DEF UploadsHold

-----------------------------------------------------------------------------
(* The verification of a driver. A decision is about what the admin has     *)
(* read; while requests do not overlap that is how the application still    *)
(* is, and so what was approved is what was shown.                          *)

(* What is read and shown stays true while nothing else writes: of the     *)
(* requests that do not overlap, one at most is past its reading; a page   *)
(* that is still fresh shows the status, and of an application that can no *)
(* longer be edited also the sections.                                     *)
Reading == {"edit", "upload", "delete", "submit", "withdraw"} \cup DOMAIN VerificationActions

VerificationTxs == [op : {"idle", "page"} \cup Reading, status : ApplicationStatuses,
                    page : SUBSET ApplicationSections, fresh : BOOLEAN, sent : BOOLEAN]

VerificationTypeOK ==
    /\ application \in ApplicationStatuses
    /\ sections \subseteq ApplicationSections
    /\ verificationTx \in [VerificationRequests -> VerificationTxs]
    /\ verificationAlone \in BOOLEAN /\ approvedUnseen \in BOOLEAN

OneDecides == verificationAlone => \A r, q \in VerificationRequests :
    verificationTx[r].op \in Reading /\ verificationTx[q].op \in Reading => r = q

\* What the route looked at still holds when it writes.
DriverReadHolds(t) ==
    /\ t.op \in {"edit", "upload", "delete", "submit"} => isEditableVerificationStatus(application)
    /\ t.op = "submit" => canSubmit(sections)
    /\ t.op = "withdraw" => application = "SUBMITTED"
    /\ t.op \in DOMAIN VerificationActions =>
           /\ application \in VerificationActions[t.op].from
           /\ t.sent => t.fresh
    /\ t.fresh => /\ t.status = application
                  /\ ~isEditableVerificationStatus(application) => t.page = sections

DriverInv ==
    /\ VerificationTypeOK
    /\ OneDecides
    /\ verificationAlone => \A r \in VerificationRequests : DriverReadHolds(verificationTx[r])
    /\ DriverIsVetted

(* The table of the admin's decisions: none is for an application that the *)
(* driver can still edit.                                                  *)
LEMMA DecisionTable ==
    /\ DOMAIN VerificationActions =
           {"startReview", "approve", "reject", "requestChanges", "suspend", "restore"}
    /\ \A a \in DOMAIN VerificationActions :
           /\ VerificationActions[a].to \in ApplicationStatuses
           /\ \A s \in VerificationActions[a].from : ~isEditableVerificationStatus(s)
  BY DEF VerificationActions, ApplicationStatuses, isEditableVerificationStatus

\* The invariant holds before the driver has applied.
LEMMA DriverInit == DriverVerificationInit => DriverInv
  <1> SUFFICES ASSUME DriverVerificationInit PROVE DriverInv
    OBVIOUS
  <1> USE DecisionTable DEF DriverVerificationInit, NoVerificationTx
  <1>1. VerificationTypeOK
    BY DEF VerificationTypeOK, VerificationTxs, ApplicationStatuses
  <1>2. OneDecides
    BY DEF OneDecides, Reading
  <1>3. \A r \in VerificationRequests : DriverReadHolds(verificationTx[r])
    BY DEF DriverReadHolds
  <1>4. DriverIsVetted
    BY DEF DriverIsVetted, ProfileFollowsApplication, ReviewedIsComplete, ApprovedAsSeen,
           isEditableVerificationStatus, verificationStatusForProfile
  <1> QED
    BY <1>1, <1>2, <1>3, <1>4 DEF DriverInv

(* A route that reads the application keeps the types, and is the only one *)
(* past its reading if requests do not overlap (ReadApplication).          *)
LEMMA ReadingBegins ==
    ASSUME DriverInv, NEW r \in VerificationRequests, NEW op \in Reading,
           verificationTx[r].op \in {"idle", "page"}, ReadApplication(r, op)
    PROVE  /\ VerificationTypeOK' /\ OneDecides' /\ DriverIsVetted'
           /\ verificationTx' = [verificationTx EXCEPT
                  ![r] = [verificationTx[r] EXCEPT !.op = op, !.status = application]]
  <1> USE DEF DriverInv, ReadApplication
  <1>1. verificationTx' = [verificationTx EXCEPT
            ![r] = [verificationTx[r] EXCEPT !.op = op, !.status = application]]
    BY DEF VerificationTypeOK
  <1>2. VerificationTypeOK'
    BY <1>1 DEF VerificationTypeOK, VerificationTxs
  <1>3. OneDecides'
    BY <1>1, DecisionTable DEF OneDecides, VerificationIdle, VerificationTypeOK, Reading
  <1>4. DriverIsVetted'
    BY DEF DriverIsVetted, ProfileFollowsApplication, ReviewedIsComplete, ApprovedAsSeen
  <1> QED
    BY <1>1, <1>2, <1>3, <1>4

(* A write that raises the version ends a request and leaves only stale    *)
(* pages behind (VersionRaised).                                           *)
LEMMA WriteEnds ==
    ASSUME DriverInv, NEW r \in VerificationRequests, verificationTx[r].op \in Reading,
           VersionRaised(r), verificationAlone' = verificationAlone
    PROVE  /\ verificationTx' \in [VerificationRequests -> VerificationTxs]
           /\ OneDecides'
           /\ verificationAlone' => \A q \in VerificationRequests : DriverReadHolds(verificationTx[q])'
  <1> USE DecisionTable DEF DriverInv, VerificationTypeOK, VersionRaised, NoVerificationTx
  <1>1. verificationTx' \in [VerificationRequests -> VerificationTxs]
    BY ZenonT(60) DEF VerificationTxs, ApplicationStatuses
  <1>2. ASSUME verificationAlone, NEW q \in VerificationRequests
        PROVE  verificationTx'[q].op \notin Reading /\ ~verificationTx'[q].fresh
    BY <1>2 DEF OneDecides, Reading, VerificationTxs
  <1>3. OneDecides'
    BY <1>2 DEF OneDecides
  <1> QED
    BY <1>1, <1>2, <1>3 DEF DriverReadHolds, Reading

\* Every step keeps it.
LEMMA DriverNext == DriverInv /\ [DriverVerificationNext]_verificationVars => DriverInv'
  <1> SUFFICES ASSUME DriverInv, [DriverVerificationNext]_verificationVars PROVE DriverInv'
    OBVIOUS
  <1> USE DecisionTable DEF VerificationTypeOK, ApplicationStatuses
  <1>1. ASSUME NEW r \in VerificationRequests, DriverBegins(r) PROVE DriverInv'
    <2>1. PICK op \in {"edit", "upload", "delete", "submit", "withdraw"} :
              /\ ReadApplication(r, op)
              /\ op \in {"edit", "upload", "delete", "submit"}
                     => isEditableVerificationStatus(application)
              /\ op = "submit" => canSubmit(sections)
              /\ op = "withdraw" => application = "SUBMITTED"
      BY <1>1 DEF DriverBegins
    <2>2. /\ VerificationTypeOK' /\ OneDecides' /\ DriverIsVetted'
          /\ verificationTx' = [verificationTx EXCEPT
                 ![r] = [verificationTx[r] EXCEPT !.op = op, !.status = application]]
      BY <1>1, <2>1, ReadingBegins DEF DriverBegins, Reading
    <2>3. ASSUME verificationAlone', NEW q \in VerificationRequests
          PROVE  DriverReadHolds(verificationTx[q])'
      <3> USE <2>1, <2>2, <2>3 DEF ReadApplication, DriverInv, DriverReadHolds, VerificationTxs,
             isEditableVerificationStatus
      <3>1. CASE q = r BY <1>1, <3>1 DEF DriverBegins
      <3>2. CASE q # r BY <3>2
      <3> QED BY <3>1, <3>2
    <2> QED BY <2>2, <2>3 DEF DriverInv
  <1>2. ASSUME NEW r \in VerificationRequests, EditApplication(r) PROVE DriverInv'
    <2> USE <1>2 DEF EditApplication
    <2>1. /\ verificationTx' \in [VerificationRequests -> VerificationTxs]
          /\ OneDecides'
          /\ verificationAlone' => \A q \in VerificationRequests : DriverReadHolds(verificationTx[q])'
      BY WriteEnds DEF Reading
    <2>2. DriverIsVetted'
      BY DEF DriverInv, OneDecides, DriverReadHolds, DriverIsVetted, ProfileFollowsApplication, ReviewedIsComplete,
             ApprovedAsSeen,
             isEditableVerificationStatus, verificationStatusForProfile, canSubmit
    <2> QED BY <2>1, <2>2 DEF DriverInv
  <1>3. ASSUME NEW r \in VerificationRequests, CompleteDocument(r) PROVE DriverInv'
    <2> USE <1>3 DEF CompleteDocument, VersionKept, DriverInv
    <2>1. VerificationTypeOK'
      BY DEF VerificationTxs, NoVerificationTx
    <2>2. OneDecides'
      BY DEF OneDecides, NoVerificationTx, Reading
    <2>3. ASSUME verificationAlone', NEW q \in VerificationRequests
          PROVE  DriverReadHolds(verificationTx[q])'
      <3>1. CASE q = r BY <3>1 DEF DriverReadHolds, NoVerificationTx
      <3>2. CASE q # r BY <2>3, <3>2 DEF DriverReadHolds, OneDecides, Reading
      <3> QED BY <3>1, <3>2
    <2>4. DriverIsVetted'
      BY DEF DriverReadHolds, DriverIsVetted, ProfileFollowsApplication, ReviewedIsComplete,
             ApprovedAsSeen,
             isEditableVerificationStatus
    <2> QED BY <2>1, <2>2, <2>3, <2>4
  <1>4. ASSUME NEW r \in VerificationRequests, DeleteDocument(r) PROVE DriverInv'
    <2> USE <1>4 DEF DeleteDocument, VersionKept, DriverInv
    <2>1. VerificationTypeOK'
      BY DEF VerificationTxs, NoVerificationTx
    <2>2. OneDecides'
      BY DEF OneDecides, NoVerificationTx, Reading
    <2>3. ASSUME verificationAlone', NEW q \in VerificationRequests
          PROVE  DriverReadHolds(verificationTx[q])'
      <3>1. CASE q = r BY <3>1 DEF DriverReadHolds, NoVerificationTx
      <3>2. CASE q # r BY <2>3, <3>2 DEF DriverReadHolds, OneDecides, Reading
      <3> QED BY <3>1, <3>2
    <2>4. DriverIsVetted'
      BY DEF DriverReadHolds, DriverIsVetted, ProfileFollowsApplication, ReviewedIsComplete,
             ApprovedAsSeen,
             isEditableVerificationStatus
    <2> QED BY <2>1, <2>2, <2>3, <2>4
  <1>5. ASSUME NEW r \in VerificationRequests, SubmitApplication(r) PROVE DriverInv'
    <2> USE <1>5 DEF SubmitApplication
    <2>1. /\ verificationTx' \in [VerificationRequests -> VerificationTxs]
          /\ OneDecides'
          /\ verificationAlone' => \A q \in VerificationRequests : DriverReadHolds(verificationTx[q])'
      BY WriteEnds DEF Reading
    <2>2. DriverIsVetted'
      BY DEF DriverInv, OneDecides, DriverReadHolds, DriverIsVetted, ProfileFollowsApplication, ReviewedIsComplete,
             ApprovedAsSeen,
             isEditableVerificationStatus, verificationStatusForProfile, canSubmit
    <2> QED BY <2>1, <2>2 DEF DriverInv
  <1>6. ASSUME NEW r \in VerificationRequests, WithdrawApplication(r) PROVE DriverInv'
    <2> USE <1>6 DEF WithdrawApplication
    <2>1. /\ verificationTx' \in [VerificationRequests -> VerificationTxs]
          /\ OneDecides'
          /\ verificationAlone' => \A q \in VerificationRequests : DriverReadHolds(verificationTx[q])'
      BY WriteEnds DEF Reading
    <2>2. DriverIsVetted'
      BY DEF DriverInv, OneDecides, DriverReadHolds, DriverIsVetted, ProfileFollowsApplication, ReviewedIsComplete,
             ApprovedAsSeen,
             isEditableVerificationStatus, verificationStatusForProfile, canSubmit
    <2> QED BY <2>1, <2>2 DEF DriverInv
  <1>7. ASSUME NEW r \in VerificationRequests, AdminOpensApplication(r) PROVE DriverInv'
    BY <1>7 DEF AdminOpensApplication, DriverInv, OneDecides, DriverReadHolds, Reading,
         VerificationTxs, DriverIsVetted, ProfileFollowsApplication, ReviewedIsComplete,
         ApprovedAsSeen, isEditableVerificationStatus
  <1>8. ASSUME NEW r \in VerificationRequests, AdminDecisionBegin(r) PROVE DriverInv'
    <2>1. PICK a \in DOMAIN VerificationActions :
              application \in VerificationActions[a].from /\ ReadApplication(r, a)
      BY <1>8 DEF AdminDecisionBegin
    <2>2. /\ VerificationTypeOK' /\ OneDecides' /\ DriverIsVetted'
          /\ verificationTx' = [verificationTx EXCEPT
                 ![r] = [verificationTx[r] EXCEPT !.op = a, !.status = application]]
      BY <1>8, <2>1, ReadingBegins DEF AdminDecisionBegin, Reading
    <2>3. ASSUME verificationAlone', NEW q \in VerificationRequests
          PROVE  DriverReadHolds(verificationTx[q])'
      <3> USE <2>1, <2>2, <2>3 DEF ReadApplication, DriverInv, DriverReadHolds, VerificationTxs,
             isEditableVerificationStatus
      <3>1. CASE q = r BY <1>8, <3>1 DEF AdminDecisionBegin, SameVersion
      <3>2. CASE q # r BY <3>2
      <3> QED BY <3>1, <3>2
    <2> QED BY <2>2, <2>3 DEF DriverInv
  <1>9. ASSUME NEW r \in VerificationRequests, AdminDecision(r) PROVE DriverInv'
    <2> USE <1>9 DEF AdminDecision
    <2>1. /\ verificationTx' \in [VerificationRequests -> VerificationTxs]
          /\ OneDecides'
          /\ verificationAlone' => \A q \in VerificationRequests : DriverReadHolds(verificationTx[q])'
      BY WriteEnds DEF Reading
    <2>2. DriverIsVetted'
      BY DEF DriverInv, OneDecides, DriverReadHolds, DriverIsVetted, ProfileFollowsApplication, ReviewedIsComplete,
             ApprovedAsSeen,
             isEditableVerificationStatus, verificationStatusForProfile, canSubmit
    <2> QED BY <2>1, <2>2 DEF DriverInv
  <1>10. ASSUME NEW r \in VerificationRequests, VerificationFails(r) PROVE DriverInv'
    <2> USE <1>10 DEF VerificationFails, VersionKept, DriverInv
    <2>1. VerificationTypeOK'
      BY DEF VerificationTxs, NoVerificationTx
    <2>2. OneDecides'
      BY DEF OneDecides, NoVerificationTx, Reading
    <2>3. ASSUME verificationAlone', NEW q \in VerificationRequests
          PROVE  DriverReadHolds(verificationTx[q])'
      <3>1. CASE q = r BY <3>1 DEF DriverReadHolds, NoVerificationTx
      <3>2. CASE q # r BY <2>3, <3>2 DEF DriverReadHolds, OneDecides, Reading
      <3> QED BY <3>1, <3>2
    <2>4. DriverIsVetted'
      BY DEF DriverReadHolds, DriverIsVetted, ProfileFollowsApplication, ReviewedIsComplete,
             ApprovedAsSeen,
             isEditableVerificationStatus
    <2> QED BY <2>1, <2>2, <2>3, <2>4
  <1>11. CASE UNCHANGED verificationVars
    BY <1>11 DEF verificationVars, DriverInv, OneDecides, DriverReadHolds, DriverIsVetted,
         ProfileFollowsApplication, ReviewedIsComplete, ApprovedAsSeen
  <1> QED
    BY <1>1, <1>2, <1>3, <1>4, <1>5, <1>6, <1>7, <1>8, <1>9, <1>10, <1>11
       DEF DriverVerificationNext

-----------------------------------------------------------------------------
(* Vehicles. The index on the plate holds however requests overlap; while   *)
(* they do not, each writes to the vehicle it has looked at.                *)

VehicleOps == {"create", "edit", "assets", "submit", "setPrimary", "archive"} \cup DOMAIN VehicleActions

VehicleRows == [status : VehicleStatuses \cup {"NONE"}, plate : Plates \cup {NoPlate},
                complete : BOOLEAN, primary : BOOLEAN, archived : BOOLEAN]

VehiclesTypeOK ==
    /\ vehicle \in [VehicleIds -> VehicleRows]
    /\ DOMAIN vehicleTx = VehicleRequests
    /\ \A r \in VehicleRequests :
           \/ vehicleTx[r] = NoVehicleTx
           \/ /\ vehicleTx[r].op \in VehicleOps /\ vehicleTx[r].id \in VehicleIds
              /\ vehicleTx[r].op \in {"create", "edit"} => vehicleTx[r].to \in Plates
    /\ vehiclesAlone \in BOOLEAN

(* Whatever overlaps: the index keeps the plates of its rows apart, a row  *)
(* that is archived or was created stays so, and one is primary at most.   *)
IndexHolds ==
    /\ \A v, w \in VehicleIds : Indexed(v) /\ Indexed(w) /\ v # w => vehicle[v].plate # vehicle[w].plate
    /\ \A v \in VehicleIds : vehicle[v].status = "ARCHIVED" => vehicle[v].archived
    /\ \A r \in VehicleRequests : vehicleTx[r].op \in VehicleOps \ {"create"} =>
           vehicle[vehicleTx[r].id].status # "NONE"
    /\ \A v, w \in VehicleIds : vehicle[v].primary /\ vehicle[w].primary => v = w

OneVehicleRequest == \A r, q \in VehicleRequests :
    vehicleTx[r].op \in VehicleOps /\ vehicleTx[q].op \in VehicleOps => r = q

\* What the route looked at still holds when it writes.
VehicleReadHolds(t) ==
    /\ t.op = "create" => vehicle[t.id].status = "NONE"
    /\ t.op \in {"edit", "assets", "submit"} => isEditableVehicleStatus(vehicle[t.id].status)
    /\ t.op = "submit" => vehicle[t.id].complete
    /\ t.op = "setPrimary" => vehicle[t.id].status = "APPROVED"
    /\ t.op \in DOMAIN VehicleActions => vehicle[t.id].status \in VehicleActions[t.op].from

\* What was submitted is complete, and only what is approved is primary.
VehicleIsVetted(v) ==
    /\ vehicle[v].status \in {"SUBMITTED", "UNDER_REVIEW", "APPROVED", "SUSPENDED"} => vehicle[v].complete
    /\ vehicle[v].primary => vehicle[v].status = "APPROVED"
    /\ vehicle[v].archived => vehicle[v].status = "ARCHIVED"

VehicleInv ==
    /\ VehiclesTypeOK
    /\ IndexHolds
    /\ vehiclesAlone =>
           /\ OneVehicleRequest
           /\ \A r \in VehicleRequests : VehicleReadHolds(vehicleTx[r])
           /\ \A v \in VehicleIds : VehicleIsVetted(v)

(* The table of the decisions: they are about vehicles that were submitted. *)
LEMMA VehicleDecisionTable ==
    /\ DOMAIN VehicleActions =
           {"startReview", "approve", "reject", "requestChanges", "suspend", "restore"}
    /\ \A a \in DOMAIN VehicleActions :
           /\ VehicleActions[a].to \in VehicleStatuses \ {"ARCHIVED"}
           /\ VehicleActions[a].from \subseteq {"SUBMITTED", "UNDER_REVIEW", "APPROVED", "SUSPENDED"}
           /\ a # "suspend" => "APPROVED" \notin VehicleActions[a].from
  BY DEF VehicleActions, VehicleStatuses

(* A decision changes the status, and may take the mark of the primary.     *)
LEMMA DecidedVehicle ==
    ASSUME NEW row \in VehicleRows, NEW a \in DOMAIN VehicleActions
    PROVE  /\ Decided(row, a) \in VehicleRows
           /\ Decided(row, a).status = VehicleActions[a].to
           /\ Decided(row, a).plate = row.plate
           /\ Decided(row, a).complete = row.complete
           /\ Decided(row, a).archived = row.archived
           /\ Decided(row, a).primary <=> row.primary /\ a # "suspend"
  <1>1. PICK c \in BOOLEAN, x \in VehicleStatuses :
            /\ Decided(row, a) = [row EXCEPT !.status = x, !.primary = c]
            /\ c = (row.primary /\ a # "suspend") /\ x = VehicleActions[a].to
    BY VehicleDecisionTable, Zenon DEF Decided
  <1>2. c <=> row.primary /\ a # "suspend"
    BY <1>1
  <1>3. LET new == [row EXCEPT !.status = x, !.primary = c]
        IN  /\ new \in VehicleRows /\ new.status = x /\ new.primary = c
            /\ new.plate = row.plate /\ new.complete = row.complete
            /\ new.archived = row.archived
    BY DEF VehicleRows
  <1> QED
    BY <1>1, <1>2, <1>3

(* The invariant implies what the run checks.                              *)
LEMMA VehiclesVetted == VehicleInv => VehiclesAreVetted
  BY DEF VehicleInv, VehiclesTypeOK, VehicleRows, IndexHolds, Indexed, VehicleIsVetted,
         VehiclesAreVetted, UsablePlatesDiffer, PrimaryIsUsable, ArchivedForGood, Usable

\* The invariant holds before there is a vehicle.
LEMMA VehicleInit == VehiclesInit => VehicleInv
  BY VehicleDecisionTable DEF VehiclesInit, VehicleInv, VehiclesTypeOK, VehicleRows, VehicleStatuses,
         IndexHolds, Indexed, OneVehicleRequest, VehicleReadHolds, VehicleIsVetted,
         NoVehicle, NoVehicleTx, VehicleOps, NoPlate

(* A route that reads a vehicle (BeginVehicle).                            *)
LEMMA VehicleBegin ==
    ASSUME VehicleInv, NEW r \in VehicleRequests, NEW op \in VehicleOps, NEW v \in VehicleIds,
           NEW to, BeginVehicle(r, op, v, to),
           op \in {"create", "edit"} => to \in Plates,
           op # "create" => vehicle[v].status # "NONE",
           VehicleReadHolds([op |-> op, id |-> v, to |-> to])
    PROVE  VehicleInv'
  <1> USE VehicleDecisionTable DEF VehicleInv, BeginVehicle, VehiclesTypeOK
  <1> DEFINE t == [op |-> op, id |-> v, to |-> to]
  <1>1. /\ vehicleTx'[r] = t
        /\ \A q \in VehicleRequests \ {r} : vehicleTx'[q] = vehicleTx[q]
        /\ vehicle' = vehicle /\ vehiclesAlone' = vehiclesAlone
    OBVIOUS
  <1> HIDE DEF t
  <1>2. t.op = op /\ t.id = v /\ t.to = to
    BY DEF t
  <1>3. VehiclesTypeOK'
    BY <1>1, <1>2
  <1>4. IndexHolds'
    BY <1>1, <1>2 DEF IndexHolds, Indexed
  <1>5. vehiclesAlone' => OneVehicleRequest'
    BY <1>1 DEF OneVehicleRequest, VehicleOps
  <1>6. ASSUME vehiclesAlone', NEW q \in VehicleRequests PROVE VehicleReadHolds(vehicleTx[q])'
    <2>1. CASE q = r BY <1>1, <2>1 DEF t, VehicleReadHolds
    <2>2. CASE q # r BY <1>1, <1>6, <2>2 DEF VehicleReadHolds
    <2> QED BY <2>1, <2>2
  <1>7. ASSUME vehiclesAlone', NEW w \in VehicleIds PROVE VehicleIsVetted(w)'
    BY <1>1, <1>7 DEF VehicleIsVetted
  <1> QED
    BY <1>3, <1>4, <1>5, <1>6, <1>7

(* A route that ends: if it was alone, no other has read anything.         *)
LEMMA VehicleEnd ==
    ASSUME VehicleInv, NEW r \in VehicleRequests, NEW ops \in SUBSET VehicleOps, EndVehicle(r, ops)
    PROVE  /\ vehicleTx' = [vehicleTx EXCEPT ![r] = NoVehicleTx]
           /\ vehicleTx[r].op \in ops /\ vehicleTx[r].op \in VehicleOps /\ vehicleTx[r].id \in VehicleIds
           /\ vehicleTx[r].op \in {"create", "edit"} => vehicleTx[r].to \in Plates
           /\ vehiclesAlone' = vehiclesAlone
           /\ vehiclesAlone => \A q \in VehicleRequests : vehicleTx'[q] = NoVehicleTx
           /\ OneVehicleRequest' \/ ~vehiclesAlone
           /\ vehiclesAlone' => \A q \in VehicleRequests : VehicleReadHolds(vehicleTx[q])'
  BY VehicleDecisionTable
  DEF VehicleInv, VehiclesTypeOK, EndVehicle, NoVehicleTx, VehicleOps, OneVehicleRequest, VehicleReadHolds

\* Every step keeps it.
LEMMA VehicleNext == VehicleInv /\ [VehiclesNext]_vehicleVars => VehicleInv'
  <1> SUFFICES ASSUME VehicleInv, [VehiclesNext]_vehicleVars PROVE VehicleInv'
    OBVIOUS
  <1> USE VehicleDecisionTable
  <1>1. ASSUME NEW r \in VehicleRequests, NEW v \in VehicleIds, NEW p \in Plates, CreateVehicleBegin(r, v, p) PROVE VehicleInv'
    BY <1>1, VehicleBegin DEF CreateVehicleBegin, VehicleReadHolds, VehicleOps,
       isEditableVehicleStatus, VehicleInv
  <1>2. ASSUME NEW r \in VehicleRequests, NEW v \in VehicleIds, NEW p \in Plates, EditVehicleBegin(r, v, p) PROVE VehicleInv'
    BY <1>2, VehicleBegin DEF EditVehicleBegin, VehicleReadHolds, VehicleOps,
       isEditableVehicleStatus, VehicleInv
  <1>ab. ASSUME NEW r \in VehicleRequests, NEW v \in VehicleIds, AssetsBegin(r, v) PROVE VehicleInv'
    BY <1>ab, VehicleBegin DEF AssetsBegin, VehicleReadHolds, VehicleOps,
       isEditableVehicleStatus, VehicleInv
  <1>3. ASSUME NEW r \in VehicleRequests, NEW v \in VehicleIds, SubmitBegin(r, v) PROVE VehicleInv'
    BY <1>3, VehicleBegin DEF SubmitBegin, Submittable, VehicleReadHolds, VehicleOps,
       isEditableVehicleStatus, VehicleInv
  <1>4. ASSUME NEW r \in VehicleRequests, NEW v \in VehicleIds, SetPrimaryBegin(r, v) PROVE VehicleInv'
    BY <1>4, VehicleBegin DEF SetPrimaryBegin, VehicleReadHolds, VehicleOps,
       isEditableVehicleStatus, VehicleInv
  <1>5. ASSUME NEW r \in VehicleRequests, NEW v \in VehicleIds, ArchiveBegin(r, v) PROVE VehicleInv'
    BY <1>5, VehicleBegin DEF ArchiveBegin, VehicleReadHolds, VehicleOps,
       isEditableVehicleStatus, VehicleInv
  <1>6. ASSUME NEW r \in VehicleRequests, NEW v \in VehicleIds, VehicleDecisionBegin(r, v)
        PROVE  VehicleInv'
    <2>1. PICK a \in DOMAIN VehicleActions : /\ vehicle[v].status \in VehicleActions[a].from
                                            /\ BeginVehicle(r, a, v, VehicleActions[a].to)
      BY <1>6 DEF VehicleDecisionBegin
    <2> QED BY <2>1, VehicleBegin DEF VehicleReadHolds, VehicleOps
  <1>7. ASSUME NEW r \in VehicleRequests, CreateVehicle(r) PROVE VehicleInv'
    <2> USE <1>7 DEF CreateVehicle
    <2>1. /\ vehicleTx' = [vehicleTx EXCEPT ![r] = NoVehicleTx]
          /\ vehicleTx[r].op \in {"create"} /\ vehicleTx[r].id \in VehicleIds
          /\ vehicleTx[r].op \in {"create", "edit"} => vehicleTx[r].to \in Plates
          /\ vehiclesAlone' = vehiclesAlone
          /\ vehiclesAlone' => OneVehicleRequest'
          /\ vehiclesAlone' => \A q \in VehicleRequests : VehicleReadHolds(vehicleTx[q])'
      BY VehicleEnd DEF VehicleOps
    <2> USE DEF VehicleInv
    <2>2. VehiclesTypeOK'
      BY <2>1 DEF VehiclesTypeOK, VehicleRows, VehicleStatuses, NoVehicle, Decided
    <2>3. IndexHolds'
      BY <2>1 DEF IndexHolds, Indexed, PlateFree, VehiclesTypeOK, VehicleRows, VehicleStatuses, NoVehicle, NoVehicleTx,
             Decided, VehicleOps
    <2>4. ASSUME vehiclesAlone', NEW v \in VehicleIds PROVE VehicleIsVetted(v)'
      BY <2>1, <2>4, SMTT(30) DEF VehicleIsVetted, VehicleReadHolds, VehiclesTypeOK, VehicleRows, NoVehicle,
             isEditableVehicleStatus, Decided
    <2> QED BY <2>1, <2>2, <2>3, <2>4
  <1>8. ASSUME NEW r \in VehicleRequests, EditVehicle(r) PROVE VehicleInv'
    <2> USE <1>8 DEF EditVehicle
    <2>1. /\ vehicleTx' = [vehicleTx EXCEPT ![r] = NoVehicleTx]
          /\ vehicleTx[r].op \in {"edit"} /\ vehicleTx[r].id \in VehicleIds
          /\ vehicleTx[r].op \in {"create", "edit"} => vehicleTx[r].to \in Plates
          /\ vehiclesAlone' = vehiclesAlone
          /\ vehiclesAlone' => OneVehicleRequest'
          /\ vehiclesAlone' => \A q \in VehicleRequests : VehicleReadHolds(vehicleTx[q])'
      BY VehicleEnd DEF VehicleOps
    <2> USE DEF VehicleInv
    <2>2. VehiclesTypeOK'
      BY <2>1 DEF VehiclesTypeOK, VehicleRows, VehicleStatuses, NoVehicle, Decided
    <2>3. IndexHolds'
      BY <2>1, SMTT(30) DEF IndexHolds, Indexed, PlateFree, VehiclesTypeOK, VehicleRows, VehicleStatuses, NoVehicle, NoVehicleTx,
             Decided, VehicleOps
    <2>4. ASSUME vehiclesAlone', NEW v \in VehicleIds PROVE VehicleIsVetted(v)'
      BY <2>1, <2>4, SMTT(30) DEF VehicleIsVetted, VehicleReadHolds, VehiclesTypeOK, VehicleRows, NoVehicle,
             isEditableVehicleStatus, Decided
    <2> QED BY <2>1, <2>2, <2>3, <2>4
  <1>assets. ASSUME NEW r \in VehicleRequests, ChangeAssets(r) PROVE VehicleInv'
    <2> USE <1>assets DEF ChangeAssets
    <2>1. /\ vehicleTx' = [vehicleTx EXCEPT ![r] = NoVehicleTx]
          /\ vehicleTx[r].op \in {"assets"} /\ vehicleTx[r].id \in VehicleIds
          /\ vehicleTx[r].op \in {"create", "edit"} => vehicleTx[r].to \in Plates
          /\ vehiclesAlone' = vehiclesAlone
          /\ vehiclesAlone' => OneVehicleRequest'
          /\ vehiclesAlone' => \A q \in VehicleRequests : VehicleReadHolds(vehicleTx[q])'
      BY VehicleEnd DEF VehicleOps
    <2> USE DEF VehicleInv
    <2>2. VehiclesTypeOK'
      BY <2>1 DEF VehiclesTypeOK, VehicleRows, VehicleStatuses, NoVehicle, Decided
    <2>3. IndexHolds'
      BY <2>1, SMTT(30) DEF IndexHolds, Indexed, PlateFree, VehiclesTypeOK, VehicleRows, VehicleStatuses, NoVehicle, NoVehicleTx,
             Decided, VehicleOps
    <2>4. ASSUME vehiclesAlone', NEW v \in VehicleIds PROVE VehicleIsVetted(v)'
      BY <2>1, <2>4, SMTT(30) DEF VehicleIsVetted, VehicleReadHolds, VehiclesTypeOK, VehicleRows, NoVehicle,
             isEditableVehicleStatus, Decided
    <2> QED BY <2>1, <2>2, <2>3, <2>4
  <1>9. ASSUME NEW r \in VehicleRequests, SubmitVehicle(r) PROVE VehicleInv'
    <2> USE <1>9 DEF SubmitVehicle
    <2>1. /\ vehicleTx' = [vehicleTx EXCEPT ![r] = NoVehicleTx]
          /\ vehicleTx[r].op \in {"submit"} /\ vehicleTx[r].id \in VehicleIds
          /\ vehicleTx[r].op \in {"create", "edit"} => vehicleTx[r].to \in Plates
          /\ vehiclesAlone' = vehiclesAlone
          /\ vehiclesAlone' => OneVehicleRequest'
          /\ vehiclesAlone' => \A q \in VehicleRequests : VehicleReadHolds(vehicleTx[q])'
      BY VehicleEnd DEF VehicleOps
    <2> USE DEF VehicleInv
    <2>2. VehiclesTypeOK'
      BY <2>1 DEF VehiclesTypeOK, VehicleRows, VehicleStatuses, NoVehicle, Decided
    <2>3. IndexHolds'
      BY <2>1 DEF IndexHolds, Indexed, PlateFree, VehiclesTypeOK, VehicleRows, VehicleStatuses, NoVehicle, NoVehicleTx,
             Decided, VehicleOps
    <2>4. ASSUME vehiclesAlone', NEW v \in VehicleIds PROVE VehicleIsVetted(v)'
      BY <2>1, <2>4 DEF VehicleIsVetted, VehicleReadHolds, VehiclesTypeOK, VehicleRows, NoVehicle,
             isEditableVehicleStatus, Decided
    <2> QED BY <2>1, <2>2, <2>3, <2>4
  <1>10. ASSUME NEW r \in VehicleRequests, SetPrimary(r) PROVE VehicleInv'
    <2> USE <1>10 DEF SetPrimary
    <2>1. /\ vehicleTx' = [vehicleTx EXCEPT ![r] = NoVehicleTx]
          /\ vehicleTx[r].op \in {"setPrimary"} /\ vehicleTx[r].id \in VehicleIds
          /\ vehicleTx[r].op \in {"create", "edit"} => vehicleTx[r].to \in Plates
          /\ vehiclesAlone' = vehiclesAlone
          /\ vehiclesAlone' => OneVehicleRequest'
          /\ vehiclesAlone' => \A q \in VehicleRequests : VehicleReadHolds(vehicleTx[q])'
      BY VehicleEnd DEF VehicleOps
    <2> USE DEF VehicleInv
    <2>2. VehiclesTypeOK'
      <3>1. ASSUME NEW v \in VehicleIds PROVE vehicle'[v] \in VehicleRows
        <4> DEFINE b == v = vehicleTx[r].id
        <4>1. b \in BOOLEAN OBVIOUS
        <4>2. vehicle'[v] = [vehicle[v] EXCEPT !.primary = b] OBVIOUS
        <4> HIDE DEF b
        <4> QED BY <4>1, <4>2, SMTT(30) DEF VehiclesTypeOK, VehicleRows
      <3> QED BY <2>1, <3>1 DEF VehiclesTypeOK
    <2>3. IndexHolds'
      BY <2>1 DEF IndexHolds, Indexed, PlateFree, VehiclesTypeOK, VehicleRows, VehicleStatuses, NoVehicle, NoVehicleTx,
             Decided, VehicleOps
    <2>4. ASSUME vehiclesAlone', NEW v \in VehicleIds PROVE VehicleIsVetted(v)'
      BY <2>1, <2>4 DEF VehicleIsVetted, VehicleReadHolds, VehiclesTypeOK, VehicleRows, NoVehicle,
             isEditableVehicleStatus, Decided
    <2> QED BY <2>1, <2>2, <2>3, <2>4
  <1>11. ASSUME NEW r \in VehicleRequests, ArchiveVehicle(r) PROVE VehicleInv'
    <2> USE <1>11 DEF ArchiveVehicle
    <2>1. /\ vehicleTx' = [vehicleTx EXCEPT ![r] = NoVehicleTx]
          /\ vehicleTx[r].op \in {"archive"} /\ vehicleTx[r].id \in VehicleIds
          /\ vehicleTx[r].op \in {"create", "edit"} => vehicleTx[r].to \in Plates
          /\ vehiclesAlone' = vehiclesAlone
          /\ vehiclesAlone' => OneVehicleRequest'
          /\ vehiclesAlone' => \A q \in VehicleRequests : VehicleReadHolds(vehicleTx[q])'
      BY VehicleEnd DEF VehicleOps
    <2> USE DEF VehicleInv
    <2>2. VehiclesTypeOK'
      BY <2>1 DEF VehiclesTypeOK, VehicleRows, VehicleStatuses, NoVehicle, Decided
    <2>3. IndexHolds'
      BY <2>1, SMTT(30) DEF IndexHolds, Indexed, PlateFree, VehiclesTypeOK, VehicleRows, VehicleStatuses, NoVehicle, NoVehicleTx,
             Decided, VehicleOps
    <2>4. ASSUME vehiclesAlone', NEW v \in VehicleIds PROVE VehicleIsVetted(v)'
      <3>1. CASE v = vehicleTx[r].id
        BY <2>1, <3>1 DEF VehicleIsVetted, VehiclesTypeOK, VehicleRows
      <3>2. CASE v # vehicleTx[r].id
        BY <2>1, <2>4, <3>2 DEF VehicleIsVetted, VehiclesTypeOK
      <3> QED BY <3>1, <3>2
    <2> QED BY <2>1, <2>2, <2>3, <2>4
  <1>12. ASSUME NEW r \in VehicleRequests, VehicleDecision(r) PROVE VehicleInv'
    <2> USE <1>12 DEF VehicleDecision
    <2>1. /\ vehicleTx' = [vehicleTx EXCEPT ![r] = NoVehicleTx]
          /\ vehicleTx[r].op \in DOMAIN VehicleActions /\ vehicleTx[r].id \in VehicleIds
          /\ vehicleTx[r].op \in {"create", "edit"} => vehicleTx[r].to \in Plates
          /\ vehiclesAlone' = vehiclesAlone
          /\ vehiclesAlone' => OneVehicleRequest'
          /\ vehiclesAlone' => \A q \in VehicleRequests : VehicleReadHolds(vehicleTx[q])'
      BY VehicleEnd DEF VehicleOps
    <2> USE DEF VehicleInv
    <2> DEFINE id == vehicleTx[r].id
               row == Decided(vehicle[id], vehicleTx[r].op)
    <2>a. /\ vehicle' = [vehicle EXCEPT ![id] = row]
          /\ vehicle[id] \in VehicleRows
      BY <2>1 DEF VehiclesTypeOK
    <2>b. /\ row \in VehicleRows
          /\ row.status = VehicleActions[vehicleTx[r].op].to
          /\ row.plate = vehicle[id].plate /\ row.complete = vehicle[id].complete
          /\ row.archived = vehicle[id].archived
          /\ row.primary <=> vehicle[id].primary /\ vehicleTx[r].op # "suspend"
      BY <2>1, <2>a, DecidedVehicle
    <2> HIDE DEF row
    <2>2. VehiclesTypeOK'
      BY <2>1, <2>a, <2>b DEF VehiclesTypeOK
    <2>3. IndexHolds'
      BY <2>1, <2>a, <2>b, SMTT(30) DEF IndexHolds, Indexed, PlateFree, VehiclesTypeOK, NoVehicleTx, VehicleOps,
             VehicleStatuses
    <2>4. ASSUME vehiclesAlone', NEW v \in VehicleIds PROVE VehicleIsVetted(v)'
      <3>1. CASE v = id
        BY <2>1, <2>4, <2>a, <2>b, <3>1, SMTT(30) DEF VehicleIsVetted, VehicleReadHolds, VehiclesTypeOK
      <3>2. CASE v # id
        BY <2>1, <2>4, <2>a, <3>2 DEF VehicleIsVetted, VehiclesTypeOK
      <3> QED BY <3>1, <3>2
    <2> QED BY <2>1, <2>2, <2>3, <2>4
  <1>13. ASSUME NEW r \in VehicleRequests, VehicleRequestFails(r) PROVE VehicleInv'
    <2> USE <1>13 DEF VehicleRequestFails
    <2>0. EndVehicle(r, VehicleOps)
      BY DEF EndVehicle, VehicleInv, VehiclesTypeOK, NoVehicleTx
    <2>1. /\ vehicleTx' = [vehicleTx EXCEPT ![r] = NoVehicleTx]
          /\ vehicleTx[r].op \in VehicleOps /\ vehicleTx[r].id \in VehicleIds
          /\ vehicleTx[r].op \in {"create", "edit"} => vehicleTx[r].to \in Plates
          /\ vehiclesAlone' = vehiclesAlone
          /\ vehiclesAlone' => OneVehicleRequest'
          /\ vehiclesAlone' => \A q \in VehicleRequests : VehicleReadHolds(vehicleTx[q])'
      BY <2>0, VehicleEnd
    <2> USE DEF VehicleInv
    <2>2. VehiclesTypeOK'
      BY <2>1 DEF VehiclesTypeOK, VehicleRows, VehicleStatuses, NoVehicle, Decided
    <2>3. IndexHolds'
      BY <2>1 DEF IndexHolds, Indexed, PlateFree, VehiclesTypeOK, VehicleRows, VehicleStatuses, NoVehicle, NoVehicleTx,
             Decided, VehicleOps
    <2>4. ASSUME vehiclesAlone', NEW v \in VehicleIds PROVE VehicleIsVetted(v)'
      BY <2>1, <2>4 DEF VehicleIsVetted, VehicleReadHolds, VehiclesTypeOK, VehicleRows, NoVehicle,
             isEditableVehicleStatus, Decided
    <2> QED BY <2>1, <2>2, <2>3, <2>4
  <1>14. CASE UNCHANGED vehicleVars
    BY <1>14 DEF vehicleVars, VehicleInv, VehiclesTypeOK, IndexHolds, Indexed, OneVehicleRequest,
       VehicleReadHolds, VehicleIsVetted
  <1> QED
    BY <1>1, <1>2, <1>ab, <1>3, <1>4, <1>5, <1>6, <1>7, <1>8, <1>assets, <1>9, <1>10, <1>11, <1>12, <1>13, <1>14
       DEF VehiclesNext, VehicleBegins

-----------------------------------------------------------------------------
(* Sessions. The cookie carries the token of its session, unless the        *)
(* answer with the new token is still on its way.                           *)

SessionRows == [status : {"NONE", "ACTIVE", "REVOKED"}, expired : BOOLEAN, token : Nat]
AuthOps == {"register", "login", "refresh", "logout", "revoke", "answer"}
AuthRows == [op : AuthOps, id : SessionIds, token : Nat]

SessionsTypeOK ==
    /\ users \in {0, 1}
    /\ session \in [SessionIds -> SessionRows]
    /\ cookie \in [id : SessionIds, token : Nat] \cup {NoCookie}
    /\ authTx \in [AuthRequests -> AuthRows \cup {NoAuthTx}]
    /\ authAlone \in BOOLEAN
    /\ loggedOut \subseteq SessionIds

(* While nothing overlaps, an answer carries the token of its session, and *)
(* the cookie is that token unless an answer is on its way.                *)
TokenFlows ==
    /\ \A r, q \in AuthRequests : authTx[r].op # "idle" /\ authTx[q].op # "idle" => r = q
    /\ \A r \in AuthRequests : authTx[r].op = "answer" =>
           authTx[r].token = session[authTx[r].id].token
    /\ \/ cookie = NoCookie
       \/ cookie.token = session[cookie.id].token
       \/ \E r \in AuthRequests : authTx[r].op = "answer" /\ authTx[r].id = cookie.id

SessionsInv ==
    /\ SessionsTypeOK
    /\ LoggedOutForGood
    /\ authAlone => TokenFlows

\* A request that has not begun, and one that has.
LEMMA IdleAuth ==
    /\ NoAuthTx.op = "idle" /\ "idle" \notin AuthOps
    /\ \A t \in AuthRows : t.op \in AuthOps /\ t.id \in SessionIds /\ t.token \in Nat
    /\ \A t \in AuthRows \cup {NoAuthTx} : t.op # "idle" => t \in AuthRows
  BY DEF NoAuthTx, AuthRows, AuthOps

\* The invariant holds before anybody has registered.
LEMMA SessionsStart == SessionsInit => SessionsInv
  <1> SUFFICES ASSUME SessionsInit PROVE SessionsInv
    OBVIOUS
  <1> USE DEF SessionsInit
  <1>1. session \in [SessionIds -> SessionRows]
    BY DEF SessionRows, NoSession
  <1>2. authTx \in [AuthRequests -> AuthRows \cup {NoAuthTx}]
        /\ \A r \in AuthRequests : authTx[r].op = "idle"
    BY IdleAuth
  <1> QED
    BY <1>1, <1>2 DEF SessionsInv, SessionsTypeOK, LoggedOutForGood, TokenFlows

\* Every step keeps it.
LEMMA SessionsStep == SessionsInv /\ [SessionsNext]_sessionVars => SessionsInv'
  <1> SUFFICES ASSUME SessionsInv, [SessionsNext]_sessionVars PROVE SessionsInv'
    OBVIOUS
  <1>type. /\ session \in [SessionIds -> SessionRows] /\ loggedOut \subseteq SessionIds
           /\ authTx \in [AuthRequests -> AuthRows \cup {NoAuthTx}] /\ authAlone \in BOOLEAN
           /\ cookie \in [id : SessionIds, token : Nat] \cup {NoCookie} /\ users \in {0, 1}
    BY DEF SessionsInv, SessionsTypeOK
  <1>begin. ASSUME NEW r \in AuthRequests, NEW op \in AuthOps \ {"answer"}, NEW s \in SessionIds,
                   BeginAuth(r, op, s, 0)
            PROVE  SessionsInv'
    <2>1. /\ authTx' = [authTx EXCEPT ![r] = [op |-> op, id |-> s, token |-> 0]]
          /\ UNCHANGED <<users, session, cookie, authAlone, loggedOut>>
          /\ authTx[r].op = "idle"
          /\ authAlone => \A q \in AuthRequests : authTx[q].op = "idle"
      BY <1>begin DEF BeginAuth
    <2>2. \A q \in AuthRequests :
              authTx'[q] = IF q = r THEN [op |-> op, id |-> s, token |-> 0] ELSE authTx[q]
      BY <2>1, <1>type
    <2>3. authTx' \in [AuthRequests -> AuthRows \cup {NoAuthTx}]
      BY <2>1, <1>type DEF AuthRows
    <2>4. authAlone => TokenFlows'
      BY <2>1, <2>2 DEF SessionsInv, TokenFlows
    <2> QED
      BY <2>1, <2>3, <2>4 DEF SessionsInv, SessionsTypeOK, LoggedOutForGood
  \* A request that ends without an answer.
  <1>end. ASSUME NEW r \in AuthRequests, authTx[r].op # "idle",
                 authTx' = [authTx EXCEPT ![r] = NoAuthTx]
          PROVE  /\ authTx' \in [AuthRequests -> AuthRows \cup {NoAuthTx}]
                 /\ authAlone => \A q \in AuthRequests : authTx'[q].op = "idle"
    BY <1>type, <1>end, IdleAuth DEF SessionsInv, TokenFlows
  \* A row that is written, and the answer to it.
  <1>answer. ASSUME NEW r \in AuthRequests, NEW row \in SessionRows, NEW i \in SessionIds,
                    authTx[r].op # "idle", i = authTx[r].id,
                    session' = [session EXCEPT ![i] = row],
                    i \in loggedOut => row.status = "REVOKED",
                    Answer(r, "answer", i, row.token), users' \in {0, 1},
                    UNCHANGED <<cookie, authAlone, loggedOut>>
             PROVE  SessionsInv'
    <2>1. row.token \in Nat
      BY DEF SessionRows
    <2>2. /\ authTx' \in [AuthRequests -> AuthRows \cup {NoAuthTx}]
          /\ \A q \in AuthRequests : authTx'[q] =
                 IF q = r THEN [op |-> "answer", id |-> i, token |-> row.token] ELSE authTx[q]
      BY <1>type, <1>answer, <2>1 DEF Answer, AuthRows, AuthOps
    <2>3. /\ session' \in [SessionIds -> SessionRows]
          /\ \A s \in SessionIds : session'[s] = IF s = i THEN row ELSE session[s]
      BY <1>type, <1>answer
    <2>4. LoggedOutForGood'
      BY <2>3, <1>answer, <1>type DEF SessionsInv, LoggedOutForGood
    <2>5. authAlone => \A q \in AuthRequests \ {r} : authTx[q].op = "idle"
      BY <1>answer DEF SessionsInv, TokenFlows
    <2>6. ASSUME authAlone PROVE TokenFlows'
      <3>1. \A q \in AuthRequests : authTx'[q].op # "idle" => q = r
        BY <2>2, <2>5, <2>6
      <3>2. authTx'[r].op = "answer" /\ authTx'[r].id = i /\ authTx'[r].token = row.token
        BY <2>2
      <3>3. session'[i].token = row.token
        BY <2>3
      <3>4. cookie # NoCookie => cookie.id \in SessionIds
        BY <1>type
      <3>5. cookie # NoCookie /\ cookie.id # i => cookie.token = session'[cookie.id].token
        BY <2>3, <2>5, <2>6, <1>answer, <3>4 DEF SessionsInv, TokenFlows
      <3> QED
        BY <3>1, <3>2, <3>3, <3>4, <3>5, <1>answer DEF TokenFlows
    <2> QED
      BY <1>answer, <1>type, <2>2, <2>3, <2>4, <2>6 DEF SessionsInv, SessionsTypeOK
  \* Sessions that are revoked, or expire, keep their tokens.
  <1>keep. ASSUME session' \in [SessionIds -> SessionRows],
                  \A s \in SessionIds : session'[s].token = session[s].token
           PROVE  authAlone /\ UNCHANGED <<cookie, authTx>> => TokenFlows'
    BY <1>keep, <1>type, IdleAuth DEF SessionsInv, TokenFlows
  <1>1. ASSUME NEW r \in AuthRequests, NEW s \in SessionIds, LoginBegin(r, s) PROVE SessionsInv'
    BY <1>1, <1>begin DEF LoginBegin, AuthOps
  <1>2. ASSUME NEW r \in AuthRequests, Login(r) PROVE SessionsInv'
    <2> DEFINE row == [NoSession EXCEPT !.status = "ACTIVE", !.token = 1]
    <2>1. NoSession \in SessionRows
      BY DEF NoSession, SessionRows
    <2>2. row \in SessionRows /\ row.token = 1
      BY <2>1 DEF SessionRows
    <2> HIDE DEF row
    <2>3. PICK i \in SessionIds : i = authTx[r].id
      BY <1>2, <1>type, IdleAuth DEF Login
    <2>4. /\ authTx[r].op # "idle" /\ session[i].status = "NONE"
          /\ session' = [session EXCEPT ![i] = row] /\ Answer(r, "answer", i, 1)
          /\ UNCHANGED <<cookie, authAlone, loggedOut>>
      BY <1>2, <2>3 DEF Login, row
    <2>5. users' \in {0, 1}
      <3>1. \/ users' = users + 1 /\ users = 0
            \/ users' = users
        BY <1>2, Zenon DEF Login, TelegramIdUnused
      <3> QED BY <3>1, <1>type
    <2>6. i \notin loggedOut
      BY <2>4 DEF SessionsInv, LoggedOutForGood
    <2> QED
      BY <2>2, <2>3, <2>4, <2>5, <2>6, <1>answer
  <1>3. ASSUME NEW r \in AuthRequests, RefreshBegin(r) PROVE SessionsInv'
    BY <1>3, <1>begin DEF RefreshBegin, AuthOps
  <1>4. ASSUME NEW r \in AuthRequests, Refresh(r) PROVE SessionsInv'
    <2>1. PICK i \in SessionIds : i = authTx[r].id
      BY <1>4, <1>type, IdleAuth DEF Refresh
    <2> DEFINE row == Refreshed(session[i])
    <2>2. /\ row \in SessionRows /\ row.status = session[i].status
          /\ row.token = session[i].token + 1
      BY <1>type DEF Refreshed, SessionRows
    <2> HIDE DEF row
    <2>3. /\ authTx[r].op # "idle" /\ session' = [session EXCEPT ![i] = row]
          /\ Answer(r, "answer", i, row.token) /\ UNCHANGED <<users, cookie, authAlone, loggedOut>>
      <3>1. session' = [session EXCEPT ![i] = Refreshed(session[i])]
        BY <1>4, <2>1 DEF Refresh
      <3> QED BY <3>1, <1>4, <2>1, <2>2 DEF Refresh, row
    <2> QED
      BY <2>1, <2>2, <2>3, <1>answer, <1>type DEF SessionsInv, LoggedOutForGood
  <1>5. ASSUME NEW r \in AuthRequests, AnswerArrives(r) PROVE SessionsInv'
    <2>1. /\ authTx[r] \in AuthRows /\ authTx[r].op = "answer" /\ cookie' = SetCookie(authTx[r])
          /\ authTx' = [authTx EXCEPT ![r] = NoAuthTx] /\ UNCHANGED <<users, session, authAlone, loggedOut>>
      BY <1>5, <1>type, IdleAuth DEF AnswerArrives
    <2>2. /\ authTx' \in [AuthRequests -> AuthRows \cup {NoAuthTx}]
          /\ authAlone => \A q \in AuthRequests : authTx'[q].op = "idle"
      BY <2>1, <1>end
    <2>3. /\ cookie' \in [id : SessionIds, token : Nat]
          /\ cookie'.id = authTx[r].id /\ cookie'.token = authTx[r].token
      BY <2>1, IdleAuth DEF SetCookie
    <2>4. authAlone => TokenFlows'
      BY <2>1, <2>2, <2>3 DEF SessionsInv, TokenFlows
    <2> QED
      BY <2>1, <2>2, <2>3, <2>4, <1>type DEF SessionsInv, SessionsTypeOK, LoggedOutForGood
  <1>6. ASSUME NEW r \in AuthRequests, AnswerLost(r) PROVE SessionsInv'
    BY <1>6, <1>end, <1>type DEF AnswerLost, SessionsInv, SessionsTypeOK, LoggedOutForGood
  <1>7. ASSUME NEW r \in AuthRequests, NEW s \in SessionIds, LogoutBegin(r, s) PROVE SessionsInv'
    BY <1>7, <1>begin DEF LogoutBegin, AuthOps
  <1>revoke. ASSUME NEW r \in AuthRequests, NEW ops \in SUBSET {"logout", "revoke"}, Revoked(r, ops),
                    cookie' \in {cookie, NoCookie}
             PROVE  SessionsInv'
    <2>1. PICK i \in SessionIds : i = authTx[r].id
      BY <1>revoke, <1>type, IdleAuth DEF Revoked
    <2>2. /\ authTx[r].op \in {"logout", "revoke"} /\ session' = [session EXCEPT ![i].status = "REVOKED"]
          /\ loggedOut' = loggedOut \cup {i}
          /\ authTx' = [authTx EXCEPT ![r] = NoAuthTx] /\ UNCHANGED <<users, authAlone>>
      BY <1>revoke, <2>1 DEF Revoked
    <2>3. /\ session' \in [SessionIds -> SessionRows]
          /\ \A s \in SessionIds : /\ session'[s].token = session[s].token
                                   /\ session'[s].status = IF s = i THEN "REVOKED" ELSE session[s].status
      BY <2>2, <1>type DEF SessionRows
    <2>4. /\ authTx' \in [AuthRequests -> AuthRows \cup {NoAuthTx}]
          /\ authAlone => \A q \in AuthRequests : authTx'[q].op = "idle"
      BY <2>2, <1>end
    <2>5. authAlone => \A q \in AuthRequests : authTx[q].op # "answer"
      BY <2>2 DEF SessionsInv, TokenFlows
    <2>6. ASSUME authAlone PROVE TokenFlows'
      <3>1. cookie' = NoCookie \/ cookie'.token = session'[cookie'.id].token
        BY <1>revoke, <2>2, <2>3, <2>5, <2>6, <1>type DEF SessionsInv, TokenFlows
      <3> QED BY <2>4, <2>6, <3>1 DEF TokenFlows
    <2> QED
      BY <1>revoke, <2>1, <2>2, <2>3, <2>4, <2>6, <1>type DEF SessionsInv, SessionsTypeOK, LoggedOutForGood
  <1>8. ASSUME NEW r \in AuthRequests, Logout(r) \/ RevokeSession(r) PROVE SessionsInv'
    <2>1. PICK ops \in SUBSET {"logout", "revoke"} : Revoked(r, ops)
      <3>1. Revoked(r, {"logout"}) \/ Revoked(r, {"revoke"})
        BY <1>8 DEF Logout, RevokeSession
      <3>2. {"logout"} \in SUBSET {"logout", "revoke"} /\ {"revoke"} \in SUBSET {"logout", "revoke"}
        OBVIOUS
      <3> QED BY <3>1, <3>2
    <2>2. cookie' \in {cookie, NoCookie}
      BY <1>8 DEF Logout, RevokeSession
    <2> QED BY <2>1, <2>2, <1>revoke
  <1>rb. ASSUME NEW r \in AuthRequests, NEW s \in SessionIds, RevokeBegin(r, s) PROVE SessionsInv'
    BY <1>rb, <1>begin DEF RevokeBegin, AuthOps
  <1>9. ASSUME NEW r \in AuthRequests, LogoutAll(r) PROVE SessionsInv'
    <2>1. /\ session' \in [SessionIds -> SessionRows]
          /\ \A s \in SessionIds : session'[s].token = session[s].token
      BY <1>9, <1>type DEF LogoutAll, SessionRows
    <2>2. LoggedOutForGood'
      BY <1>9, <1>type DEF LogoutAll, SessionsInv, LoggedOutForGood, SessionRows
    <2>3. authAlone => TokenFlows'
      BY <1>9, <2>1 DEF LogoutAll, SessionsInv, TokenFlows
    <2> QED
      BY <1>9, <2>1, <2>2, <2>3, <1>type DEF LogoutAll, SessionsInv, SessionsTypeOK
  <1>10. ASSUME NEW r \in AuthRequests, AuthFails(r) PROVE SessionsInv'
    <2>1. /\ authTx[r].op \notin {"idle", "answer"} /\ authTx' = [authTx EXCEPT ![r] = NoAuthTx]
          /\ UNCHANGED <<users, session, cookie, authAlone, loggedOut>>
      BY <1>10 DEF AuthFails
    <2>2. /\ authTx' \in [AuthRequests -> AuthRows \cup {NoAuthTx}]
          /\ authAlone => \A q \in AuthRequests : authTx'[q].op = "idle"
      BY <2>1, <1>end
    <2>3. authAlone => TokenFlows'
      BY <2>1, <2>2 DEF SessionsInv, TokenFlows
    <2> QED
      BY <2>1, <2>2, <2>3 DEF SessionsInv, SessionsTypeOK, LoggedOutForGood
  <1>11. ASSUME NEW s \in SessionIds, SessionExpires(s) PROVE SessionsInv'
    <2>1. /\ session' \in [SessionIds -> SessionRows]
          /\ \A t \in SessionIds : /\ session'[t].token = session[t].token
                                   /\ session'[t].status = session[t].status
      BY <1>11, <1>type DEF SessionExpires, SessionRows
    <2> QED
      BY <1>11, <2>1, <1>keep, <1>type DEF SessionExpires, SessionsInv, SessionsTypeOK, LoggedOutForGood
  <1>12. CASE RefreshRejected
    <2>1. PICK i \in SessionIds : i = cookie.id
      BY <1>12 DEF RefreshRejected
    <2>2. /\ session' = [session EXCEPT ![i].status = "REVOKED"] /\ loggedOut' = loggedOut \cup {i}
          /\ UNCHANGED <<users, cookie, authTx, authAlone>>
      BY <1>12, <2>1 DEF RefreshRejected
    <2>3. /\ session' \in [SessionIds -> SessionRows]
          /\ \A s \in SessionIds : /\ session'[s].token = session[s].token
                                   /\ session'[s].status = IF s = i THEN "REVOKED" ELSE session[s].status
      BY <2>2, <1>type DEF SessionRows
    <2> QED
      BY <2>2, <2>3, <1>keep, <1>type DEF SessionsInv, SessionsTypeOK, LoggedOutForGood
  <1>13. CASE UNCHANGED sessionVars
    BY <1>13 DEF sessionVars, SessionsInv, SessionsTypeOK, LoggedOutForGood, TokenFlows
  <1> QED
    BY <1>1, <1>2, <1>3, <1>4, <1>5, <1>6, <1>7, <1>rb, <1>8, <1>9, <1>10, <1>11, <1>12, <1>13
       DEF SessionsNext

\* The client is signed in as it shows.
LEMMA SessionsKnown == SessionsInv => SignedInAsKnown
  BY DEF SessionsInv, SessionsTypeOK, TokenFlows, SignedInAsKnown, OneAccount, CookieIsCurrent

-----------------------------------------------------------------------------
(* Profiles. While requests do not overlap, each stored row is what was     *)
(* chosen, or a request is about to write it, and holds what was chosen as  *)
(* its payload.                                                             *)

DetailValues == Details \cup {"NONE"}
StoreRows == {"userPreference", "user", "phone", "clientProfile", "driverProfile"}
RowsLeft == {PreferenceRows, <<"user">>, ProfileRows, <<"clientProfile", "driverProfile">>,
             <<"driverProfile">>, <<>>}
SaveRows == [op : {"idle", "write", "answer"}, payload : Preferences \cup DetailValues,
             rows : RowsLeft, answer : Preferences \cup {"NONE"}]

\* The rows that a list names.
Named(rows) == {rows[i] : i \in DOMAIN rows}

\* A row that no request is about to write holds what was chosen.
Pending(x) == \E r \in SaveRequests : x \in Named(saving[r].rows)
Current(x) ==
    CASE x = "userPreference" -> store.userPreference = chosen.preferences
      [] x = "user" -> store.user.theme = chosen.preferences.theme
      [] OTHER -> store[x] = chosen.details

Payload == IF tab = "preferences" THEN chosen.preferences ELSE chosen.details

ProfilesTypeOK ==
    /\ store \in [StoreRows -> Preferences \cup DetailValues]
    /\ store.userPreference \in Preferences /\ store.user \in Preferences
    /\ store.phone \in DetailValues
    /\ panel \in [user : Preferences \cup {"NONE"}, form : DetailValues, signedIn : BOOLEAN]
    /\ panel.signedIn => panel.user \in Preferences
    /\ saving \in [SaveRequests -> SaveRows]
    /\ tab \in {"preferences", "profile"}
    /\ chosen \in [preferences : Preferences, details : DetailValues]

\* What a request does while it is the only one.
SaveHolds(t) ==
    /\ t.op # "write" => t.rows = <<>>
    /\ t.rows # <<>> => /\ t.payload = Payload
                        /\ IF tab = "preferences" THEN t.rows \in {PreferenceRows, <<"user">>}
                           ELSE t.rows \notin {PreferenceRows, <<"user">>}
    /\ t.op = "answer" => t.answer = chosen.preferences

ProfilesAlone ==
    /\ ProfilesTypeOK
    /\ \A r, q \in SaveRequests : saving[r] # NoSave /\ saving[q] # NoSave => r = q
    /\ \A r \in SaveRequests : SaveHolds(saving[r]) /\ (saving[r] # NoSave => panel.signedIn)
    /\ \A x \in StoreRows : Pending(x) \/ Current(x)
    /\ tab = "profile" \/ SavesIdle =>
           panel.user = IF panel.signedIn THEN chosen.preferences ELSE "NONE"

ProfilesInv == savesAlone \in BOOLEAN /\ (savesAlone => ProfilesAlone)

(* The rows that a list names, and what is left of it.                      *)
LEMMA RowLists ==
    /\ Named(<<>>) = {}
    /\ Named(PreferenceRows) = {"userPreference", "user"} /\ Head(PreferenceRows) = "userPreference"
    /\ Tail(PreferenceRows) = <<"user">>
    /\ Named(<<"user">>) = {"user"} /\ Head(<<"user">>) = "user" /\ Tail(<<"user">>) = <<>>
    /\ Named(ProfileRows) = {"phone", "clientProfile", "driverProfile"} /\ Head(ProfileRows) = "phone"
    /\ Tail(ProfileRows) = <<"clientProfile", "driverProfile">>
    /\ Named(<<"clientProfile", "driverProfile">>) = {"clientProfile", "driverProfile"}
    /\ Head(<<"clientProfile", "driverProfile">>) = "clientProfile"
    /\ Tail(<<"clientProfile", "driverProfile">>) = <<"driverProfile">>
    /\ Named(<<"driverProfile">>) = {"driverProfile"} /\ Head(<<"driverProfile">>) = "driverProfile"
    /\ Tail(<<"driverProfile">>) = <<>>
    /\ PreferenceRows # <<>> /\ ProfileRows # <<>> /\ <<"user">> # <<>>
    /\ <<"driverProfile">> # <<>> /\ <<"clientProfile", "driverProfile">> # <<>>
    /\ ProfileRows # PreferenceRows /\ ProfileRows # <<"user">> /\ <<"driverProfile">> # <<"user">>
    /\ <<"driverProfile">> # PreferenceRows
    /\ <<"clientProfile", "driverProfile">> # PreferenceRows
    /\ <<"clientProfile", "driverProfile">> # <<"user">>
  BY DEF Named, PreferenceRows, ProfileRows

(* Writing the first row of a list leaves the others of it to be written.   *)
LEMMA RowsWritten ==
    ASSUME NEW rows \in RowsLeft, rows # <<>>
    PROVE  /\ Head(rows) \in StoreRows /\ Tail(rows) \in RowsLeft
           /\ Named(Tail(rows)) = Named(rows) \ {Head(rows)}
           /\ rows \in {PreferenceRows, <<"user">>} =>
                  /\ Head(rows) \in {"userPreference", "user"}
                  /\ Tail(rows) \in {<<"user">>, <<>>}
           /\ rows \notin {PreferenceRows, <<"user">>} =>
                  /\ Head(rows) \in {"phone", "clientProfile", "driverProfile"}
                  /\ Tail(rows) \notin {PreferenceRows, <<"user">>}
  BY RowLists DEF RowsLeft, StoreRows

\* A form that is not being saved.
LEMMA IdleSave ==
    /\ NoSave \in SaveRows /\ NoSave.op = "idle" /\ NoSave.rows = <<>>
  BY DEF NoSave, SaveRows, RowsLeft, DetailValues

\* The invariant holds before anything is chosen.
LEMMA ProfilesStart == ProfilesInit => ProfilesInv
  <1> SUFFICES ASSUME ProfilesInit PROVE ProfilesInv
    OBVIOUS
  <1>1. PICK p \in Preferences :
            /\ store = [userPreference |-> p, user |-> p, phone |-> "NONE", clientProfile |-> "NONE",
                        driverProfile |-> "NONE"]
            /\ chosen = [preferences |-> p, details |-> "NONE"]
    BY DEF ProfilesInit
  <1>2. /\ panel = NotShown /\ saving = [r \in SaveRequests |-> NoSave] /\ savesAlone \in BOOLEAN
        /\ tab \in {"preferences", "profile"}
    BY DEF ProfilesInit
  <1>3. ProfilesTypeOK
    BY <1>1, <1>2, IdleSave DEF ProfilesTypeOK, StoreRows, DetailValues, NotShown
  <1>4. \A x \in StoreRows : Current(x)
    BY <1>1 DEF Current, StoreRows
  <1>5. \A r \in SaveRequests : saving[r] = NoSave /\ SaveHolds(saving[r])
    BY <1>2, IdleSave DEF SaveHolds
  <1> QED
    BY <1>2, <1>3, <1>4, <1>5 DEF ProfilesInv, ProfilesAlone, NotShown

\* One request is written, the others are idle.
LEMMA SaveWritten ==
    ASSUME ProfilesAlone, NEW r \in SaveRequests, NEW t \in SaveRows,
           saving' = [saving EXCEPT ![r] = t],
           \A q \in SaveRequests \ {r} : saving[q] = NoSave,
           SaveHolds(t)', t # NoSave => panel'.signedIn, ProfilesTypeOK',
           \A x \in StoreRows : x \in Named(t.rows) \/ Current(x)',
           tab' = "profile" \/ t = NoSave =>
               panel'.user = IF panel'.signedIn THEN chosen'.preferences ELSE "NONE"
    PROVE  ProfilesAlone'
  <1>1. \A q \in SaveRequests : saving'[q] = IF q = r THEN t ELSE NoSave
    BY DEF ProfilesAlone, ProfilesTypeOK
  <1>2. SaveHolds(NoSave)'
    BY IdleSave DEF SaveHolds
  <1>3. SavesIdle' <=> t = NoSave
    BY <1>1 DEF SavesIdle
  <1>4. \A x \in StoreRows : x \in Named(t.rows) => Pending(x)'
    BY <1>1 DEF Pending
  <1>5. \A q \in SaveRequests : SaveHolds(saving[q])' /\ (saving'[q] # NoSave => panel'.signedIn)
    <2> TAKE q \in SaveRequests
    <2>1. CASE q = r
      BY <1>1, <2>1
    <2>2. CASE q # r
      BY <1>1, <1>2, <2>2
    <2> QED BY <2>1, <2>2
  <1> QED
    BY <1>1, <1>3, <1>4, <1>5 DEF ProfilesAlone

\* Every step keeps it.
LEMMA ProfilesStep == ProfilesInv /\ [ProfilesNext]_profileVars => ProfilesInv'
  <1> SUFFICES ASSUME ProfilesInv, [ProfilesNext]_profileVars PROVE ProfilesInv'
    OBVIOUS
  <1>keep. savesAlone' = savesAlone
    BY DEF ProfilesNext, profileVars, PanelLogin, PanelLogout, EditForm, ChooseLocale,
           ChooseTheme, SendSave, SaveProfile, AcceptTerms, WriteRow, SaveAnswered, ShowUser, SaveFails
  <1> SUFFICES ASSUME savesAlone PROVE ProfilesAlone'
    BY <1>keep DEF ProfilesInv
  <1>alone. ProfilesAlone /\ ProfilesTypeOK
    BY DEF ProfilesInv, ProfilesAlone
  <1>others. ASSUME NEW r \in SaveRequests, saving[r] # NoSave \/ SavesIdle
             PROVE  \A q \in SaveRequests \ {r} : saving[q] = NoSave
    BY <1>others, <1>alone DEF ProfilesAlone, SavesIdle
  <1>idle. SavesIdle => \A x \in StoreRows : Current(x)
    BY <1>alone, IdleSave, RowLists DEF ProfilesAlone, SavesIdle, Pending
  <1>send. ASSUME NEW r \in SaveRequests, NEW rows \in RowsLeft, NEW payload,
                  SendSave(r, rows, payload), ProfilesTypeOK',
                  payload \in Preferences \cup DetailValues,
                  rows # <<>> => /\ payload = Payload'
                                 /\ IF tab = "preferences" THEN rows \in {PreferenceRows, <<"user">>}
                                    ELSE rows \notin {PreferenceRows, <<"user">>},
                  \A x \in StoreRows : x \in Named(rows) \/ Current(x)',
                  tab = "profile" => chosen'.preferences = chosen.preferences
           PROVE  ProfilesAlone'
    <2> DEFINE t == [NoSave EXCEPT !.op = "write", !.payload = payload, !.rows = rows]
    <2>1. t \in SaveRows /\ t.op = "write" /\ t.rows = rows /\ t.payload = payload
      BY <1>send, IdleSave DEF SaveRows
    <2> HIDE DEF t
    <2>2. /\ panel.signedIn /\ SavesIdle /\ saving' = [saving EXCEPT ![r] = t]
          /\ UNCHANGED <<store, panel, savesAlone, tab>>
      BY <1>send DEF SendSave, t
    <2>3. SaveHolds(t)'
      BY <1>send, <2>1, <2>2 DEF SaveHolds
    <2>4. panel'.user = IF panel'.signedIn THEN chosen.preferences ELSE "NONE"
      BY <2>2, <1>alone DEF ProfilesAlone
    <2> QED
      BY <2>1, <2>2, <2>3, <2>4, <1>alone, <1>others, <1>send, IdleSave, SaveWritten
  <1>1. CASE PanelLogin
    <2>1. PICK language \in Locales :
              /\ ~panel.signedIn /\ SavesIdle
              /\ store' = [store EXCEPT !.user.locale = language]
              /\ panel' = [user |-> store'.userPreference, form |-> store.phone, signedIn |-> TRUE]
              /\ UNCHANGED <<saving, savesAlone, tab, chosen>>
      BY <1>1 DEF PanelLogin, upsertAuthenticatedUser, serializeUser
    <2>2. [store.user EXCEPT !.locale = language] \in Preferences
          /\ [store.user EXCEPT !.locale = language].theme = store.user.theme
      BY <1>alone DEF ProfilesTypeOK, Preferences
    <2> DEFINE u == [store.user EXCEPT !.locale = language]
    <2> HIDE DEF u
    <2>3. store' = [store EXCEPT !["user"] = u]
      BY <2>1, <1>alone DEF ProfilesTypeOK, StoreRows, u
    <2>4. /\ store' \in [StoreRows -> Preferences \cup DetailValues]
          /\ store'.user = u /\ \A x \in StoreRows \ {"user"} : store'[x] = store[x]
      BY <2>2, <2>3, <1>alone DEF ProfilesTypeOK, StoreRows, u
    <2>5. /\ store'.userPreference = store.userPreference /\ store'.phone = store.phone
          /\ store'.clientProfile = store.clientProfile /\ store'.driverProfile = store.driverProfile
      BY <2>4 DEF StoreRows
    <2>6. ProfilesTypeOK'
      BY <2>1, <2>2, <2>4, <2>5, <1>alone DEF ProfilesTypeOK, u
    <2>7. \A x \in StoreRows : Current(x)'
      BY <2>1, <2>2, <2>4, <2>5, <1>idle DEF Current, StoreRows, u
    <2>8. panel'.user = chosen'.preferences /\ panel'.signedIn
      BY <2>1, <2>5, <1>idle DEF Current, StoreRows
    <2>9. \A r \in SaveRequests : saving'[r] = NoSave /\ SaveHolds(saving[r])'
      BY <2>1, IdleSave DEF SavesIdle, SaveHolds
    <2> QED
      BY <2>6, <2>7, <2>8, <2>9 DEF ProfilesAlone
  <1>2. CASE PanelLogout
    BY <1>2, <1>alone, <1>idle, IdleSave
       DEF PanelLogout, NotShown, ProfilesAlone, ProfilesTypeOK, SavesIdle, SaveHolds, Pending, Current,
           Payload, DetailValues
  <1>3. ASSUME NEW n \in Details, EditForm(n) PROVE ProfilesAlone'
    BY <1>3, <1>alone DEF EditForm, ProfilesAlone, ProfilesTypeOK, SavesIdle, SaveHolds, Pending, Current,
           Payload, DetailValues
  <1>4. ASSUME NEW r \in SaveRequests, NEW l \in Locales, ChooseLocale(r, l) PROVE ProfilesAlone'
    <2> DEFINE p == [panel.user EXCEPT !.locale = l]
    <2>1. panel.signedIn /\ SavesIdle /\ tab = "preferences" /\ UNCHANGED <<store, panel, tab>>
      BY <1>4 DEF ChooseLocale, SendSave
    <2>2. panel.user = chosen.preferences /\ chosen.preferences \in Preferences
      BY <2>1, <1>alone DEF ProfilesAlone, ProfilesTypeOK
    <2>3. /\ p \in Preferences /\ p = [chosen.preferences EXCEPT !.locale = l]
      BY <2>2 DEF Preferences
    <2>4. chosen' = [chosen EXCEPT !.preferences = p]
      BY <1>4, <2>3, <1>alone DEF ChooseLocale, ProfilesTypeOK
    <2>5. SendSave(r, PreferenceRows, p)
      BY <1>4 DEF ChooseLocale
    <2> HIDE DEF p
    <2>6. /\ chosen' \in [preferences : Preferences, details : DetailValues]
          /\ chosen'.preferences = p /\ chosen'.details = chosen.details
      BY <2>3, <2>4, <1>alone DEF ProfilesTypeOK
    <2>7. ProfilesTypeOK'
      <3> DEFINE t == [NoSave EXCEPT !.op = "write", !.payload = p, !.rows = PreferenceRows]
      <3>1. t \in SaveRows
        BY <2>3, IdleSave DEF SaveRows, RowsLeft
      <3> HIDE DEF t
      <3>2. saving' = [saving EXCEPT ![r] = t]
        BY <2>5 DEF SendSave, t
      <3> QED BY <2>1, <2>6, <3>1, <3>2, <1>alone DEF ProfilesTypeOK
    <2>8. \A x \in StoreRows : x \in Named(PreferenceRows) \/ Current(x)'
      BY <2>1, <2>6, <1>idle, RowLists DEF Current, StoreRows
    <2> QED
      BY <2>1, <2>3, <2>5, <2>6, <2>7, <2>8, <1>send DEF RowsLeft, Payload
  <1>5. ASSUME NEW r \in SaveRequests, NEW h \in Themes, ChooseTheme(r, h) PROVE ProfilesAlone'
    <2> DEFINE p == [panel.user EXCEPT !.theme = h]
    <2>1. panel.signedIn /\ SavesIdle /\ tab = "preferences" /\ UNCHANGED <<store, panel, tab>>
      BY <1>5 DEF ChooseTheme, SendSave
    <2>2. panel.user = chosen.preferences /\ chosen.preferences \in Preferences
      BY <2>1, <1>alone DEF ProfilesAlone, ProfilesTypeOK
    <2>3. /\ p \in Preferences /\ p = [chosen.preferences EXCEPT !.theme = h]
      BY <2>2 DEF Preferences
    <2>4. chosen' = [chosen EXCEPT !.preferences = p]
      BY <1>5, <2>3, <1>alone DEF ChooseTheme, ProfilesTypeOK
    <2>5. SendSave(r, PreferenceRows, p)
      BY <1>5 DEF ChooseTheme
    <2> HIDE DEF p
    <2>6. /\ chosen' \in [preferences : Preferences, details : DetailValues]
          /\ chosen'.preferences = p /\ chosen'.details = chosen.details
      BY <2>3, <2>4, <1>alone DEF ProfilesTypeOK
    <2>7. ProfilesTypeOK'
      <3> DEFINE t == [NoSave EXCEPT !.op = "write", !.payload = p, !.rows = PreferenceRows]
      <3>1. t \in SaveRows
        BY <2>3, IdleSave DEF SaveRows, RowsLeft
      <3> HIDE DEF t
      <3>2. saving' = [saving EXCEPT ![r] = t]
        BY <2>5 DEF SendSave, t
      <3> QED BY <2>1, <2>6, <3>1, <3>2, <1>alone DEF ProfilesTypeOK
    <2>8. \A x \in StoreRows : x \in Named(PreferenceRows) \/ Current(x)'
      BY <2>1, <2>6, <1>idle, RowLists DEF Current, StoreRows
    <2> QED
      BY <2>1, <2>3, <2>5, <2>6, <2>7, <2>8, <1>send DEF RowsLeft, Payload
  <1>6. ASSUME NEW r \in SaveRequests, SaveProfile(r) PROVE ProfilesAlone'
    <2>1. /\ panel.signedIn /\ SavesIdle /\ tab = "profile" /\ UNCHANGED <<store, panel, tab>>
          /\ chosen' = [chosen EXCEPT !.details = panel.form] /\ SendSave(r, ProfileRows, panel.form)
      BY <1>6 DEF SaveProfile, SendSave
    <2>2. /\ panel.form \in DetailValues
          /\ chosen' \in [preferences : Preferences, details : DetailValues]
          /\ chosen'.preferences = chosen.preferences /\ chosen'.details = panel.form
      BY <2>1, <1>alone DEF ProfilesTypeOK
    <2>3. ProfilesTypeOK'
      <3> DEFINE t == [NoSave EXCEPT !.op = "write", !.payload = panel.form, !.rows = ProfileRows]
      <3>1. t \in SaveRows
        BY <2>2, IdleSave DEF SaveRows, RowsLeft
      <3> HIDE DEF t
      <3>2. saving' = [saving EXCEPT ![r] = t]
        BY <2>1 DEF SendSave, t
      <3> QED BY <2>1, <2>2, <3>1, <3>2, <1>alone DEF ProfilesTypeOK
    <2>4. \A x \in StoreRows : x \in Named(ProfileRows) \/ Current(x)'
      BY <2>1, <2>2, <1>idle, RowLists DEF Current, StoreRows
    <2> QED
      BY <2>1, <2>2, <2>3, <2>4, <1>send, RowLists DEF RowsLeft, Payload
  <1>7. ASSUME NEW r \in SaveRequests, AcceptTerms(r) PROVE ProfilesAlone'
    <2>1. /\ SavesIdle /\ tab = "profile" /\ UNCHANGED <<store, panel, tab, chosen>>
          /\ SendSave(r, <<>>, "NONE")
      BY <1>7 DEF AcceptTerms, SendSave
    <2>2. ProfilesTypeOK'
      <3> DEFINE t == [NoSave EXCEPT !.op = "write", !.payload = "NONE", !.rows = <<>>]
      <3>1. t \in SaveRows
        BY IdleSave DEF SaveRows, RowsLeft, DetailValues
      <3> HIDE DEF t
      <3>2. saving' = [saving EXCEPT ![r] = t]
        BY <2>1 DEF SendSave, t
      <3> QED BY <2>1, <3>1, <3>2, <1>alone DEF ProfilesTypeOK
    <2>3. \A x \in StoreRows : Current(x)'
      BY <2>1, <1>idle DEF Current, StoreRows
    <2> QED
      BY <2>1, <2>2, <2>3, <1>send DEF RowsLeft, DetailValues
  <1>8. ASSUME NEW r \in SaveRequests, WriteRow(r) PROVE ProfilesAlone'
    <2>t. PICK t \in SaveRows : t = saving[r]
      BY <1>alone DEF ProfilesTypeOK
    <2> DEFINE x == Head(t.rows)
               w == [t EXCEPT !.rows = Tail(t.rows)]
    <2>1. t \in SaveRows /\ t.rows # <<>> /\ t # NoSave /\ SaveHolds(t) /\ panel.signedIn
      BY <1>8, <2>t, <1>alone, IdleSave DEF WriteRow, ProfilesAlone
    <2>2. /\ store' = [store EXCEPT ![x] = t.payload] /\ saving' = [saving EXCEPT ![r].rows = Tail(t.rows)]
          /\ UNCHANGED <<panel, tab, chosen>>
      BY <1>8, <2>t DEF WriteRow
    <2>3. t.rows \in RowsLeft /\ t.payload = Payload /\ t.op = "write"
      BY <2>1 DEF SaveRows, SaveHolds
    <2>4. /\ x \in StoreRows /\ Tail(t.rows) \in RowsLeft
          /\ Named(Tail(t.rows)) = Named(t.rows) \ {x}
      BY <2>1, <2>3, RowsWritten
    <2>5. /\ tab = "preferences" => /\ x \in {"userPreference", "user"} /\ Tail(t.rows) \in {<<"user">>, <<>>}
                                    /\ t.payload = chosen.preferences
          /\ tab = "profile" => /\ x \in {"phone", "clientProfile", "driverProfile"}
                                /\ Tail(t.rows) \notin {PreferenceRows, <<"user">>}
                                /\ t.payload = chosen.details
      BY <2>1, <2>3, RowsWritten DEF SaveHolds, Payload
    <2>6. w \in SaveRows /\ w.op = "write" /\ w.payload = t.payload /\ w.rows = Tail(t.rows)
      BY <2>1, <2>3, <2>4 DEF SaveRows
    <2>7. saving' = [saving EXCEPT ![r] = w]
      BY <2>2, <2>t, <1>alone DEF ProfilesTypeOK
    <2> HIDE DEF x, w
    <2>8. tab \in {"preferences", "profile"} /\ chosen \in [preferences : Preferences, details : DetailValues]
      BY <1>alone DEF ProfilesTypeOK
    <2>9. /\ store' \in [StoreRows -> Preferences \cup DetailValues]
          /\ \A y \in StoreRows : store'[y] = IF y = x THEN t.payload ELSE store[y]
      BY <2>2, <2>4, <2>5, <2>8, <1>alone DEF ProfilesTypeOK
    <2>10. /\ store'.userPreference \in Preferences /\ store'.user \in Preferences
           /\ store'.phone \in DetailValues
      BY <2>5, <2>8, <2>9, <1>alone DEF ProfilesTypeOK, StoreRows
    <2>11. ProfilesTypeOK'
      BY <2>2, <2>6, <2>7, <2>9, <2>10, <1>alone, ZenonT(60) DEF ProfilesTypeOK
    <2>12. SaveHolds(w)'
      BY <2>2, <2>3, <2>4, <2>5, <2>6, <2>8 DEF SaveHolds, Payload
    <2>13. Current(x)'
      BY <2>2, <2>4, <2>5, <2>8, <2>9 DEF Current, StoreRows
    <2>14. \A y \in StoreRows \ {x} : Current(y) => Current(y)'
      BY <2>2, <2>9 DEF Current, StoreRows
    <2>15. \A y \in StoreRows : y \in Named(t.rows) \/ Current(y)
      BY <2>1, <2>t, <1>alone, <1>others, IdleSave, RowLists DEF ProfilesAlone, Pending
    <2>16. \A y \in StoreRows : y \in Named(w.rows) \/ Current(y)'
      BY <2>4, <2>6, <2>13, <2>14, <2>15
    <2>17. \A q \in SaveRequests \ {r} : saving[q] = NoSave
      BY <2>1, <2>t, <1>others
    <2>18. tab' = "profile" => panel'.user = IF panel'.signedIn THEN chosen'.preferences ELSE "NONE"
      BY <2>2, <1>alone DEF ProfilesAlone
    <2>19. w # NoSave /\ panel'.signedIn
      BY <2>1, <2>2, <2>6, IdleSave
    <2> QED
      BY <2>6, <2>7, <2>11, <2>12, <2>16, <2>17, <2>18, <2>19, <1>alone, SaveWritten
  <1>9. ASSUME NEW r \in SaveRequests, SaveAnswered(r) PROVE ProfilesAlone'
    <2>a. PICK a \in Preferences : a = store.userPreference
      BY <1>alone DEF ProfilesTypeOK
    <2> DEFINE w == [NoSave EXCEPT !.op = "answer", !.answer = a]
    <2>1. /\ saving[r].op = "write" /\ saving[r].rows = <<>> /\ saving' = [saving EXCEPT ![r] = w]
          /\ UNCHANGED <<store, panel, tab, chosen>>
      BY <1>9, <2>a DEF SaveAnswered, serializeUser
    <2>2. saving[r] # NoSave /\ panel.signedIn
      BY <2>1, <1>alone, IdleSave DEF ProfilesAlone
    <2>3. \A q \in SaveRequests \ {r} : saving[q] = NoSave
      BY <2>2, <1>others
    <2>4. \A y \in StoreRows : Current(y)
      BY <2>1, <2>3, <1>alone, IdleSave, RowLists DEF ProfilesAlone, Pending
    <2>5. /\ w \in SaveRows /\ w.op = "answer" /\ w.rows = <<>> /\ w.answer = a
      BY IdleSave DEF SaveRows
    <2> HIDE DEF w
    <2>6. ProfilesTypeOK'
      BY <2>1, <2>5, <1>alone DEF ProfilesTypeOK
    <2>7. SaveHolds(w)'
      BY <2>1, <2>4, <2>5, <2>a DEF SaveHolds, Current, StoreRows
    <2>8. \A y \in StoreRows : Current(y)'
      BY <2>1, <2>4 DEF Current
    <2>9. tab' = "profile" => panel'.user = IF panel'.signedIn THEN chosen'.preferences ELSE "NONE"
      BY <2>1, <1>alone DEF ProfilesAlone
    <2>10. w # NoSave /\ panel'.signedIn
      BY <2>1, <2>2, <2>5, IdleSave
    <2> QED
      BY <2>1, <2>3, <2>5, <2>6, <2>7, <2>8, <2>9, <2>10, <1>alone, SaveWritten
  <1>10. ASSUME NEW r \in SaveRequests, ShowUser(r) PROVE ProfilesAlone'
    <2>1. /\ saving[r].op = "answer" /\ saving' = [saving EXCEPT ![r] = NoSave]
          /\ panel' = [panel EXCEPT !.user = saving[r].answer] /\ UNCHANGED <<store, tab, chosen>>
      BY <1>10 DEF ShowUser
    <2>2. /\ saving[r] # NoSave /\ panel.signedIn /\ saving[r].rows = <<>>
          /\ saving[r].answer = chosen.preferences
      BY <2>1, <1>alone, IdleSave DEF ProfilesAlone, SaveHolds
    <2>3. \A q \in SaveRequests \ {r} : saving[q] = NoSave
      BY <2>2, <1>others
    <2>4. \A y \in StoreRows : Current(y)
      BY <2>2, <2>3, <1>alone, IdleSave, RowLists DEF ProfilesAlone, Pending
    <2>5. /\ panel' \in [user : Preferences \cup {"NONE"}, form : DetailValues, signedIn : BOOLEAN]
          /\ panel'.signedIn /\ panel'.user = chosen.preferences /\ panel'.user \in Preferences
      BY <2>1, <2>2, <1>alone DEF ProfilesTypeOK
    <2>6. ProfilesTypeOK'
      BY <2>1, <2>5, <1>alone, IdleSave DEF ProfilesTypeOK
    <2>7. SaveHolds(NoSave)'
      BY IdleSave DEF SaveHolds
    <2>8. \A y \in StoreRows : Current(y)'
      BY <2>1, <2>4 DEF Current
    <2> QED
      BY <2>1, <2>3, <2>5, <2>6, <2>7, <2>8, <1>alone, IdleSave, SaveWritten
  <1>11. ASSUME NEW r \in SaveRequests, SaveFails(r) PROVE ProfilesAlone'
    BY <1>11 DEF SaveFails
  <1>12. CASE UNCHANGED profileVars
    BY <1>12, <1>alone DEF profileVars, ProfilesAlone, ProfilesTypeOK, SavesIdle, SaveHolds, Pending, Current,
           Payload
  <1> QED
    BY <1>1, <1>2, <1>3, <1>4, <1>5, <1>6, <1>7, <1>8, <1>9, <1>10, <1>11, <1>12 DEF ProfilesNext

\* What was chosen is what is stored and shown.
LEMMA ProfilesKept == ProfilesInv => ChoicesKept
  <1> SUFFICES ASSUME ProfilesInv, savesAlone, SavesIdle
               PROVE  /\ store.userPreference = chosen.preferences
                      /\ store.user.theme = chosen.preferences.theme
                      /\ \A row \in {"phone", "clientProfile", "driverProfile"} : store[row] = chosen.details
                      /\ panel.user = (IF panel.signedIn THEN chosen.preferences ELSE "NONE")
    BY DEF ChoicesKept
  <1>1. \A x \in StoreRows : Current(x)
    BY IdleSave, RowLists DEF ProfilesInv, ProfilesAlone, SavesIdle, Pending
  <1> QED
    BY <1>1 DEF ProfilesInv, ProfilesAlone, Current, StoreRows

-----------------------------------------------------------------------------
(* The admin's users page. Roles are only added, so that whoever was found  *)
(* by a filter matches it still.                                            *)

Filters == [q : Accounts \cup {Anything}, role : RoleCodes \cup {Anything}]
LoadRows == [op : {"idle", "ask", "answer"}, filter : Filters,
             users : SUBSET [id : Accounts, roles : SUBSET RoleCodes]]

\* Rows with roles that the users still have, found by the filter.
Matching(rows, f) == \A row \in rows :
    /\ row.roles \subseteq roles[row.id]
    /\ f.q \in {Anything, row.id}
    /\ f.role \in {Anything} \cup row.roles

UsersInv ==
    /\ roles \in [Accounts -> SUBSET RoleCodes]
    /\ load \in [Loads -> LoadRows]
    /\ listed \subseteq [id : Accounts, roles : SUBSET RoleCodes] /\ shownFor \in Filters
    /\ \A r \in Loads : load[r].op = "answer" => Matching(load[r].users, load[r].filter)
    /\ Matching(listed, shownFor)
    /\ IF listed = {} THEN selected = Nobody ELSE selected \in listed

\* A page that does not load.
LEMMA IdleLoad == NoLoad \in LoadRows /\ NoLoad.op = "idle" /\ NoLoad.filter \in Filters
  BY DEF NoLoad, LoadRows, Filters, Anything

\* The invariant holds of the empty list.
LEMMA UsersStart == UsersPanelInit => UsersInv
  BY IdleLoad DEF UsersPanelInit, UsersInv, Matching

\* Every step keeps it.
LEMMA UsersStep == UsersInv /\ [UsersPanelNext]_usersVars => UsersInv'
  <1> SUFFICES ASSUME UsersInv, [UsersPanelNext]_usersVars PROVE UsersInv'
    OBVIOUS
  <1>1. ASSUME NEW u \in Accounts, NEW role \in RoleCodes, SignIn(u, role) PROVE UsersInv'
    <2>1. roles' = [roles EXCEPT ![u] = roles[u] \cup {role}] /\ UNCHANGED <<load, listed, selected, shownFor>>
      BY <1>1 DEF SignIn
    <2>2. /\ roles' \in [Accounts -> SUBSET RoleCodes]
          /\ \A a \in Accounts : roles[a] \subseteq roles'[a]
      BY <2>1 DEF UsersInv
    <2>3. ASSUME NEW rows \in SUBSET [id : Accounts, roles : SUBSET RoleCodes], NEW f \in Filters,
                 Matching(rows, f)
          PROVE  Matching(rows, f)'
      BY <2>2, <2>3 DEF Matching
    <2>4. \A r \in Loads : load[r].users \in SUBSET [id : Accounts, roles : SUBSET RoleCodes]
                           /\ load[r].filter \in Filters
      BY DEF UsersInv, LoadRows
    <2>5. \A r \in Loads : load[r].op = "answer" => Matching(load[r].users, load[r].filter)'
      BY <2>3, <2>4, <2>1 DEF UsersInv
    <2>6. Matching(listed, shownFor)'
      BY <2>3, <2>1 DEF UsersInv
    <2> QED
      BY <2>1, <2>2, <2>5, <2>6 DEF UsersInv
  <1>2. CASE SelectUser
    BY <1>2 DEF SelectUser, UsersInv, Matching
  <1>3. ASSUME NEW r \in Loads, LoadUsers(r) PROVE UsersInv'
    <2>1. PICK f \in Filters :
              load' = [load EXCEPT ![r] = [NoLoad EXCEPT !.op = "ask", !.filter = f]]
      BY <1>3 DEF LoadUsers, Filters
    <2> DEFINE t == [NoLoad EXCEPT !.op = "ask", !.filter = f]
    <2>2. t \in LoadRows /\ t.op = "ask"
      BY IdleLoad DEF LoadRows
    <2> HIDE DEF t
    <2>3. load' = [load EXCEPT ![r] = t]
      BY <2>1 DEF t
    <2> QED
      BY <1>3, <2>2, <2>3 DEF LoadUsers, UsersInv, Matching
  <1>4. ASSUME NEW r \in Loads, AdminUsers(r) PROVE UsersInv'
    <2> DEFINE f == load[r].filter
               rows == {[id |-> u, roles |-> roles[u]] : u \in Found(f)}
               t == [op |-> "answer", filter |-> f, users |-> rows]
    <2>1. f \in Filters
      BY DEF UsersInv, LoadRows
    <2>2. rows \subseteq [id : Accounts, roles : SUBSET RoleCodes] /\ Matching(rows, f)
      BY <2>1 DEF UsersInv, Found, Matching
    <2> HIDE DEF rows
    <2>3. load' = [load EXCEPT ![r].op = "answer", ![r].users = rows]
      BY <1>4 DEF AdminUsers, rows
    <2>4. load' \in [Loads -> LoadRows] /\ \A s \in Loads : load'[s] = IF s = r THEN t ELSE load[s]
      <3> DEFINE l == [load EXCEPT ![r].op = "answer"]
      <3>1. /\ l \in [Loads -> LoadRows] /\ l[r].op = "answer" /\ l[r].filter = f
            /\ \A s \in Loads \ {r} : l[s] = load[s]
        BY DEF UsersInv, LoadRows
      <3> HIDE DEF l
      <3>2. load' = [l EXCEPT ![r].users = rows]
        BY <2>3 DEF l
      <3>3. load' \in [Loads -> LoadRows] /\ \A s \in Loads \ {r} : load'[s] = load[s]
        BY <2>2, <3>1, <3>2 DEF LoadRows
      <3>4. load'[r].op = "answer" /\ load'[r].filter = f /\ load'[r].users = rows
        BY <2>2, <3>1, <3>2 DEF LoadRows
      <3> QED BY <3>3, <3>4 DEF LoadRows
    <2>5. UNCHANGED <<roles, listed, selected, shownFor>>
      BY <1>4 DEF AdminUsers
    <2>6. t.users = rows /\ t.filter = f
      OBVIOUS
    <2> HIDE DEF f, t
    <2> QED
      BY <2>2, <2>4, <2>5, <2>6 DEF UsersInv, Matching
  <1>5. ASSUME NEW r \in Loads, ShowUsers(r) PROVE UsersInv'
    <2>1. load' \in [Loads -> LoadRows] /\ \A s \in Loads : load'[s] = IF s = r THEN NoLoad ELSE load[s]
      BY <1>5, IdleLoad DEF ShowUsers, UsersInv
    <2>2. /\ load[r].op = "answer" /\ listed' = load[r].users /\ shownFor' = load[r].filter
          /\ selected' \in (IF load[r].users = {} THEN {Nobody} ELSE load[r].users)
          /\ UNCHANGED roles
      BY <1>5 DEF ShowUsers
    <2>3. /\ load[r].filter \in Filters
          /\ load[r].users \in SUBSET [id : Accounts, roles : SUBSET RoleCodes]
      BY DEF UsersInv, LoadRows
    <2> QED
      BY <2>1, <2>2, <2>3, IdleLoad DEF UsersInv, Matching
  <1>6. ASSUME NEW r \in Loads, LoadFails(r) PROVE UsersInv'
    BY <1>6, IdleLoad DEF LoadFails, UsersInv, Matching
  <1>7. CASE UNCHANGED usersVars
    BY <1>7 DEF usersVars, UsersInv, Matching
  <1> QED
    BY <1>1, <1>2, <1>3, <1>4, <1>5, <1>6, <1>7 DEF UsersPanelNext

\* The detail that is shown is of a user who is listed.
LEMMA UsersListed == UsersInv => DetailIsListed
  BY DEF UsersInv, Matching, DetailIsListed

-----------------------------------------------------------------------------
(* One-time codes. Where the update is versioned, a booking or a parcel is  *)
(* moved exactly when its status is, which is once.                         *)

RequestRows == [op : {"idle", "create", "attempt"}, code : Codes \cup {0},
                count : 0 .. MaxAttempts, moved : BOOLEAN, seen : SUBSET Codes]

(* The parcel is moved exactly if its status was changed, and no request   *)
(* has seen it moved before it was; an attempt is below the limit.         *)
RequestHolds(t) ==
    /\ t.moved => moved
    /\ t.op = "attempt" => t.code \in Codes /\ t.count < MaxAttempts

CodesInv ==
    /\ CodesTypeOK
    /\ moves = IF moved THEN 1 ELSE 0
    /\ \A r \in Requests : RequestHolds(request[r])

\* A request that has not begun.
LEMMA IdleRequest == NoRequest \in RequestRows /\ ~NoRequest.moved /\ NoRequest.op = "idle"
  BY CodesAssumption DEF NoRequest, RequestRows

\* The invariant holds before a code is issued.
LEMMA CodesStart == CodesInit => CodesInv
  <1> SUFFICES ASSUME CodesInit PROVE CodesInv
    OBVIOUS
  <1> USE CodesAssumption DEF CodesInit
  <1>1. request \in [Requests -> RequestRows] /\ \A r \in Requests : request[r] = NoRequest
    BY IdleRequest
  <1>2. /\ issued \in Codes \cup {0}
        /\ status \in [Codes -> {"NONE", "ACTIVE", "VERIFIED", "REPLACED", "EXPIRED"}]
        /\ attempts \in [Codes -> 0 .. MaxAttempts]
        /\ lapsed \in [Codes -> BOOLEAN] /\ moved \in BOOLEAN /\ moves \in Nat
        /\ wrong \in [Codes -> 0 .. MaxWrong]
    <2>1. \A c \in Codes : status[c] = "NONE" /\ attempts[c] = 0 /\ lapsed[c] = FALSE /\ wrong[c] = 0
      OBVIOUS
    <2>2. 0 \in 0 .. MaxAttempts /\ 0 \in 0 .. MaxWrong
      OBVIOUS
    <2>3. attempts \in [Codes -> 0 .. MaxAttempts] /\ wrong \in [Codes -> 0 .. MaxWrong]
      BY <2>2
    <2>4. status \in [Codes -> {"NONE", "ACTIVE", "VERIFIED", "REPLACED", "EXPIRED"}]
      OBVIOUS
    <2>5. lapsed \in [Codes -> BOOLEAN]
      OBVIOUS
    <2> QED BY <2>3, <2>4, <2>5
  <1>3. CodesTypeOK
    BY <1>1, <1>2 DEF CodesTypeOK, RequestRows
  <1> QED
    BY <1>1, <1>3, IdleRequest DEF CodesInv, CodesInit, RequestHolds

\* What a request has read is a request row; ending it leaves NoRequest.
LEMMA RequestWritten ==
    ASSUME CodesInv, NEW r \in Requests, NEW t \in RequestRows, RequestHolds(t),
           request' = [request EXCEPT ![r] = t], UNCHANGED moved
    PROVE  /\ request' \in [Requests -> RequestRows]
           /\ \A q \in Requests : RequestHolds(request[q])'
  BY DEF CodesInv, CodesTypeOK, RequestRows, RequestHolds

\* Every step keeps it where the update is versioned.
LEMMA CodesStep == Versioned /\ CodesInv /\ [CodesNext]_codeVars => CodesInv'
  <1> SUFFICES ASSUME Versioned, CodesInv, [CodesNext]_codeVars PROVE CodesInv'
    OBVIOUS
  <1> USE CodesAssumption
  <1>idle. RequestHolds(NoRequest)
    BY IdleRequest DEF RequestHolds
  <1>rows. request \in [Requests -> RequestRows] /\ Active \subseteq Codes
    BY DEF CodesInv, CodesTypeOK, RequestRows, Active
  <1>1. ASSUME NEW r \in Requests, CreateBegin(r) PROVE CodesInv'
    <2> DEFINE t == [NoRequest EXCEPT !.op = "create", !.seen = Active]
    <2>1. t \in RequestRows /\ RequestHolds(t)
      BY <1>rows, IdleRequest DEF NoRequest, RequestRows, RequestHolds
    <2> HIDE DEF t
    <2>2. BeginRequest(r, t)
      BY <1>1 DEF CreateBegin, t
    <2> QED
      BY <2>1, <2>2, RequestWritten DEF BeginRequest, CodesInv, CodesTypeOK, RequestRows
  <1>2. ASSUME NEW r \in Requests, CreateCommit(r) PROVE CodesInv'
    <2> USE <1>2 DEF CreateCommit, EndRequest
    <2>1. PICK R : R \in Replaced(r) /\
              status' = [c \in Codes |-> IF c = issued + 1 THEN "ACTIVE"
                                         ELSE IF c \in R THEN "REPLACED" ELSE status[c]]
      OBVIOUS
    <2>2. status' \in [Codes -> {"NONE", "ACTIVE", "VERIFIED", "REPLACED", "EXPIRED"}]
      BY <2>1 DEF CodesInv, CodesTypeOK
    <2> QED BY <2>2, RequestWritten, IdleRequest, <1>idle DEF CodesInv, CodesTypeOK, RequestRows
  <1>3. ASSUME NEW r \in Requests, AttemptBegin(r) PROVE CodesInv'
    <2> DEFINE t(c) == [op |-> "attempt", code |-> c, count |-> attempts[c], moved |-> moved,
                        seen |-> {}]
    <2>1. PICK c \in Codes : CanAttempt(c) /\ BeginRequest(r, t(c))
      BY <1>3 DEF AttemptBegin
    <2>3. attempts[c] \in 0 .. MaxAttempts /\ attempts[c] < MaxAttempts /\ moved \in BOOLEAN
      BY <2>1 DEF CanAttempt, CodesInv, CodesTypeOK
    <2>4. t(c) \in RequestRows /\ RequestHolds(t(c))
      BY <2>3 DEF RequestRows, RequestHolds
    <2> HIDE DEF t
    <2> QED
      BY <2>1, <2>4, RequestWritten DEF BeginRequest, CodesInv, CodesTypeOK, RequestRows
  <1>4. ASSUME NEW r \in Requests, RightCode(r) PROVE CodesInv'
    <2> DEFINE t == request[r]
    <2> HIDE DEF t
    <2>1. /\ t \in RequestRows /\ t.op = "attempt" /\ RequestHolds(t) /\ (moved => t.moved)
          /\ request' = [request EXCEPT ![r] = NoRequest] /\ moved' = TRUE
          /\ status' = [status EXCEPT ![t.code] = "VERIFIED"]
          /\ attempts' = [attempts EXCEPT ![t.code] = t.count + 1]
          /\ moves' = IF t.moved THEN moves ELSE moves + 1
          /\ UNCHANGED <<issued, lapsed, wrong>>
      BY <1>4, <1>rows DEF RightCode, EndRequest, VersionUnchanged, CodesInv, t
    <2>2. t.code \in Codes /\ t.count + 1 \in 0 .. MaxAttempts
      BY <2>1 DEF RequestRows, RequestHolds
    <2>3. /\ status' \in [Codes -> {"NONE", "ACTIVE", "VERIFIED", "REPLACED", "EXPIRED"}]
          /\ attempts' \in [Codes -> 0 .. MaxAttempts]
      BY <2>1, <2>2 DEF CodesInv, CodesTypeOK
    <2>4. /\ request' \in [Requests -> RequestRows]
          /\ \A q \in Requests : RequestHolds(request[q])'
      <3>1. \A q \in Requests : request'[q] = NoRequest \/ request'[q] = request[q]
        BY <2>1, <1>rows
      <3> QED
        BY <3>1, <2>1, <1>rows, IdleRequest DEF CodesInv, RequestHolds
    <2>5. moves' = 1 /\ moved' = TRUE
      BY <2>1 DEF CodesInv, RequestHolds
    <2> QED
      BY <2>1, <2>3, <2>4, <2>5 DEF CodesInv, CodesTypeOK, RequestRows
  <1>5. ASSUME NEW r \in Requests, WrongCode(r) PROVE CodesInv'
    <2>1. request[r].code \in Codes
      BY <1>5 DEF WrongCode, EndRequest, CodesInv, RequestHolds
    <2>3. request' = [request EXCEPT ![r] = NoRequest] /\ UNCHANGED <<issued, status, attempts, lapsed, moved, moves>>
      BY <1>5 DEF WrongCode, EndRequest
    <2>4. request' \in [Requests -> RequestRows] /\ \A q \in Requests : RequestHolds(request[q])'
      BY <2>3, <1>idle, IdleRequest, RequestWritten
    <2>2. wrong' \in [Codes -> 0 .. MaxWrong]
      <3>1. PICK c \in Codes : wrong[c] < MaxWrong /\ wrong' = [wrong EXCEPT ![c] = wrong[c] + 1]
        BY <1>5, <2>1 DEF WrongCode
      <3>2. wrong \in [Codes -> 0 .. MaxWrong] /\ wrong[c] + 1 \in 0 .. MaxWrong
        BY <3>1 DEF CodesInv, CodesTypeOK
      <3> QED BY <3>1, <3>2
    <2> QED
      BY <2>2, <2>3, <2>4 DEF CodesInv, CodesTypeOK, RequestRows
  <1>6. ASSUME NEW r \in Requests, RequestFails(r) PROVE CodesInv'
    BY <1>6, <1>idle, IdleRequest, RequestWritten DEF RequestFails, CodesInv, CodesTypeOK, RequestRows
  <1>7. ASSUME NEW c \in Codes, CodeTtlElapses(c) PROVE CodesInv'
    BY <1>7 DEF CodeTtlElapses, CodesInv, CodesTypeOK, RequestHolds
  <1>8. CASE WorkerExpiresCodes
    BY <1>8 DEF WorkerExpiresCodes, Active, CodesInv, CodesTypeOK, RequestHolds
  <1>9. CASE UNCHANGED codeVars
    BY <1>9 DEF codeVars, CodesInv, CodesTypeOK, RequestHolds
  <1> QED
    BY <1>1, <1>2, <1>3, <1>4, <1>5, <1>6, <1>7, <1>8, <1>9 DEF CodesNext

\* A code is used once, and no later than it counts.
LEMMA CodesUsed == CodesInv => CodesUsedOnce
  BY DEF CodesInv, CodesUsedOnce, ChangesHandsOnce

-----------------------------------------------------------------------------
(* Safety. Each contact that a request in flight has found room for is      *)
(* counted as if it were there already: so the limit is exceeded by no      *)
(* more than the requests.                                                  *)

ReportStatuses == {"NONE", "SUBMITTED", "TRIAGED", "UNDER_REVIEW", "ACTION_REQUIRED",
                   "RESOLVED", "REJECTED", "DUPLICATE", "CLOSED"}
\* A report says that it is resolved exactly while it is settled.
ReportRows == {row \in [status : ReportStatuses, resolved : BOOLEAN] :
                   row.resolved <=> row.status \in Settled}
SafetyRows == [op : {"idle", "report", "status", "block", "unblock", "contact"},
               row : ReportRows, block : BlockRows \cup {"NONE"}]
SafetyBusy == {r \in SafetyRequests : safetyTx[r].op # "idle"}
Contacting == {r \in SafetyRequests : safetyTx[r].op = "contact"}

SafetyTypeOK ==
    /\ report \in ReportRows
    /\ reports \in {0, 1}
    /\ blockRow \in SUBSET BlockRows
    /\ contacts \in Nat
    /\ safetyTx \in [SafetyRequests -> SafetyRows]
    /\ safetyAlone \in BOOLEAN

SafetyAlone ==
    /\ \A r, q \in SafetyBusy : r = q
    /\ contacts + Cardinality(Contacting) <= MaxContacts
    /\ \A r \in SafetyBusy : safetyTx[r].op = "block" => blockRow = {}
    /\ \A b, c \in blockRow : b = c

SafetyInv ==
    /\ SafetyTypeOK
    /\ contacts + Cardinality(Contacting) <= MaxContacts + Cardinality(SafetyRequests) - 1
    /\ safetyAlone => SafetyAlone

\* A request that has not begun.
LEMMA IdleSafety == NoReport \in ReportRows /\ NoSafetyTx \in SafetyRows /\ NoSafetyTx.op = "idle"
  BY DEF NoReport, ReportRows, ReportStatuses, Settled, NoSafetyTx, SafetyRows

(* A row that a decision writes is settled exactly if it is resolved.       *)
LEMMA DecidedReport ==
    ASSUME NEW a \in DOMAIN safetyTransitionTargets, NEW row \in ReportRows,
           MayMoveReport(row.status, a)
    PROVE  [status |-> safetyTransitionTargets[a],
            resolved |-> safetyTransitionTargets[a] \in Settled \/ row.resolved] \in ReportRows
  <1> DEFINE to == safetyTransitionTargets[a]
  <1>1. row.status \in ReportStatuses /\ (row.resolved <=> row.status \in Settled) /\ row.resolved \in BOOLEAN
    BY DEF ReportRows
  <1>2. to \in ReportStatuses
    BY DEF safetyTransitionTargets, ReportStatuses
  <1>3. row.status \in Settled => to \in Settled
    <2>1. CASE row.status = to
      BY <2>1
    <2>2. CASE row.status \in safetyAllowedTransitions[a]
      BY <2>2 DEF safetyTransitionTargets, safetyAllowedTransitions, Settled
    <2> QED BY <2>1, <2>2 DEF MayMoveReport
  <1> HIDE DEF to
  <1>4. PICK b \in BOOLEAN : b <=> (to \in Settled \/ row.resolved)
    OBVIOUS
  <1>5. b = (to \in Settled \/ row.resolved)
    BY <1>4, Zenon
  <1>6. [status |-> to, resolved |-> b] \in ReportRows
    BY <1>1, <1>2, <1>3, <1>4 DEF ReportRows
  <1> QED
    BY <1>5, <1>6, Zenon DEF to

\* The invariant holds before anything is reported.
LEMMA SafetyStart == SafetyInit => SafetyInv
  <1> SUFFICES ASSUME SafetyInit PROVE SafetyInv
    OBVIOUS
  <1>1. SafetyTypeOK
    BY IdleSafety DEF SafetyInit, SafetyTypeOK
  <1>2. Contacting = {} /\ SafetyBusy = {}
    BY IdleSafety DEF SafetyInit, Contacting, SafetyBusy
  <1>3. Cardinality({}) = 0 /\ Cardinality(SafetyRequests) \in Nat /\ Cardinality(SafetyRequests) # 0
    BY SafetyRequestsAssumption, FS_EmptySet, FS_CardinalityType
  <1> QED
    BY <1>1, <1>2, <1>3, MaxContactsAssumption DEF SafetyInit, SafetyInv, SafetyAlone

\* Every step keeps it.
LEMMA SafetyKept == SafetyInv /\ [SafetyNext]_safetyVars => SafetyInv'
  <1> SUFFICES ASSUME SafetyInv, [SafetyNext]_safetyVars PROVE SafetyInv'
    OBVIOUS
  <1> USE SafetyRequestsAssumption, MaxContactsAssumption
  <1>type. SafetyTypeOK
    BY DEF SafetyInv
  <1>n. /\ Cardinality(SafetyRequests) \in Nat /\ Cardinality(SafetyRequests) >= 1
        /\ Contacting \in SUBSET SafetyRequests /\ Cardinality(Contacting) \in Nat
        /\ contacts \in Nat
    BY FS_CardinalityType, FS_EmptySet, AtMostAll DEF Contacting, SafetyInv, SafetyTypeOK
  \* A request reads: it counts as a new contact, or has seen that there is no block.
  <1>begin. ASSUME NEW r \in SafetyRequests, NEW op \in {"report", "status", "block", "unblock", "contact"},
                   NEW row \in ReportRows, NEW b \in BlockRows \cup {"NONE"}, BeginSafety(r, op, row, b),
                   op = "contact" => contacts < MaxContacts, op = "block" => blockRow = {}
            PROVE  SafetyInv'
    <2> DEFINE t == [op |-> op, row |-> row, block |-> b]
    <2>1. /\ safetyTx' = [safetyTx EXCEPT ![r] = t] /\ safetyTx[r].op = "idle"
          /\ safetyAlone => SafetyBusy = {}
          /\ UNCHANGED <<report, reports, blockRow, contacts, safetyAlone>>
      BY <1>begin DEF BeginSafety, SafetyBusy
    <2>2. t \in SafetyRows /\ t.op = op
      BY DEF SafetyRows
    <2> HIDE DEF t
    <2>3. /\ \A q \in SafetyRequests : safetyTx'[q] = IF q = r THEN t ELSE safetyTx[q]
          /\ safetyTx' \in [SafetyRequests -> SafetyRows]
      BY <2>1, <2>2, <1>type DEF SafetyTypeOK
    <2>4. SafetyTypeOK'
      BY <2>1, <2>3, <1>type DEF SafetyTypeOK
    <2>5. /\ r \notin Contacting /\ SafetyBusy' = SafetyBusy \cup {r}
          /\ Contacting' = IF op = "contact" THEN Contacting \cup {r} ELSE Contacting
      BY <2>1, <2>2, <2>3 DEF Contacting, SafetyBusy
    <2>6. /\ Cardinality(Contacting \cup {r}) = Cardinality(Contacting) + 1
          /\ Cardinality(Contacting) + 1 <= Cardinality(SafetyRequests)
      BY <2>5, <1>n, OneMore
    <2>7. contacts' + Cardinality(Contacting') <= MaxContacts + Cardinality(SafetyRequests) - 1
      BY <2>1, <2>5, <2>6, <1>n, <1>begin DEF SafetyInv
    <2>8. ASSUME safetyAlone PROVE SafetyAlone'
      <3>1. SafetyBusy = {} /\ Contacting = {}
        BY <2>1, <2>8 DEF SafetyBusy, Contacting
      <3>2. Cardinality(Contacting) = 0
        BY <3>1, FS_EmptySet
      <3>3. contacts' + Cardinality(Contacting') <= MaxContacts
        BY <2>1, <2>5, <2>6, <2>8, <3>2, <1>n, <1>begin DEF SafetyInv, SafetyAlone
      <3> QED
        BY <2>1, <2>2, <2>3, <2>5, <2>8, <3>1, <3>3, <1>begin DEF SafetyInv, SafetyAlone
    <2> QED
      BY <2>1, <2>4, <2>7, <2>8 DEF SafetyInv
  \* A request ends.
  <1> DEFINE Ended(r) ==
                 /\ safetyTx' \in [SafetyRequests -> SafetyRows]
                 /\ SafetyBusy' = SafetyBusy \ {r} /\ Contacting' = Contacting \ {r}
                 /\ safetyAlone => SafetyBusy' = {}
                 /\ Cardinality(Contacting') \in Nat
                 /\ Cardinality(Contacting') <= Cardinality(Contacting)
                 /\ r \in Contacting => Cardinality(Contacting') = Cardinality(Contacting) - 1
  <1>end. ASSUME NEW r \in SafetyRequests, safetyTx[r].op # "idle",
                 safetyTx' = [safetyTx EXCEPT ![r] = NoSafetyTx]
          PROVE  Ended(r)
    <2>1. /\ safetyTx' \in [SafetyRequests -> SafetyRows]
          /\ \A q \in SafetyRequests : safetyTx'[q] = IF q = r THEN NoSafetyTx ELSE safetyTx[q]
      BY <1>end, <1>type, IdleSafety DEF SafetyTypeOK
    <2>2. SafetyBusy' = SafetyBusy \ {r} /\ Contacting' = Contacting \ {r}
      BY <2>1, IdleSafety DEF SafetyBusy, Contacting
    <2>3. safetyAlone => SafetyBusy' = {}
      BY <2>2, <1>end DEF SafetyInv, SafetyAlone, SafetyBusy
    <2>4. IsFiniteSet(Contacting) /\ Contacting' \in SUBSET Contacting
      BY <2>2, <1>n, AtMostAll
    <2> QED
      BY <2>1, <2>2, <2>3, <2>4, AtMostAll, OneLess
  <1> HIDE DEF Ended
  \* What a request that ended leaves: no more contacts than were counted, and one block at most.
  <1>fewer. ASSUME NEW r \in SafetyRequests, Ended(r), UNCHANGED safetyAlone,
                   report' \in ReportRows, reports' \in {0, 1}, contacts' \in Nat,
                   blockRow' \in SUBSET BlockRows,
                   contacts' = contacts \/ (r \in Contacting /\ contacts' = contacts + 1),
                   safetyAlone => \A b, c \in blockRow' : b = c
            PROVE  SafetyInv'
    <2>1. SafetyTypeOK'
      BY <1>fewer, <1>type DEF SafetyTypeOK, Ended
    <2>2. contacts' + Cardinality(Contacting') <= contacts + Cardinality(Contacting)
          /\ Cardinality(Contacting') \in Nat
      BY <1>fewer, <1>n DEF Ended
    <2>3. contacts' + Cardinality(Contacting') <= MaxContacts + Cardinality(SafetyRequests) - 1
      BY <2>2, <1>fewer, <1>n DEF SafetyInv
    <2>4. ASSUME safetyAlone PROVE SafetyAlone'
      <3>1. contacts' + Cardinality(Contacting') <= MaxContacts
        BY <2>2, <2>4, <1>fewer, <1>n DEF SafetyInv, SafetyAlone
      <3> QED BY <2>4, <3>1, <1>fewer DEF SafetyAlone, Ended
    <2> QED BY <2>1, <2>3, <2>4, <1>fewer DEF SafetyInv
  <1>one. safetyAlone => \A b, c \in blockRow : b = c
    BY DEF SafetyInv, SafetyAlone
  <1>1. ASSUME NEW r \in SafetyRequests, SafetyReportBegin(r) PROVE SafetyInv'
    BY <1>1, <1>begin, IdleSafety DEF SafetyReportBegin
  <1>2. ASSUME NEW r \in SafetyRequests, ReportCreated(r) PROVE SafetyInv'
    <2>1. /\ safetyTx[r].op # "idle" /\ safetyTx' = [safetyTx EXCEPT ![r] = NoSafetyTx]
          /\ UNCHANGED <<blockRow, contacts, safetyAlone>>
          /\ report' = [status |-> "SUBMITTED", resolved |-> FALSE]
          /\ reports' = 1
      BY <1>2 DEF ReportCreated, EndSafety, ReportUnused
    <2>e. Ended(r)
      BY <2>1, <1>end
    <2>2. report' \in ReportRows
      BY <2>1 DEF ReportRows, ReportStatuses, Settled
    <2> QED
      BY <2>1, <2>2, <2>e, <1>fewer, <1>one, <1>type DEF SafetyTypeOK
  <1>3. ASSUME NEW r \in SafetyRequests, StatusRead(r) PROVE SafetyInv'
    <2>1. PICK a \in DOMAIN safetyTransitionTargets :
              /\ MayMoveReport(report.status, a)
              /\ BeginSafety(r, "status",
                   [status |-> safetyTransitionTargets[a],
                    resolved |-> safetyTransitionTargets[a] \in Settled \/ report.resolved], "NONE")
      BY <1>3 DEF StatusRead
    <2>2. [status |-> safetyTransitionTargets[a],
           resolved |-> safetyTransitionTargets[a] \in Settled \/ report.resolved] \in ReportRows
      BY <2>1, <1>type, DecidedReport DEF SafetyTypeOK
    <2> QED
      BY <2>1, <2>2, <1>begin
  <1>4. ASSUME NEW r \in SafetyRequests, StatusWritten(r) PROVE SafetyInv'
    <2>1. Ended(r) /\ UNCHANGED <<reports, blockRow, contacts, safetyAlone>>
      <3>1. /\ safetyTx[r].op # "idle" /\ safetyTx' = [safetyTx EXCEPT ![r] = NoSafetyTx]
            /\ UNCHANGED <<reports, blockRow, contacts, safetyAlone>>
        BY <1>4 DEF StatusWritten, EndSafety
      <3> QED BY <3>1, <1>end
    <2>2. report' \in ReportRows
      BY <1>4, <1>type DEF StatusWritten, SafetyTypeOK, SafetyRows
    <2> QED
      BY <2>1, <2>2, <1>fewer, <1>one, <1>type DEF SafetyTypeOK
  <1>5. ASSUME NEW r \in SafetyRequests, BlockRead(r) PROVE SafetyInv'
    BY <1>5, <1>begin, IdleSafety DEF BlockRead, NotBlocked
  <1>6. ASSUME NEW r \in SafetyRequests, BlockCreated(r) PROVE SafetyInv'
    <2>1. PICK b \in BlockRows : blockRow' = blockRow \cup {b}
      BY <1>6 DEF BlockCreated
    <2>2. /\ safetyTx[r].op = "block" /\ safetyTx' = [safetyTx EXCEPT ![r] = NoSafetyTx]
          /\ UNCHANGED <<report, reports, contacts, safetyAlone>>
      BY <1>6 DEF BlockCreated, EndSafety
    <2>e. Ended(r)
      BY <2>2, <1>end
    <2>3. safetyAlone => blockRow = {}
      BY <2>2 DEF SafetyInv, SafetyAlone, SafetyBusy
    <2> QED
      BY <2>1, <2>2, <2>3, <2>e, <1>fewer, <1>type DEF SafetyTypeOK
  <1>7. ASSUME NEW r \in SafetyRequests, UnblockRead(r) PROVE SafetyInv'
    <2>1. PICK b \in blockRow : BeginSafety(r, "unblock", NoReport, b)
      BY <1>7 DEF UnblockRead
    <2> QED
      BY <2>1, <1>begin, <1>type, IdleSafety DEF SafetyTypeOK
  <1>8. ASSUME NEW r \in SafetyRequests, BlockRemoved(r) PROVE SafetyInv'
    <2>1. /\ safetyTx[r].op # "idle" /\ safetyTx' = [safetyTx EXCEPT ![r] = NoSafetyTx]
          /\ UNCHANGED <<report, reports, contacts, safetyAlone>> /\ blockRow' \subseteq blockRow
      BY <1>8 DEF BlockRemoved, EndSafety
    <2>e. Ended(r)
      BY <2>1, <1>end
    <2> QED
      BY <2>1, <2>e, <1>fewer, <1>one, <1>type DEF SafetyTypeOK
  <1>9. ASSUME NEW r \in SafetyRequests, ContactRead(r) PROVE SafetyInv'
    BY <1>9, <1>begin, IdleSafety DEF ContactRead, ContactsBelow
  <1>10. ASSUME NEW r \in SafetyRequests, ContactCreated(r) PROVE SafetyInv'
    <2>1. /\ safetyTx[r].op = "contact" /\ safetyTx' = [safetyTx EXCEPT ![r] = NoSafetyTx]
          /\ UNCHANGED <<report, reports, blockRow, safetyAlone>> /\ contacts' = contacts + 1
          /\ r \in Contacting
      BY <1>10 DEF ContactCreated, EndSafety, Contacting
    <2>e. Ended(r)
      BY <2>1, <1>end
    <2> QED
      BY <2>1, <2>e, <1>fewer, <1>one, <1>type DEF SafetyTypeOK
  <1>11. ASSUME NEW r \in SafetyRequests, SafetyRequestFails(r) PROVE SafetyInv'
    <2>1. /\ safetyTx[r].op # "idle" /\ safetyTx' = [safetyTx EXCEPT ![r] = NoSafetyTx]
          /\ UNCHANGED <<report, reports, blockRow, contacts, safetyAlone>>
      BY <1>11 DEF SafetyRequestFails
    <2>e. Ended(r)
      BY <2>1, <1>end
    <2> QED
      BY <2>1, <2>e, <1>fewer, <1>one, <1>type DEF SafetyTypeOK
  <1>12. CASE ContactDeleted \/ UNCHANGED safetyVars
    <2>1. /\ UNCHANGED <<report, reports, blockRow, safetyTx, safetyAlone>>
          /\ contacts' \in Nat /\ contacts' <= contacts
      BY <1>12, <1>n DEF ContactDeleted, safetyVars
    <2>2. SafetyTypeOK' /\ Contacting' = Contacting /\ SafetyBusy' = SafetyBusy
      BY <2>1, <1>type DEF SafetyTypeOK, Contacting, SafetyBusy
    <2>3. contacts' + Cardinality(Contacting') <= MaxContacts + Cardinality(SafetyRequests) - 1
      BY <2>1, <2>2, <1>n DEF SafetyInv
    <2>4. ASSUME safetyAlone PROVE SafetyAlone'
      <3>1. contacts' + Cardinality(Contacting') <= MaxContacts
        BY <2>1, <2>2, <2>4, <1>n DEF SafetyInv, SafetyAlone
      <3> QED BY <2>1, <2>2, <2>4, <3>1 DEF SafetyInv, SafetyAlone
    <2> QED BY <2>1, <2>2, <2>3, <2>4 DEF SafetyInv
  <1> QED
    BY <1>1, <1>2, <1>3, <1>4, <1>5, <1>6, <1>7, <1>8, <1>9, <1>10, <1>11, <1>12 DEF SafetyNext, SafetyStep

\* Reports, blocks and contacts hold.
LEMMA SafetyHolds == SafetyInv => SafetyRecordsHold
  <1> SUFFICES ASSUME SafetyInv PROVE SafetyRecordsHold
    OBVIOUS
  <1>1. Cardinality(Contacting) \in Nat /\ Cardinality(SafetyRequests) \in Nat /\ contacts \in Nat
    BY AtMostAll, SafetyRequestsAssumption DEF Contacting, SafetyInv, SafetyTypeOK
  <1>2. ASSUME safetyAlone PROVE Cardinality(blockRow) <= 1
    <2>1. CASE blockRow = {}
      BY <2>1, FS_EmptySet
    <2>2. CASE blockRow # {}
      <3>1. PICK b : b \in blockRow
        BY <2>2
      <3>2. blockRow = {b}
        BY <1>2, <3>1 DEF SafetyInv, SafetyAlone
      <3> QED BY <3>2, FS_Singleton
    <2> QED BY <2>1, <2>2
  <1>3. LimitsKept
    BY <1>1, <1>2, MaxContactsAssumption DEF LimitsKept, SafetyInv, SafetyAlone
  <1>4. ReportedOnce /\ ResolvedIfSettled
    BY DEF ReportedOnce, ResolvedIfSettled, SafetyInv, SafetyTypeOK, ReportRows, Settled
  <1> QED
    BY <1>3, <1>4 DEF SafetyRecordsHold
=============================================================================
