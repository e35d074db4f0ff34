------------------------------- MODULE Uploads -------------------------------
(***************************************************************************)
(* Uploaded files (apps/api/src/main.ts): the rows of one type of document *)
(* or photo of a vehicle, or of a driver's application, and the photos of  *)
(* a parcel.  A file is uploaded elsewhere and then announced; the         *)
(* transaction that announces it reads its owner, replaces the rows that   *)
(* are UPLOADED, and creates a new one.  Nothing is locked.                *)
(***************************************************************************)
EXTENDS Naturals, FiniteSets

CONSTANTS
    AssetRows,      \* VehicleDocument, VehiclePhoto or DriverVerificationDocument
    MaxPhotos,      \* defaultParcelLimits.maxPhotos
    UploadRequests  \* requests that may be in flight together

ASSUME MaxPhotosAssumption == MaxPhotos \in Nat
ASSUME UploadRequestsAssumption == IsFiniteSet(UploadRequests) /\ UploadRequests # {}

VARIABLES
    owner,          \* the vehicle or application: "EDITABLE", "SUBMITTED" or "APPROVED"
    asset,          \* status of each row
    parcelOpen,     \* the parcel is DRAFT or CREATED
    photos,         \* ParcelAttachment rows of the parcel
    uploadTx,       \* what each request has read
    uploadsAlone    \* assumption: no two requests overlap

uploadVars == <<owner, asset, parcelOpen, photos, uploadTx, uploadsAlone>>

NoUpload == [op |-> "idle", seen |-> {}]

UploadsInit ==
    /\ owner = "EDITABLE"
    /\ asset = [f \in AssetRows |-> "NONE"]
    /\ parcelOpen = TRUE
    /\ photos = 0
    /\ uploadTx = [r \in UploadRequests |-> NoUpload]
    /\ uploadsAlone \in BOOLEAN

LiveAssets == {f \in AssetRows : asset[f] = "UPLOADED"}

BeginUpload(r, op, seen) ==
    /\ uploadTx[r] = NoUpload
    /\ uploadsAlone => \A q \in UploadRequests : uploadTx[q] = NoUpload
    /\ uploadTx' = [uploadTx EXCEPT ![r] = [op |-> op, seen |-> seen]]
    /\ UNCHANGED <<owner, asset, parcelOpen, photos, uploadsAlone>>

EndUpload(r, op) ==
    /\ uploadTx[r].op = op
    /\ uploadTx' = [uploadTx EXCEPT ![r] = NoUpload]
    /\ UNCHANGED uploadsAlone

-----------------------------------------------------------------------------
(* addAsset, and POST /driver/verification/documents/complete              *)

Editable == owner = "EDITABLE"

AddAssetBegin(r) == Editable /\ BeginUpload(r, "add", LiveAssets)

\* (mutant) the row before stays as it is
NotReplaced(r) == {{}}
\* Rows that were committed after the update began are not replaced.
ReplacedRows(r) == {LiveAssets, LiveAssets \cap uploadTx[r].seen}

\* An upload that is announced twice gives a second row for one file.
AddAsset(r) ==
    /\ EndUpload(r, "add")
    /\ \E f \in AssetRows, replaced \in ReplacedRows(r) :
           /\ asset[f] = "NONE"
           /\ asset' = [g \in AssetRows |-> IF g = f THEN "UPLOADED"
                                            ELSE IF g \in replaced THEN "REPLACED" ELSE asset[g]]
    /\ UNCHANGED <<owner, parcelOpen, photos>>

\* DELETE .../documents/:documentId and .../photos/:photoId: any row of the owner.
RemoveAssetBegin(r) == Editable /\ \E f \in AssetRows :
    asset[f] # "NONE" /\ BeginUpload(r, "remove", {f})

RemoveAsset(r) ==
    /\ EndUpload(r, "remove")
    /\ asset' = [f \in AssetRows |-> IF f \in uploadTx[r].seen THEN "DELETED" ELSE asset[f]]
    /\ UNCHANGED <<owner, parcelOpen, photos>>

\* submitVehicle and POST /driver/verification/submit.
SubmitAssetsBegin(r) == Editable /\ LiveAssets # {} /\ BeginUpload(r, "submit", {})

SubmitAssets(r) ==
    /\ EndUpload(r, "submit")
    /\ owner' = "SUBMITTED"
    /\ UNCHANGED <<asset, parcelOpen, photos>>

\* The admin approves or asks for changes.
DecideOwner ==
    /\ owner = "SUBMITTED"
    /\ uploadsAlone => \A q \in UploadRequests : uploadTx[q] = NoUpload
    /\ owner' \in {"APPROVED", "EDITABLE"}
    /\ UNCHANGED <<asset, parcelOpen, photos, uploadTx, uploadsAlone>>

-----------------------------------------------------------------------------
(* POST and DELETE /parcels/:parcelId/photos                               *)

\* In any status of the parcel.
AddPhotoBegin(r) == photos < MaxPhotos /\ BeginUpload(r, "photo", {})

AddPhoto(r) ==
    /\ EndUpload(r, "photo")
    /\ photos' = photos + 1
    /\ UNCHANGED <<owner, asset, parcelOpen>>

RemovePhoto ==
    /\ parcelOpen /\ photos > 0
    /\ photos' = photos - 1
    /\ UNCHANGED <<owner, asset, parcelOpen, uploadTx, uploadsAlone>>

ParcelMatched ==
    /\ parcelOpen
    /\ parcelOpen' = FALSE
    /\ UNCHANGED <<owner, asset, photos, uploadTx, uploadsAlone>>

UploadFails(r) ==
    /\ uploadTx[r] # NoUpload
    /\ uploadTx' = [uploadTx EXCEPT ![r] = NoUpload]
    /\ UNCHANGED <<owner, asset, parcelOpen, photos, uploadsAlone>>

UploadsNext ==
    \/ \E r \in UploadRequests :
           \/ AddAssetBegin(r) \/ AddAsset(r) \/ RemoveAssetBegin(r) \/ RemoveAsset(r)
           \/ SubmitAssetsBegin(r) \/ SubmitAssets(r)
           \/ AddPhotoBegin(r) \/ AddPhoto(r) \/ UploadFails(r)
    \/ DecideOwner \/ RemovePhoto \/ ParcelMatched

UploadsSpec == UploadsInit /\ [][UploadsNext]_uploadVars

-----------------------------------------------------------------------------
\* GET .../documents/:documentId/download
Downloadable == {f \in AssetRows : asset[f] \notin {"NONE", "DELETED", "REPLACED"}}

(* A document can be had in one version, or in as many as requests         *)
(* announced it at the same time: every later upload replaces them all.    *)
(* What is under review or approved has it, unless requests overlap.       *)
DocumentsHold ==
    /\ Cardinality(Downloadable) <= (IF uploadsAlone THEN 1 ELSE Cardinality(UploadRequests))
    /\ uploadsAlone /\ ~Editable => Downloadable # {}

(* The limit of photos is exceeded by no more than the other requests in   *)
(* flight.                                                                 *)
PhotosWithinLimit ==
    photos <= MaxPhotos + (IF uploadsAlone THEN 0 ELSE Cardinality(UploadRequests) - 1)

(* Uploads leave the documents a review needs, and no more of anything     *)
(* than is allowed.                                                        *)
UploadsHold == DocumentsHold /\ PhotosWithinLimit
=============================================================================
