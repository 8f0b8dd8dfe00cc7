--------------------------- MODULE ArtifactStore ---------------------------
(***************************************************************************)
(* POST /v1/artifacts (services/api) and the objects in S3.                *)
(*                                                                         *)
(* The row comes first: its id is the object's key, so nobody can upload   *)
(* before it is there.  In mode register the client gets bucket and key    *)
(* and uploads with its own credentials; in mode presign it gets a URL.    *)
(***************************************************************************)
EXTENDS Naturals

CONSTANTS
  Digest,       \* what a sha256 names: an object's content
  NoDigest,     \* nothing
  Owner,        \* what rows are registered for (the path in their meta)
  NoOwner,      \* nothing
  Uploader,     \* requests for an upload URL
  MaxArtifacts  \* bound: rows

ASSUME ArtifactAssumption ==
  NoDigest \notin Digest /\ NoOwner \notin Owner /\ MaxArtifacts \in Nat

VARIABLES
  artifacts,   \* artifacts[a]: the row, or NoArtifact
  nextRow,     \* the next row's id
  objects,     \* objects[a]: the object under the key of row a
  uploading    \* uploading[u]: what u's request has come to

storeVars == <<artifacts, nextRow, objects, uploading>>

ArtifactId == 1 .. MaxArtifacts
NoArtifact == [mode |-> "none", sha256 |-> NoDigest, owner |-> NoOwner]
Artifact == [mode : {"register", "presign"}, sha256 : Digest,
             owner : Owner \cup {NoOwner}]

NoUpload == [pc |-> "idle", row |-> 0]

StoreTypeOK ==
  /\ artifacts \in [ArtifactId -> Artifact \cup {NoArtifact}]
  /\ nextRow \in 1 .. MaxArtifacts + 1
  /\ objects \in [ArtifactId -> Digest \cup {NoDigest}]
  /\ uploading \in [Uploader ->
       [pc : {"presign", "url", "over"}, row : ArtifactId] \cup {NoUpload}]

StoreInit ==
  /\ artifacts = [a \in ArtifactId |-> NoArtifact]
  /\ nextRow = 1
  /\ objects = [a \in ArtifactId |-> NoDigest]
  /\ uploading = [u \in Uploader |-> NoUpload]

(* orm.Create of a row with a new id. *)
CreateArtifact(mode, sha, owner) ==
  /\ nextRow <= MaxArtifacts
  /\ nextRow' = nextRow + 1
  /\ artifacts' = [artifacts EXCEPT ![nextRow] =
                     [mode |-> mode, sha256 |-> sha, owner |-> owner]]

(* S3 checks content length and checksum: it stores what they name. *)
PutObject(a, content, sha) ==
  /\ content = sha
  /\ objects' = [objects EXCEPT ![a] = content]

(* Mutant of PresignCreate: an error of the database is not noticed. *)
PresignUnsaved(u, sha) ==
  /\ uploading[u] = NoUpload
  /\ nextRow <= MaxArtifacts
  /\ nextRow' = nextRow + 1
  /\ uploading' = [uploading EXCEPT ![u] = [pc |-> "presign", row |-> nextRow]]
  /\ UNCHANGED <<artifacts, objects>>

(* mode presign: the row is committed before the URL is asked for. *)
PresignCreate(u, sha) ==
  /\ uploading[u] = NoUpload
  /\ CreateArtifact("presign", sha, NoOwner)
  /\ uploading' = [uploading EXCEPT ![u] = [pc |-> "presign", row |-> nextRow]]
  /\ UNCHANGED objects

(* PresignPut only signs; 201 with the URL. *)
PresignPut(u) ==
  /\ uploading[u].pc = "presign"
  /\ uploading' = [uploading EXCEPT ![u].pc = "url"]
  /\ UNCHANGED <<artifacts, nextRow, objects>>

(* The URL is signed for the key only: any content may come, within expiry. *)
UploadByUrl(u, content) ==
  /\ uploading[u].pc = "url"
  /\ objects' = [objects EXCEPT ![uploading[u].row] = content]
  /\ UNCHANGED <<artifacts, nextRow, uploading>>

(* Signing fails (500), the response is lost, or the URL's time is over. *)
UploadEnds(u) ==
  /\ uploading[u].pc \in {"presign", "url"}
  /\ uploading' = [uploading EXCEPT ![u].pc = "over"]
  /\ UNCHANGED <<artifacts, nextRow, objects>>

UploaderNext ==
  \E u \in Uploader :
    \/ \E c \in Digest : PresignCreate(u, c) \/ UploadByUrl(u, c)
    \/ PresignPut(u) \/ UploadEnds(u)

(* An object is only ever found under the key of a row. *)
ObjectHasRow ==
  \A a \in ArtifactId : objects[a] # NoDigest => artifacts[a] # NoArtifact
-----------------------------------------------------------------------------
(* Part of the inductive invariant of BundleImportProofs: ids ahead have no *)
(* row, and a URL is for a row of mode presign.                             *)
StoreOK ==
  /\ \A a \in ArtifactId : a >= nextRow => artifacts[a] = NoArtifact
  /\ \A u \in Uploader : uploading[u] # NoUpload =>
       artifacts[uploading[u].row].mode = "presign"
  /\ ObjectHasRow
=============================================================================
