------------------------- MODULE BundleImportProofs -------------------------
(***************************************************************************)
(* Proofs about BundleImport (with BundleBuild and ArtifactStore), for any *)
(* files, contents, keys, uploaders and bounds.                            *)
(***************************************************************************)
EXTENDS BundleImport, FiniteSetTheorems, TLAPS

(***************************************************************************)
(* Files                                                                   *)
(***************************************************************************)
LEMMA FilesIntro ==
  ASSUME NEW P \in SUBSET Path, NEW f \in [P -> Content]
  PROVE  f \in Files
BY DEF Files

LEMMA FilesElim ==
  ASSUME NEW f \in Files
  PROVE  DOMAIN f \in SUBSET Path /\ f \in [DOMAIN f -> Content]
<1>1. PICK P \in SUBSET Path : f \in [P -> Content]
  BY DEF Files
<1> QED BY <1>1

LEMMA PutType ==
  ASSUME NEW f \in Files, NEW p \in Path, NEW c \in Content
  PROVE  /\ Put(f, p, c) \in Files
         /\ DOMAIN Put(f, p, c) = DOMAIN f \cup {p}
<1>1. DOMAIN f \in SUBSET Path /\ f \in [DOMAIN f -> Content]
  BY FilesElim
<1>2. Put(f, p, c) \in [DOMAIN f \cup {p} -> Content]
  BY <1>1 DEF Put
<1>3. DOMAIN f \cup {p} \in SUBSET Path
  BY <1>1
<1> QED BY <1>2, <1>3, FilesIntro

LEMMA NoFilesType == NoFiles \in Files /\ DOMAIN NoFiles = {}
<1>1. NoFiles \in [{} -> Content]
  BY DEF NoFiles
<1> QED BY <1>1, FilesIntro

(* NewSignerFromEnv returns keys that are keys, or nil. *)
LEMMA SignerType ==
  ASSUME NEW secret \in EnvValue, NEW pub \in EnvValue,
         NewSignerFromEnv(secret, pub) # NoSigner
  PROVE  NewSignerFromEnv(secret, pub) \in Signer
<1>1. ~ (secret = Unset /\ pub = Unset) /\ secret # Malformed /\ pub # Malformed
  BY DEF NewSignerFromEnv
<1>2. (secret \in Key) \in BOOLEAN
  OBVIOUS
<1>3. IF secret \in Key THEN TRUE ELSE pub \in Key
  BY <1>1 DEF EnvValue
<1>4. NewSignerFromEnv(secret, pub)
        = [private |-> secret \in Key, key |-> IF secret \in Key THEN secret ELSE pub]
  BY DEF NewSignerFromEnv
<1> QED BY <1>2, <1>3, <1>4 DEF Signer

LEMMA MishapType == mishaps \in 0 .. MaxMishaps /\ Mishap => mishaps' \in 0 .. MaxMishaps
BY BuildAssumption DEF Mishap

-----------------------------------------------------------------------------
(***************************************************************************)
(* Build                                                                   *)
(***************************************************************************)
(* Steps that leave the archive as it is, or end Build. *)
LEMMA ArchiveStays ==
  ASSUME BuildTypeOK, BuildOK, bundle' = bundle, sealed' = sealed,
         dir' \in [Path -> Content \cup {Absent}], mishaps' \in 0 .. MaxMishaps,
         build' \in Building \cup {NotBuilding},
         build'.pc \notin {"write", "copy"}
           \/ (build' = build /\ built' = built),
         built' \in {"never", "failed"} \/ (built' = built /\ built \in {"never", "ok", "failed"})
  PROVE  BuildTypeOK' /\ BuildOK'
<1>1. BuildTypeOK'
  BY DEF BuildTypeOK
<1>2. WritingOK'
  BY DEF BuildOK, WritingOK, Pending
<1>3. BuiltHasEveryMember'
  BY DEF BuildOK, BuiltHasEveryMember
<1> QED BY <1>1, <1>2, <1>3 DEF BuildOK

LEMMA SealKeeps ==
  ASSUME BuildTypeOK, BuildOK, Seal
  PROVE  BuildTypeOK' /\ BuildOK' /\ sealed \subseteq sealed'
<1>1. build \in Building /\ build.pc = "collect" /\ dir' = dir /\ mishaps' = mishaps
  BY DEF Seal, BuildTypeOK, NotBuilding
<1>2. build.signer \in Signer /\ build.entries \in Files
  BY <1>1 DEF Building
<1>3. CASE Fail /\ UNCHANGED <<bundle, sealed>>
  <2>1. build' = NotBuilding /\ build'.pc = "idle" /\ built' = "failed"
    BY <1>3 DEF Fail, NotBuilding
  <2> QED BY <1>1, <1>3, <2>1, ArchiveStays DEF BuildTypeOK
<1>4. CASE DOMAIN build.entries # {} /\ build.signer.private
  <2> DEFINE sig == Sign(build.signer, build.entries)
             new == [present |-> TRUE, torn |-> TRUE, files |-> NoFiles,
                     manifest |-> [entries |-> build.entries,
                                   key |-> build.signer.key, sig |-> sig]]
  <2>1. /\ sealed' = sealed \cup {sig} /\ bundle' = new /\ built' = built
        /\ build' = [build EXCEPT !.pc = "write", !.todo = DOMAIN build.entries]
    BY <1>4 DEF Seal, Fail
  <2>2. sig \in [key : Key, over : Files] /\ build.signer.key \in Key
    BY <1>2 DEF Sign, Signer
  <2>3. new \in Bundle
    BY <1>2, <2>2, NoFilesType DEF Bundle, Manifest
  <2>4. DOMAIN build.entries \in SUBSET Path
    BY <1>2, FilesElim
  <2>5. /\ build' \in Building /\ build'.pc = "write" /\ build'.todo = DOMAIN build.entries
    BY <1>1, <2>1, <2>4 DEF Building
  <2>6. /\ bundle'.present /\ bundle'.torn /\ bundle'.manifest.entries = build.entries
        /\ bundle'.manifest.sig = sig /\ DOMAIN bundle'.files = {}
    BY <2>1, NoFilesType
  <2> HIDE DEF new, sig
  <2>7. BuildTypeOK'
    BY <1>1, <2>1, <2>2, <2>3, <2>5, <2>6 DEF BuildTypeOK
  <2>8. BuildOK'
    BY <2>1, <2>5, <2>6 DEF BuildOK, WritingOK, Pending, BuiltHasEveryMember
  <2> QED BY <2>1, <2>7, <2>8
<1> QED BY <1>3, <1>4 DEF Seal

LEMMA WriteHeaderKeeps ==
  ASSUME BuildTypeOK, BuildOK, NEW p \in Path, WriteHeader(p)
  PROVE  BuildTypeOK' /\ BuildOK'
<1>1. /\ build \in Building /\ build.pc = "write" /\ p \in build.todo
      /\ UNCHANGED <<dir, sealed, mishaps>>
  BY DEF WriteHeader, BuildTypeOK, NotBuilding
<1>2. bundle \in Bundle /\ bundle.present /\ bundle.torn
  BY <1>1 DEF BuildTypeOK, NoBundle
<1>3. CASE Fail /\ UNCHANGED bundle
  <2>1. build' = NotBuilding /\ build'.pc = "idle" /\ built' = "failed"
    BY <1>3 DEF Fail, NotBuilding
  <2> QED BY <1>1, <1>3, <2>1, ArchiveStays DEF BuildTypeOK
<1>4. CASE Fail /\ bundle' = [bundle EXCEPT !.torn = FALSE]
  <2>1. build' = NotBuilding /\ build'.pc = "idle" /\ built' = "failed"
    BY <1>4 DEF Fail, NotBuilding
  <2>2. bundle' \in Bundle /\ bundle'.manifest = bundle.manifest /\ bundle'.present
    BY <1>2, <1>4 DEF Bundle
  <2>3. BuildTypeOK'
    BY <1>1, <2>1, <2>2 DEF BuildTypeOK
  <2> QED BY <1>1, <1>2, <2>1, <2>2, <2>3 DEF BuildOK, WritingOK, BuiltHasEveryMember
<1>5. CASE /\ ~ build.short /\ dir[p] # Absent /\ UNCHANGED <<bundle, built>>
           /\ build' = [build EXCEPT !.pc = "copy", !.todo = @ \ {p}, !.at = p,
                                     !.size = SizeOf[dir[p]]]
  <2>1. SizeOf[dir[p]] \in Nat
    BY <1>5, BuildAssumption DEF BuildTypeOK
  <2>2. /\ build' \in Building /\ build'.pc = "copy" /\ build'.todo = build.todo \ {p}
        /\ build'.at = p /\ build'.short = build.short
    BY <1>1, <1>5, <2>1 DEF Building
  <2>3. BuildTypeOK'
    BY <1>1, <1>2, <1>5, <2>2 DEF BuildTypeOK
  <2>4. WritingOK'
    BY <1>1, <1>5, <2>2 DEF BuildOK, WritingOK, Pending
  <2> QED BY <1>1, <1>5, <2>3, <2>4 DEF BuildOK, BuiltHasEveryMember
<1> QED BY <1>3, <1>4, <1>5 DEF WriteHeader

LEMMA WriteBodyKeeps ==
  ASSUME BuildTypeOK, BuildOK, WriteBody
  PROVE  BuildTypeOK' /\ BuildOK'
<1> DEFINE c == dir[build.at]
           members == DOMAIN bundle.manifest.entries
<1>1. /\ build \in Building /\ build.pc = "copy"
      /\ UNCHANGED <<dir, sealed, mishaps>>
  <2>1. build.pc = "copy" /\ UNCHANGED <<dir, sealed, mishaps>>
    BY ZenonT(30) DEF WriteBody
  <2> QED BY <2>1 DEF BuildTypeOK, NotBuilding
<1>2. bundle \in Bundle /\ bundle.present /\ bundle.torn
  BY <1>1 DEF BuildTypeOK, NoBundle
<1>3. /\ build.todo \subseteq members
      /\ build.at \in members \ build.todo
      /\ ~ build.short
      /\ DOMAIN bundle.files = members \ (build.todo \cup {build.at})
  BY <1>1 DEF BuildOK, WritingOK, Pending
<1>4. bundle.manifest.entries \in Files /\ bundle.files \in Files
  BY <1>2 DEF Bundle, Manifest
<1>5. build.at \in Path
  BY <1>3, <1>4, FilesElim
<1>6. ASSUME Fail,
             \/ bundle' = [bundle EXCEPT !.torn = FALSE]
             \/ \E cut \in Content :
                  bundle' = [bundle EXCEPT !.torn = FALSE,
                                           !.files = Put(@, build.at, cut)]
      PROVE  BuildTypeOK' /\ BuildOK'
  <2>1. build' = NotBuilding /\ build'.pc = "idle" /\ built' = "failed"
    BY <1>6 DEF Fail, NotBuilding
  <2>2. bundle' \in Bundle /\ bundle'.manifest = bundle.manifest /\ bundle'.present
    <3>1. CASE bundle' = [bundle EXCEPT !.torn = FALSE]
      BY <1>2, <3>1 DEF Bundle
    <3>2. CASE \E cut \in Content :
                 bundle' = [bundle EXCEPT !.torn = FALSE,
                                          !.files = Put(@, build.at, cut)]
      <4>1. PICK cut \in Content :
                   bundle' = [bundle EXCEPT !.torn = FALSE,
                                            !.files = Put(@, build.at, cut)]
        BY <3>2
      <4>2. Put(bundle.files, build.at, cut) \in Files
        BY <1>4, <1>5, PutType
      <4> QED BY <1>2, <4>1, <4>2 DEF Bundle
    <3> QED BY <1>6, <3>1, <3>2
  <2>3. BuildTypeOK'
    BY <1>1, <2>1, <2>2 DEF BuildTypeOK
  <2> QED BY <1>1, <1>2, <2>1, <2>2, <2>3 DEF BuildOK, WritingOK, BuiltHasEveryMember
<1>7. CASE /\ c # Absent /\ bundle' = [bundle EXCEPT !.files = Put(@, build.at, c)]
           /\ build' = [build EXCEPT !.pc = "write"] /\ built' = built
  <2>1. c \in Content
    BY <1>5, <1>7 DEF BuildTypeOK
  <2>2. /\ Put(bundle.files, build.at, c) \in Files
        /\ DOMAIN Put(bundle.files, build.at, c) = DOMAIN bundle.files \cup {build.at}
    BY <1>4, <1>5, <2>1, PutType
  <2>3. /\ bundle' \in Bundle /\ bundle'.manifest = bundle.manifest /\ bundle'.present
        /\ bundle'.torn /\ DOMAIN bundle'.files = DOMAIN bundle.files \cup {build.at}
    <3> HIDE DEF c
    <3> QED BY <1>2, <1>7, <2>2 DEF Bundle
  <2>4. /\ build' \in Building /\ build'.pc = "write" /\ build'.todo = build.todo
        /\ build'.short = build.short
    BY <1>1, <1>7 DEF Building
  <2>5. BuildTypeOK'
    BY <1>1, <1>7, <2>3, <2>4 DEF BuildTypeOK
  <2>6. WritingOK'
    BY <1>3, <2>3, <2>4 DEF WritingOK, Pending
  <2> QED BY <1>1, <1>2, <2>3, <2>5, <2>6 DEF BuildOK, BuiltHasEveryMember
<1>8. CASE /\ build' = [build EXCEPT !.pc = "write", !.short = TRUE]
           /\ UNCHANGED <<bundle, built>>
  <2>1. /\ build' \in Building /\ build'.pc = "write" /\ build'.todo = build.todo
        /\ build'.short
    BY <1>1, <1>8 DEF Building
  <2>2. BuildTypeOK'
    BY <1>1, <1>2, <1>8, <2>1 DEF BuildTypeOK
  <2>3. WritingOK'
    BY <1>3, <1>8, <2>1 DEF WritingOK
  <2> QED BY <1>1, <1>8, <2>2, <2>3 DEF BuildOK, BuiltHasEveryMember
<1> QED BY <1>6, <1>7, <1>8 DEF WriteBody

LEMMA FinishKeeps ==
  ASSUME BuildTypeOK, BuildOK, Finish
  PROVE  BuildTypeOK' /\ BuildOK'
<1>1. /\ build \in Building /\ build.pc = "write" /\ build.todo = {}
      /\ build' = NotBuilding /\ build'.pc = "idle" /\ built' = "ok"
      /\ UNCHANGED <<dir, sealed>>
  BY DEF Finish, BuildTypeOK, NotBuilding
<1>2. bundle \in Bundle /\ bundle.present /\ bundle.torn
  BY <1>1 DEF BuildTypeOK, NoBundle
<1>3. mishaps' \in 0 .. MaxMishaps
  BY MishapType DEF Finish, BuildTypeOK
<1>4. CASE UNCHANGED bundle
  <2>1. BuildTypeOK'
    BY <1>1, <1>3, <1>4 DEF BuildTypeOK
  <2> QED BY <1>1, <1>2, <1>4, <2>1 DEF BuildOK, WritingOK, BuiltHasEveryMember
<1>5. CASE ~ build.short /\ bundle' = [bundle EXCEPT !.torn = FALSE]
  <2>1. /\ bundle' \in Bundle /\ bundle'.manifest = bundle.manifest /\ bundle'.present
        /\ bundle'.files = bundle.files
    BY <1>2, <1>5 DEF Bundle
  <2>2. DOMAIN bundle.files = DOMAIN bundle.manifest.entries
    BY <1>1, <1>5 DEF BuildOK, WritingOK, Pending
  <2>3. BuildTypeOK'
    BY <1>1, <1>3, <2>1 DEF BuildTypeOK
  <2> QED BY <1>1, <1>2, <2>1, <2>2, <2>3 DEF BuildOK, WritingOK, BuiltHasEveryMember
<1> QED BY <1>4, <1>5 DEF Finish

LEMMA BuildKeeps ==
  ASSUME BuildTypeOK, BuildOK, BuildNext
  PROVE  BuildTypeOK' /\ BuildOK' /\ sealed \subseteq sealed'
<1>1. ASSUME NEW p \in Path, NEW c \in Content \cup {Absent}, Edit(p, c)
      PROVE  BuildTypeOK' /\ BuildOK' /\ sealed \subseteq sealed'
  <2>1. dir' \in [Path -> Content \cup {Absent}] /\ mishaps' \in 0 .. MaxMishaps
        /\ UNCHANGED <<build, bundle, built, sealed>>
    BY <1>1, MishapType DEF Edit, BuildTypeOK
  <2> QED BY <2>1, ArchiveStays DEF BuildTypeOK
<1>2. ASSUME NEW secret \in EnvValue, NEW pub \in EnvValue, BuildBegin(secret, pub)
      PROVE  BuildTypeOK' /\ BuildOK' /\ sealed \subseteq sealed'
  <2> DEFINE signer == NewSignerFromEnv(secret, pub)
             new == [pc |-> "collect", signer |-> signer, todo |-> Path,
                     entries |-> NoFiles, at |-> Absent, size |-> 0, short |-> FALSE]
  <2>1. UNCHANGED <<dir, bundle, sealed, mishaps>> /\ build = NotBuilding
    BY <1>2 DEF BuildBegin
  <2>2. CASE signer = NoSigner
    <3>1. built' = "failed" /\ build' = build /\ build'.pc = "idle"
      BY <1>2, <2>1, <2>2 DEF BuildBegin, NotBuilding
    <3> QED BY <2>1, <3>1, ArchiveStays DEF BuildTypeOK
  <2>3. CASE signer # NoSigner
    <3>1. build' = new /\ built' = "never"
      BY <1>2, <2>3 DEF BuildBegin
    <3>2. signer \in Signer
      BY <2>3, SignerType
    <3> HIDE DEF signer
    <3>3. new \in Building /\ new.pc = "collect"
      BY <3>2, NoFilesType DEF Building
    <3> HIDE DEF new
    <3> QED BY <2>1, <3>1, <3>3, ArchiveStays DEF BuildTypeOK
  <2> QED BY <2>2, <2>3
<1>3. ASSUME NEW p \in Path, Collect(p)
      PROVE  BuildTypeOK' /\ BuildOK' /\ sealed \subseteq sealed'
  <2>1. build \in Building /\ UNCHANGED <<dir, bundle, built, sealed, mishaps>>
    BY <1>3 DEF Collect, BuildTypeOK, NotBuilding
  <2> DEFINE entries == IF dir[p] = Absent THEN build.entries
                        ELSE Put(build.entries, p, dir[p])
  <2>2. entries \in Files
    <3>1. build.entries \in Files /\ (dir[p] # Absent => dir[p] \in Content)
      BY <2>1 DEF Building, BuildTypeOK
    <3> QED BY <3>1, PutType
  <2>3. build' = [build EXCEPT !.todo = @ \ {p}, !.entries = entries]
    BY <1>3 DEF Collect
  <2> HIDE DEF entries
  <2>4. build' \in Building /\ build'.pc = "collect"
    BY <1>3, <2>1, <2>2, <2>3 DEF Collect, Building
  <2> QED BY <2>1, <2>4, ArchiveStays DEF BuildTypeOK
<1>4. ASSUME NEW p \in Path, WriteHeader(p)
      PROVE  BuildTypeOK' /\ BuildOK' /\ sealed \subseteq sealed'
  BY <1>4, WriteHeaderKeeps DEF WriteHeader
<1>5. CASE Seal
  BY <1>5, SealKeeps
<1>6. CASE WriteBody
  BY <1>6, WriteBodyKeeps DEF WriteBody
<1>7. CASE Finish
  BY <1>7, FinishKeeps DEF Finish
<1>8. CASE BuildFails
  <2>1. /\ build' = NotBuilding /\ build'.pc = "idle" /\ built' = "failed"
        /\ UNCHANGED <<dir, bundle, sealed>> /\ mishaps' \in 0 .. MaxMishaps
    BY <1>8, MishapType DEF BuildFails, Fail, NotBuilding, BuildTypeOK
  <2> QED BY <2>1, ArchiveStays DEF BuildTypeOK
<1> QED BY <1>1, <1>2, <1>3, <1>4, <1>5, <1>6, <1>7, <1>8 DEF BuildNext

-----------------------------------------------------------------------------
(***************************************************************************)
(* The store: what its steps do to rows of mode register.                  *)
(***************************************************************************)
(* A registered row stays, and its object becomes at most what it names. *)
RowStays(a) ==
  Registered(a) =>
    /\ artifacts'[a] = artifacts[a]
    /\ objects'[a] \in {objects[a], artifacts[a].sha256}

NoneRegistered == \A a \in ArtifactId : Registered(a)' => Registered(a)

LEMMA UploaderKeeps ==
  ASSUME StoreTypeOK, StoreOK, UploaderNext
  PROVE  /\ StoreTypeOK' /\ StoreOK'
         /\ NoneRegistered /\ \A a \in ArtifactId : RowStays(a)
<1> USE ArtifactAssumption
<1> PICK u \in Uploader : \/ \E c \in Digest : PresignCreate(u, c) \/ UploadByUrl(u, c)
                          \/ PresignPut(u) \/ UploadEnds(u)
  BY DEF UploaderNext
<1>0. /\ \A a \in ArtifactId : artifacts[a] \in Artifact \cup {NoArtifact}
      /\ uploading[u] \in [pc : {"presign", "url", "over"}, row : ArtifactId] \cup {NoUpload}
  BY DEF StoreTypeOK
<1>1. ASSUME NEW c \in Digest, PresignCreate(u, c)
      PROVE  /\ StoreTypeOK' /\ StoreOK'
             /\ NoneRegistered /\ \A a \in ArtifactId : RowStays(a)
  <2> DEFINE row == [mode |-> "presign", sha256 |-> c, owner |-> NoOwner]
             up  == [pc |-> "presign", row |-> nextRow]
  <2>1. /\ nextRow \in ArtifactId /\ nextRow' = nextRow + 1
        /\ artifacts' = [artifacts EXCEPT ![nextRow] = row]
        /\ uploading' = [uploading EXCEPT ![u] = up]
        /\ objects' = objects
        /\ uploading[u] = NoUpload
    BY <1>1 DEF PresignCreate, CreateArtifact, ArtifactId, StoreTypeOK
  <2>2. row \in Artifact /\ row.mode = "presign" /\ row # NoArtifact
    BY DEF Artifact, NoArtifact
  <2>3. up \in [pc : {"presign", "url", "over"}, row : ArtifactId] /\ up.row = nextRow
    BY <2>1
  <2>4. artifacts[nextRow] = NoArtifact /\ ~ Registered(nextRow)
    BY <2>1 DEF StoreOK, Registered, NoArtifact, ArtifactId
  <2> HIDE DEF row, up
  <2>5. StoreTypeOK'
    <3>1. nextRow' \in 1 .. MaxArtifacts + 1
      BY <2>1 DEF ArtifactId
    <3> QED BY <2>1, <2>2, <2>3, <3>1 DEF StoreTypeOK
  <2>6. \A a \in ArtifactId : artifacts'[a] = IF a = nextRow THEN row ELSE artifacts[a]
    BY <2>1 DEF StoreTypeOK
  <2>7. \A v \in Uploader : uploading'[v] = IF v = u THEN up ELSE uploading[v]
    BY <2>1 DEF StoreTypeOK
  <2>8. StoreOK'
    <3>1. ASSUME NEW a \in ArtifactId, a >= nextRow'
          PROVE  artifacts'[a] = NoArtifact
      <4>1. a # nextRow /\ a >= nextRow
        BY <2>1, <3>1 DEF ArtifactId
      <4> QED BY <2>6, <4>1 DEF StoreOK
    <3>2. ASSUME NEW v \in Uploader, uploading'[v] # NoUpload
          PROVE  artifacts'[uploading'[v].row].mode = "presign"
      <4>1. CASE v = u
        BY <2>1, <2>2, <2>3, <2>6, <2>7, <4>1
      <4>2. CASE v # u
        <5>1. uploading'[v] = uploading[v] /\ uploading[v].row \in ArtifactId
          BY <2>7, <3>2, <4>2 DEF StoreTypeOK
        <5>2. artifacts[uploading[v].row].mode = "presign"
          BY <3>2, <5>1 DEF StoreOK
        <5>3. uploading[v].row # nextRow
          BY <2>4, <5>2 DEF NoArtifact
        <5> QED BY <2>6, <5>1, <5>2, <5>3
      <4> QED BY <4>1, <4>2
    <3>3. ObjectHasRow'
      BY <2>1, <2>2, <2>6 DEF StoreOK, ObjectHasRow
    <3> QED BY <3>1, <3>2, <3>3 DEF StoreOK
  <2>9. NoneRegistered /\ \A a \in ArtifactId : RowStays(a)
    BY <2>1, <2>2, <2>4, <2>6 DEF NoneRegistered, RowStays, Registered
  <2> QED BY <2>5, <2>8, <2>9
<1>2. ASSUME NEW c \in Digest, UploadByUrl(u, c)
      PROVE  /\ StoreTypeOK' /\ StoreOK'
             /\ NoneRegistered /\ \A a \in ArtifactId : RowStays(a)
  <2> DEFINE r == uploading[u].row
  <2>1. /\ r \in ArtifactId /\ objects' = [objects EXCEPT ![r] = c]
        /\ artifacts' = artifacts /\ nextRow' = nextRow /\ uploading' = uploading
        /\ uploading[u] # NoUpload
    BY <1>0, <1>2 DEF UploadByUrl, NoUpload
  <2>2. artifacts[r].mode = "presign"
    BY <2>1 DEF StoreOK
  <2> HIDE DEF r
  <2>3. StoreTypeOK'
    BY <2>1 DEF StoreTypeOK
  <2>4. \A a \in ArtifactId : objects'[a] = IF a = r THEN c ELSE objects[a]
    BY <2>1 DEF StoreTypeOK
  <2>5. StoreOK'
    <3>1. ObjectHasRow'
      BY <2>1, <2>2, <2>4 DEF StoreOK, ObjectHasRow, NoArtifact
    <3> QED BY <2>1, <3>1 DEF StoreOK
  <2> QED BY <2>1, <2>2, <2>3, <2>4, <2>5 DEF NoneRegistered, RowStays, Registered
<1>3. ASSUME NEW pc \in {"url", "over"}, uploading[u].pc \in {"presign", "url"},
             uploading' = [uploading EXCEPT ![u].pc = pc],
             UNCHANGED <<artifacts, nextRow, objects>>
      PROVE  /\ StoreTypeOK' /\ StoreOK'
             /\ NoneRegistered /\ \A a \in ArtifactId : RowStays(a)
  <2>1. artifacts' = artifacts /\ nextRow' = nextRow /\ objects' = objects
    BY <1>3
  <2>2. uploading[u] \in [pc : {"presign", "url", "over"}, row : ArtifactId]
        /\ uploading[u] # NoUpload
    BY <1>0, <1>3 DEF NoUpload
  <2> DEFINE up == [uploading[u] EXCEPT !.pc = pc]
  <2>3. up \in [pc : {"presign", "url", "over"}, row : ArtifactId]
        /\ up.row = uploading[u].row
    BY <2>2
  <2>4. uploading' = [uploading EXCEPT ![u] = up]
    BY <1>3 DEF StoreTypeOK
  <2> HIDE DEF up
  <2>5. StoreTypeOK'
    BY <2>1, <2>3, <2>4 DEF StoreTypeOK
  <2>6. \A v \in Uploader : uploading'[v] = IF v = u THEN up ELSE uploading[v]
    BY <2>4 DEF StoreTypeOK
  <2>7. StoreOK'
    BY <2>1, <2>2, <2>3, <2>6 DEF StoreOK, ObjectHasRow
  <2> QED BY <2>1, <2>5, <2>7 DEF NoneRegistered, RowStays, Registered
<1> QED BY <1>1, <1>2, <1>3 DEF PresignPut, UploadEnds

(* What registerArtifact leaves: a new row, and no object under its key. *)
LEMMA CreateKeeps ==
  ASSUME StoreTypeOK, StoreOK, NEW sha \in Digest, NEW owner \in Owner,
         CreateArtifact("register", sha, owner), UNCHANGED <<objects, uploading>>
  PROVE  /\ StoreTypeOK' /\ StoreOK'
         /\ nextRow \in ArtifactId /\ ~ Registered(nextRow)
         /\ artifacts'[nextRow] = [mode |-> "register", sha256 |-> sha, owner |-> owner]
         /\ objects'[nextRow] = NoDigest
         /\ \A a \in ArtifactId : a # nextRow => artifacts'[a] = artifacts[a]
         /\ \A a \in ArtifactId : RowStays(a)
<1> USE ArtifactAssumption
<1> DEFINE row == [mode |-> "register", sha256 |-> sha, owner |-> owner]
<1>1. /\ nextRow \in ArtifactId /\ nextRow' = nextRow + 1
      /\ artifacts' = [artifacts EXCEPT ![nextRow] = row]
      /\ uploading' = uploading /\ objects' = objects
  BY DEF CreateArtifact, ArtifactId, StoreTypeOK
<1>2. row \in Artifact /\ row.mode = "register" /\ row # NoArtifact
  BY DEF Artifact, NoArtifact
<1>3. artifacts[nextRow] = NoArtifact /\ ~ Registered(nextRow)
  BY <1>1 DEF StoreOK, Registered, NoArtifact, ArtifactId
<1> HIDE DEF row
<1>4. StoreTypeOK'
  <2>1. nextRow' \in 1 .. MaxArtifacts + 1
    BY <1>1 DEF ArtifactId
  <2> QED BY <1>1, <1>2, <2>1 DEF StoreTypeOK
<1>5. \A a \in ArtifactId : artifacts'[a] = IF a = nextRow THEN row ELSE artifacts[a]
  BY <1>1 DEF StoreTypeOK
<1>6. StoreOK'
  <2>1. ASSUME NEW a \in ArtifactId, a >= nextRow'
        PROVE  artifacts'[a] = NoArtifact
    <3>1. a # nextRow /\ a >= nextRow
      BY <1>1, <2>1 DEF ArtifactId
    <3> QED BY <1>5, <3>1 DEF StoreOK
  <2>2. ASSUME NEW v \in Uploader, uploading'[v] # NoUpload
        PROVE  artifacts'[uploading'[v].row].mode = "presign"
    <3>1. uploading'[v] = uploading[v] /\ uploading[v].row \in ArtifactId
      BY <1>1, <2>2 DEF StoreTypeOK
    <3>2. artifacts[uploading[v].row].mode = "presign"
      BY <2>2, <3>1 DEF StoreOK
    <3>3. uploading[v].row # nextRow
      BY <1>3, <3>2 DEF NoArtifact
    <3> QED BY <1>5, <3>1, <3>2, <3>3
  <2>3. ObjectHasRow'
    BY <1>1, <1>2, <1>5 DEF StoreOK, ObjectHasRow
  <2> QED BY <2>1, <2>2, <2>3 DEF StoreOK
<1>7. objects'[nextRow] = NoDigest
  BY <1>1, <1>3 DEF StoreOK, ObjectHasRow
<1>8. \A a \in ArtifactId : RowStays(a)
  BY <1>1, <1>3, <1>5 DEF RowStays
<1> QED BY <1>1, <1>3, <1>4, <1>5, <1>6, <1>7, <1>8 DEF row

LEMMA PutKeeps ==
  ASSUME StoreTypeOK, StoreOK, NEW r \in ArtifactId, NEW content \in Digest, NEW sha,
         PutObject(r, content, sha), Registered(r), artifacts[r].sha256 = sha,
         UNCHANGED <<artifacts, nextRow, uploading>>
  PROVE  /\ StoreTypeOK' /\ StoreOK' /\ objects'[r] = sha
         /\ NoneRegistered /\ \A a \in ArtifactId : RowStays(a)
<1>1. /\ content = sha /\ objects' = [objects EXCEPT ![r] = content]
      /\ artifacts' = artifacts /\ nextRow' = nextRow /\ uploading' = uploading
  BY DEF PutObject
<1>2. StoreTypeOK'
  BY <1>1 DEF StoreTypeOK
<1>3. \A a \in ArtifactId : objects'[a] = IF a = r THEN content ELSE objects[a]
  BY <1>1 DEF StoreTypeOK
<1>4. artifacts[r] # NoArtifact
  BY DEF Registered, NoArtifact
<1>5. ObjectHasRow'
  BY <1>1, <1>3, <1>4 DEF StoreOK, ObjectHasRow
<1>6. StoreOK'
  BY <1>1, <1>5 DEF StoreOK
<1> QED BY <1>1, <1>2, <1>3, <1>6 DEF NoneRegistered, RowStays, Registered

LEMMA StoreIdles ==
  ASSUME StoreTypeOK, StoreOK, UNCHANGED storeVars
  PROVE  /\ StoreTypeOK' /\ StoreOK'
         /\ NoneRegistered /\ \A a \in ArtifactId : RowStays(a)
<1>1. artifacts' = artifacts /\ nextRow' = nextRow /\ objects' = objects
      /\ uploading' = uploading
  BY DEF storeVars
<1> QED BY <1>1 DEF StoreTypeOK, StoreOK, ObjectHasRow, NoneRegistered, RowStays, Registered

-----------------------------------------------------------------------------
(***************************************************************************)
(* What follows for the invariant when registered rows stay.               *)
(***************************************************************************)
LEMMA RowsFinite == \A p : IsFiniteSet(Rows(p)) /\ Cardinality(Rows(p)) \in Nat
<1>1. IsFiniteSet(ArtifactId)
  BY ArtifactAssumption, FS_Interval DEF ArtifactId
<1>2. TAKE p
<1>3. Rows(p) \subseteq ArtifactId
  BY DEF Rows
<1>4. IsFiniteSet(Rows(p))
  BY <1>1, <1>3, FS_Subset
<1> QED BY <1>4, FS_CardinalityType

LEMMA StoredStays ==
  ASSUME StoreTypeOK, ImportedWasSigned, \A a \in ArtifactId : RowStays(a),
         NEW p, NEW c \in Content, Stored(p, c)
  PROVE  Stored(p, c)'
<1>1. PICK a \in Rows(p) : objects[a] = c
  BY DEF Stored
<1>2. a \in ArtifactId /\ Registered(a) /\ artifacts[a].owner = p
  BY <1>1 DEF Rows
<1>3. c # NoDigest
  BY ArtifactAssumption, ImportAssumption
<1>4. artifacts[a].sha256 = c
  BY <1>1, <1>2, <1>3 DEF ImportedWasSigned
<1>5. artifacts'[a] = artifacts[a] /\ objects'[a] = c
  BY <1>1, <1>2, <1>4 DEF RowStays
<1>6. a \in Rows(p)'
  BY <1>2, <1>5 DEF Rows, Registered
<1> QED BY <1>5, <1>6 DEF Stored

SignedRow(a) ==
  /\ \E s \in sealed :
       /\ artifacts[a].owner \in DOMAIN s.over
       /\ s.over[artifacts[a].owner] = artifacts[a].sha256
  /\ objects[a] \in {NoDigest, artifacts[a].sha256}

LEMMA SignedStays ==
  ASSUME ImportedWasSigned, \A a \in ArtifactId : RowStays(a),
         sealed \subseteq sealed',
         \A a \in ArtifactId : Registered(a)' /\ ~ Registered(a) => SignedRow(a)'
  PROVE  ImportedWasSigned'
<1>1. ASSUME NEW a \in ArtifactId, Registered(a)'
      PROVE  SignedRow(a)'
  <2>1. CASE Registered(a)
    <3>1. /\ artifacts'[a] = artifacts[a]
          /\ objects'[a] \in {objects[a], artifacts[a].sha256}
      BY <2>1 DEF RowStays
    <3>2. SignedRow(a)
      BY <2>1 DEF ImportedWasSigned, SignedRow
    <3> QED BY <3>1, <3>2 DEF SignedRow
  <2>2. CASE ~ Registered(a)
    BY <1>1, <2>2
  <2> QED BY <2>1, <2>2
<1> QED BY <1>1 DEF ImportedWasSigned, SignedRow

LEMMA SignedWhenNoneRegistered ==
  ASSUME ImportedWasSigned, \A a \in ArtifactId : RowStays(a), NoneRegistered,
         sealed \subseteq sealed'
  PROVE  ImportedWasSigned'
BY SignedStays DEF NoneRegistered

(* Entries of a manifest name paths and contents. *)
LEMMA EntryType ==
  ASSUME NEW entries \in Files, NEW p \in DOMAIN entries
  PROVE  p \in Path /\ entries[p] \in Content
BY FilesElim

(* A report of success stays true, and any other report is. *)
LEMMA ReportStays ==
  ASSUME TypeOK, ImportedWasSigned, ImportedIsStored,
         \A a \in ArtifactId : RowStays(a), sealed \subseteq sealed',
         imported' = imported \/ imported'.end # "ok"
  PROVE  ImportedIsStored'
<1>1. CASE imported'.end # "ok"
  BY <1>1 DEF ImportedIsStored
<1>2. CASE imported' = imported /\ imported.end = "ok"
  <2>1. imported.entries \in Files /\ StoreTypeOK
    BY DEF TypeOK
  <2>2. \E s \in sealed' : s.over = imported.entries
    BY <1>2 DEF ImportedIsStored
  <2>3. ASSUME NEW p \in DOMAIN imported.entries
        PROVE  Stored(p, imported.entries[p])'
    <3>1. imported.entries[p] \in Content
      BY <2>1, EntryType
    <3>2. Stored(p, imported.entries[p])
      BY <1>2 DEF ImportedIsStored, Stored, Rows
    <3>3. \A c \in Content : Stored(p, c) => Stored(p, c)'
      BY <2>1, StoredStays
    <3> QED BY <1>2, <3>1, <3>2, <3>3 DEF Stored
  <2> QED BY <1>2, <2>2, <2>3 DEF ImportedIsStored, Stored, Rows
<1> QED BY <1>1, <1>2

LEMMA RowsStay ==
  ASSUME \A a \in ArtifactId : RowStays(a), NoneRegistered
  PROVE  \A p : Rows(p)' = Rows(p)
<1>1. \A a \in ArtifactId : /\ Registered(a)' <=> Registered(a)
                            /\ Registered(a) => artifacts'[a] = artifacts[a]
  BY DEF RowStays, NoneRegistered, Registered
<1> QED BY <1>1 DEF Rows

LEMMA BudgetStays ==
  ASSUME BudgetOK, \A p : Rows(p)' = Rows(p), imports' = imports, imports \in Nat,
         \A p \in Path : Owed(p)' => Owed(p)
  PROVE  BudgetOK'
<1>1. ASSUME NEW p \in Path
      PROVE  Budget(p)'
  <2>1. Budget(p) /\ Cardinality(Rows(p)) \in Nat /\ Rows(p)' = Rows(p) /\ (Owed(p)' => Owed(p))
    BY RowsFinite DEF BudgetOK
  <2> QED BY <2>1 DEF Budget
<1> QED BY <1>1 DEF BudgetOK

LEMMA AddOne ==
  ASSUME NEW S, IsFiniteSet(S), NEW x, x \notin S
  PROVE  Cardinality(S \cup {x}) = Cardinality(S) + 1
BY FS_AddElement

(* The row that is created pays for what was owed. *)
LEMMA BudgetSpent ==
  ASSUME BudgetOK, imports' = imports, imports \in Nat,
         NEW p \in Path, NEW r, r \notin Rows(p), Owed(p), ~ Owed(p)',
         Rows(p)' = Rows(p) \cup {r},
         \A q \in Path \ {p} : Rows(q)' = Rows(q) /\ (Owed(q)' => Owed(q))
  PROVE  BudgetOK'
<1>1. Cardinality(Rows(p)) + 1 <= imports
  BY DEF BudgetOK, Budget
<1>2. Cardinality(Rows(p) \cup {r}) = Cardinality(Rows(p)) + 1
  BY RowsFinite, AddOne
<1>3. Budget(p)'
  <2>1. Cardinality(Rows(p)') <= imports' /\ Cardinality(Rows(p)') \in Nat
    BY <1>1, <1>2, RowsFinite
  <2> QED BY <2>1 DEF Budget
<1>4. ASSUME NEW q \in Path \ {p}
      PROVE  Budget(q)'
  <2>1. Budget(q) /\ Cardinality(Rows(q)) \in Nat /\ Rows(q)' = Rows(q) /\ (Owed(q)' => Owed(q))
    BY RowsFinite DEF BudgetOK
  <2> QED BY <2>1 DEF Budget
<1> QED BY <1>3, <1>4 DEF BudgetOK

-----------------------------------------------------------------------------
(***************************************************************************)
(* The invariant, step by step.                                            *)
(***************************************************************************)
LEMMA BuildIdles ==
  ASSUME BuildTypeOK, BuildOK, UNCHANGED <<dir, build, bundle, built, sealed>>,
         mishaps' = mishaps \/ Mishap
  PROVE  BuildTypeOK' /\ BuildOK' /\ sealed \subseteq sealed'
<1>1. /\ dir' = dir /\ build' = build /\ bundle' = bundle /\ built' = built
      /\ sealed' = sealed
  OBVIOUS
<1>2. mishaps' \in 0 .. MaxMishaps
  BY MishapType DEF BuildTypeOK
<1> QED BY <1>1, <1>2 DEF BuildTypeOK, BuildOK, WritingOK, Pending, BuiltHasEveryMember

(* What an import in hand works with. *)
LEMMA ImportingFacts ==
  ASSUME TypeOK, ImportOK, import # NotImporting
  PROVE  LET entries == import.manifest.entries
         IN  /\ import \in Importing
             /\ import.manifest \in Manifest /\ entries \in Files
             /\ import.manifest.sig \in sealed /\ import.manifest.sig.over = entries
             /\ import.todo \in SUBSET Path /\ import.todo \subseteq DOMAIN entries
             /\ \A p \in DOMAIN entries : p \in Path /\ entries[p] \in Content
<1>1. import \in Importing
  BY DEF TypeOK
<1>2. import.manifest \in Manifest /\ import.todo \in SUBSET Path
  BY <1>1 DEF Importing
<1>3. import.manifest.entries \in Files
  BY <1>2 DEF Manifest
<1>4. \A p \in DOMAIN import.manifest.entries :
        p \in Path /\ import.manifest.entries[p] \in Content
  BY <1>3, EntryType
<1> QED BY <1>1, <1>2, <1>3, <1>4 DEF ImportOK

(* The entry in hand, while it is registered and uploaded. *)
LEMMA EntryInHand ==
  ASSUME TypeOK, ImportOK, import.pc \in {"register", "upload"}
  PROVE  LET entries == import.manifest.entries
         IN  /\ import # NotImporting
             /\ import.at \in import.todo /\ import.at \in Path
             /\ import.at \in DOMAIN entries
             /\ entries[import.at] \in Content
             /\ import.files[import.at] = entries[import.at]
<1>1. import # NotImporting
  BY DEF NotImporting
<1> QED BY <1>1, ImportingFacts DEF ImportOK

(* The import in hand is not touched. *)
LEMMA ImportStays ==
  ASSUME TypeOK, ImportOK, ImportedWasSigned, \A a \in ArtifactId : RowStays(a),
         sealed \subseteq sealed', import' = import
  PROVE  ImportOK'
<1> SUFFICES ASSUME import # NotImporting PROVE ImportOK'
  BY DEF ImportOK
<1> DEFINE entries == import.manifest.entries
<1>1. /\ import.manifest.sig \in sealed' /\ import.manifest.sig.over = entries
      /\ import.todo \subseteq DOMAIN entries
      /\ import.pc \in {"register", "upload"} =>
           import.at \in import.todo /\ import.files[import.at] = entries[import.at]
  BY DEF ImportOK
<1>2. ASSUME import.pc = "upload"
      PROVE  /\ import.row \in ArtifactId
             /\ artifacts'[import.row] = [mode |-> "register", owner |-> import.at,
                                          sha256 |-> entries[import.at]]
  <2>1. /\ import.row \in ArtifactId
        /\ artifacts[import.row] = [mode |-> "register", owner |-> import.at,
                                    sha256 |-> entries[import.at]]
    BY <1>2 DEF ImportOK
  <2>2. Registered(import.row)
    BY <2>1 DEF Registered
  <2> QED BY <2>1, <2>2 DEF RowStays
<1>3. ASSUME NEW p \in DOMAIN entries \ import.todo
      PROVE  Stored(p, entries[p])'
  <2>1. Stored(p, entries[p]) /\ entries[p] \in Content /\ StoreTypeOK
    BY ImportingFacts DEF ImportOK, TypeOK
  <2>2. \A c \in Content : Stored(p, c) => Stored(p, c)'
    BY <2>1, StoredStays
  <2> QED BY <2>1, <2>2 DEF Stored
<1> QED BY <1>1, <1>2, <1>3 DEF ImportOK

(* Nothing is imported in this step: Build, the uploaders and the damage. *)
LEMMA OutsideKeeps ==
  ASSUME IInv, UNCHANGED importVars, BuildTypeOK', BuildOK', sealed \subseteq sealed',
         StoreTypeOK', StoreOK', NoneRegistered, \A a \in ArtifactId : RowStays(a)
  PROVE  IInv'
<1>1. import' = import /\ imports' = imports /\ imported' = imported
  BY DEF importVars
<1>2. ImportOK'
  BY <1>1, ImportStays DEF IInv
<1>3. TypeOK'
  <2>1. import.pc = "upload" =>
          import'.row # 0 /\ artifacts'[import'.row].owner = import'.at
    BY <1>1, <1>2, ArtifactAssumption DEF ImportOK, NotImporting, ArtifactId
  <2> QED BY <1>1, <2>1 DEF IInv, TypeOK
<1>4. ImportedWasSigned'
  BY SignedWhenNoneRegistered DEF IInv
<1>5. ImportedIsStored'
  BY <1>1, ReportStays DEF IInv
<1>6. BudgetOK'
  <2>1. imports \in Nat
    BY ImportAssumption DEF IInv, TypeOK
  <2>2. \A p \in Path : Owed(p)' => Owed(p)
    BY <1>1 DEF Owed
  <2> QED BY <1>1, <2>1, <2>2, RowsStay, BudgetStays DEF IInv
<1> QED BY <1>2, <1>3, <1>4, <1>5, <1>6 DEF IInv

(* An import that fails owes nothing any more. *)
LEMMA AbortKeeps ==
  ASSUME IInv, Abort, imports' = imports, BuildTypeOK', BuildOK', sealed \subseteq sealed',
         StoreTypeOK', StoreOK', \A a \in ArtifactId : RowStays(a),
         ImportedWasSigned', BudgetOK'
  PROVE  IInv'
<1>1. import' = NotImporting /\ imported' = [end |-> "failed", entries |-> NoFiles]
  BY DEF Abort, Unknown
<1>2. TypeOK'
  <2>1. imported' \in [end : {"never", "ok", "failed"}, entries : Files]
    BY <1>1, NoFilesType
  <2> QED BY <1>1, <2>1 DEF IInv, TypeOK, NotImporting
<1>3. ImportOK'
  BY <1>1 DEF ImportOK
<1>4. ImportedIsStored'
  BY <1>1, ReportStays DEF IInv
<1> QED BY <1>2, <1>3, <1>4 DEF IInv

LEMMA AbortStill ==
  ASSUME IInv, Abort, imports' = imports, BuildTypeOK', BuildOK', sealed \subseteq sealed',
         StoreTypeOK', StoreOK', NoneRegistered, \A a \in ArtifactId : RowStays(a)
  PROVE  IInv'
<1>1. ImportedWasSigned'
  BY SignedWhenNoneRegistered DEF IInv
<1>2. BudgetOK'
  <2>1. imports \in Nat
    BY ImportAssumption DEF IInv, TypeOK
  <2>2. \A p \in Path : Owed(p)' => Owed(p)
    BY DEF Owed, Abort
  <2> QED BY <2>1, <2>2, RowsStay, BudgetStays DEF IInv
<1> QED BY <1>1, <1>2, AbortKeeps

LEMMA DamageKeeps ==
  ASSUME IInv, Damage
  PROVE  IInv'
<1>1. /\ BuildTypeOK /\ BuildOK /\ StoreTypeOK /\ StoreOK
      /\ UNCHANGED storeVars /\ UNCHANGED importVars
      /\ dir' = dir /\ build' = build /\ sealed' = sealed /\ built' = "never"
      /\ build = NotBuilding /\ bundle.present
      /\ mishaps' \in 0 .. MaxMishaps
  BY MishapType DEF Damage, IInv, TypeOK, BuildTypeOK
<1>2. bundle \in Bundle
  BY <1>1 DEF BuildTypeOK, NoBundle
<1>3. bundle.files \in Files /\ bundle.manifest.entries \in Files
  BY <1>2 DEF Bundle, Manifest
<1>4. bundle' \in Bundle /\ bundle'.present /\ bundle'.manifest.sig = bundle.manifest.sig
  <2>1. CASE bundle' = [bundle EXCEPT !.torn = TRUE]
    BY <1>1, <1>2, <2>1 DEF Bundle
  <2>2. CASE \E p \in Path, c \in Content :
               \E files \in {bundle.files, Put(bundle.files, p, c)} :
               \E entries \in {bundle.manifest.entries, Put(bundle.manifest.entries, p, c)} :
                 bundle' = [bundle EXCEPT !.files = files, !.manifest.entries = entries]
    <3>1. PICK p \in Path, c \in Content :
               \E files \in {bundle.files, Put(bundle.files, p, c)} :
               \E entries \in {bundle.manifest.entries, Put(bundle.manifest.entries, p, c)} :
                 bundle' = [bundle EXCEPT !.files = files, !.manifest.entries = entries]
      BY <2>2
    <3>2. PICK files \in {bundle.files, Put(bundle.files, p, c)},
               entries \in {bundle.manifest.entries, Put(bundle.manifest.entries, p, c)} :
                 bundle' = [bundle EXCEPT !.files = files, !.manifest.entries = entries]
      BY <3>1
    <3>3. files \in Files /\ entries \in Files
      <4>1. /\ Put(bundle.files, p, c) \in Files
            /\ Put(bundle.manifest.entries, p, c) \in Files
        BY <1>3, PutType
      <4> QED BY <1>3, <4>1
    <3>4. [bundle.manifest EXCEPT !.entries = entries] \in Manifest
          /\ [bundle.manifest EXCEPT !.entries = entries].sig = bundle.manifest.sig
      BY <1>2, <3>3 DEF Bundle, Manifest
    <3>5. bundle' = [bundle EXCEPT !.files = files,
                       !.manifest = [bundle.manifest EXCEPT !.entries = entries]]
      BY <1>2, <3>2 DEF Bundle
    <3> QED BY <1>1, <1>2, <3>3, <3>4, <3>5 DEF Bundle
  <2> QED BY <2>1, <2>2 DEF Damage
<1>5. BuildTypeOK'
  BY <1>1, <1>4 DEF BuildTypeOK, NotBuilding
<1>6. BuildOK'
  BY <1>1, <1>4 DEF BuildOK, WritingOK, BuiltHasEveryMember, NotBuilding
<1> QED BY <1>1, <1>5, <1>6, StoreIdles, OutsideKeeps

(* Only a manifest that was signed is verified, and everything is to do.    *)
LEMMA ImportBeginKeeps ==
  ASSUME IInv, NEW secret \in EnvValue, NEW pub \in EnvValue, ImportBegin(secret, pub)
  PROVE  IInv'
<1>1. /\ BuildTypeOK /\ BuildOK /\ StoreTypeOK /\ StoreOK
      /\ UNCHANGED storeVars /\ UNCHANGED <<dir, build, bundle, built, sealed>>
      /\ mishaps' = mishaps
      /\ import = NotImporting /\ bundle.present
      /\ imports' = imports + 1 /\ imports \in Nat /\ imports' \in 0 .. MaxImports
  BY ImportAssumption DEF ImportBegin, IInv, TypeOK, buildVars
<1>2. /\ BuildTypeOK' /\ BuildOK' /\ sealed \subseteq sealed'
      /\ StoreTypeOK' /\ StoreOK' /\ NoneRegistered /\ \A a \in ArtifactId : RowStays(a)
  BY <1>1, BuildIdles, StoreIdles
<1>3. ImportedWasSigned'
  BY <1>2, SignedWhenNoneRegistered DEF IInv
<1>4. BudgetOK'
  <2>1. ASSUME NEW p \in Path
        PROVE  Budget(p)'
    <3>1. /\ Cardinality(Rows(p)) <= imports /\ Cardinality(Rows(p)) \in Nat
          /\ Rows(p)' = Rows(p)
      BY <1>1, <1>2, RowsFinite, RowsStay DEF IInv, BudgetOK, Budget, Owed
    <3> QED BY <1>1, <3>1 DEF Budget
  <2> QED BY <2>1 DEF BudgetOK
<1> DEFINE entries == bundle.manifest.entries
           new == [pc |-> "next", manifest |-> bundle.manifest, files |-> bundle.files,
                   todo |-> DOMAIN entries, at |-> Absent, row |-> 0]
<1>5. CASE Abort
  <2>1. import' = NotImporting /\ imported' = [end |-> "failed", entries |-> NoFiles]
    BY <1>5 DEF Abort, Unknown
  <2>2. imported' \in [end : {"never", "ok", "failed"}, entries : Files]
    BY <2>1, NoFilesType
  <2>3. TypeOK'
    BY <1>1, <1>2, <2>1, <2>2 DEF TypeOK, NotImporting
  <2>4. ImportOK' /\ ImportedIsStored'
    BY <2>1 DEF ImportOK, ImportedIsStored
  <2> QED BY <1>2, <1>3, <1>4, <2>3, <2>4 DEF IInv
<1>6. CASE /\ \E signer : Verify(signer, bundle.manifest)
           /\ import' = new /\ imported' = Unknown("never")
  <2>1. bundle \in Bundle
    BY <1>1 DEF BuildTypeOK, NoBundle
  <2>2. bundle.manifest \in Manifest /\ bundle.files \in Files /\ entries \in Files
    BY <2>1 DEF Bundle, Manifest
  <2>3. DOMAIN entries \in SUBSET Path
    BY <2>2, FilesElim
  <2>4. bundle.manifest.sig \in sealed /\ bundle.manifest.sig.over = entries
    BY <1>1, <1>6 DEF BuildOK, Verify
  <2>5. new \in Importing
    BY <2>2, <2>3, ArtifactAssumption DEF Importing
  <2>6. /\ import' \in Importing /\ import'.pc = "next"
        /\ import'.manifest = bundle.manifest /\ import'.todo = DOMAIN entries
    BY <1>6, <2>5
  <2> HIDE DEF new
  <2>7. /\ imported' \in [end : {"never", "ok", "failed"}, entries : Files]
        /\ imported'.end = "never"
    BY <1>6, NoFilesType DEF Unknown
  <2>8. TypeOK'
    BY <1>1, <1>2, <2>6, <2>7 DEF TypeOK
  <2>9. ImportOK' /\ ImportedIsStored'
    BY <1>1, <2>4, <2>6, <2>7 DEF ImportOK, ImportedIsStored
  <2> QED BY <1>2, <1>3, <1>4, <2>8, <2>9 DEF IInv
<1> QED BY <1>5, <1>6 DEF ImportBegin

LEMMA validateArtifactKeeps ==
  ASSUME IInv, NEW p \in Path, validateArtifact(p)
  PROVE  IInv'
<1>1. /\ BuildTypeOK /\ BuildOK /\ StoreTypeOK /\ StoreOK /\ TypeOK /\ ImportOK
      /\ UNCHANGED storeVars /\ UNCHANGED <<dir, build, bundle, built, sealed>>
      /\ mishaps' = mishaps /\ imports' = imports /\ imports \in Nat
      /\ import.pc = "next" /\ p \in import.todo
  BY ImportAssumption DEF validateArtifact, IInv, TypeOK, buildVars
<1>2. /\ BuildTypeOK' /\ BuildOK' /\ sealed \subseteq sealed'
      /\ StoreTypeOK' /\ StoreOK' /\ NoneRegistered /\ \A a \in ArtifactId : RowStays(a)
  BY <1>1, BuildIdles, StoreIdles
<1>3. CASE Abort
  BY <1>1, <1>2, <1>3, AbortStill
<1>4. CASE /\ import.files[p] = import.manifest.entries[p]
           /\ import' = [import EXCEPT !.pc = "register", !.at = p]
           /\ imported' = imported
  <2>1. import # NotImporting
    BY <1>1 DEF NotImporting
  <2>2. import \in Importing
    BY <1>1, <2>1, ImportingFacts
  <2>3. /\ import' \in Importing /\ import'.pc = "register" /\ import'.at = p
        /\ import'.todo = import.todo /\ import'.manifest = import.manifest
        /\ import'.files = import.files
    BY <1>1, <1>4, <2>2 DEF Importing
  <2>4. TypeOK'
    BY <1>1, <1>2, <1>4, <2>3 DEF TypeOK
  <2>5. ImportOK'
    <3>1. \A q, c : Stored(q, c) <=> Stored(q, c)'
      <4>1. artifacts' = artifacts /\ objects' = objects
        BY <1>1 DEF storeVars
      <4> QED BY <4>1 DEF Stored, Rows, Registered
    <3>2. \A q \in DOMAIN import.manifest.entries \ import.todo :
            Stored(q, import.manifest.entries[q])
      BY <1>1, <2>1 DEF ImportOK
    <3>3. (\A q \in DOMAIN import.manifest.entries \ import.todo :
             Stored(q, import.manifest.entries[q]))'
      BY <2>3, <3>1, <3>2
    <3> QED BY <1>1, <1>4, <2>1, <2>3, <3>3 DEF ImportOK
  <2>6. ImportedWasSigned' /\ ImportedIsStored'
    BY <1>1, <1>2, <1>4, SignedWhenNoneRegistered, ReportStays DEF IInv
  <2>7. BudgetOK'
    <3>1. \A q \in Path : Owed(q)' => Owed(q)
      BY <1>1, <2>1, <2>3 DEF Owed
    <3> QED BY <1>1, <1>2, <3>1, RowsStay, BudgetStays DEF IInv
  <2> QED BY <1>2, <2>4, <2>5, <2>6, <2>7 DEF IInv
<1> QED BY <1>3, <1>4 DEF validateArtifact

(* The row for the entry in hand is created: it is signed for, and the      *)
(* entry is owed no other.                                                  *)
LEMMA RowCreated ==
  ASSUME IInv, NEW at, at = import.at, NEW r, r = nextRow,
         import.pc = "register", sealed \subseteq sealed',
         CreateArtifact("register", import.manifest.entries[import.at], import.at),
         UNCHANGED <<objects, uploading>>
  PROVE  /\ StoreTypeOK' /\ StoreOK' /\ \A a \in ArtifactId : RowStays(a)
         /\ r \in ArtifactId
         /\ artifacts'[r] = [mode |-> "register", owner |-> at,
                             sha256 |-> import.manifest.entries[at]]
         /\ ImportedWasSigned'
         /\ at \in Path /\ Owed(at)
         /\ r \notin Rows(at)
         /\ Rows(at)' = Rows(at) \cup {r}
         /\ \A q \in Path \ {at} : Rows(q)' = Rows(q)
<1> DEFINE entries == import.manifest.entries
<1>1. TypeOK /\ ImportOK /\ StoreTypeOK /\ StoreOK
  BY DEF IInv, TypeOK
<1>2. /\ import # NotImporting /\ at \in import.todo /\ at \in Path
      /\ at \in DOMAIN entries /\ entries[at] \in Content
  BY <1>1, EntryInHand
<1>3. import.manifest.sig \in sealed /\ import.manifest.sig.over = entries
  BY <1>1, <1>2, ImportingFacts
<1> DEFINE row == [mode |-> "register", owner |-> at, sha256 |-> entries[at]]
<1>4. /\ StoreTypeOK' /\ StoreOK'
      /\ r \in ArtifactId /\ ~ Registered(r)
      /\ artifacts'[r] = row /\ objects'[r] = NoDigest
      /\ \A a \in ArtifactId : a # r => artifacts'[a] = artifacts[a]
      /\ \A a \in ArtifactId : RowStays(a)
  BY <1>1, <1>2, CreateKeeps, ImportAssumption
<1>5. row.mode = "register" /\ row.owner = at /\ row.sha256 = entries[at]
  OBVIOUS
<1>6. ImportedWasSigned'
  <2>1. SignedRow(r)'
    BY <1>2, <1>3, <1>4, <1>5 DEF SignedRow
  <2>2. \A a \in ArtifactId : Registered(a)' /\ ~ Registered(a) => a = r
    BY <1>4 DEF Registered
  <2>3. \A a \in ArtifactId : Registered(a)' /\ ~ Registered(a) => SignedRow(a)'
    BY <2>1, <2>2 DEF SignedRow
  <2> QED BY <1>4, <2>3, SignedStays DEF IInv
<1>7. Owed(at)
  BY <1>2 DEF Owed
<1>8. r \notin Rows(at)
  BY <1>4 DEF Rows
<1> HIDE DEF row
<1>9. \A q, a : a \in Rows(q)' <=> a \in Rows(q) \/ (a = r /\ q = at)
  <2>1. ASSUME NEW q, NEW a \in ArtifactId
        PROVE  a \in Rows(q)' <=> a \in Rows(q) \/ (a = r /\ q = at)
    BY <1>4, <1>5 DEF Rows, Registered
  <2>2. \A q, a : (a \in Rows(q) => a \in ArtifactId) /\ (a \in Rows(q)' => a \in ArtifactId)
    BY DEF Rows
  <2> QED BY <1>4, <2>1, <2>2
<1>10. Rows(at)' = Rows(at) \cup {r} /\ \A q \in Path \ {at} : Rows(q)' = Rows(q)
  <2>1. Rows(at)' = Rows(at) \cup {r}
    BY <1>9
  <2>2. ASSUME NEW q \in Path \ {at} PROVE Rows(q)' = Rows(q)
    <3>1. q # at
      OBVIOUS
    <3>2. \A a : a \in Rows(q)' <=> a \in Rows(q)
      BY <1>9, <3>1
    <3> QED BY <3>2 DEF Rows
  <2> QED BY <2>1, <2>2
<1> QED BY <1>2, <1>4, <1>6, <1>7, <1>8, <1>10 DEF row

LEMMA registerArtifactKeeps ==
  ASSUME IInv, registerArtifact
  PROVE  IInv'
<1>0. PICK at, r : at = import.at /\ r = nextRow
  OBVIOUS
<1>1. /\ BuildTypeOK /\ BuildOK /\ StoreTypeOK /\ StoreOK /\ TypeOK /\ ImportOK
      /\ UNCHANGED <<objects, uploading>> /\ UNCHANGED <<dir, build, bundle, built, sealed>>
      /\ mishaps' = mishaps /\ imports' = imports /\ imports \in Nat /\ imported' = imported
      /\ import.pc = "register"
      /\ import' = [import EXCEPT !.pc = "upload", !.row = nextRow]
  BY ImportAssumption DEF registerArtifact, IInv, TypeOK, buildVars
<1>2. BuildTypeOK' /\ BuildOK' /\ sealed \subseteq sealed' /\ sealed' = sealed
  BY <1>1, BuildIdles
<1>3. CreateArtifact("register", import.manifest.entries[import.at], import.at)
  BY DEF registerArtifact
<1>4. /\ StoreTypeOK' /\ StoreOK' /\ \A a \in ArtifactId : RowStays(a)
      /\ r \in ArtifactId
      /\ artifacts'[r] = [mode |-> "register", owner |-> at,
                          sha256 |-> import.manifest.entries[at]]
      /\ ImportedWasSigned'
      /\ at \in Path /\ Owed(at)
      /\ r \notin Rows(at)
      /\ Rows(at)' = Rows(at) \cup {r}
      /\ \A q \in Path \ {at} : Rows(q)' = Rows(q)
  BY <1>0, <1>1, <1>2, <1>3, RowCreated
<1>5. import # NotImporting
  BY <1>1 DEF NotImporting
<1>6. import \in Importing /\ r \in 0 .. MaxArtifacts /\ r # 0
  BY <1>0, <1>1, <1>4, <1>5, ImportingFacts, ArtifactAssumption DEF ArtifactId
<1>7. /\ import' \in Importing /\ import'.pc = "upload" /\ import'.at = at
      /\ import'.todo = import.todo /\ import'.manifest = import.manifest
      /\ import'.files = import.files /\ import'.row = r
  BY <1>0, <1>1, <1>6 DEF Importing
<1>8. TypeOK'
  BY <1>1, <1>2, <1>4, <1>6, <1>7 DEF TypeOK
<1>9. ImportOK'
  <2>1. (\A q \in DOMAIN import.manifest.entries \ import.todo :
           Stored(q, import.manifest.entries[q]))'
    <3>1. ASSUME NEW q \in DOMAIN import.manifest.entries \ import.todo
          PROVE  Stored(q, import.manifest.entries[q])'
      <4>1. Stored(q, import.manifest.entries[q]) /\ import.manifest.entries[q] \in Content
        BY <1>1, <1>5, ImportingFacts DEF ImportOK
      <4>2. \A c \in Content : Stored(q, c) => Stored(q, c)'
        BY <1>1, <1>4, StoredStays DEF IInv
      <4> QED BY <1>7, <4>1, <4>2 DEF Stored
    <3> QED BY <1>7, <3>1
  <2> QED BY <1>0, <1>1, <1>2, <1>4, <1>5, <1>7, <2>1 DEF ImportOK
<1>10. ImportedIsStored'
  BY <1>1, <1>2, <1>4, ReportStays DEF IInv
<1>11. BudgetOK'
  <2>1. ~ Owed(at)' /\ \A q \in Path \ {at} : Owed(q)' => Owed(q)
    BY <1>0, <1>1, <1>5, <1>7 DEF Owed
  <2> QED BY <1>1, <1>4, <2>1, BudgetSpent DEF IInv
<1> QED BY <1>2, <1>4, <1>8, <1>9, <1>10, <1>11 DEF IInv

LEMMA registerFailsKeeps ==
  ASSUME IInv, registerFails
  PROVE  IInv'
<1>0. PICK at, r : at = import.at /\ r = nextRow
  OBVIOUS
<1>1. /\ BuildTypeOK /\ BuildOK /\ StoreTypeOK /\ StoreOK
      /\ UNCHANGED <<objects, uploading>> /\ UNCHANGED <<dir, build, bundle, built, sealed>>
      /\ Mishap /\ imports' = imports /\ imports \in Nat /\ Abort
      /\ import.pc = "register"
  BY ImportAssumption DEF registerFails, IInv, TypeOK
<1>2. BuildTypeOK' /\ BuildOK' /\ sealed \subseteq sealed' /\ sealed' = sealed
  BY <1>1, BuildIdles
<1>3. CASE UNCHANGED <<artifacts, nextRow>>
  <2>1. UNCHANGED storeVars
    BY <1>1, <1>3 DEF storeVars
  <2> QED BY <1>1, <1>2, <2>1, StoreIdles, AbortStill
<1>4. CASE CreateArtifact("register", import.manifest.entries[import.at], import.at)
  <2>1. /\ StoreTypeOK' /\ StoreOK' /\ \A a \in ArtifactId : RowStays(a)
        /\ ImportedWasSigned'
        /\ at \in Path /\ Owed(at)
        /\ r \notin Rows(at)
        /\ Rows(at)' = Rows(at) \cup {r}
        /\ \A q \in Path \ {at} : Rows(q)' = Rows(q)
    BY <1>0, <1>1, <1>2, <1>4, RowCreated
  <2>2. \A q : ~ Owed(q)'
    BY <1>1 DEF Owed, Abort
  <2>3. BudgetOK'
    BY <1>1, <2>1, <2>2, BudgetSpent DEF IInv
  <2> QED BY <1>1, <1>2, <2>1, <2>3, AbortKeeps
<1> QED BY <1>3, <1>4 DEF registerFails

(* The object for the entry in hand is stored under the row of that entry. *)
LEMMA ObjectPut ==
  ASSUME IInv, NEW at, at = import.at, import.pc = "upload",
         PutObject(import.row, import.files[import.at], import.manifest.entries[import.at]),
         UNCHANGED <<artifacts, nextRow, uploading>>
  PROVE  /\ StoreTypeOK' /\ StoreOK' /\ NoneRegistered
         /\ \A a \in ArtifactId : RowStays(a)
         /\ at \in import.todo
         /\ \A c : c = import.manifest.entries[at] => Stored(at, c)'
<1> DEFINE entries == import.manifest.entries
<1>1. TypeOK /\ ImportOK /\ StoreTypeOK /\ StoreOK
  BY DEF IInv, TypeOK
<1>2. /\ import # NotImporting /\ at \in import.todo
      /\ entries[at] \in Content /\ import.files[at] = entries[at]
  BY <1>1, EntryInHand
<1>3. PICK r : r = import.row
  OBVIOUS
<1>4. /\ r \in ArtifactId
      /\ artifacts[r] = [mode |-> "register", owner |-> at, sha256 |-> entries[at]]
  BY <1>1, <1>2, <1>3 DEF ImportOK
<1>5. Registered(r) /\ artifacts[r].owner = at /\ artifacts[r].sha256 = entries[at]
  BY <1>4 DEF Registered
<1>6. entries[at] \in Digest
  BY <1>2, ImportAssumption
<1>7. PutObject(r, entries[at], entries[at])
  BY <1>2, <1>3
<1>8. /\ StoreTypeOK' /\ StoreOK' /\ NoneRegistered
      /\ \A a \in ArtifactId : RowStays(a)
      /\ objects'[r] = entries[at]
  BY <1>1, <1>4, <1>5, <1>6, <1>7, PutKeeps
<1>9. r \in Rows(at)'
  BY <1>4, <1>5 DEF Rows, Registered
<1>10. ASSUME NEW c, c = entries[at] PROVE Stored(at, c)'
  BY <1>8, <1>9, <1>10 DEF Stored
<1> QED BY <1>2, <1>8, <1>10

LEMMA uploadKeeps ==
  ASSUME IInv, upload
  PROVE  IInv'
<1>0. PICK at : at = import.at
  OBVIOUS
<1>1. /\ BuildTypeOK /\ BuildOK /\ StoreTypeOK /\ StoreOK /\ TypeOK /\ ImportOK
      /\ UNCHANGED <<artifacts, nextRow, uploading>>
      /\ UNCHANGED <<dir, build, bundle, built, sealed>>
      /\ mishaps' = mishaps /\ imports' = imports /\ imports \in Nat /\ imported' = imported
      /\ import.pc = "upload"
      /\ import' = [import EXCEPT !.pc = "next", !.todo = @ \ {import.at}]
      /\ PutObject(import.row, import.files[import.at], import.manifest.entries[import.at])
  BY ImportAssumption DEF upload, IInv, TypeOK, buildVars
<1>2. BuildTypeOK' /\ BuildOK' /\ sealed \subseteq sealed' /\ sealed' = sealed
  BY <1>1, BuildIdles
<1>3. /\ StoreTypeOK' /\ StoreOK' /\ NoneRegistered
      /\ \A a \in ArtifactId : RowStays(a)
      /\ at \in import.todo
      /\ \A c : c = import.manifest.entries[at] => Stored(at, c)'
  BY <1>0, <1>1, ObjectPut
<1>4. import # NotImporting
  BY <1>1 DEF NotImporting
<1>5. import \in Importing
  BY <1>1, <1>4, ImportingFacts
<1>6. /\ import' \in Importing /\ import'.pc = "next"
      /\ import'.todo = import.todo \ {at} /\ import'.manifest = import.manifest
  BY <1>0, <1>1, <1>5 DEF Importing
<1>7. TypeOK'
  BY <1>1, <1>2, <1>3, <1>6 DEF TypeOK
<1>8. ImportOK'
  <2>1. ASSUME NEW q \in DOMAIN import.manifest.entries \ (import.todo \ {at}),
               NEW c, c = import.manifest.entries[q]
        PROVE  Stored(q, c)'
    <3>1. CASE q = at
      BY <1>3, <2>1, <3>1
    <3>2. CASE q # at
      <4>1. Stored(q, c) /\ c \in Content
        BY <1>1, <1>4, <2>1, <3>2, ImportingFacts DEF ImportOK
      <4> QED BY <1>1, <1>3, <4>1, StoredStays DEF IInv
    <3> QED BY <3>1, <3>2
  <2>2. (\A q \in DOMAIN import.manifest.entries \ import.todo :
           Stored(q, import.manifest.entries[q]))'
    BY <1>6, <2>1
  <2> QED BY <1>1, <1>2, <1>4, <1>6, <2>2 DEF ImportOK
<1>9. ImportedWasSigned' /\ ImportedIsStored'
  BY <1>1, <1>2, <1>3, SignedWhenNoneRegistered, ReportStays DEF IInv
<1>10. BudgetOK'
  <2>1. \A q \in Path : Owed(q)' => Owed(q)
    BY <1>0, <1>1, <1>4, <1>6 DEF Owed
  <2> QED BY <1>1, <1>3, <2>1, RowsStay, BudgetStays DEF IInv
<1> QED BY <1>2, <1>3, <1>7, <1>8, <1>9, <1>10 DEF IInv

LEMMA uploadFailsKeeps ==
  ASSUME IInv, uploadFails
  PROVE  IInv'
<1>1. /\ BuildTypeOK /\ BuildOK /\ StoreTypeOK /\ StoreOK
      /\ UNCHANGED <<artifacts, nextRow, uploading>>
      /\ UNCHANGED <<dir, build, bundle, built, sealed>>
      /\ Mishap /\ imports' = imports /\ Abort /\ import.pc = "upload"
  BY DEF uploadFails, IInv, TypeOK
<1>2. BuildTypeOK' /\ BuildOK' /\ sealed \subseteq sealed'
  BY <1>1, BuildIdles
<1>3. CASE UNCHANGED objects
  <2>1. UNCHANGED storeVars
    BY <1>1, <1>3 DEF storeVars
  <2> QED BY <1>1, <1>2, <2>1, StoreIdles, AbortStill
<1>4. CASE PutObject(import.row, import.files[import.at],
                     import.manifest.entries[import.at])
  <2>1. StoreTypeOK' /\ StoreOK' /\ NoneRegistered /\ \A a \in ArtifactId : RowStays(a)
    BY <1>1, <1>4, ObjectPut
  <2> QED BY <1>1, <1>2, <2>1, AbortStill
<1> QED BY <1>3, <1>4 DEF uploadFails

(* Nothing is left to do: every entry is stored. *)
LEMMA ImportEndsKeeps ==
  ASSUME IInv, ImportEnds
  PROVE  IInv'
<1> DEFINE entries == import.manifest.entries
<1>1. /\ BuildTypeOK /\ BuildOK /\ StoreTypeOK /\ StoreOK /\ TypeOK /\ ImportOK
      /\ UNCHANGED storeVars /\ UNCHANGED <<dir, build, bundle, built, sealed>>
      /\ mishaps' = mishaps /\ imports' = imports /\ imports \in Nat
      /\ import.pc = "next" /\ import.todo = {}
      /\ import' = NotImporting /\ imported' = [end |-> "ok", entries |-> entries]
  BY ImportAssumption DEF ImportEnds, IInv, TypeOK, buildVars
<1>2. /\ BuildTypeOK' /\ BuildOK' /\ sealed \subseteq sealed'
      /\ StoreTypeOK' /\ StoreOK' /\ NoneRegistered /\ \A a \in ArtifactId : RowStays(a)
  BY <1>1, BuildIdles, StoreIdles
<1>3. import # NotImporting
  BY <1>1 DEF NotImporting
<1>4. /\ entries \in Files /\ import.manifest.sig \in sealed
      /\ import.manifest.sig.over = entries
  BY <1>1, <1>3, ImportingFacts
<1>5. TypeOK'
  BY <1>1, <1>2, <1>4 DEF TypeOK, NotImporting
<1>6. ImportOK' /\ ImportedWasSigned'
  BY <1>1, <1>2, SignedWhenNoneRegistered DEF ImportOK, IInv
<1>7. ImportedIsStored'
  <2>1. \A p \in DOMAIN entries : Stored(p, entries[p])
    BY <1>1, <1>3 DEF ImportOK
  <2>2. artifacts' = artifacts /\ objects' = objects /\ sealed' = sealed
    BY <1>1 DEF storeVars
  <2>3. imported'.entries = entries
    BY <1>1
  <2> QED BY <1>4, <2>1, <2>2, <2>3 DEF ImportedIsStored, Stored, Rows, Registered
<1>8. BudgetOK'
  <2>1. \A q \in Path : Owed(q)' => Owed(q)
    BY <1>1 DEF Owed
  <2> QED BY <1>1, <1>2, <2>1, RowsStay, BudgetStays DEF IInv
<1> QED BY <1>2, <1>5, <1>6, <1>7, <1>8 DEF IInv

LEMMA KilledKeeps ==
  ASSUME IInv, Killed
  PROVE  IInv'
<1>1. /\ BuildTypeOK /\ BuildOK /\ StoreTypeOK /\ StoreOK
      /\ UNCHANGED storeVars /\ UNCHANGED <<dir, build, bundle, built, sealed>>
      /\ Mishap /\ imports' = imports /\ Abort
  BY DEF Killed, IInv, TypeOK
<1> QED BY <1>1, BuildIdles, StoreIdles, AbortStill

LEMMA Initially == Init => IInv
<1> SUFFICES ASSUME Init PROVE IInv
  OBVIOUS
<1>1. BuildTypeOK /\ BuildOK
  BY BuildAssumption DEF Init, BuildInit, BuildTypeOK, BuildOK, WritingOK,
                         BuiltHasEveryMember, NotBuilding, NoBundle
<1>2. StoreTypeOK /\ StoreOK
  BY ArtifactAssumption DEF Init, StoreInit, StoreTypeOK, StoreOK, ObjectHasRow
<1>3. \A a \in ArtifactId : ~ Registered(a)
  BY DEF Init, StoreInit, Registered, NoArtifact
<1>4. TypeOK /\ ImportOK /\ ImportedIsStored
  <2>1. imported \in [end : {"never", "ok", "failed"}, entries : Files]
    BY NoFilesType DEF Init, Unknown
  <2> QED BY <1>1, <1>2, <2>1, ImportAssumption
          DEF Init, TypeOK, ImportOK, ImportedIsStored, NotImporting, Unknown
<1>5. ImportedWasSigned
  BY <1>3 DEF ImportedWasSigned
<1>6. BudgetOK
  <2>1. ASSUME NEW p \in Path PROVE Budget(p)
    <3>1. Cardinality(Rows(p)) = 0
      BY <1>3, FS_EmptySet DEF Rows
    <3>2. imports = 0 /\ ~ Owed(p)
      BY DEF Init, Owed
    <3> QED BY <3>1, <3>2 DEF Budget
  <2> QED BY <2>1 DEF BudgetOK
<1> QED BY <1>1, <1>2, <1>4, <1>5, <1>6 DEF IInv

LEMMA Inductive == IInv /\ [Next]_vars => IInv'
<1> SUFFICES ASSUME IInv, [Next]_vars PROVE IInv'
  OBVIOUS
<1>1. BuildTypeOK /\ BuildOK /\ StoreTypeOK /\ StoreOK
  BY DEF IInv, TypeOK
<1>2. CASE BuildNext /\ UNCHANGED <<storeVars, importVars>>
  BY <1>1, <1>2, BuildKeeps, StoreIdles, OutsideKeeps
<1>3. CASE \E secret, pub \in EnvValue : ImportBegin(secret, pub)
  BY <1>3, ImportBeginKeeps
<1>4. CASE ImportStep
  BY <1>4, validateArtifactKeeps, registerArtifactKeeps, uploadKeeps, ImportEndsKeeps
     DEF ImportStep
<1>5. CASE registerFails
  BY <1>5, registerFailsKeeps
<1>6. CASE uploadFails
  BY <1>6, uploadFailsKeeps
<1>7. CASE Killed
  BY <1>7, KilledKeeps
<1>8. CASE Damage
  BY <1>8, DamageKeeps
<1>9. CASE UploaderNext /\ UNCHANGED <<buildVars, importVars>>
  <2>1. UNCHANGED importVars
    BY <1>9
  <2>2. UNCHANGED <<dir, build, bundle, built, sealed>> /\ mishaps' = mishaps
    BY <1>9 DEF buildVars
  <2> QED BY <1>1, <1>9, <2>1, <2>2, BuildIdles, UploaderKeeps, OutsideKeeps
<1>10. CASE UNCHANGED vars
  <2>1. UNCHANGED storeVars /\ UNCHANGED importVars
    BY <1>10 DEF vars
  <2>2. UNCHANGED <<dir, build, bundle, built, sealed>> /\ mishaps' = mishaps
    BY <1>10 DEF vars, buildVars
  <2> QED BY <1>1, <2>1, <2>2, BuildIdles, StoreIdles, OutsideKeeps
<1> QED BY <1>2, <1>3, <1>4, <1>5, <1>6, <1>7, <1>8, <1>9, <1>10 DEF Next, OutOfRows

-----------------------------------------------------------------------------
(* The inductive invariant: what the archive holds while Build writes it,   *)
(* what the import in hand has verified, compared and stored, and how many  *)
(* rows it may still register.                                              *)
THEOREM Invariance == Spec => []IInv
<1>1. Init => IInv
  BY Initially
<1>2. IInv /\ [Next]_vars => IInv'
  BY Inductive
<1> QED BY <1>1, <1>2, PTL DEF Spec

(* Values stay in their domains: no row gets an id that is not free, and an *)
(* upload in hand always has the row of its entry.                          *)
THEOREM TypeCorrect == Spec => []TypeOK
<1>1. IInv => TypeOK
  BY DEF IInv
<1> QED BY <1>1, Invariance, PTL

(* A Build that reports success never leaves a well-formed archive that     *)
(* lacks a member of its manifest or has another, whichever files change,   *)
(* shrink, grow or go while it hashes and copies them.                      *)
THEOREM BuiltIsComplete == Spec => []BuiltHasEveryMember
<1>1. IInv => BuiltHasEveryMember
  BY DEF IInv, BuildOK
<1> QED BY <1>1, Invariance, PTL

(* Whatever happens to the archive on its way, an import registers and      *)
(* uploads only what some Build signed under that path.                     *)
THEOREM OnlySignedIsImported == Spec => []ImportedWasSigned
<1>1. IInv => ImportedWasSigned
  BY DEF IInv
<1> QED BY <1>1, Invariance, PTL

(* An import that reports success has stored every entry of a signed        *)
(* manifest, after any number of imports that were cut short.               *)
THEOREM SuccessIsComplete == Spec => []ImportedIsStored
<1>1. IInv => ImportedIsStored
  BY DEF IInv
<1> QED BY <1>1, Invariance, PTL

(* Rows of a path are never more than the imports that were started: a lost *)
(* answer of the API leaves one row behind, and never two.                  *)
THEOREM AttemptsBoundRows == Spec => []OneRowPerAttempt
<1>1. IInv => OneRowPerAttempt
  <2> SUFFICES ASSUME IInv, NEW p \in Path
               PROVE  Cardinality(Rows(p)) <= imports
    BY DEF OneRowPerAttempt, Rows
  <2>1. Budget(p) /\ Cardinality(Rows(p)) \in Nat /\ imports \in Nat
    BY RowsFinite, ImportAssumption DEF IInv, BudgetOK, TypeOK
  <2> QED BY <2>1 DEF Budget
<1> QED BY <1>1, Invariance, PTL

(* Nothing lies in the bucket under a key that no row of the API names,     *)
(* with imports and URL uploads interleaved.                                *)
THEOREM ObjectsAreRegistered == Spec => []ObjectHasRow
<1>1. IInv => ObjectHasRow
  BY DEF IInv, StoreOK
<1> QED BY <1>1, Invariance, PTL
=============================================================================
