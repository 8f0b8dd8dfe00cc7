---------------------------- MODULE BundleBuild ----------------------------
(***************************************************************************)
(* services/bundler: goosectl bundles build.  Files are hashed one by one, *)
(* the manifest is signed, and the files are read again for the archive:   *)
(* nothing keeps them from changing meanwhile.  Reading a file to its end  *)
(* is one step; a file's content also stands for its hash.                 *)
(***************************************************************************)
EXTENDS Naturals

CONSTANTS
  Path,        \* relative paths in the artifacts directory
  Content,     \* contents of files
  SizeOf,      \* SizeOf[c]: the length of content c
  Absent,      \* no file
  Key,         \* signing keys
  MaxMishaps   \* bound: edits of files, failed calls, crashes, damage

ASSUME BuildAssumption ==
  /\ SizeOf \in [Content -> Nat]
  /\ Absent \notin Content
  /\ MaxMishaps \in Nat

VARIABLES
  dir,      \* dir[p]: the content of the file at p
  build,    \* the running Build
  bundle,   \* the file at Output
  built,    \* how the last Build ended
  sealed,   \* observer: every (key, entries) that was ever signed
  mishaps

buildVars == <<dir, build, bundle, built, sealed, mishaps>>

Mishap == mishaps < MaxMishaps /\ mishaps' = mishaps + 1

(* Entries and archive members: a content for each path that is present. *)
Files == UNION {[P -> Content] : P \in SUBSET Path}
NoFiles == [p \in {} |-> Absent]
Put(f, p, c) == [q \in DOMAIN f \cup {p} |-> IF q = p THEN c ELSE f[q]]

-----------------------------------------------------------------------------
(***************************************************************************)
(* signer.go                                                               *)
(***************************************************************************)
Unset == "unset"
Malformed == "malformed"
EnvValue == Key \cup {Unset, Malformed}
NoSigner == [private |-> FALSE, key |-> Unset]
Signer == [private : BOOLEAN, key : Key]

(* AGE_SECRET_KEY and AGE_PUBLIC_KEY; a key stands for the pair. *)
NewSignerFromEnv(secret, pub) ==
  IF \/ secret = Unset /\ pub = Unset
     \/ Malformed \in {secret, pub}
     \/ secret \in Key /\ pub \in Key /\ secret # pub
  THEN NoSigner
  ELSE [private |-> secret \in Key, key |-> IF secret \in Key THEN secret ELSE pub]

Sign(signer, entries) == [key |-> signer.key, over |-> entries]

(* Mutant of Verify: the keys are compared, the payload is not. *)
VerifyKeysOnly(signer, m) == m.key = signer.key /\ m.sig.key = signer.key

Verify(signer, m) ==
  /\ m.key = signer.key
  /\ m.sig = [key |-> signer.key, over |-> m.entries]

-----------------------------------------------------------------------------
Manifest == [entries : Files, key : Key, sig : [key : Key, over : Files]]
NoBundle == [present |-> FALSE]
Bundle == [present : {TRUE}, manifest : Manifest, files : Files, torn : BOOLEAN]

(* size: what Stat said; short: the member in hand got fewer bytes.         *)
NotBuilding == [pc |-> "idle"]
Building == [pc : {"collect", "write", "copy"}, signer : Signer,
             todo : SUBSET Path, entries : Files,
             at : Path \cup {Absent}, size : Nat, short : BOOLEAN]

BuildTypeOK ==
  /\ dir \in [Path -> Content \cup {Absent}]
  /\ build \in Building \cup {NotBuilding}
  /\ bundle \in Bundle \cup {NoBundle}
  /\ built \in {"never", "ok", "failed"}
  /\ sealed \subseteq [key : Key, over : Files]
  /\ mishaps \in 0 .. MaxMishaps
  /\ build.pc \in {"write", "copy"} => bundle.present /\ bundle.torn

BuildInit ==
  /\ dir \in [Path -> Content \cup {Absent}]
  /\ build = NotBuilding
  /\ bundle = NoBundle
  /\ built = "never"
  /\ sealed = {}
  /\ mishaps = 0

Fail == build' = NotBuilding /\ built' = "failed"

(* Somebody writes, replaces or deletes a file. *)
Edit(p, c) ==
  /\ Mishap
  /\ dir' = [dir EXCEPT ![p] = c]
  /\ UNCHANGED <<build, bundle, built, sealed>>

BuildBegin(secret, pub) ==
  /\ build = NotBuilding
  /\ LET signer == NewSignerFromEnv(secret, pub)
     IN  \/ /\ signer = NoSigner
            /\ built' = "failed"
            /\ UNCHANGED build
         \/ /\ signer # NoSigner
            /\ build' = [pc |-> "collect", signer |-> signer, todo |-> Path,
                         entries |-> NoFiles, at |-> Absent, size |-> 0,
                         short |-> FALSE]
            /\ built' = "never"
  /\ UNCHANGED <<dir, bundle, sealed, mishaps>>

(* collectArtifacts: hash the file at p, if there is one. *)
Collect(p) ==
  /\ build.pc = "collect"
  /\ p \in build.todo
  /\ build' = [build EXCEPT !.todo = @ \ {p},
                            !.entries = IF dir[p] = Absent THEN @
                                        ELSE Put(@, p, dir[p])]
  /\ UNCHANGED <<dir, bundle, built, sealed, mishaps>>

(* Sign the manifest, truncate Output and write the manifest into it. *)
Seal ==
  /\ build.pc = "collect"
  /\ build.todo = {}
  /\ LET sig == Sign(build.signer, build.entries)
     IN  \/ /\ DOMAIN build.entries = {} \/ ~ build.signer.private
            /\ Fail
            /\ UNCHANGED <<bundle, sealed>>
         \/ /\ DOMAIN build.entries # {} /\ build.signer.private
            /\ sealed' = sealed \cup {sig}
            /\ bundle' = [present |-> TRUE, torn |-> TRUE, files |-> NoFiles,
                          manifest |-> [entries |-> build.entries,
                                        key |-> build.signer.key, sig |-> sig]]
            /\ build' = [build EXCEPT !.pc = "write",
                                      !.todo = DOMAIN build.entries]
            /\ UNCHANGED built
  /\ UNCHANGED <<dir, mishaps>>

(* Mutant of WriteHeader: a file that has gone is left out. *)
WriteHeaderSkips(p) ==
  /\ build.pc = "write"
  /\ p \in build.todo
  /\ build' = IF dir[p] = Absent
              THEN [build EXCEPT !.todo = @ \ {p}]
              ELSE [build EXCEPT !.pc = "copy", !.todo = @ \ {p}, !.at = p,
                                 !.size = SizeOf[dir[p]]]
  /\ UNCHANGED <<dir, bundle, built, sealed, mishaps>>

(* Stat the next file and write its header.  A missing file ends Build, and *)
(* the deferred Close makes the archive well-formed without it; a member    *)
(* that is still short makes WriteHeader fail.                              *)
WriteHeader(p) ==
  /\ build.pc = "write"
  /\ p \in build.todo
  /\ \/ /\ build.short
        /\ Fail
        /\ UNCHANGED bundle
     \/ /\ ~ build.short /\ dir[p] = Absent
        /\ Fail
        /\ bundle' = [bundle EXCEPT !.torn = FALSE]
     \/ /\ ~ build.short /\ dir[p] # Absent
        /\ build' = [build EXCEPT !.pc = "copy", !.todo = @ \ {p}, !.at = p,
                                  !.size = SizeOf[dir[p]]]
        /\ UNCHANGED <<bundle, built>>
  /\ UNCHANGED <<dir, sealed, mishaps>>

(* Open the file and copy it into the archive.  If it has gone, the member  *)
(* has no header yet.  More bytes than announced are an error, and the      *)
(* member is some content of the announced size; in both cases the deferred *)
(* Close still ends the archive properly.  Fewer go unnoticed for now.      *)
WriteBody ==
  /\ build.pc = "copy"
  /\ LET c == dir[build.at]
     IN  \/ /\ c = Absent
            /\ Fail
            /\ bundle' = [bundle EXCEPT !.torn = FALSE]
         \/ /\ c # Absent /\ SizeOf[c] > build.size
            /\ Fail
            /\ \E cut \in Content :
                 /\ SizeOf[cut] = build.size
                 /\ bundle' = [bundle EXCEPT !.torn = FALSE,
                                             !.files = Put(@, build.at, cut)]
         \/ /\ c # Absent /\ SizeOf[c] = build.size
            /\ bundle' = [bundle EXCEPT !.files = Put(@, build.at, c)]
            /\ build' = [build EXCEPT !.pc = "write"]
            /\ UNCHANGED built
         \/ /\ c # Absent /\ SizeOf[c] < build.size
            /\ build' = [build EXCEPT !.pc = "write", !.short = TRUE]
            /\ UNCHANGED <<bundle, built>>
  /\ UNCHANGED <<dir, sealed, mishaps>>

(* The deferred Closes write what is still buffered; their errors, from a   *)
(* short last member or a full disk, are dropped.                           *)
Finish ==
  /\ build.pc = "write"
  /\ build.todo = {}
  /\ \/ /\ ~ build.short
        /\ bundle' = [bundle EXCEPT !.torn = FALSE]
        /\ UNCHANGED mishaps
     \/ build.short /\ UNCHANGED <<bundle, mishaps>>
     \/ Mishap /\ UNCHANGED bundle
  /\ build' = NotBuilding
  /\ built' = "ok"
  /\ UNCHANGED <<dir, sealed>>

(* A read or a write fails, or goosectl is killed. *)
BuildFails ==
  /\ build # NotBuilding
  /\ Mishap
  /\ Fail
  /\ UNCHANGED <<dir, bundle, sealed>>

BuildNext ==
  \/ \E p \in Path, c \in Content \cup {Absent} : Edit(p, c)
  \/ \E secret, pub \in EnvValue : BuildBegin(secret, pub)
  \/ \E p \in Path : Collect(p) \/ WriteHeader(p)
  \/ Seal \/ WriteBody \/ Finish \/ BuildFails

(* A Build that reports success leaves, unless the archive is cut off, a    *)
(* member for every entry of the manifest and no other.                     *)
BuiltHasEveryMember ==
  built = "ok" /\ bundle.present /\ ~ bundle.torn
    => DOMAIN bundle.files = DOMAIN bundle.manifest.entries
-----------------------------------------------------------------------------
(***************************************************************************)
(* The build's part of the inductive invariant of BundleImportProofs: what *)
(* the archive holds while Build writes it.  A member that is short never  *)
(* lets another one follow.                                                *)
(***************************************************************************)
Pending == build.todo \cup IF build.pc = "copy" THEN {build.at} ELSE {}

WritingOK ==
  build.pc \in {"write", "copy"} =>
    LET members == DOMAIN bundle.manifest.entries
    IN  /\ build.todo \subseteq members
        /\ build.pc = "copy" => build.at \in members \ build.todo /\ ~ build.short
        /\ ~ build.short => DOMAIN bundle.files = members \ Pending

BuildOK ==
  /\ bundle.present => bundle.manifest.sig \in sealed
  /\ WritingOK
  /\ BuiltHasEveryMember
=============================================================================
