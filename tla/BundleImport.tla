---------------------------- MODULE BundleImport ----------------------------
(***************************************************************************)
(* goosectl bundles import, joined with the bundle that Build leaves and   *)
(* with the API's artifacts: read, verify, then for each entry validate,   *)
(* register and upload.  An operator repeats an import that failed.        *)
(***************************************************************************)
EXTENDS BundleBuild, ArtifactStore, FiniteSets

CONSTANT MaxImports   \* bound: imports the operator starts

ASSUME ImportAssumption ==
  MaxImports \in Nat /\ Digest = Content /\ Owner = Path

VARIABLES
  import,     \* the running Import
  imports,    \* imports started
  imported    \* how the last Import ended, and for which entries

importVars == <<import, imports, imported>>
vars == <<buildVars, storeVars, importVars>>

(* manifest, files: what was unpacked and verified; at: the entry in hand.  *)
NotImporting == [pc |-> "idle"]
Unknown(end) == [end |-> end, entries |-> NoFiles]
Importing ==
  [pc : {"next", "register", "upload"}, manifest : Manifest, files : Files,
   todo : SUBSET Path, at : Path \cup {Absent}, row : 0 .. MaxArtifacts]

TypeOK ==
  /\ BuildTypeOK
  /\ StoreTypeOK
  /\ import \in Importing \cup {NotImporting}
  /\ imports \in 0 .. MaxImports
  /\ imported \in [end : {"never", "ok", "failed"}, entries : Files]
  /\ import.pc = "upload" =>
       import.row # 0 /\ artifacts[import.row].owner = import.at

Init ==
  /\ BuildInit
  /\ StoreInit
  /\ import = NotImporting
  /\ imports = 0
  /\ imported = Unknown("never")

Abort == import' = NotImporting /\ imported' = Unknown("failed")

(* The archive suffers on its way: members or entries change, or its end is *)
(* cut off.  It is no longer what a Build reported.                         *)
Damage ==
  /\ bundle.present /\ build = NotBuilding
  /\ Mishap
  /\ \/ \E p \in Path, c \in Content :
          \E files \in {bundle.files, Put(bundle.files, p, c)} :
          \E entries \in {bundle.manifest.entries, Put(bundle.manifest.entries, p, c)} :
            bundle' = [bundle EXCEPT !.files = files, !.manifest.entries = entries]
     \/ bundle' = [bundle EXCEPT !.torn = TRUE]
  /\ built' = "never"
  /\ UNCHANGED <<dir, build, sealed, storeVars, importVars>>

(* Unpack the whole archive, decode the manifest, verify its signature. *)
ImportBegin(secret, pub) ==
  /\ import = NotImporting /\ build = NotBuilding
  /\ bundle.present
  /\ imports < MaxImports
  /\ imports' = imports + 1
  /\ LET signer == NewSignerFromEnv(secret, pub)
         sound  == /\ signer # NoSigner
                   /\ ~ bundle.torn
                   /\ Verify(signer, bundle.manifest)
     IN  \/ ~ sound /\ Abort
         \/ /\ sound
            /\ import' = [pc |-> "next", manifest |-> bundle.manifest,
                          files |-> bundle.files,
                          todo |-> DOMAIN bundle.manifest.entries,
                          at |-> Absent, row |-> 0]
            /\ imported' = Unknown("never")
  /\ UNCHANGED <<buildVars, storeVars>>

(* The next entry's member must be there and have the entry's hash and size. *)
validateArtifact(p) ==
  /\ import.pc = "next"
  /\ p \in import.todo
  /\ \/ /\ p \in DOMAIN import.files
        /\ import.files[p] = import.manifest.entries[p]
        /\ import' = [import EXCEPT !.pc = "register", !.at = p]
        /\ UNCHANGED imported
     \/ /\ p \in DOMAIN import.files
             => import.files[p] # import.manifest.entries[p]
        /\ Abort
  /\ UNCHANGED <<imports, buildVars, storeVars>>

registerArtifact ==
  /\ import.pc = "register"
  /\ CreateArtifact("register", import.manifest.entries[import.at], import.at)
  /\ import' = [import EXCEPT !.pc = "upload", !.row = nextRow]
  /\ UNCHANGED <<objects, uploading, imports, imported, buildVars>>

(* Mutant of registerFails: the request is simply sent once more. *)
registerRetries ==
  /\ import.pc = "register"
  /\ Mishap
  /\ \/ UNCHANGED <<artifacts, nextRow>>
     \/ CreateArtifact("register", import.manifest.entries[import.at], import.at)
  /\ UNCHANGED <<import, imports, imported, objects, uploading,
                 dir, build, bundle, built, sealed>>

(* An error of the API, or the loss of its answer: the row may be there. *)
registerFails ==
  /\ import.pc = "register"
  /\ Mishap
  /\ \/ UNCHANGED <<artifacts, nextRow>>
     \/ CreateArtifact("register", import.manifest.entries[import.at], import.at)
  /\ Abort
  /\ UNCHANGED <<imports, objects, uploading, dir, build, bundle, built, sealed>>

upload ==
  /\ import.pc = "upload"
  /\ PutObject(import.row, import.files[import.at],
               import.manifest.entries[import.at])
  /\ import' = [import EXCEPT !.pc = "next", !.todo = @ \ {import.at}]
  /\ UNCHANGED <<imports, imported, artifacts, nextRow, uploading, buildVars>>

(* Mutant of uploadFails: the error is printed and the loop goes on. *)
uploadSkipped ==
  /\ import.pc = "upload"
  /\ Mishap
  /\ import' = [import EXCEPT !.pc = "next", !.todo = @ \ {import.at}]
  /\ UNCHANGED <<imports, imported, storeVars, dir, build, bundle, built, sealed>>

(* PutObject reports an error; the object may be stored all the same. *)
uploadFails ==
  /\ import.pc = "upload"
  /\ Mishap
  /\ \/ UNCHANGED objects
     \/ PutObject(import.row, import.files[import.at],
                  import.manifest.entries[import.at])
  /\ Abort
  /\ UNCHANGED <<imports, artifacts, nextRow, uploading,
                 dir, build, bundle, built, sealed>>

ImportEnds ==
  /\ import.pc = "next"
  /\ import.todo = {}
  /\ import' = NotImporting
  /\ imported' = [end |-> "ok", entries |-> import.manifest.entries]
  /\ UNCHANGED <<imports, buildVars, storeVars>>

ImportStep ==
  \/ \E p \in Path : validateArtifact(p)
  \/ registerArtifact \/ upload \/ ImportEnds

(* goosectl is killed. *)
Killed ==
  /\ import # NotImporting
  /\ Mishap
  /\ Abort
  /\ UNCHANGED <<imports, storeVars, dir, build, bundle, built, sealed>>

(* No rows are left to be created: the database is bounded. *)
OutOfRows == nextRow > MaxArtifacts /\ UNCHANGED vars

Next ==
  \/ BuildNext /\ import = NotImporting /\ UNCHANGED <<storeVars, importVars>>
  \/ \E secret, pub \in EnvValue : ImportBegin(secret, pub)
  \/ ImportStep \/ registerFails \/ uploadFails \/ Killed \/ Damage
  \/ UploaderNext /\ UNCHANGED <<buildVars, importVars>>
  \/ OutOfRows

Spec == Init /\ [][Next]_vars

-----------------------------------------------------------------------------
Registered(a) == artifacts[a].mode = "register"

(* What an import registers was listed, under that path, in a manifest that *)
(* some Build signed, and what it uploads is that very content, whatever    *)
(* happened to the archive or to the directory in between.                  *)
ImportedWasSigned ==
  \A a \in ArtifactId : Registered(a) =>
    /\ \E s \in sealed :
         /\ artifacts[a].owner \in DOMAIN s.over
         /\ s.over[artifacts[a].owner] = artifacts[a].sha256
    /\ objects[a] \in {NoDigest, artifacts[a].sha256}

(* An Import that reports success has stored every entry of the manifest    *)
(* under a row of its own, after any number of attempts that did not.       *)
ImportedIsStored ==
  imported.end = "ok" =>
    /\ \E s \in sealed : s.over = imported.entries
    /\ \A p \in DOMAIN imported.entries : \E a \in ArtifactId :
         /\ Registered(a)
         /\ artifacts[a].owner = p /\ objects[a] = imported.entries[p]

(* An entry gets a row more only when somebody starts an import again. *)
OneRowPerAttempt ==
  \A p \in Path :
    Cardinality({a \in ArtifactId : Registered(a) /\ artifacts[a].owner = p})
      <= imports
-----------------------------------------------------------------------------
(***************************************************************************)
(* The inductive invariant behind the theorems of BundleImportProofs.      *)
(***************************************************************************)
Rows(p) == {a \in ArtifactId : Registered(a) /\ artifacts[a].owner = p}
Stored(p, c) == \E a \in Rows(p) : objects[a] = c

(* The import in hand works from a signed manifest and from members that it *)
(* has compared with it, and has stored what it is done with.               *)
ImportOK ==
  import # NotImporting =>
    LET entries == import.manifest.entries
    IN  /\ import.manifest.sig \in sealed /\ import.manifest.sig.over = entries
        /\ import.todo \subseteq DOMAIN entries
        /\ import.pc \in {"register", "upload"} =>
             import.at \in import.todo /\ import.files[import.at] = entries[import.at]
        /\ import.pc = "upload" =>
             /\ import.row \in ArtifactId
             /\ artifacts[import.row] = [mode |-> "register", owner |-> import.at,
                                         sha256 |-> entries[import.at]]
        /\ \A p \in DOMAIN entries \ import.todo : Stored(p, entries[p])

(* The import in hand may still register a row for p, once. *)
Owed(p) ==
  import # NotImporting /\ p \in import.todo /\ ~ (import.pc = "upload" /\ import.at = p)

Budget(p) == Cardinality(Rows(p)) + (IF Owed(p) THEN 1 ELSE 0) <= imports
BudgetOK == \A p \in Path : Budget(p)

IInv ==
  /\ TypeOK
  /\ BuildOK
  /\ StoreOK
  /\ ImportOK
  /\ ImportedWasSigned
  /\ ImportedIsStored
  /\ BudgetOK
=============================================================================
