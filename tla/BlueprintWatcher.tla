------------------------- MODULE BlueprintWatcher -------------------------
(***************************************************************************)
(* services/blueprints: the Watcher polls two directory trees that others  *)
(* edit meanwhile, keeps what it read in a snapshot, and announces every   *)
(* new version of it on the bus.  A version number stands for a uuid.      *)
(***************************************************************************)
EXTENDS Integers, FiniteSets, FiniteSetsExt

CONSTANTS
  Path,        \* files below a root, as numbers: WalkDir goes in lexical order
  Content,     \* contents of files
  NoContent,   \* there is no such file
  MaxEdits,    \* bound: edits of the trees
  MaxFaults    \* bound: failed reads and publishes

ASSUME WatcherAssumption ==
  /\ Path \subseteq Nat /\ IsFiniteSet(Path)
  /\ NoContent \notin Content
  /\ MaxEdits \in Nat /\ MaxFaults \in Nat

VARIABLES
  disk,       \* disk[r]: the tree below root r
  edits,
  watcher,    \* where Start and sync stand
  snapshot,   \* w.snapshot: its version (0: none yet) and its files
  announced,  \* versions stored on the stream, with their counts
  cancelled,  \* ctx is done
  faults

vars == <<disk, edits, watcher, snapshot, announced, cancelled, faults>>

Root == {"blueprints", "workflows"}
Tree == [Path -> Content \cup {NoContent}]
Empty == [p \in Path |-> NoContent]
Present(tree) == {p \in Path : tree[p] # NoContent}

Counts(files) == [r \in Root |-> Cardinality(Present(files[r]))]

(* What is announced of a snapshot. *)
Announcement(s) == [version |-> s.version, counts |-> Counts(s.files)]
Announcements == [version : Nat, counts : [Root -> 0 .. Cardinality(Path)]]
NoCurrent == [version |-> 0, counts |-> [r \in Root |-> 0]]

(* todo: listed below root and not read yet; read: the maps filled so far;  *)
(* current: what sync is about to announce.                                 *)
Watcher == [pc : {"idle", "list", "files", "install", "publish", "ended"},
            root : Root, todo : SUBSET Path, read : [Root -> Tree],
            force : BOOLEAN, current : Announcements]

Reading(force) ==
  [pc |-> "list", root |-> "blueprints", todo |-> {},
   read |-> [r \in Root |-> Empty], force |-> force, current |-> NoCurrent]

TypeOK ==
  /\ disk \in [Root -> Tree]
  /\ edits \in 0 .. MaxEdits
  /\ watcher \in Watcher
  /\ watcher.todo # {} => watcher.pc \in {"files", "ended"}
  /\ snapshot \in [version : Nat, files : [Root -> Tree]]
  /\ announced \subseteq Announcements
  /\ cancelled \in BOOLEAN
  /\ faults \in 0 .. MaxFaults

(* NewWatcher, and the initial sync of Start. *)
Init ==
  /\ disk \in [Root -> Tree]
  /\ edits = 0
  /\ watcher = Reading(TRUE)
  /\ snapshot = [version |-> 0, files |-> [r \in Root |-> Empty]]
  /\ announced = {}
  /\ cancelled = FALSE
  /\ faults = 0

Fault == faults < MaxFaults /\ faults' = faults + 1
GoTo(pc) == watcher' = [watcher EXCEPT !.pc = pc]

-----------------------------------------------------------------------------
(* Start                                                                    *)
-----------------------------------------------------------------------------
(* The ticker fires: sync without force. *)
Tick ==
  /\ watcher.pc = "idle"
  /\ watcher' = Reading(FALSE)
  /\ UNCHANGED <<disk, edits, snapshot, announced, cancelled, faults>>

(* ctx is only looked at between syncs. *)
EndCancelled ==
  /\ watcher.pc = "idle"
  /\ cancelled
  /\ GoTo("ended")
  /\ UNCHANGED <<disk, edits, snapshot, announced, cancelled, faults>>

-----------------------------------------------------------------------------
(* readSnapshot: the two roots one after the other, file by file.           *)
-----------------------------------------------------------------------------
(* WalkDir lists a directory before it visits it; a root that is not there *)
(* counts as an empty one.                                                  *)
List ==
  /\ watcher.pc = "list"
  /\ watcher' = [watcher EXCEPT !.pc = "files",
                                !.todo = Present(disk[watcher.root])]
  /\ UNCHANGED <<disk, edits, snapshot, announced, cancelled, faults>>

(* A file that is gone since it was listed ends the sync with an error. *)
ReadFile ==
  /\ watcher.pc = "files"
  /\ watcher.todo # {}
  /\ LET p == Min(watcher.todo)
         data == disk[watcher.root][p]
     IN  IF data = NoContent THEN GoTo("ended")
         ELSE watcher' = [watcher EXCEPT !.todo = @ \ {p},
                                         !.read[watcher.root][p] = data]
  /\ UNCHANGED <<disk, edits, snapshot, announced, cancelled, faults>>

(* All is read: the next root, or what sync does with both. *)
EndOfTree ==
  /\ watcher.pc = "files"
  /\ watcher.todo = {}
  /\ IF watcher.root = "blueprints"
     THEN watcher' = [watcher EXCEPT !.pc = "list", !.root = "workflows"]
     ELSE GoTo("install")
  /\ UNCHANGED <<disk, edits, snapshot, announced, cancelled, faults>>

(* Any other error of Stat, WalkDir or ReadFile ends Start as well. *)
ReadFails ==
  /\ watcher.pc \in {"list", "files"}
  /\ Fault
  /\ GoTo("ended")
  /\ UNCHANGED <<disk, edits, snapshot, announced, cancelled>>

-----------------------------------------------------------------------------
(* sync                                                                     *)
-----------------------------------------------------------------------------
(* Mutant of Changed: the workflows are not compared. *)
ChangedBlueprints ==
  \/ watcher.read["blueprints"] # snapshot.files["blueprints"]
  \/ snapshot.version = 0

(* The first sync installs a version whatever it has read. *)
Changed == watcher.read # snapshot.files \/ snapshot.version = 0

(* What sync makes of what it has read: a new version if anything differs. *)
Current == IF Changed
           THEN [version |-> snapshot.version + 1, files |-> watcher.read]
           ELSE snapshot

(* Mutant of Install: the first version is announced but not kept. *)
InstallUnforced ==
  /\ watcher.pc = "install"
  /\ snapshot' = IF watcher.force THEN snapshot ELSE Current
  /\ watcher' = [watcher EXCEPT !.current = Announcement(Current),
                    !.pc = IF Changed \/ watcher.force THEN "publish" ELSE "idle"]
  /\ UNCHANGED <<disk, edits, announced, cancelled, faults>>

(* Under the lock; what has not changed is announced only when forced. *)
Install ==
  /\ watcher.pc = "install"
  /\ snapshot' = Current
  /\ watcher' = [watcher EXCEPT !.current = Announcement(Current),
                    !.pc = IF Changed \/ watcher.force THEN "publish" ELSE "idle"]
  /\ UNCHANGED <<disk, edits, announced, cancelled, faults>>

Publish ==
  /\ watcher.pc = "publish"
  /\ announced' = announced \cup {watcher.current}
  /\ GoTo("idle")
  /\ UNCHANGED <<disk, edits, snapshot, cancelled, faults>>

(* Mutant of PublishFails: the failed publish is only logged. *)
PublishFailsQuietly ==
  /\ watcher.pc = "publish"
  /\ Fault
  /\ GoTo("idle")
  /\ UNCHANGED <<disk, edits, snapshot, announced, cancelled>>

(* The publish fails, or is stored and reported as failed: Start ends. *)
PublishFails ==
  /\ watcher.pc = "publish"
  /\ Fault
  /\ announced' \in {announced, announced \cup {watcher.current}}
  /\ GoTo("ended")
  /\ UNCHANGED <<disk, edits, snapshot, cancelled>>

-----------------------------------------------------------------------------
(* Somebody writes or removes a file: git pull, an editor. *)
Edit(r, p, data) ==
  /\ edits < MaxEdits
  /\ disk[r][p] # data
  /\ disk' = [disk EXCEPT ![r][p] = data]
  /\ edits' = edits + 1
  /\ UNCHANGED <<watcher, snapshot, announced, cancelled, faults>>

Cancel ==
  /\ ~ cancelled
  /\ cancelled' = TRUE
  /\ UNCHANGED <<disk, edits, watcher, snapshot, announced, faults>>

Sync == List \/ ReadFile \/ EndOfTree \/ Install \/ Publish

Next ==
  \/ Tick \/ EndCancelled \/ Sync \/ ReadFails \/ PublishFails
  \/ \E r \in Root, p \in Path, data \in Content \cup {NoContent} : Edit(r, p, data)
  \/ Cancel

Spec == Init /\ [][Next]_vars

(* The ticker keeps firing; a sync that has begun goes on. *)
FairSpec == Spec /\ WF_vars(Tick \/ EndCancelled) /\ WF_vars(Sync)

-----------------------------------------------------------------------------
(* The watcher implements BlueprintVersions: a version is installed before  *)
(* it is announced, its announcement is true of what Snapshot() returns at  *)
(* that moment, and no version is replaced that nobody was told of.         *)
Abstract ==
  INSTANCE BlueprintVersions WITH
    Tally <- [Root -> 0 .. Cardinality(Path)],
    served <- Announcement(snapshot),
    told <- announced

ImplementsVersions == Abstract!Spec

(* No sync leaves a version behind that nobody was told of: the next one    *)
(* would find nothing changed, and would not announce it until an edit.     *)
IdleIsAnnounced == watcher.pc = "idle" => Announcement(snapshot) \in announced

(* Reads are torn when the tree is edited meanwhile, but not for good: once *)
(* the edits stop, a watcher that runs comes to serve and to announce what  *)
(* is on the disk.                                                          *)
ConvergesToDisk ==
  <>[](watcher.pc = "ended" \/ (snapshot.files = disk /\ Announcement(snapshot) \in announced))
-----------------------------------------------------------------------------
(***************************************************************************)
(* The inductive invariant behind the theorems of ServiceProofs: what the  *)
(* sync under way will do about the version that is installed.             *)
(***************************************************************************)
Told == snapshot.version > 0 /\ Announcement(snapshot) \in announced

(* The only forced sync is the first: any other starts from a version that *)
(* was announced, and may drop what it finds unchanged.                    *)
SyncingOK ==
  watcher.pc \in {"list", "files", "install"} =>
    \/ watcher.force /\ snapshot.version = 0
    \/ ~ watcher.force /\ Told

(* What is being published is still what is installed. *)
PublishingOK ==
  watcher.pc = "publish" =>
    snapshot.version > 0 /\ watcher.current = Announcement(snapshot)

IInv == TypeOK /\ SyncingOK /\ PublishingOK /\ (watcher.pc = "idle" => Told)
=============================================================================
