----------------------------- MODULE MachineApi -----------------------------
(***************************************************************************)
(* services/api: POST /v1/machines (upsert by MAC address) and GET         *)
(* /v1/machines, which joins the machines with their facts and their runs. *)
(* Every statement is a transaction of its own, so requests interleave     *)
(* between them; started_at and created_at are the order of the ids.       *)
(***************************************************************************)
EXTENDS RunStore, FiniteSets, FiniteSetsExt

CONSTANTS
  Mac, Serial,   \* what clients enroll
  NoMac,         \* no address
  Worker,        \* request goroutines of POST /v1/machines
  RunsColumns,   \* the columns of the runs table
  PerMachine,    \* runs listed per machine
  MaxUpserts,    \* bound: upserts
  MaxFaults      \* bound: failed statements, lost events

ASSUME MachineApiAssumption ==
  /\ NoMac \notin Mac
  /\ PerMachine \in Nat \ {0} /\ MaxUpserts \in Nat /\ MaxFaults \in Nat

VARIABLES
  machines,   \* machines[m]: the row with id m
  withFacts,  \* the machines with a row in facts
  upserts,    \* upserts[w]: the POST request on goroutine w
  upserted,   \* POST requests so far
  events,     \* machines.enrolled events on the bus
  listing,    \* the GET request
  seen,       \* observer: seen[m], the statuses m had during that request
  faults

upsertVars == <<machines, upserts, upserted, events>>
listVars == <<listing, seen>>
vars == <<runVars, withFacts, upsertVars, listVars, faults>>

NoMachineRow == [mac |-> NoMac, serial |-> NoMac]
Known(m) == machines[m] # NoMachineRow
Idle == [pc |-> "idle"]

Upsert == [pc : {"find", "create", "update", "reread", "publish", "ok", "failed"},
           mac : Mac, serial : Serial, id : Machine \cup {NoMachine}]

MachineStatus == {"provisioning", "ready", "error", "offline"}

Listing == [pc : {"facts", "runs", "ok", "failed"}, ids : SUBSET Machine,
            facts : SUBSET Machine, status : [Machine -> MachineStatus]]

TypeOK ==
  /\ RunsTypeOK
  /\ machines \in [Machine -> [mac : Mac, serial : Serial] \cup {NoMachineRow}]
  /\ withFacts \subseteq Machine
  /\ upserts \in [Worker -> Upsert \cup {Idle}]
  /\ upserted \in 0 .. MaxUpserts
  /\ events \subseteq [id : Machine, mac : Mac]
  /\ listing \in Listing \cup {Idle}
  /\ seen \in [Machine -> SUBSET (MachineStatus \cup {"undecided"})]
  /\ faults \in 0 .. MaxFaults

Init ==
  /\ RunsInit
  /\ machines = [m \in Machine |-> NoMachineRow]
  /\ withFacts = {}
  /\ upserts = [w \in Worker |-> Idle]
  /\ upserted = 0
  /\ events = {}
  /\ listing = Idle
  /\ seen = [m \in Machine |-> {}]
  /\ faults = 0

Fault == faults < MaxFaults /\ faults' = faults + 1

-----------------------------------------------------------------------------
(* POST /v1/machines                                                        *)
-----------------------------------------------------------------------------
At(w, pc) == upserts[w].pc = pc
GoTo(w, pc) == upserts' = [upserts EXCEPT ![w].pc = pc]

UpsertBegin(w, mac, serial) ==
  /\ upserts[w] = Idle
  /\ upserted < MaxUpserts
  /\ upserted' = upserted + 1
  /\ upserts' = [upserts EXCEPT ![w] =
       [pc |-> "find", mac |-> mac, serial |-> serial, id |-> NoMachine]]
  /\ UNCHANGED <<machines, events, faults>>

Find(w) ==
  /\ At(w, "find")
  /\ \/ \E m \in Machine :
          /\ machines[m].mac = upserts[w].mac
          /\ upserts' = [upserts EXCEPT ![w].pc = "update", ![w].id = m]
     \/ /\ \A m \in Machine : machines[m].mac # upserts[w].mac
        /\ GoTo(w, "create")
  /\ UNCHANGED <<machines, upserted, events, faults>>

Put(w, m) == machines' = [machines EXCEPT ![m] =
                            [mac |-> upserts[w].mac, serial |-> upserts[w].serial]]

(* Ids that no row and no request has. *)
FreshIds == {m \in Machine : ~ Known(m) /\ \A v \in Worker :
                               upserts[v] # Idle => upserts[v].id # m}

Taken(w) == \E m \in Machine : machines[m].mac = upserts[w].mac

(* Mutant of Create: INSERT ... ON CONFLICT DO NOTHING. *)
CreateIgnoringConflict(w) ==
  /\ At(w, "create")
  /\ \E id \in FreshIds :
       /\ IF Taken(w) THEN UNCHANGED machines ELSE Put(w, id)
       /\ upserts' = [upserts EXCEPT ![w].pc = "publish", ![w].id = id]
  /\ UNCHANGED <<upserted, events, faults>>

(* Another request may have created the row since: the unique index refuses *)
(* this one, which is answered 500.                                         *)
Create(w) ==
  /\ At(w, "create")
  /\ IF Taken(w)
     THEN GoTo(w, "failed") /\ UNCHANGED machines
     ELSE \E id \in FreshIds :
            /\ Put(w, id)
            /\ upserts' = [upserts EXCEPT ![w].pc = "publish", ![w].id = id]
  /\ UNCHANGED <<upserted, events, faults>>

Update(w) ==
  /\ At(w, "update")
  /\ Put(w, upserts[w].id)
  /\ GoTo(w, "reread")
  /\ UNCHANGED <<upserted, events, faults>>

(* The answer shows what the row holds now, which may be another's update. *)
Reread(w) ==
  /\ At(w, "reread")
  /\ upserts' = [upserts EXCEPT ![w].pc = "publish",
                                ![w].serial = machines[upserts[w].id].serial]
  /\ UNCHANGED <<machines, upserted, events, faults>>

(* A statement fails, or has its effect and is reported as failed: 500. *)
UpsertDbError(w) ==
  /\ upserts[w].pc \in {"find", "create", "update", "reread"}
  /\ \/ UNCHANGED machines
     \/ At(w, "create") /\ ~ Taken(w) /\ \E id \in FreshIds : Put(w, id)
     \/ At(w, "update") /\ Put(w, upserts[w].id)
  /\ Fault
  /\ GoTo(w, "failed")
  /\ UNCHANGED <<upserted, events>>

(* publishJSON: the event is stored or lost; 200 either way. *)
Announce(w) ==
  /\ At(w, "publish")
  /\ \/ /\ events' = events \cup {[id |-> upserts[w].id, mac |-> upserts[w].mac]}
        /\ UNCHANGED faults
     \/ Fault /\ UNCHANGED events
  /\ GoTo(w, "ok")
  /\ UNCHANGED <<machines, upserted>>

UpsertRespond(w) ==
  /\ upserts[w].pc \in {"ok", "failed"}
  /\ upserts' = [upserts EXCEPT ![w] = Idle]
  /\ UNCHANGED <<machines, upserted, events, faults>>

UpsertStep(w) ==
  \/ \E mac \in Mac, s \in Serial : UpsertBegin(w, mac, s)
  \/ Find(w) \/ Create(w) \/ Update(w) \/ Reread(w) \/ UpsertDbError(w)
  \/ Announce(w) \/ UpsertRespond(w)

-----------------------------------------------------------------------------
(* GET /v1/machines                                                         *)
-----------------------------------------------------------------------------
(* Mutant of recentRuns: the list is cut at its other end. *)
recentRunsOldest(m) ==
  LET own == {r \in RunId : runs[r].machine = m}
  IN  {r \in own : Cardinality({s \in own : s < r}) < PerMachine}

(* Newest first by started_at, which every row has; cut at PerMachine. *)
recentRuns(m) ==
  LET own == {r \in RunId : runs[r].machine = m}
  IN  {r \in own : Cardinality({s \in own : s > r}) < PerMachine}

(* ORDER BY ..., created_at is an error if there is no such column. *)
RunsQueryWorks == {"machine_id", "started_at", "created_at"} \subseteq RunsColumns

(* Statuses of runs that deriveMachineStatus knows, in any spelling. *)
KnownStatus == [running |-> "provisioning", success |-> "ready", failed |-> "error"]

deriveMachineStatus(m, facts) ==
  LET recent == recentRuns(m)
      latest == runs[Max(recent)].status
  IN  IF recent # {} /\ latest \in DOMAIN KnownStatus THEN KnownStatus[latest]
      ELSE IF m \in facts THEN "ready" ELSE "offline"

ListGoTo(pc) == listing' = [listing EXCEPT !.pc = pc]

ListMachines ==
  /\ listing = Idle
  /\ LET ids == {m \in Machine : Known(m)}
     IN  listing' = [pc |-> IF ids = {} THEN "ok" ELSE "facts", ids |-> ids,
                     facts |-> {},
                     status |-> [m \in Machine |-> "offline"]]

fetchLatestFacts ==
  /\ listing.pc = "facts"
  /\ listing' = [listing EXCEPT !.pc = "runs", !.facts = withFacts]

fetchRecentRuns ==
  /\ listing.pc = "runs"
  /\ IF RunsQueryWorks
     THEN listing' = [listing EXCEPT !.pc = "ok",
            !.status = [m \in Machine |-> deriveMachineStatus(m, listing.facts)]]
     ELSE ListGoTo("failed")

ListRespond ==
  /\ listing.pc \in {"ok", "failed"}
  /\ listing' = Idle

ListDbError ==
  /\ listing.pc \in {"facts", "runs"}
  /\ Fault
  /\ ListGoTo("failed")

ListStep ==
  \/ (ListMachines \/ fetchLatestFacts \/ fetchRecentRuns \/ ListRespond)
     /\ UNCHANGED faults
  \/ ListDbError

-----------------------------------------------------------------------------
(* Meanwhile agents report facts, and runs start and finish: rows of known  *)
(* machines only (foreign keys), runs possibly out of started_at's order.   *)
PostFacts(m) == Known(m) /\ withFacts' = withFacts \cup {m} /\ UNCHANGED runVars

RunStarts(r, m) == Known(m) /\ ~ Exists(r) /\ InsertRun(r, m, TRUE)

RunFinishes(r, s) == Exists(r) /\ UpdateStatus(r, s)

Others ==
  \/ \E m \in Machine : PostFacts(m)
  \/ /\ \/ \E r \in RunId, m \in Machine : RunStarts(r, m)
        \/ \E r \in RunId, s \in FinishStatus \cup {"success"} : RunFinishes(r, s)
     /\ UNCHANGED withFacts

(* What a machine's status is meant to be: that of the run that started     *)
(* last; "undecided" if nobody knows what that status means.                *)
Latest(m, r) == /\ runs[r].machine = m
                /\ \A s \in RunId : runs[s].machine = m => s <= r
Status(m) ==
  IF \E r \in RunId : Latest(m, r)
  THEN LET s == runs[CHOOSE r \in RunId : Latest(m, r)].status
       IN  IF s \in DOMAIN KnownStatus THEN KnownStatus[s] ELSE "undecided"
  ELSE IF m \in withFacts THEN "ready" ELSE "offline"

Observe == seen' = [m \in Machine |-> IF listing' = Idle THEN {}
                                      ELSE seen[m] \cup {Status(m)'}]

Next ==
  /\ \/ /\ \E w \in Worker : UpsertStep(w)
        /\ UNCHANGED <<runVars, withFacts, listing>>
     \/ ListStep /\ UNCHANGED <<runVars, withFacts, upsertVars>>
     \/ Others /\ UNCHANGED <<upsertVars, listing, faults>>
  /\ Observe

Spec == Init /\ [][Next]_vars

-----------------------------------------------------------------------------
(* Whatever two requests for one address do to each other, the id that is  *)
(* announced for it, or answered with 200, is the id of its only row.       *)
AnnouncedIsStored ==
  LET rows(mac) == {m \in Machine : machines[m].mac = mac}
  IN  /\ \A e \in events : rows(e.mac) = {e.id}
      /\ \A w \in Worker :
           upserts[w].pc \in {"publish", "ok"} => rows(upserts[w].mac) = {upserts[w].id}

(* The list is put together from three queries; still, the status it shows  *)
(* for a machine is one the machine had while the list was made, unless its *)
(* latest run had a status that deriveMachineStatus does not know.          *)
ListedWasTrue ==
  listing.pc = "ok" =>
    \A m \in listing.ids : listing.status[m] \in seen[m] \/ "undecided" \in seen[m]

(* GET /v1/machines "List machines with latest facts and recent runs"       *)
(* (openapi.yaml): no list fails while the database works.                  *)
ListIsAnswered == listing.pc = "failed" => faults > 0
-----------------------------------------------------------------------------
(***************************************************************************)
(* The inductive invariant behind the theorems of MachineApiProofs.        *)
(***************************************************************************)
(* The unique index, and an address that never moves to another row. *)
OneRowPerMac ==
  \A m, n \in Machine : Known(m) /\ machines[m].mac = machines[n].mac => m = n

Owns(id, mac) == id \in Machine /\ machines[id].mac = mac

OwnersOK ==
  /\ \A e \in events : Owns(e.id, e.mac)
  /\ \A w \in Worker :
       upserts[w].pc \in {"update", "reread", "publish", "ok"} =>
         Owns(upserts[w].id, upserts[w].mac)

HasRun(m) == \E r \in RunId : runs[r].machine = m

(* Facts and runs only come; a machine that had neither when the facts were *)
(* read was offline then.                                                   *)
ListOK ==
  /\ listing # Idle => listing.facts \subseteq withFacts
  /\ listing.pc = "runs" =>
       \A m \in Machine : m \in listing.facts \/ HasRun(m) \/ "offline" \in seen[m]
  /\ ListedWasTrue

IInv == TypeOK /\ OneRowPerMac /\ OwnersOK /\ ListOK
=============================================================================
