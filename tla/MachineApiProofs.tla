-------------------------- MODULE MachineApiProofs --------------------------
(***************************************************************************)
(* Proofs about MachineApi (with RunStore), for any machines, addresses,   *)
(* requests, runs and bounds, and for any columns of the runs table.       *)
(***************************************************************************)
EXTENDS MachineApi, FiniteSetTheorems, WellFoundedInduction, TLAPS

(***************************************************************************)
(* The latest run                                                          *)
(***************************************************************************)
LEMMA HasGreatest ==
  ASSUME NEW S \in SUBSET RunId, S # {}
  PROVE  \E r \in S : \A s \in S : s <= r
<1> DEFINE T == {MaxRuns - r : r \in S}
           R == OpToRel(<, Nat)
<1>1. T \subseteq Nat /\ T # {}
  <2>1. \A r \in S : MaxRuns - r \in Nat
    BY MaxRunsAssumption DEF RunId
  <2>2. PICK r \in S : TRUE
    OBVIOUS
  <2>3. MaxRuns - r \in T
    OBVIOUS
  <2> QED BY <2>1, <2>3
<1>2. IsWellFoundedOn(R, Nat)
  BY NatLessThanWellFounded
<1>3. \A x, y \in Nat : y < x => <<y, x>> \in R
  BY DEF OpToRel
<1> HIDE DEF R
<1>4. PICK x \in T : \A y \in T : ~ (<<y, x>> \in R)
  <2> HIDE DEF T
  <2> QED BY <1>1, <1>2, WFMin
<1>5. \A y \in T : ~ (y < x)
  BY <1>1, <1>3, <1>4
<1>6. PICK r \in S : x = MaxRuns - r
  BY <1>4
<1>7. \A s \in S : s <= r
  <2>1. SUFFICES ASSUME NEW s \in S PROVE s <= r
    OBVIOUS
  <2>2. MaxRuns - s \in T
    OBVIOUS
  <2>3. ~ (MaxRuns - s < MaxRuns - r)
    BY <1>5, <1>6, <2>2
  <2> QED BY <2>3, MaxRunsAssumption DEF RunId
<1> QED BY <1>7

(* A machine with a run has a latest one, which recentRuns lists and Max   *)
(* finds.                                                                  *)
LEMMA LatestIsListed ==
  ASSUME NEW m, HasRun(m)
  PROVE  \E r \in RunId : Latest(m, r) /\ r \in recentRuns(m) /\ Max(recentRuns(m)) = r
<1> DEFINE own == {r \in RunId : runs[r].machine = m}
<1>1. own \in SUBSET RunId /\ own # {}
  BY DEF HasRun
<1>2. PICK r \in own : \A s \in own : s <= r
  <2> HIDE DEF own
  <2> QED BY <1>1, HasGreatest
<1>3. \A s \in RunId : s \in Int
  BY DEF RunId
<1>4. Latest(m, r)
  BY <1>2 DEF Latest
<1>5. {s \in own : s > r} = {}
  BY <1>2, <1>3
<1>6. r \in recentRuns(m)
  <2>1. Cardinality({}) = 0
    BY FS_EmptySet
  <2> QED BY <1>5, <2>1, MachineApiAssumption DEF recentRuns
<1>7. recentRuns(m) \subseteq own
  BY DEF recentRuns
<1>8. Max(recentRuns(m)) = r
  <2>1. \A x \in recentRuns(m) : x <= r /\ x \in Int
    BY <1>2, <1>3, <1>7
  <2> HIDE DEF own
  <2> QED BY <1>6, <2>1 DEF Max
<1> QED BY <1>2, <1>4, <1>6, <1>8

(* What the machine's status is meant to be, by cases. *)
LEMMA StatusOf ==
  ASSUME NEW m
  PROVE  /\ ~ HasRun(m) => Status(m) = IF m \in withFacts THEN "ready" ELSE "offline"
         /\ \A r \in RunId : Latest(m, r) =>
              Status(m) = IF runs[r].status \in DOMAIN KnownStatus
                          THEN KnownStatus[runs[r].status] ELSE "undecided"
<1>1. CASE ~ HasRun(m)
  BY <1>1 DEF HasRun, Latest, Status
<1>2. ASSUME NEW r \in RunId, Latest(m, r)
      PROVE  Status(m) = IF runs[r].status \in DOMAIN KnownStatus
                         THEN KnownStatus[runs[r].status] ELSE "undecided"
  <2>1. \A s \in RunId : s \in Int
    BY DEF RunId
  <2>2. \A s \in RunId : Latest(m, s) => s = r
    BY <1>2, <2>1 DEF Latest
  <2>3. (CHOOSE s \in RunId : Latest(m, s)) = r
    BY <1>2, <2>2
  <2> QED BY <1>2, <2>3 DEF Status
<1>3. (\E r \in RunId : Latest(m, r)) => HasRun(m)
  BY DEF Latest, HasRun
<1> QED BY <1>1, <1>2, <1>3

LEMMA StatusType ==
  ASSUME NEW m
  PROVE  Status(m) \in MachineStatus \cup {"undecided"}
BY DEF Status, KnownStatus, MachineStatus

(* What the list shows of a machine, given what was read of its facts.     *)
LEMMA DerivedStatus ==
  ASSUME NEW m, NEW facts
  PROVE  /\ HasRun(m) => Status(m) \in {deriveMachineStatus(m, facts), "undecided"}
         /\ ~ HasRun(m) => deriveMachineStatus(m, facts) = IF m \in facts THEN "ready" ELSE "offline"
<1>1. CASE HasRun(m)
  <2>1. PICK r \in RunId : Latest(m, r) /\ r \in recentRuns(m) /\ Max(recentRuns(m)) = r
    BY <1>1, LatestIsListed
  <2>2. Status(m) = IF runs[r].status \in DOMAIN KnownStatus
                    THEN KnownStatus[runs[r].status] ELSE "undecided"
    BY <2>1, StatusOf
  <2>3. runs[r].status \in DOMAIN KnownStatus =>
          deriveMachineStatus(m, facts) = KnownStatus[runs[r].status]
    BY <2>1 DEF deriveMachineStatus
  <2> QED BY <1>1, <2>2, <2>3
<1>2. CASE ~ HasRun(m)
  <2>1. recentRuns(m) = {}
    BY <1>2 DEF HasRun, recentRuns
  <2> QED BY <1>2, <2>1 DEF deriveMachineStatus
<1> QED BY <1>1, <1>2

LEMMA DerivedType ==
  ASSUME NEW m, NEW facts
  PROVE  deriveMachineStatus(m, facts) \in MachineStatus
BY DEF deriveMachineStatus, KnownStatus, MachineStatus

(***************************************************************************)
(* Upserts                                                                 *)
(***************************************************************************)
MachinesType == [Machine -> [mac : Mac, serial : Serial] \cup {NoMachineRow}]

(* A row is written for a request: for one that had none, the address was  *)
(* no row's; for one that had the row, the row keeps its address.          *)
LEMMA PutKeeps ==
  ASSUME TypeOK, OneRowPerMac, NEW w \in Worker, upserts[w] # Idle,
         NEW id \in Machine, Put(w, id),
         \/ machines[id].mac = upserts[w].mac
         \/ ~ Known(id) /\ ~ Taken(w)
  PROVE  /\ machines' \in MachinesType /\ OneRowPerMac'
         /\ machines'[id].mac = upserts[w].mac
         /\ \A m \in Machine, mac \in Mac : machines[m].mac = mac => machines'[m].mac = mac
<1>1. upserts[w].mac \in Mac /\ upserts[w].serial \in Serial
  BY DEF TypeOK, Upsert
<1>2. machines \in MachinesType
  BY DEF TypeOK, MachinesType
<1>3. /\ machines' \in MachinesType /\ machines'[id].mac = upserts[w].mac
      /\ \A m \in Machine : m # id => machines'[m] = machines[m]
  BY <1>1, <1>2 DEF Put, MachinesType
<1>4. \A m \in Machine, mac \in Mac : machines[m].mac = mac => Known(m)
  BY MachineApiAssumption DEF Known, NoMachineRow
<1>5. \A m \in Machine : Known(m) => machines[m].mac \in Mac
  BY <1>2 DEF MachinesType, Known
<1>6. \A m \in Machine : machines[m].mac = upserts[w].mac => m = id
  BY <1>1, <1>4 DEF OneRowPerMac, Taken
<1>7. OneRowPerMac'
  BY <1>1, <1>3, <1>4, <1>5, <1>6 DEF OneRowPerMac, Known
<1>8. \A m \in Machine, mac \in Mac : machines[m].mac = mac => machines'[m].mac = mac
  BY <1>3, <1>4, <1>6
<1> QED BY <1>3, <1>7, <1>8

(* A request goes on while addresses stay with their rows. *)
LEMMA RequestGoesOn ==
  ASSUME TypeOK, OwnersOK, NEW w \in Worker,
         machines' \in MachinesType,
         \A m \in Machine, mac \in Mac : machines[m].mac = mac => machines'[m].mac = mac,
         events' = events,
         NEW req \in Upsert \cup {Idle}, upserts' = [upserts EXCEPT ![w] = req],
         req.pc \in {"update", "reread", "publish", "ok"} =>
           req.id \in Machine /\ machines'[req.id].mac = req.mac
  PROVE  upserts' \in [Worker -> Upsert \cup {Idle}] /\ OwnersOK'
<1>1. /\ upserts' \in [Worker -> Upsert \cup {Idle}] /\ upserts'[w] = req
      /\ \A v \in Worker : v # w => upserts'[v] = upserts[v]
  BY DEF TypeOK
<1>2. \A id, mac : mac \in Mac /\ Owns(id, mac) => Owns(id, mac)'
  BY DEF Owns
<1>3. \A e \in events : e.mac \in Mac
  BY DEF TypeOK
<1>4. \A v \in Worker : upserts[v].pc \in {"update", "reread", "publish", "ok"} =>
        upserts[v].mac \in Mac
  BY DEF TypeOK, Upsert, Idle
<1>5. \A e \in events' : Owns(e.id, e.mac)'
  BY <1>2, <1>3 DEF OwnersOK, Owns
<1>6. \A v \in Worker : upserts'[v].pc \in {"update", "reread", "publish", "ok"} =>
        upserts'[v].id \in Machine /\ machines'[upserts'[v].id].mac = upserts'[v].mac
  BY <1>1, <1>4 DEF OwnersOK, Owns
<1> QED BY <1>1, <1>5, <1>6 DEF OwnersOK, Owns

LEMMA UpsertStepKeeps ==
  ASSUME TypeOK, OneRowPerMac, OwnersOK, NEW w \in Worker, UpsertStep(w)
  PROVE  /\ machines' \in MachinesType
         /\ upserts' \in [Worker -> Upsert \cup {Idle}]
         /\ upserted' \in 0 .. MaxUpserts
         /\ events' \subseteq [id : Machine, mac : Mac]
         /\ faults' \in 0 .. MaxFaults
         /\ OneRowPerMac' /\ OwnersOK'
<1> DEFINE req == upserts[w]
<1>1. /\ machines \in MachinesType /\ upserts \in [Worker -> Upsert \cup {Idle}]
      /\ upserted \in 0 .. MaxUpserts /\ faults \in 0 .. MaxFaults
      /\ events \subseteq [id : Machine, mac : Mac]
  BY DEF TypeOK, MachinesType
<1>2. req # Idle => req \in Upsert
  BY <1>1
<1>3. ASSUME machines' = machines, events' = events, upserted' \in 0 .. MaxUpserts,
             faults' \in 0 .. MaxFaults,
             NEW new \in Upsert \cup {Idle}, upserts' = [upserts EXCEPT ![w] = new],
             new.pc \in {"update", "reread", "publish", "ok"} =>
               new.id \in Machine /\ machines[new.id].mac = new.mac
      PROVE  /\ machines' \in MachinesType
             /\ upserts' \in [Worker -> Upsert \cup {Idle}]
             /\ upserted' \in 0 .. MaxUpserts
             /\ events' \subseteq [id : Machine, mac : Mac]
             /\ faults' \in 0 .. MaxFaults
             /\ OneRowPerMac' /\ OwnersOK'
  <2>1. upserts' \in [Worker -> Upsert \cup {Idle}] /\ OwnersOK'
    BY <1>1, <1>3, RequestGoesOn
  <2> QED BY <1>1, <1>3, <2>1 DEF OneRowPerMac, Known
<1>4. ASSUME NEW id \in Machine, Put(w, id), req # Idle,
             machines[id].mac = req.mac \/ (~ Known(id) /\ ~ Taken(w)),
             events' = events, upserted' \in 0 .. MaxUpserts, faults' \in 0 .. MaxFaults,
             NEW new \in Upsert, upserts' = [upserts EXCEPT ![w] = new],
             new.mac = req.mac,
             new.pc \in {"update", "reread", "publish", "ok"} => new.id = id
      PROVE  /\ machines' \in MachinesType
             /\ upserts' \in [Worker -> Upsert \cup {Idle}]
             /\ upserted' \in 0 .. MaxUpserts
             /\ events' \subseteq [id : Machine, mac : Mac]
             /\ faults' \in 0 .. MaxFaults
             /\ OneRowPerMac' /\ OwnersOK'
  <2>1. /\ machines' \in MachinesType /\ OneRowPerMac'
        /\ machines'[id].mac = req.mac
        /\ \A m \in Machine, mac \in Mac : machines[m].mac = mac => machines'[m].mac = mac
    BY <1>4, PutKeeps
  <2>2. upserts' \in [Worker -> Upsert \cup {Idle}] /\ OwnersOK'
    BY <1>4, <2>1, RequestGoesOn
  <2> QED BY <1>1, <1>4, <2>1, <2>2
<1>5. ASSUME NEW mac \in Mac, NEW serial \in Serial, UpsertBegin(w, mac, serial)
      PROVE  /\ machines' \in MachinesType
             /\ upserts' \in [Worker -> Upsert \cup {Idle}]
             /\ upserted' \in 0 .. MaxUpserts
             /\ events' \subseteq [id : Machine, mac : Mac]
             /\ faults' \in 0 .. MaxFaults
             /\ OneRowPerMac' /\ OwnersOK'
  <2> DEFINE new == [pc |-> "find", mac |-> mac, serial |-> serial, id |-> NoMachine]
  <2>1. new \in Upsert
    BY DEF Upsert
  <2>2. upserted' \in 0 .. MaxUpserts
    BY <1>1, <1>5, MachineApiAssumption DEF UpsertBegin
  <2> QED BY <1>1, <1>3, <1>5, <2>1, <2>2 DEF UpsertBegin
<1>6. CASE Find(w)
  <2>1. req \in Upsert
    BY <1>2, <1>6 DEF Find, At, Idle
  <2>2. UNCHANGED <<machines, upserted, events, faults>>
    BY <1>6 DEF Find
  <2>3. CASE \E m \in Machine :
               /\ machines[m].mac = upserts[w].mac
               /\ upserts' = [upserts EXCEPT ![w].pc = "update", ![w].id = m]
    <3>1. PICK m \in Machine :
            /\ machines[m].mac = upserts[w].mac
            /\ upserts' = [upserts EXCEPT ![w].pc = "update", ![w].id = m]
      BY <2>3
    <3>2. /\ [req EXCEPT !.pc = "update", !.id = m] \in Upsert
          /\ upserts' = [upserts EXCEPT ![w] = [req EXCEPT !.pc = "update", !.id = m]]
      BY <1>1, <2>1, <3>1 DEF Upsert
    <3>3. /\ [req EXCEPT !.pc = "update", !.id = m].id = m
          /\ [req EXCEPT !.pc = "update", !.id = m].mac = req.mac
      BY <2>1 DEF Upsert
    <3> HIDE DEF req
    <3> QED BY <1>1, <1>3, <2>2, <3>1, <3>2, <3>3 DEF req
  <2>4. CASE GoTo(w, "create")
    <3>1. /\ [req EXCEPT !.pc = "create"] \in Upsert
          /\ [req EXCEPT !.pc = "create"].pc = "create"
          /\ upserts' = [upserts EXCEPT ![w] = [req EXCEPT !.pc = "create"]]
      BY <1>1, <2>1, <2>4 DEF Upsert, GoTo
    <3> QED BY <1>1, <1>3, <2>2, <3>1
  <2> QED BY <1>6, <2>3, <2>4 DEF Find
<1>7. CASE Create(w)
  <2>1. req \in Upsert /\ req # Idle
    BY <1>2, <1>7 DEF Create, At, Idle
  <2>2. UNCHANGED <<upserted, events, faults>>
    BY <1>7 DEF Create
  <2>3. CASE Taken(w)
    <3>1. machines' = machines /\ GoTo(w, "failed")
      BY <1>7, <2>3 DEF Create
    <3>2. /\ [req EXCEPT !.pc = "failed"] \in Upsert
          /\ [req EXCEPT !.pc = "failed"].pc = "failed"
          /\ upserts' = [upserts EXCEPT ![w] = [req EXCEPT !.pc = "failed"]]
      BY <1>1, <2>1, <3>1 DEF Upsert, GoTo
    <3> QED BY <1>1, <1>3, <2>2, <3>1, <3>2
  <2>4. CASE ~ Taken(w)
    <3>1. PICK id \in FreshIds :
            /\ Put(w, id)
            /\ upserts' = [upserts EXCEPT ![w].pc = "publish", ![w].id = id]
      BY <1>7, <2>4 DEF Create
    <3>2. id \in Machine /\ ~ Known(id)
      BY DEF FreshIds
    <3>3. /\ [req EXCEPT !.pc = "publish", !.id = id] \in Upsert
          /\ upserts' = [upserts EXCEPT ![w] = [req EXCEPT !.pc = "publish", !.id = id]]
          /\ [req EXCEPT !.pc = "publish", !.id = id].id = id
          /\ [req EXCEPT !.pc = "publish", !.id = id].mac = req.mac
      BY <1>1, <2>1, <3>1, <3>2 DEF Upsert
    <3> HIDE DEF req
    <3> QED BY <1>1, <1>4, <2>1, <2>2, <2>4, <3>1, <3>2, <3>3
  <2> QED BY <2>3, <2>4
<1>8. CASE Update(w)
  <2>1. req \in Upsert /\ req # Idle
    BY <1>2, <1>8 DEF Update, At, Idle
  <2>2. req.id \in Machine /\ machines[req.id].mac = req.mac
    BY <1>8 DEF OwnersOK, Owns, Update, At
  <2>3. /\ [req EXCEPT !.pc = "reread"] \in Upsert
        /\ upserts' = [upserts EXCEPT ![w] = [req EXCEPT !.pc = "reread"]]
        /\ [req EXCEPT !.pc = "reread"].id = req.id
        /\ [req EXCEPT !.pc = "reread"].mac = req.mac
    BY <1>1, <1>8, <2>1 DEF Upsert, Update, GoTo
  <2>4. Put(w, req.id) /\ UNCHANGED <<upserted, events, faults>>
    BY <1>8 DEF Update
  <2> HIDE DEF req
  <2> QED BY <1>1, <1>4, <2>1, <2>2, <2>3, <2>4
<1>9. CASE Reread(w)
  <2>1. req \in Upsert /\ req # Idle
    BY <1>2, <1>9 DEF Reread, At, Idle
  <2>2. req.id \in Machine /\ machines[req.id].mac = req.mac /\ req.mac \in Mac
    BY <1>9, <2>1 DEF OwnersOK, Owns, Reread, At, Upsert
  <2>3. machines[req.id].serial \in Serial
    BY <1>1, <2>2, MachineApiAssumption DEF MachinesType, NoMachineRow
  <2> DEFINE new == [req EXCEPT !.pc = "publish", !.serial = machines[req.id].serial]
  <2>4. /\ new \in Upsert /\ new.id = req.id /\ new.mac = req.mac
        /\ upserts' = [upserts EXCEPT ![w] = new]
    BY <1>1, <1>9, <2>1, <2>3 DEF Upsert, Reread
  <2>5. UNCHANGED <<machines, upserted, events, faults>>
    BY <1>9 DEF Reread
  <2> HIDE DEF new, req
  <2> QED BY <1>1, <1>3, <2>2, <2>4, <2>5
<1>10. CASE UpsertDbError(w)
  <2>1. req \in Upsert /\ req # Idle
    BY <1>2, <1>10 DEF UpsertDbError, Idle
  <2> DEFINE new == [req EXCEPT !.pc = "failed"]
  <2>2. /\ new \in Upsert /\ new.pc = "failed" /\ new.mac = req.mac
        /\ upserts' = [upserts EXCEPT ![w] = new]
    BY <1>1, <1>10, <2>1 DEF Upsert, UpsertDbError, GoTo
  <2>3. UNCHANGED <<upserted, events>> /\ faults' \in 0 .. MaxFaults
    BY <1>1, <1>10, MachineApiAssumption DEF UpsertDbError, Fault
  <2>4. CASE machines' = machines
    <3> HIDE DEF new, req
    <3> QED BY <1>1, <1>3, <2>2, <2>3, <2>4
  <2>5. CASE ~ Taken(w) /\ \E id \in FreshIds : Put(w, id)
    <3>1. PICK id \in Machine : Put(w, id) /\ ~ Known(id)
      BY <2>5 DEF FreshIds
    <3> HIDE DEF new, req
    <3> QED BY <1>1, <1>4, <2>1, <2>2, <2>3, <2>5, <3>1
  <2>6. CASE At(w, "update") /\ Put(w, req.id)
    <3>1. req.id \in Machine /\ machines[req.id].mac = req.mac
      BY <2>6 DEF OwnersOK, Owns, At
    <3> HIDE DEF new, req
    <3> QED BY <1>1, <1>4, <2>1, <2>2, <2>3, <2>6, <3>1
  <2> QED BY <1>10, <2>4, <2>5, <2>6 DEF UpsertDbError
<1>11. CASE Announce(w)
  <2>1. req \in Upsert
    BY <1>2, <1>11 DEF Announce, At, Idle
  <2>2. req.id \in Machine /\ machines[req.id].mac = req.mac /\ req.mac \in Mac
    BY <1>11, <2>1 DEF OwnersOK, Owns, Announce, At, Upsert
  <2> DEFINE new == [req EXCEPT !.pc = "ok"]
  <2>3. /\ new \in Upsert /\ new.id = req.id /\ new.mac = req.mac
        /\ upserts' = [upserts EXCEPT ![w] = new]
    BY <1>1, <1>11, <2>1 DEF Upsert, Announce, GoTo
  <2>4. /\ machines' = machines /\ upserted' = upserted
        /\ events' \subseteq events \cup {[id |-> req.id, mac |-> req.mac]}
        /\ faults' \in 0 .. MaxFaults
    BY <1>1, <1>11, MachineApiAssumption DEF Announce, Fault
  <2>5. events' \subseteq [id : Machine, mac : Mac]
    BY <1>1, <2>2, <2>4
  <2>6. upserts' \in [Worker -> Upsert \cup {Idle}] /\ upserts'[w] = new
        /\ \A v \in Worker : v # w => upserts'[v] = upserts[v]
    BY <1>1, <2>3
  <2>7. \A e \in events' : e.id \in Machine /\ machines'[e.id].mac = e.mac
    BY <2>2, <2>4 DEF OwnersOK, Owns
  <2>8. \A v \in Worker : upserts'[v].pc \in {"update", "reread", "publish", "ok"} =>
          upserts'[v].id \in Machine /\ machines'[upserts'[v].id].mac = upserts'[v].mac
    <3> HIDE DEF new, req
    <3> QED BY <2>2, <2>3, <2>4, <2>6 DEF OwnersOK, Owns
  <2> QED BY <1>1, <2>4, <2>5, <2>6, <2>7, <2>8 DEF OwnersOK, Owns, OneRowPerMac, Known
<1>12. CASE UpsertRespond(w)
  <2>1. /\ upserts' = [upserts EXCEPT ![w] = Idle] /\ Idle.pc = "idle"
        /\ UNCHANGED <<machines, upserted, events, faults>>
    BY <1>12 DEF UpsertRespond, Idle
  <2> QED BY <1>1, <1>3, <2>1
<1> QED BY <1>5, <1>6, <1>7, <1>8, <1>9, <1>10, <1>11, <1>12 DEF UpsertStep
-----------------------------------------------------------------------------
(***************************************************************************)
(* Runs and facts                                                          *)
(***************************************************************************)
(* Rows of runs stay with their machines. *)
LEMMA OthersKeep ==
  ASSUME TypeOK, Others
  PROVE  /\ RunsTypeOK' /\ withFacts' \subseteq Machine
         /\ withFacts \subseteq withFacts'
         /\ \A m \in Machine : HasRun(m) => HasRun(m)'
<1>1. RunsTypeOK /\ withFacts \subseteq Machine
  BY DEF TypeOK
<1>2. ASSUME NEW m \in Machine, PostFacts(m)
      PROVE  /\ RunsTypeOK' /\ withFacts' \subseteq Machine /\ withFacts \subseteq withFacts'
             /\ \A n \in Machine : HasRun(n) => HasRun(n)'
  BY <1>1, <1>2 DEF PostFacts, runVars, RunsTypeOK, HasRun
<1>3. ASSUME NEW r \in RunId, NEW m \in Machine, RunStarts(r, m), withFacts' = withFacts
      PROVE  /\ RunsTypeOK' /\ withFacts' \subseteq Machine /\ withFacts \subseteq withFacts'
             /\ \A n \in Machine : HasRun(n) => HasRun(n)'
  <2>1. /\ runs' = [runs EXCEPT ![r] = [machine |-> m, status |-> "running", blueprint |-> TRUE]]
        /\ nextRun' = nextRun /\ runs[r].status = "absent"
    BY <1>3 DEF RunStarts, InsertRun, Exists
  <2>2. RunsTypeOK'
    BY <1>1, <2>1 DEF RunsTypeOK, Row, RunStatus
  <2>3. runs[r].machine \notin Machine
    BY <1>1, <2>1, MachineAssumption DEF RunsTypeOK, Row, NoRow
  <2>4. \A s \in RunId : runs[s].machine \in Machine => runs'[s] = runs[s]
    BY <1>1, <2>1, <2>3 DEF RunsTypeOK
  <2>5. \A n \in Machine : HasRun(n) => HasRun(n)'
    BY <2>4 DEF HasRun
  <2> QED BY <1>1, <1>3, <2>2, <2>5
<1>4. ASSUME NEW r \in RunId, NEW s \in FinishStatus \cup {"success"}, RunFinishes(r, s),
             withFacts' = withFacts
      PROVE  /\ RunsTypeOK' /\ withFacts' \subseteq Machine /\ withFacts \subseteq withFacts'
             /\ \A n \in Machine : HasRun(n) => HasRun(n)'
  <2>1. /\ runs' = [runs EXCEPT ![r].status = s] /\ nextRun' = nextRun
        /\ runs[r].status # "absent"
    BY <1>4 DEF RunFinishes, UpdateStatus, Exists
  <2>2. RunsTypeOK'
    BY <1>1, <2>1, FinishStatusAssumption DEF RunsTypeOK, Row, RunStatus, NoRow
  <2>3. \A t \in RunId : runs'[t].machine = runs[t].machine
    BY <1>1, <2>1 DEF RunsTypeOK, Row, NoRow
  <2>4. \A n \in Machine : HasRun(n) => HasRun(n)'
    BY <2>3 DEF HasRun
  <2> QED BY <1>1, <1>4, <2>2, <2>4
<1> QED BY <1>2, <1>3, <1>4 DEF Others
-----------------------------------------------------------------------------
(***************************************************************************)
(* The list                                                                *)
(***************************************************************************)
LEMMA ObserveKeeps ==
  ASSUME TypeOK, Observe
  PROVE  /\ seen' \in [Machine -> SUBSET (MachineStatus \cup {"undecided"})]
         /\ listing' # Idle =>
              \A m \in Machine : seen[m] \subseteq seen'[m] /\ Status(m)' \in seen'[m]
<1>1. \A m \in Machine : Status(m)' \in MachineStatus \cup {"undecided"}
  BY DEF Status, KnownStatus, MachineStatus
<1>2. seen \in [Machine -> SUBSET (MachineStatus \cup {"undecided"})]
  BY DEF TypeOK
<1> QED BY <1>1, <1>2 DEF Observe

(* A list goes on as it is while the rest of the state only grows. *)
LEMMA ListStays ==
  ASSUME TypeOK, ListOK, Observe, listing' = listing, withFacts \subseteq withFacts',
         \A m \in Machine : HasRun(m) => HasRun(m)'
  PROVE  ListOK'
<1>1. CASE listing = Idle
  BY <1>1 DEF ListOK, ListedWasTrue, Idle
<1>2. CASE listing # Idle
  <2>1. listing \in Listing
    BY <1>2 DEF TypeOK
  <2>2. \A m \in Machine : seen[m] \subseteq seen'[m]
    BY <1>2, ObserveKeeps
  <2>3. listing'.facts \subseteq withFacts'
    BY <1>2 DEF ListOK
  <2>4. listing'.pc = "runs" =>
          \A m \in Machine : m \in listing'.facts \/ HasRun(m)' \/ "offline" \in seen'[m]
    BY <2>2 DEF ListOK
  <2>5. ListedWasTrue'
    BY <2>1, <2>2 DEF ListOK, ListedWasTrue, Listing
  <2> QED BY <2>3, <2>4, <2>5 DEF ListOK
<1> QED BY <1>1, <1>2

LEMMA ListStepKeeps ==
  ASSUME TypeOK, ListOK, Observe, ListStep, UNCHANGED <<runVars, withFacts, upsertVars>>
  PROVE  listing' \in Listing \cup {Idle} /\ faults' \in 0 .. MaxFaults /\ ListOK'
<1>1. listing \in Listing \cup {Idle} /\ faults \in 0 .. MaxFaults
  BY DEF TypeOK
<1>2. runs' = runs /\ withFacts' = withFacts /\ machines' = machines
  BY DEF runVars, upsertVars
<1>3. \A m \in Machine : Status(m)' = Status(m) /\ (HasRun(m)' <=> HasRun(m))
  BY <1>2 DEF Status, Latest, HasRun
<1>4. CASE ListMachines /\ UNCHANGED faults
  <2>1. /\ listing' \in Listing /\ listing' # Idle /\ listing'.facts = {}
        /\ listing'.pc \in {"ok", "facts"} /\ (listing'.pc = "ok" => listing'.ids = {})
    BY <1>4 DEF ListMachines, Listing, MachineStatus, Idle
  <2>2. ListOK'
    BY <2>1 DEF ListOK, ListedWasTrue
  <2> QED BY <1>1, <1>4, <2>1, <2>2
<1>5. CASE fetchLatestFacts /\ UNCHANGED faults
  <2>1. listing \in Listing
    BY <1>1, <1>5 DEF fetchLatestFacts, Idle
  <2>2. /\ listing' \in Listing /\ listing'.pc = "runs" /\ listing'.facts = withFacts
        /\ listing' # Idle
    BY <1>5, <2>1 DEF fetchLatestFacts, Listing, Idle, TypeOK
  <2>3. ASSUME NEW m \in Machine, m \notin withFacts, ~ HasRun(m)
        PROVE  "offline" \in seen'[m]
    <3>1. Status(m) = "offline"
      BY <2>3, StatusOf
    <3> QED BY <1>3, <2>2, <3>1, ObserveKeeps
  <2>4. ListOK'
    BY <1>2, <1>3, <2>2, <2>3 DEF ListOK, ListedWasTrue
  <2> QED BY <1>1, <1>5, <2>2, <2>4
<1>6. CASE fetchRecentRuns /\ UNCHANGED faults
  <2>1. listing \in Listing /\ listing # Idle /\ listing.pc = "runs"
    BY <1>1, <1>6 DEF fetchRecentRuns, Idle
  <2>2. CASE RunsQueryWorks
    <3>1. listing' = [listing EXCEPT !.pc = "ok",
            !.status = [m \in Machine |-> deriveMachineStatus(m, listing.facts)]]
      BY <1>6, <2>2 DEF fetchRecentRuns
    <3>2. \A m \in Machine : deriveMachineStatus(m, listing.facts) \in MachineStatus
      BY DerivedType
    <3>3. /\ listing' \in Listing /\ listing'.pc = "ok" /\ listing'.facts = listing.facts
          /\ listing' # Idle /\ listing'.ids \subseteq Machine
          /\ \A m \in Machine : listing'.status[m] = deriveMachineStatus(m, listing.facts)
      BY <2>1, <3>1, <3>2 DEF Listing, Idle
    <3>4. ASSUME NEW m \in Machine
          PROVE  \/ deriveMachineStatus(m, listing.facts) \in seen'[m]
                 \/ "undecided" \in seen'[m]
      <4>1. Status(m) \in seen'[m] /\ seen[m] \subseteq seen'[m]
        BY <1>3, <3>3, ObserveKeeps
      <4>2. CASE HasRun(m)
        <5>1. Status(m) \in {deriveMachineStatus(m, listing.facts), "undecided"}
          BY <4>2, DerivedStatus
        <5> QED BY <4>1, <5>1
      <4>3. CASE ~ HasRun(m) /\ m \in listing.facts
        <5>1. deriveMachineStatus(m, listing.facts) = "ready"
          BY <4>3, DerivedStatus
        <5>2. m \in withFacts
          BY <2>1, <4>3 DEF ListOK
        <5>3. Status(m) = "ready"
          BY <4>3, <5>2, StatusOf
        <5> QED BY <4>1, <5>1, <5>3
      <4>4. CASE ~ HasRun(m) /\ m \notin listing.facts
        <5>1. deriveMachineStatus(m, listing.facts) = "offline"
          BY <4>4, DerivedStatus
        <5>2. "offline" \in seen[m]
          BY <2>1, <4>4 DEF ListOK
        <5> QED BY <4>1, <5>1, <5>2
      <4> QED BY <4>2, <4>3, <4>4
    <3>5. ListOK'
      BY <1>2, <2>1, <3>3, <3>4 DEF ListOK, ListedWasTrue
    <3> QED BY <1>1, <1>6, <3>3, <3>5
  <2>3. CASE ~ RunsQueryWorks
    <3>1. /\ listing' \in Listing /\ listing'.pc = "failed"
          /\ listing'.facts = listing.facts
      BY <1>6, <2>1, <2>3 DEF fetchRecentRuns, ListGoTo, Listing
    <3>2. ListOK'
      BY <1>2, <2>1, <3>1 DEF ListOK, ListedWasTrue
    <3> QED BY <1>1, <1>6, <3>1, <3>2
  <2> QED BY <2>2, <2>3
<1>7. CASE ListRespond /\ UNCHANGED faults
  <2>1. listing' = Idle
    BY <1>7 DEF ListRespond
  <2> QED BY <1>1, <1>7, <2>1 DEF ListOK, ListedWasTrue, Idle
<1>8. CASE ListDbError
  <2>1. listing \in Listing /\ listing # Idle
    BY <1>1, <1>8 DEF ListDbError, Idle
  <2>2. /\ listing' \in Listing /\ listing'.pc = "failed" /\ listing'.facts = listing.facts
    BY <1>8, <2>1 DEF ListDbError, ListGoTo, Listing
  <2>3. faults' \in 0 .. MaxFaults
    BY <1>1, <1>8, MachineApiAssumption DEF ListDbError, Fault
  <2>4. ListOK'
    BY <1>2, <2>1, <2>2 DEF ListOK, ListedWasTrue
  <2> QED BY <2>2, <2>3, <2>4
<1> QED BY <1>4, <1>5, <1>6, <1>7, <1>8 DEF ListStep

-----------------------------------------------------------------------------
LEMMA Initially == Init => IInv
<1> SUFFICES ASSUME Init PROVE IInv
  OBVIOUS
<1>1. RunsTypeOK
  BY MaxRunsAssumption DEF Init, RunsInit, RunsTypeOK, Row
<1>2. TypeOK
  BY <1>1, MachineApiAssumption DEF Init, TypeOK
<1>3. OneRowPerMac /\ OwnersOK
  BY DEF Init, OneRowPerMac, OwnersOK, Known, Idle
<1>4. ListOK
  BY DEF Init, ListOK, ListedWasTrue, Idle
<1> QED BY <1>2, <1>3, <1>4 DEF IInv

LEMMA Inductive == IInv /\ [Next]_vars => IInv'
<1> SUFFICES ASSUME IInv, [Next]_vars PROVE IInv'
  OBVIOUS
<1>1. TypeOK /\ OneRowPerMac /\ OwnersOK /\ ListOK
  BY DEF IInv
<1>2. ASSUME NEW w \in Worker, UpsertStep(w), Observe, UNCHANGED <<runVars, withFacts, listing>>
      PROVE  IInv'
  <2>1. /\ machines' \in MachinesType
        /\ upserts' \in [Worker -> Upsert \cup {Idle}]
        /\ upserted' \in 0 .. MaxUpserts
        /\ events' \subseteq [id : Machine, mac : Mac]
        /\ faults' \in 0 .. MaxFaults
        /\ OneRowPerMac' /\ OwnersOK'
    BY <1>1, <1>2, UpsertStepKeeps
  <2>2. runs' = runs /\ nextRun' = nextRun /\ withFacts' = withFacts /\ listing' = listing
    BY <1>2 DEF runVars
  <2>3. TypeOK'
    BY <1>1, <1>2, <2>1, <2>2, ObserveKeeps DEF TypeOK, RunsTypeOK, MachinesType
  <2>4. ListOK'
    BY <1>1, <1>2, <2>2, ListStays DEF HasRun
  <2> QED BY <2>1, <2>3, <2>4 DEF IInv
<1>3. CASE ListStep /\ Observe /\ UNCHANGED <<runVars, withFacts, upsertVars>>
  <2>1. listing' \in Listing \cup {Idle} /\ faults' \in 0 .. MaxFaults /\ ListOK'
    BY <1>1, <1>3, ListStepKeeps
  <2>2. /\ UNCHANGED <<runs, nextRun, withFacts, machines, upserts, upserted, events>>
    BY <1>3 DEF runVars, upsertVars
  <2>3. TypeOK'
    BY <1>1, <1>3, <2>1, <2>2, ObserveKeeps DEF TypeOK, RunsTypeOK
  <2>4. OneRowPerMac' /\ OwnersOK'
    BY <1>1, <2>2 DEF OneRowPerMac, Known, OwnersOK, Owns
  <2> QED BY <2>1, <2>3, <2>4 DEF IInv
<1>4. CASE Others /\ Observe /\ UNCHANGED <<upsertVars, listing, faults>>
  <2>1. /\ RunsTypeOK' /\ withFacts' \subseteq Machine /\ withFacts \subseteq withFacts'
        /\ \A m \in Machine : HasRun(m) => HasRun(m)'
    BY <1>1, <1>4, OthersKeep
  <2>2. UNCHANGED <<machines, upserts, upserted, events, listing, faults>>
    BY <1>4 DEF upsertVars
  <2>3. TypeOK'
    BY <1>1, <1>4, <2>1, <2>2, ObserveKeeps DEF TypeOK
  <2>4. OneRowPerMac' /\ OwnersOK'
    BY <1>1, <2>2 DEF OneRowPerMac, Known, OwnersOK, Owns
  <2>5. ListOK'
    BY <1>1, <1>4, <2>1, ListStays
  <2> QED BY <2>3, <2>4, <2>5 DEF IInv
<1>5. CASE UNCHANGED vars
  BY <1>1, <1>5 DEF vars, runVars, upsertVars, listVars, IInv, TypeOK, RunsTypeOK,
        OneRowPerMac, Known, OwnersOK, Owns, ListOK, ListedWasTrue, HasRun
<1> QED BY <1>2, <1>3, <1>4, <1>5 DEF Next

-----------------------------------------------------------------------------
(* The inductive invariant holds of every behaviour. *)
THEOREM Invariance == Spec => []IInv
BY Initially, Inductive, PTL DEF Spec

(* The tables, the requests and the list are well formed. *)
THEOREM TypeCorrect == Spec => []TypeOK
<1>1. IInv => TypeOK
  BY DEF IInv
<1> QED BY <1>1, Invariance, PTL

(* The id that an upsert announces or answers with is that of the only row *)
(* of its address, whatever requests for it race (UpsertByMAC).            *)
THEOREM AnnouncedIdsAreStored == Spec => []AnnouncedIsStored
<1>1. IInv => AnnouncedIsStored
  <2> SUFFICES ASSUME IInv PROVE AnnouncedIsStored
    OBVIOUS
  <2>1. ASSUME NEW id, NEW mac \in Mac, Owns(id, mac)
        PROVE  {m \in Machine : machines[m].mac = mac} = {id}
    BY <2>1, MachineApiAssumption DEF Owns, IInv, OneRowPerMac, Known, NoMachineRow
  <2>2. \A e \in events : e.mac \in Mac /\ Owns(e.id, e.mac)
    BY DEF IInv, TypeOK, OwnersOK
  <2>3. \A w \in Worker : upserts[w].pc \in {"publish", "ok"} =>
          upserts[w].mac \in Mac /\ Owns(upserts[w].id, upserts[w].mac)
    BY DEF IInv, TypeOK, OwnersOK, Upsert, Idle
  <2> QED BY <2>1, <2>2, <2>3 DEF AnnouncedIsStored
<1> QED BY <1>1, Invariance, PTL

(* The status that GET /v1/machines shows is one the machine had while the *)
(* list was made, although three queries went into it (listMachines).      *)
THEOREM ListsTellTheTruth == Spec => []ListedWasTrue
<1>1. IInv => ListedWasTrue
  BY DEF IInv, ListOK
<1> QED BY <1>1, Invariance, PTL
=============================================================================
