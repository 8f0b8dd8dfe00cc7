---------------------------- MODULE AgentsProofs ----------------------------
(***************************************************************************)
(* Proofs about Agents (with FactsApi and Bus), for any machines, requests *)
(* and bounds.                                                             *)
(***************************************************************************)
EXTENDS Agents, SequenceTheorems, FiniteSetTheorems, TLAPS

(***************************************************************************)
(* The API's requests                                                      *)
(***************************************************************************)
LEMMA Types ==
  ASSUME FactsApiTypeOK
  PROVE  /\ "facts" \in Consumer /\ log["facts"] \in Seq(FactEvent)
         /\ Len(log["facts"]) \in Nat
         /\ faults \in 0 .. MaxFaults /\ faults \in Nat
         /\ nextFact \in Nat /\ \A f \in FactId : f \in Nat
         /\ \A w \in Worker : posting[w] \in Posting \cup {Idle}
<1>1. "facts" \in Consumer
  BY FactsConsumerAssumption
<1>2. log["facts"] \in Seq(FactEvent)
  BY <1>1 DEF FactsApiTypeOK, BusTypeOK
<1>3. Len(log["facts"]) \in Nat
  BY <1>2, LenProperties
<1>4. faults \in 0 .. MaxFaults /\ faults \in Nat
  BY MaxFaultsAssumption DEF FactsApiTypeOK, BusTypeOK
<1>5. nextFact \in Nat /\ \A f \in FactId : f \in Nat
  BY MaxFactsAssumption DEF FactsApiTypeOK, FactId
<1> QED BY <1>1, <1>2, <1>3, <1>4, <1>5 DEF FactsApiTypeOK

LEMMA FaultType ==
  ASSUME FactsApiTypeOK, Fault
  PROVE  faults' \in 0 .. MaxFaults /\ faults' = faults + 1
BY MaxFaultsAssumption DEF FactsApiTypeOK, BusTypeOK, Fault

(* A row that was inserted is not the row of an absent fact. *)
LEMMA RowIsInserted ==
  ASSUME NEW m \in Machine, NEW s
  PROVE  [machine |-> m, snapshot |-> s] # NoFactRow
BY NoFactAssumption DEF NoFactRow

(* Rows are never changed. *)
RowsStay == \A f \in FactId : Inserted(f) => facts'[f] = facts[f]

(* The request on w goes on: it stays the same request, and fails only by a *)
(* fault.                                                                   *)
GoesOn(w) ==
  posting[w] # Idle /\ Told(w) =>
    /\ posting'[w] # Idle /\ Told(w)'
    /\ posting'[w].machine = posting[w].machine
    /\ posting'[w].snapshot = posting[w].snapshot
    /\ posting'[w].pc = "failed" => posting[w].pc = "failed" \/ faults' = faults + 1

LEMMA ToldStays ==
  ASSUME FactsApiTypeOK, RowsStay, NEW w \in Worker, posting'[w] = posting[w]
  PROVE  GoesOn(w)
<1> SUFFICES ASSUME posting[w] # Idle, Told(w), posting[w].pc \in {"publish", "created"}
             PROVE  Told(w)'
  BY DEF GoesOn, Told
<1>1. posting[w] \in Posting
  BY Types
<1>2. /\ posting[w].fact \in FactId /\ posting[w].machine \in Machine
      /\ facts[posting[w].fact] = [machine |-> posting[w].machine,
                                   snapshot |-> posting[w].snapshot]
  BY <1>1 DEF Posting, Told
<1>3. Inserted(posting[w].fact)
  BY <1>2, RowIsInserted DEF Inserted
<1>4. facts'[posting[w].fact] = facts[posting[w].fact]
  BY <1>2, <1>3 DEF RowsStay
<1> QED BY <1>2, <1>4 DEF Told

(* A request comes in and draws an id that no row has. *)
LEMMA PostFactsKeeps ==
  ASSUME FactsApiTypeOK, IdsOK, NEW w \in Worker, NEW m \in Machine, NEW s \in Snapshot,
         PostFacts(w, m, s)
  PROVE  /\ FactsApiTypeOK' /\ IdsOK' /\ RowsStay /\ faults' = faults
         /\ nextFact \in FactId
         /\ posting[w] = Idle
         /\ posting'[w] = [pc |-> "insert", fact |-> nextFact,
                           machine |-> m, snapshot |-> s]
         /\ \A v \in Worker : v # w => posting'[v] = posting[v]
<1>1. /\ nextFact \in FactId /\ nextFact' = nextFact + 1 /\ nextFact' \in 1 .. MaxFacts + 1
      /\ \A f \in FactId : f \in Int
      /\ posting[w] = Idle
  BY MaxFactsAssumption DEF PostFacts, FactsApiTypeOK, FactId
<1> DEFINE new == [pc |-> "insert", fact |-> nextFact, machine |-> m, snapshot |-> s]
<1>2. new \in Posting
  BY <1>1 DEF Posting
<1>3. /\ posting' \in [Worker -> Posting \cup {Idle}]
      /\ posting'[w] = new
      /\ \A v \in Worker : v # w => posting'[v] = posting[v]
  BY <1>2 DEF PostFacts, FactsApiTypeOK
<1>4. facts' = facts /\ UNCHANGED busVars
  BY DEF PostFacts
<1>5. FactsApiTypeOK'
  BY <1>1, <1>3, <1>4 DEF FactsApiTypeOK, busVars, BusTypeOK
<1>6. \A f \in FactId : f >= nextFact' => ~ Inserted(f)'
  BY <1>1, <1>4 DEF IdsOK, Inserted
<1>7. \A v \in Worker : v # w /\ posting[v].pc = "insert" =>
        posting[v].fact < nextFact /\ posting[v].fact \in FactId /\ ~ Inserted(posting[v].fact)
  BY Types DEF IdsOK, Posting, Idle
<1>8. ASSUME NEW v \in Worker, posting'[v].pc = "insert"
      PROVE  posting'[v].fact < nextFact' /\ facts'[posting'[v].fact] = NoFactRow
  <2>1. CASE v = w
    BY <1>1, <1>3, <1>4, <2>1 DEF IdsOK, Inserted
  <2>2. CASE v # w
    BY <1>1, <1>3, <1>4, <1>7, <1>8, <2>2 DEF Inserted
  <2> QED BY <2>1, <2>2
<1>9. ASSUME NEW u \in Worker, NEW v \in Worker,
             posting'[u].pc = "insert", posting'[v].pc = "insert",
             posting'[u].fact = posting'[v].fact
      PROVE  u = v
  <2>1. CASE u = w \/ v = w
    BY <1>1, <1>3, <1>7, <1>9, <2>1
  <2>2. CASE u # w /\ v # w
    BY <1>3, <1>9, <2>2 DEF IdsOK
  <2> QED BY <2>1, <2>2
<1>10. IdsOK'
  BY <1>6, <1>8, <1>9 DEF IdsOK, Inserted
<1> QED BY <1>1, <1>3, <1>4, <1>5, <1>10 DEF RowsStay, busVars

(* The row of a request's fact is written, or was about to be and is not:  *)
(* the request goes on to pc.                                              *)
LEMMA RowWritten ==
  ASSUME FactsApiTypeOK, IdsOK, NEW w \in Worker, posting[w].pc = "insert",
         NEW pc \in {"publish", "failed"},
         posting' = [posting EXCEPT ![w].pc = pc],
         \/ InsertFactRow(posting[w].fact, posting[w].machine, posting[w].snapshot)
         \/ facts' = facts /\ pc = "failed",
         nextFact' = nextFact,
         pc = "failed" => faults' = faults + 1
  PROVE  /\ facts' \in [FactId -> FactRow \cup {NoFactRow}]
         /\ posting' \in [Worker -> Posting \cup {Idle}]
         /\ IdsOK' /\ RowsStay
         /\ \A v \in Worker : GoesOn(v)
         /\ \A m \in Machine : Promised(m)' \subseteq Promised(m)
<1> DEFINE req == posting[w]
           row == [machine |-> req.machine, snapshot |-> req.snapshot]
<1>1. req \in Posting /\ req # Idle
  BY Types DEF Idle
<1>2. req.fact \in FactId /\ req.fact < nextFact /\ ~ Inserted(req.fact)
  BY <1>1 DEF Posting, IdsOK
<1>3. row \in FactRow
  BY <1>1 DEF Posting, FactRow
<1>4. /\ posting' \in [Worker -> Posting \cup {Idle}]
      /\ posting'[w] \in Posting
      /\ posting'[w].pc = pc /\ posting'[w].fact = req.fact
      /\ posting'[w].machine = req.machine /\ posting'[w].snapshot = req.snapshot
      /\ \A v \in Worker : v # w => posting'[v] = posting[v]
  BY <1>1 DEF FactsApiTypeOK, Posting
<1>5. /\ facts' \in [FactId -> FactRow \cup {NoFactRow}]
      /\ \A f \in FactId : f # req.fact => facts'[f] = facts[f]
      /\ facts'[req.fact] = facts[req.fact] \/ facts'[req.fact] = row
      /\ pc = "publish" => facts'[req.fact] = row
  BY <1>2, <1>3 DEF InsertFactRow, FactsApiTypeOK
<1>6. RowsStay
  BY <1>2, <1>5 DEF RowsStay
<1>7. \A f \in FactId : f >= nextFact' => ~ Inserted(f)'
  BY <1>2, <1>5, Types DEF IdsOK, Inserted
<1>8. \A v \in Worker : v # w /\ posting[v].pc = "insert" =>
        /\ posting[v].fact # req.fact /\ posting[v].fact \in FactId
        /\ posting[v].fact < nextFact /\ ~ Inserted(posting[v].fact)
  BY Types DEF IdsOK, Posting, Idle
<1>9. \A v \in Worker : posting'[v].pc = "insert" =>
        v # w /\ posting'[v] = posting[v]
  BY <1>4
<1>10. IdsOK'
  <2>1. \A v \in Worker : posting'[v].pc = "insert" =>
          posting'[v].fact < nextFact' /\ facts'[posting'[v].fact] = NoFactRow
    BY <1>5, <1>8, <1>9 DEF Inserted
  <2>2. \A u, v \in Worker :
          posting'[u].pc = "insert" /\ posting'[v].pc = "insert"
            /\ posting'[u].fact = posting'[v].fact => u = v
    BY <1>9 DEF IdsOK
  <2> QED BY <1>7, <2>1, <2>2 DEF IdsOK, Inserted
<1>11. ASSUME NEW v \in Worker
       PROVE  GoesOn(v)
  <2>1. CASE v # w
    BY <1>4, <1>6, <2>1, ToldStays
  <2>2. CASE v = w
    <3>1. posting'[w] # Idle
      BY <1>4 DEF Idle
    <3>2. Told(w)'
      BY <1>4, <1>5 DEF Told
    <3> QED BY <1>4, <2>2, <3>1, <3>2 DEF GoesOn
  <2> QED BY <2>1, <2>2
<1>12. ASSUME NEW m \in Machine, NEW f \in Promised(m)'
       PROVE  f \in Promised(m)
  <2> DEFINE want == [machine |-> m, snapshot |-> "done"]
  <2>1. f \in FactId
    BY <1>12 DEF Promised, DoneFacts
  <2>2. CASE facts'[f] = want /\ facts'[f] # facts[f]
    <3>1. f = req.fact /\ row = want
      BY <1>5, <2>1, <2>2
    <3>2. req.machine = m /\ req.snapshot = "done"
      BY <3>1
    <3>3. req = [pc |-> "insert", fact |-> f, machine |-> m, snapshot |-> "done"]
      BY <1>1, <3>1, <3>2 DEF Posting
    <3> QED BY <2>1, <3>3 DEF Promised
  <2>3. CASE facts'[f] = want /\ facts'[f] = facts[f]
    BY <2>1, <2>3 DEF Promised, DoneFacts
  <2>4. CASE facts'[f] # want
    <3>1. PICK v \in Worker :
            posting'[v] = [pc |-> "insert", fact |-> f, machine |-> m, snapshot |-> "done"]
      BY <1>12, <2>4 DEF Promised, DoneFacts
    <3>2. posting'[v].pc = "insert"
      BY <3>1
    <3>3. posting[v] = posting'[v]
      BY <1>9, <3>2
    <3> QED BY <2>1, <3>1, <3>3 DEF Promised
  <2> QED BY <2>2, <2>3, <2>4
<1>13. \A m \in Machine : Promised(m)' \subseteq Promised(m)
  BY <1>12
<1> QED BY <1>4, <1>5, <1>6, <1>10, <1>11, <1>13

(* Nothing is inserted, and no request is new. *)
LEMMA NothingPromised ==
  ASSUME facts' = facts,
         \A v \in Worker : posting'[v] = posting[v] \/ posting'[v].pc # "insert"
  PROVE  \A m \in Machine : Promised(m)' \subseteq Promised(m)
<1>1. ASSUME NEW m \in Machine, NEW f \in Promised(m)'
      PROVE  f \in Promised(m)
  <2>1. CASE f \in DoneFacts(m)'
    BY <2>1 DEF Promised, DoneFacts
  <2>2. CASE f \notin DoneFacts(m)'
    <3>1. f \in FactId
      BY <1>1 DEF Promised, DoneFacts
    <3>2. PICK v \in Worker :
            posting'[v] = [pc |-> "insert", fact |-> f, machine |-> m, snapshot |-> "done"]
      BY <1>1, <2>2 DEF Promised
    <3>3. posting'[v].pc = "insert"
      BY <3>2
    <3> QED BY <3>1, <3>2, <3>3 DEF Promised
  <2> QED BY <2>1, <2>2
<1> QED BY <1>1

LEMMA LogType ==
  ASSUME FactsApiTypeOK, NEW e \in FactEvent, Store("facts", e) \/ log' = log,
         UNCHANGED <<delivered, redeliver, busy>>, faults' \in 0 .. MaxFaults
  PROVE  BusTypeOK(FactEvent)'
<1> DEFINE L == log["facts"]
<1>1. L \in Seq(FactEvent) /\ Len(L) \in Nat /\ "facts" \in Consumer
  BY Types
<1>2. Append(L, e) \in Seq(FactEvent) /\ Len(Append(L, e)) = Len(L) + 1
  BY <1>1, AppendProperties
<1>3. /\ log' \in [Consumer -> Seq(FactEvent)]
      /\ log'["facts"] = L \/ log'["facts"] = Append(L, e)
  <2>1. CASE Store("facts", e)
    <3>1. log' = [log EXCEPT !["facts"] = Append(L, e)]
      BY <2>1 DEF Store
    <3>2. log \in [Consumer -> Seq(FactEvent)]
      BY DEF FactsApiTypeOK, BusTypeOK
    <3> HIDE DEF L
    <3> QED BY <1>1, <1>2, <3>1, <3>2
  <2>2. CASE log' = log
    BY <2>2 DEF FactsApiTypeOK, BusTypeOK
  <2> QED BY <2>1, <2>2
<1>4. Len(log'["facts"]) \in Nat /\ Len(L) <= Len(log'["facts"])
  <2> HIDE DEF L
  <2> QED BY <1>1, <1>2, <1>3
<1>5. delivered' = delivered /\ redeliver' = redeliver /\ busy' = busy
  OBVIOUS
<1>6. \A c \in Consumer : c = "facts"
  BY FactsConsumerAssumption
<1> QED BY <1>1, <1>3, <1>4, <1>5, <1>6 DEF FactsApiTypeOK, BusTypeOK, Free

(* What every step of the API leaves. *)
ApiGoesOn ==
  /\ FactsApiTypeOK' /\ IdsOK' /\ RowsStay
  /\ faults' \in {faults, faults + 1}

NothingNew == \A m \in Machine : Promised(m)' \subseteq Promised(m)

LEMMA ServeKeeps ==
  ASSUME FactsApiTypeOK, IdsOK, NEW w \in Worker, Serve(w) \/ PostFactsDbError(w)
  PROVE  ApiGoesOn /\ NothingNew /\ \A v \in Worker : GoesOn(v)
<1>1. faults \in Nat /\ faults \in 0 .. MaxFaults
  BY Types
<1>2. CASE PostFactsInsert(w)
  <2>1. /\ facts' \in [FactId -> FactRow \cup {NoFactRow}]
        /\ posting' \in [Worker -> Posting \cup {Idle}]
        /\ IdsOK' /\ RowsStay
        /\ \A v \in Worker : GoesOn(v)
        /\ \A m \in Machine : Promised(m)' \subseteq Promised(m)
    BY <1>2, RowWritten DEF PostFactsInsert
  <2>2. UNCHANGED <<busVars, nextFact>>
    BY <1>2 DEF PostFactsInsert
  <2>3. FactsApiTypeOK' /\ faults' = faults
    BY <2>1, <2>2 DEF FactsApiTypeOK, BusTypeOK, busVars
  <2> QED BY <2>1, <2>3 DEF ApiGoesOn, NothingNew
<1>3. CASE PostFactsDbError(w)
  <2>1. /\ UNCHANGED <<log, delivered, redeliver, busy>> /\ nextFact' = nextFact
        /\ faults' \in 0 .. MaxFaults /\ faults' = faults + 1
    BY <1>3, FaultType DEF PostFactsDbError
  <2>2. /\ facts' \in [FactId -> FactRow \cup {NoFactRow}]
        /\ posting' \in [Worker -> Posting \cup {Idle}]
        /\ IdsOK' /\ RowsStay
        /\ \A v \in Worker : GoesOn(v)
        /\ \A m \in Machine : Promised(m)' \subseteq Promised(m)
    BY <1>3, <2>1, RowWritten DEF PostFactsDbError
  <2>3. FactsApiTypeOK'
    BY <2>1, <2>2 DEF FactsApiTypeOK, BusTypeOK
  <2> QED BY <2>1, <2>2, <2>3 DEF ApiGoesOn, NothingNew
<1>4. CASE PostFactsPublish(w)
  <2> DEFINE req == posting[w]
             evt == [fact |-> req.fact, machine |-> req.machine, snapshot |-> req.snapshot]
  <2>1. req \in Posting /\ req.pc = "publish"
    BY <1>4, Types DEF PostFactsPublish, Idle
  <2>2. evt \in FactEvent
    BY <2>1 DEF FactEvent, Posting
  <2>3. /\ UNCHANGED <<delivered, redeliver, busy>>
        /\ facts' = facts /\ nextFact' = nextFact
        /\ posting' = [posting EXCEPT ![w].pc = "created"]
        /\ Store("facts", evt) \/ log' = log
        /\ faults' = faults \/ Fault
    BY <1>4 DEF PostFactsPublish
  <2>4. faults' \in 0 .. MaxFaults /\ faults' \in {faults, faults + 1}
    BY <1>1, <2>3, FaultType
  <2>5. /\ posting' \in [Worker -> Posting \cup {Idle}]
        /\ posting'[w] \in Posting /\ posting'[w].pc = "created"
        /\ posting'[w].fact = req.fact
        /\ posting'[w].machine = req.machine /\ posting'[w].snapshot = req.snapshot
        /\ \A v \in Worker : v # w => posting'[v] = posting[v]
    BY <2>1, <2>3 DEF FactsApiTypeOK, Posting
  <2> HIDE DEF evt
  <2>6. BusTypeOK(FactEvent)'
    BY <2>2, <2>3, <2>4, LogType
  <2>7. FactsApiTypeOK'
    BY <2>3, <2>5, <2>6 DEF FactsApiTypeOK
  <2>8. \A v \in Worker : posting'[v].pc = "insert" => posting'[v] = posting[v]
    BY <2>5
  <2>9. IdsOK'
    <3>1. \A f \in FactId : f >= nextFact' => ~ Inserted(f)'
      BY <2>3 DEF IdsOK, Inserted
    <3>2. \A v \in Worker : posting'[v].pc = "insert" =>
            posting'[v].fact < nextFact' /\ facts'[posting'[v].fact] = NoFactRow
      BY <2>3, <2>8 DEF IdsOK, Inserted
    <3>3. \A u, v \in Worker :
            posting'[u].pc = "insert" /\ posting'[v].pc = "insert"
              /\ posting'[u].fact = posting'[v].fact => u = v
      BY <2>8 DEF IdsOK
    <3> QED BY <3>1, <3>2, <3>3 DEF IdsOK, Inserted
  <2>10. RowsStay
    BY <2>3 DEF RowsStay
  <2>11. ASSUME NEW v \in Worker PROVE GoesOn(v)
    <3>1. CASE v # w
      BY <2>5, <2>10, <3>1, ToldStays
    <3>2. CASE v = w
      <4>1. posting'[w] # Idle
        BY <2>5 DEF Idle
      <4>2. Told(w) => Told(w)'
        BY <2>1, <2>3, <2>5 DEF Told
      <4> QED BY <2>5, <3>2, <4>1, <4>2 DEF GoesOn
    <3> QED BY <3>1, <3>2
  <2>12. \A m \in Machine : Promised(m)' \subseteq Promised(m)
    BY <2>3, <2>8, NothingPromised
  <2> QED BY <2>4, <2>7, <2>9, <2>10, <2>11, <2>12 DEF ApiGoesOn, NothingNew
<1> QED BY <1>2, <1>3, <1>4 DEF Serve

LEMMA RespondKeeps ==
  ASSUME FactsApiTypeOK, IdsOK, NEW w \in Worker, Respond(w)
  PROVE  /\ ApiGoesOn /\ NothingNew /\ facts' = facts /\ faults' = faults
         /\ \A v \in Worker : v # w => posting'[v] = posting[v] /\ GoesOn(v)
<1>1. /\ posting' \in [Worker -> Posting \cup {Idle}]
      /\ posting'[w] = Idle
      /\ \A v \in Worker : v # w => posting'[v] = posting[v]
      /\ facts' = facts /\ nextFact' = nextFact /\ UNCHANGED busVars
  BY DEF Respond, FactsApiTypeOK
<1>2. FactsApiTypeOK' /\ faults' = faults
  BY <1>1 DEF FactsApiTypeOK, BusTypeOK, busVars
<1>3. \A v \in Worker : posting'[v].pc = "insert" => posting'[v] = posting[v]
  BY <1>1 DEF Idle
<1>4. IdsOK'
  <2>1. \A f \in FactId : f >= nextFact' => ~ Inserted(f)'
    BY <1>1 DEF IdsOK, Inserted
  <2>2. \A v \in Worker : posting'[v].pc = "insert" =>
          posting'[v].fact < nextFact' /\ facts'[posting'[v].fact] = NoFactRow
    BY <1>1, <1>3 DEF IdsOK, Inserted
  <2>3. \A u, v \in Worker :
          posting'[u].pc = "insert" /\ posting'[v].pc = "insert"
            /\ posting'[u].fact = posting'[v].fact => u = v
    BY <1>3 DEF IdsOK
  <2> QED BY <2>1, <2>2, <2>3 DEF IdsOK, Inserted
<1>5. RowsStay
  BY <1>1 DEF RowsStay
<1>6. \A v \in Worker : v # w => GoesOn(v)
  BY <1>1, <1>5, ToldStays
<1>7. \A m \in Machine : Promised(m)' \subseteq Promised(m)
  BY <1>1, <1>3, NothingPromised
<1> QED BY <1>1, <1>2, <1>4, <1>5, <1>6, <1>7 DEF ApiGoesOn, NothingNew

(* The API does nothing. *)
LEMMA ApiIdles ==
  ASSUME FactsApiTypeOK, IdsOK, UNCHANGED <<factsVars, log, delivered, redeliver, busy>>,
         faults' = faults \/ Fault
  PROVE  /\ ApiGoesOn /\ NothingNew /\ facts' = facts /\ posting' = posting
         /\ faults' = faults \/ faults' = faults + 1
         /\ \A v \in Worker : GoesOn(v)
<1>1. /\ facts' = facts /\ nextFact' = nextFact /\ posting' = posting /\ log' = log
      /\ delivered' = delivered /\ redeliver' = redeliver /\ busy' = busy
  BY DEF factsVars
<1>2. faults' \in 0 .. MaxFaults /\ faults' \in {faults, faults + 1}
  BY FaultType, Types
<1>3. FactsApiTypeOK'
  BY <1>1, <1>2 DEF FactsApiTypeOK, BusTypeOK
<1>4. IdsOK'
  BY <1>1 DEF IdsOK, Inserted
<1>5. RowsStay
  BY <1>1 DEF RowsStay
<1>6. \A v \in Worker : GoesOn(v)
  BY <1>1, <1>5, ToldStays
<1>7. \A m \in Machine : Promised(m)' \subseteq Promised(m)
  BY <1>1, NothingPromised
<1> QED BY <1>1, <1>2, <1>3, <1>4, <1>5, <1>6, <1>7 DEF ApiGoesOn, NothingNew

-----------------------------------------------------------------------------
(***************************************************************************)
(* The machines                                                            *)
(***************************************************************************)
LEMMA PromisedFinite ==
  \A m : IsFiniteSet(Promised(m)) /\ Cardinality(Promised(m)) \in Nat
<1>1. IsFiniteSet(FactId)
  BY MaxFactsAssumption, FS_Interval DEF FactId
<1>2. TAKE m
<1>3. Promised(m) \subseteq FactId
  BY DEF Promised, DoneFacts
<1>4. IsFiniteSet(Promised(m))
  BY <1>1, <1>3, FS_Subset
<1> QED BY <1>4, FS_CardinalityType

LEMMA DoneStays ==
  ASSUME RowsStay, NEW m \in Machine
  PROVE  DoneFacts(m) \subseteq DoneFacts(m)'
<1>1. ASSUME NEW f \in DoneFacts(m) PROVE f \in DoneFacts(m)'
  <2>1. f \in FactId /\ Inserted(f)
    BY RowIsInserted DEF DoneFacts, Inserted
  <2> QED BY <2>1 DEF RowsStay, DoneFacts
<1> QED BY <1>1

(* What m is allowed grows with the runs of its script, or with the faults. *)
LEMMA AllowanceIs ==
  ASSUME TypeOK, NEW m \in Machine, m \in WindowsMachine => scripts'[m] = scripts[m],
         faults' \in {faults, faults + 1}
  PROVE  /\ DoneAllowance(m) \in Nat
         /\ DoneAllowance(m)' \in {DoneAllowance(m), DoneAllowance(m) + 1}
         /\ m \notin WindowsMachine /\ faults' = faults + 1
              => DoneAllowance(m)' = DoneAllowance(m) + 1
         /\ faults' = faults => DoneAllowance(m)' = DoneAllowance(m)
<1>1. faults \in Nat
  BY Types DEF TypeOK
<1>2. CASE m \in WindowsMachine
  <2>1. scripts[m] \in Nat
    BY <1>2, AgentsAssumption DEF TypeOK
  <2>2. DoneAllowance(m) = scripts[m] /\ DoneAllowance(m)' = scripts[m]
    BY <1>2 DEF DoneAllowance
  <2> QED BY <1>2, <2>1, <2>2
<1>3. CASE m \notin WindowsMachine
  <2>1. DoneAllowance(m) = 1 + faults /\ DoneAllowance(m)' = 1 + faults'
    BY <1>3 DEF DoneAllowance
  <2>2. CASE faults' = faults
    BY <1>1, <1>3, <2>1, <2>2
  <2>3. CASE faults' = faults + 1
    <3>1. 1 + faults \in Nat /\ DoneAllowance(m)' = (1 + faults) + 1
      BY <1>1, <2>1, <2>3
    <3>2. faults' # faults
      BY <1>1, <2>3
    <3> QED BY <1>3, <2>1, <3>1, <3>2
  <2> QED BY <2>2, <2>3
<1> QED BY <1>2, <1>3

(* What m may say for nothing, it could say before, or it is allowed more. *)
LEMMA BudgetStays ==
  ASSUME NEW m \in Machine, Budget(m), DoneAllowance(m) \in Nat,
         DoneAllowance(m)' \in {DoneAllowance(m), DoneAllowance(m) + 1},
         Promised(m)' \subseteq Promised(m),
         MaySayDone(m)' => MaySayDone(m) \/ DoneAllowance(m)' = DoneAllowance(m) + 1
  PROVE  Budget(m)'
<1>1. PICK S : S = Promised(m)'
  OBVIOUS
<1>2. Cardinality(S) <= Cardinality(Promised(m)) /\ Cardinality(S) \in Nat
  BY <1>1, PromisedFinite, FS_Subset, FS_CardinalityType
<1>3. Cardinality(Promised(m)) \in Nat
  BY PromisedFinite
<1>4. Cardinality(Promised(m)) + (IF MaySayDone(m) THEN 1 ELSE 0) <= DoneAllowance(m)
  BY DEF Budget
<1>5. Cardinality(S) + (IF MaySayDone(m)' THEN 1 ELSE 0) <= DoneAllowance(m)'
  BY <1>2, <1>3, <1>4
<1> QED BY <1>1, <1>5 DEF Budget

(* The request that says done is what m was still allowed. *)
LEMMA BudgetSpent ==
  ASSUME NEW m \in Machine, Budget(m), DoneAllowance(m) \in Nat,
         DoneAllowance(m)' = DoneAllowance(m), NEW f,
         Promised(m)' \subseteq Promised(m) \cup {f},
         MaySayDone(m), ~ MaySayDone(m)'
  PROVE  Budget(m)'
<1>1. PICK S : S = Promised(m)'
  OBVIOUS
<1>2. /\ IsFiniteSet(Promised(m) \cup {f})
      /\ Cardinality(Promised(m) \cup {f}) <= Cardinality(Promised(m)) + 1
      /\ Cardinality(Promised(m)) \in Nat
      /\ Cardinality(Promised(m) \cup {f}) \in Nat
  <2>1. /\ IsFiniteSet(Promised(m) \cup {f})
        /\ Cardinality(Promised(m) \cup {f}) =
             IF f \in Promised(m) THEN Cardinality(Promised(m))
                                  ELSE Cardinality(Promised(m)) + 1
    BY PromisedFinite, FS_AddElement
  <2> QED BY <2>1, PromisedFinite
<1>3. Cardinality(S) <= Cardinality(Promised(m) \cup {f}) /\ Cardinality(S) \in Nat
  BY <1>1, <1>2, FS_Subset, FS_CardinalityType
<1>4. Cardinality(Promised(m)) + 1 <= DoneAllowance(m)
  BY DEF Budget
<1>5. Cardinality(S) <= DoneAllowance(m)'
  BY <1>2, <1>3, <1>4
<1> QED BY <1>1, <1>3, <1>5 DEF Budget

MachineOK(m) == ConnOK(m) /\ MarkOK(m) /\ Budget(m)

(* A machine that does nothing while its request goes on. *)
LEMMA OthersKeep ==
  ASSUME TypeOK, NEW m \in Machine, MachineOK(m), ApiGoesOn,
         Promised(m)' \subseteq Promised(m),
         agent'[m] = agent[m], marker'[m] = marker[m],
         m \in WindowsMachine => scripts'[m] = scripts[m],
         agent[m].conn # NoWorker => GoesOn(agent[m].conn)
  PROVE  MachineOK(m)'
<1> PICK w : w = agent[m].conn
  OBVIOUS
<1>1. ConnOK(m)'
  BY DEF MachineOK, ConnOK, GoesOn
<1>2. DoneFacts(m) \subseteq DoneFacts(m)'
  BY DoneStays DEF ApiGoesOn
<1>3. MarkOK(m)'
  BY <1>2 DEF MachineOK, MarkOK
<1>4. faults' \in {faults, faults + 1}
  BY DEF ApiGoesOn
<1>5. /\ DoneAllowance(m) \in Nat
      /\ DoneAllowance(m)' \in {DoneAllowance(m), DoneAllowance(m) + 1}
      /\ m \notin WindowsMachine /\ faults' = faults + 1
           => DoneAllowance(m)' = DoneAllowance(m) + 1
  BY <1>4, AllowanceIs
<1>6. MaySayDone(m)' => MaySayDone(m) \/ DoneAllowance(m)' = DoneAllowance(m) + 1
  <2>1. CASE m \in WindowsMachine
    BY <2>1 DEF MaySayDone
  <2>2. CASE m \notin WindowsMachine
    <3>1. agent[m].pc = "sending" => agent[m].conn # NoWorker
      BY DEF TypeOK
    <3>2. MaySayDone(m)' => MaySayDone(m) \/ faults' = faults + 1
      BY <2>2, <3>1 DEF MaySayDone, MachineOK, ConnOK, GoesOn
    <3> QED BY <1>5, <2>2, <3>2
  <2> QED BY <2>1, <2>2
<1>7. Budget(m)'
  BY <1>5, <1>6, BudgetStays DEF MachineOK
<1> QED BY <1>1, <1>3, <1>7 DEF MachineOK

(* A machine that goes on without a request. *)
LEMMA MoverKeeps ==
  ASSUME TypeOK, NEW m \in Machine, MachineOK(m), ApiGoesOn,
         Promised(m)' \subseteq Promised(m), NEW a,
         agent'[m] = a, a.conn = NoWorker, a.pc # "sending",
         marker'[m] \/ a.pc = "mark" => DoneFacts(m) # {},
         DoneAllowance(m) \in Nat,
         DoneAllowance(m)' \in {DoneAllowance(m), DoneAllowance(m) + 1},
         MaySayDone(m)' => MaySayDone(m) \/ DoneAllowance(m)' = DoneAllowance(m) + 1
  PROVE  MachineOK(m)'
<1>1. ConnOK(m)'
  BY DEF ConnOK
<1>2. MarkOK(m)'
  <2>1. DoneFacts(m) \subseteq DoneFacts(m)'
    BY DoneStays DEF ApiGoesOn
  <2> QED BY <2>1 DEF MarkOK
<1>3. Budget(m)'
  BY BudgetStays DEF MachineOK
<1> QED BY <1>1, <1>2, <1>3 DEF MachineOK

LEMMA MachineStepKeeps ==
  ASSUME IInv, NEW m \in Machine, NEW a \in Process, NEW b \in BOOLEAN,
         ApiGoesOn, NothingNew,
         agent' = [agent EXCEPT ![m] = a], marker' = [marker EXCEPT ![m] = b],
         scripts' \in [WindowsMachine -> 0 .. MaxScripts],
         \A n \in WindowsMachine : n # m => scripts'[n] = scripts[n],
         \A n \in Machine : n # m /\ agent[n].conn # NoWorker => GoesOn(agent[n].conn),
         a.conn = NoWorker, a.pc # "sending",
         b \/ a.pc = "mark" => DoneFacts(m) # {},
         DoneAllowance(m) \in Nat,
         DoneAllowance(m)' \in {DoneAllowance(m), DoneAllowance(m) + 1},
         MaySayDone(m)' => MaySayDone(m) \/ DoneAllowance(m)' = DoneAllowance(m) + 1
  PROVE  IInv'
<1>1. /\ agent' \in [Machine -> Process] /\ marker' \in [Machine -> BOOLEAN]
      /\ agent'[m] = a /\ marker'[m] = b
      /\ \A n \in Machine : n # m => agent'[n] = agent[n] /\ marker'[n] = marker[n]
  BY DEF IInv, TypeOK
<1>2. \A n \in Machine : agent'[n].pc = "sending" <=> agent'[n].conn # NoWorker
  BY <1>1 DEF IInv, TypeOK
<1>3. TypeOK'
  BY <1>1, <1>2 DEF TypeOK, ApiGoesOn
<1>4. ASSUME NEW n \in Machine PROVE MachineOK(n)'
  <2>1. MachineOK(n) /\ TypeOK /\ Promised(n)' \subseteq Promised(n)
    BY DEF IInv, MachineOK, NothingNew
  <2>2. CASE n = m
    BY <1>1, <2>1, <2>2, MoverKeeps
  <2>3. CASE n # m
    BY <1>1, <2>1, <2>3, OthersKeep
  <2> QED BY <2>2, <2>3
<1> QED BY <1>3, <1>4 DEF IInv, MachineOK, ApiGoesOn

(* A step that runs no script: only the RHEL agent may say done after it,   *)
(* and only if it could before, or after a fault.                           *)
LEMMA StepKeeps ==
  ASSUME IInv, NEW m \in Machine, NEW a \in Process, NEW b \in BOOLEAN,
         ApiGoesOn, NothingNew,
         agent' = [agent EXCEPT ![m] = a], marker' = [marker EXCEPT ![m] = b],
         scripts' = scripts,
         \A n \in Machine : n # m /\ agent[n].conn # NoWorker => GoesOn(agent[n].conn),
         a.conn = NoWorker, a.pc # "sending",
         b \/ a.pc = "mark" => DoneFacts(m) # {},
         a.pc = "report" => ~ a.first,
         m \notin WindowsMachine /\ ~ b /\ a.pc \in {"down", "report", "waiting"}
           => MaySayDone(m) \/ faults' = faults + 1
  PROVE  IInv'
<1>1. TypeOK /\ faults' \in {faults, faults + 1}
  BY DEF IInv, ApiGoesOn
<1>2. agent'[m] = a /\ marker'[m] = b
  BY <1>1 DEF TypeOK
<1>3. /\ DoneAllowance(m) \in Nat
      /\ DoneAllowance(m)' \in {DoneAllowance(m), DoneAllowance(m) + 1}
      /\ m \notin WindowsMachine /\ faults' = faults + 1
           => DoneAllowance(m)' = DoneAllowance(m) + 1
  BY <1>1, AllowanceIs
<1>4. MaySayDone(m)' => MaySayDone(m) \/ DoneAllowance(m)' = DoneAllowance(m) + 1
  <2>1. CASE m \in WindowsMachine
    BY <1>2, <2>1 DEF MaySayDone
  <2>2. CASE m \notin WindowsMachine
    <3>1. MaySayDone(m)' => ~ b /\ a.pc \in {"down", "report", "waiting"}
      BY <1>2, <2>2 DEF MaySayDone
    <3> QED BY <1>3, <2>2, <3>1
  <2> QED BY <2>1, <2>2
<1>5. scripts \in [WindowsMachine -> 0 .. MaxScripts]
  BY <1>1 DEF TypeOK
<1> QED BY <1>3, <1>4, <1>5, MachineStepKeeps

(* GoTo, field by field. *)
LEMMA GoToIs ==
  ASSUME TypeOK, NEW m \in Machine,
         NEW pc \in {"down", "report", "mark", "waiting"}, GoTo(m, pc)
  PROVE  \E a \in Process :
           /\ agent' = [agent EXCEPT ![m] = a]
           /\ a.pc = pc /\ a.conn = NoWorker
<1> DEFINE b == [agent[m] EXCEPT !.pc = pc]
           a == [b EXCEPT !.conn = NoWorker]
<1>1. agent \in [Machine -> Process] /\ agent[m] \in Process
  BY DEF TypeOK
<1>2. b \in Process /\ b.pc = pc
  BY <1>1 DEF Process
<1>3. agent' = [agent EXCEPT ![m] = a]
  BY <1>1 DEF GoTo
<1> HIDE DEF b
<1>4. a \in Process /\ a.pc = pc /\ a.conn = NoWorker
  BY <1>2 DEF Process
<1> QED BY <1>3, <1>4

(* Steps of the agent alone. *)
LEMMA LocalKeeps ==
  ASSUME IInv, NEW m \in Machine, NEW a \in Process, NEW b \in BOOLEAN,
         UNCHANGED <<factsVars, log, delivered, redeliver, busy>>,
         faults' = faults \/ Fault,
         agent' = [agent EXCEPT ![m] = a], marker' = [marker EXCEPT ![m] = b],
         scripts' = scripts,
         a.conn = NoWorker, a.pc # "sending",
         b \/ a.pc = "mark" => DoneFacts(m) # {},
         a.pc = "report" => ~ a.first,
         m \notin WindowsMachine /\ ~ b /\ a.pc \in {"down", "report", "waiting"}
           => MaySayDone(m) \/ Fault
  PROVE  IInv'
<1>1. FactsApiTypeOK /\ IdsOK
  BY DEF IInv, TypeOK
<1>2. ApiGoesOn /\ NothingNew /\ \A v \in Worker : GoesOn(v)
  BY <1>1, ApiIdles
<1>3. \A n \in Machine : agent[n].conn # NoWorker => agent[n].conn \in Worker
  BY DEF IInv, TypeOK, Process
<1>4. Fault => faults' = faults + 1
  BY DEF Fault
<1> QED BY <1>2, <1>3, <1>4, StepKeeps

LEMMA MarkerAsIs ==
  ASSUME TypeOK, NEW m \in Machine, marker' = marker
  PROVE  marker[m] \in BOOLEAN /\ marker' = [marker EXCEPT ![m] = marker[m]]
BY DEF TypeOK

(* The agent, or the script, is about to report. *)
LEMMA ReportAsIs ==
  ASSUME NEW m \in Machine, NEW first \in BOOLEAN, ReportAs(m, first)
  PROVE  \E a \in Process :
           /\ agent' = [agent EXCEPT ![m] = a]
           /\ a.pc = "report" /\ a.conn = NoWorker /\ a.first = first
<1>1. [pc |-> "report", first |-> first, conn |-> NoWorker] \in Process
  BY DEF Process
<1> QED BY <1>1 DEF ReportAs

LEMMA StartKeeps ==
  ASSUME IInv, NEW m \in Machine, Start(m) \/ Tick(m)
  PROVE  IInv'
<1>1. /\ TypeOK /\ agent[m].pc \in {"down", "waiting"} /\ ReportAs(m, FALSE)
      /\ marker' = marker /\ scripts' = scripts
      /\ UNCHANGED <<factsVars, log, delivered, redeliver, busy>>
      /\ faults' = faults
  BY DEF IInv, Start, Tick, busVars
<1>2. PICK a \in Process : /\ agent' = [agent EXCEPT ![m] = a]
                           /\ a.pc = "report" /\ a.conn = NoWorker /\ a.first = FALSE
  BY <1>1, ReportAsIs
<1>3. marker[m] \in BOOLEAN /\ marker' = [marker EXCEPT ![m] = marker[m]]
  BY <1>1, MarkerAsIs
<1>4. marker[m] => DoneFacts(m) # {}
  BY DEF IInv, MarkOK
<1>5. m \notin WindowsMachine /\ ~ marker[m] => MaySayDone(m)
  BY <1>1 DEF MaySayDone
<1> QED BY <1>1, <1>2, <1>3, <1>4, <1>5, LocalKeeps

(* Every run of the script is allowed one done report. *)
LEMMA RunScriptKeeps ==
  ASSUME IInv, NEW m \in Machine, RunScript(m)
  PROVE  IInv'
<1>1. /\ TypeOK /\ m \in WindowsMachine /\ ReportAs(m, TRUE)
      /\ scripts[m] < MaxScripts /\ scripts' = [scripts EXCEPT ![m] = @ + 1]
      /\ marker' = marker /\ UNCHANGED <<factsVars, log, delivered, redeliver, busy>>
      /\ faults' = faults /\ FactsApiTypeOK /\ IdsOK
  BY DEF IInv, TypeOK, RunScript, busVars
<1>2. PICK a \in Process : /\ agent' = [agent EXCEPT ![m] = a]
                           /\ a.pc = "report" /\ a.conn = NoWorker
  BY <1>1, ReportAsIs
<1>3. marker[m] \in BOOLEAN /\ marker' = [marker EXCEPT ![m] = marker[m]]
  BY <1>1, MarkerAsIs
<1>4. marker[m] => DoneFacts(m) # {}
  BY DEF IInv, MarkOK
<1>5. /\ scripts' \in [WindowsMachine -> 0 .. MaxScripts]
      /\ scripts[m] \in Nat /\ scripts'[m] = scripts[m] + 1
      /\ \A n \in WindowsMachine : n # m => scripts'[n] = scripts[n]
  BY <1>1, AgentsAssumption DEF TypeOK
<1>6. DoneAllowance(m) \in Nat /\ DoneAllowance(m)' = DoneAllowance(m) + 1
  BY <1>1, <1>5 DEF DoneAllowance
<1>7. ApiGoesOn /\ NothingNew /\ \A v \in Worker : GoesOn(v)
  BY <1>1, ApiIdles
<1>8. \A n \in Machine : agent[n].conn # NoWorker => agent[n].conn \in Worker
  BY <1>1 DEF TypeOK, Process
<1> QED BY <1>2, <1>3, <1>4, <1>5, <1>6, <1>7, <1>8, MachineStepKeeps

LEMMA ReportFailsKeeps ==
  ASSUME IInv, NEW m \in Machine, ReportFails(m)
  PROVE  IInv'
<1>1. PICK pc \in {"down", "waiting"} : agent' = [agent EXCEPT ![m].pc = pc]
  BY DEF ReportFails
<1>2. /\ TypeOK /\ agent[m].pc = "report" /\ marker' = marker /\ scripts' = scripts /\ Fault
      /\ UNCHANGED <<factsVars, log, delivered, redeliver, busy>>
  BY DEF IInv, ReportFails
<1> DEFINE a == [agent[m] EXCEPT !.pc = pc]
<1>3. agent \in [Machine -> Process] /\ agent[m] \in Process /\ agent[m].conn = NoWorker
  BY <1>2 DEF TypeOK
<1>4. a \in Process /\ a.pc = pc /\ a.conn = NoWorker
  BY <1>3 DEF Process
<1>5. agent' = [agent EXCEPT ![m] = a]
  BY <1>1, <1>3
<1>6. marker[m] \in BOOLEAN /\ marker' = [marker EXCEPT ![m] = marker[m]]
  BY <1>2, MarkerAsIs
<1>7. marker[m] => DoneFacts(m) # {}
  BY DEF IInv, MarkOK
<1> HIDE DEF a
<1> QED BY <1>2, <1>4, <1>5, <1>6, <1>7, LocalKeeps

LEMMA FailedIs ==
  ASSUME NEW m PROVE AfterFailure(m) \in {"down", "waiting"}
BY DEF AfterFailure

LEMMA GiveUpKeeps ==
  ASSUME IInv, NEW m \in Machine, GiveUp(m)
  PROVE  IInv'
<1>1. PICK pc \in {"down", "waiting"} : GoTo(m, pc)
  BY FailedIs DEF GiveUp
<1>2. /\ TypeOK /\ marker' = marker /\ scripts' = scripts /\ Fault
      /\ UNCHANGED <<factsVars, log, delivered, redeliver, busy>>
  BY DEF IInv, GiveUp
<1>3. PICK a \in Process : /\ agent' = [agent EXCEPT ![m] = a]
                           /\ a.pc = pc /\ a.conn = NoWorker
  BY <1>1, <1>2, GoToIs
<1>4. marker[m] \in BOOLEAN /\ marker' = [marker EXCEPT ![m] = marker[m]]
  BY <1>2, MarkerAsIs
<1>5. marker[m] => DoneFacts(m) # {}
  BY DEF IInv, MarkOK
<1> QED BY <1>2, <1>3, <1>4, <1>5, LocalKeeps

LEMMA MarkKeeps ==
  ASSUME IInv, NEW m \in Machine, Mark(m)
  PROVE  IInv'
<1>1. /\ TypeOK /\ agent[m].pc = "mark" /\ marker' = [marker EXCEPT ![m] = TRUE]
      /\ scripts' = scripts
      /\ UNCHANGED <<factsVars, log, delivered, redeliver, busy>> /\ faults' = faults
      /\ GoTo(m, "waiting") \/ ReportAs(m, FALSE)
  BY DEF IInv, Mark, busVars
<1>2. PICK a \in Process : /\ agent' = [agent EXCEPT ![m] = a]
                           /\ a.pc \in {"report", "waiting"} /\ a.conn = NoWorker
                           /\ a.pc = "report" => ~ a.first
  <2>1. CASE GoTo(m, "waiting")
    BY <1>1, <2>1, GoToIs
  <2>2. CASE ReportAs(m, FALSE)
    BY <2>2, ReportAsIs
  <2> QED BY <1>1, <2>1, <2>2
<1>3. DoneFacts(m) # {}
  BY <1>1 DEF IInv, MarkOK
<1> QED BY <1>1, <1>2, <1>3, LocalKeeps

LEMMA MarkFailsKeeps ==
  ASSUME IInv, NEW m \in Machine, MarkFails(m)
  PROVE  IInv'
<1>1. PICK pc \in {"down", "waiting"} : GoTo(m, pc)
  BY FailedIs DEF MarkFails
<1>2. /\ TypeOK /\ agent[m].pc = "mark" /\ Fault /\ scripts' = scripts
      /\ marker' = marker \/ \E b \in BOOLEAN : marker' = [marker EXCEPT ![m] = b]
      /\ UNCHANGED <<factsVars, log, delivered, redeliver, busy>>
  BY DEF IInv, MarkFails
<1>3. PICK a \in Process : /\ agent' = [agent EXCEPT ![m] = a]
                           /\ a.pc = pc /\ a.conn = NoWorker
  BY <1>1, <1>2, GoToIs
<1>4. PICK b \in BOOLEAN : marker' = [marker EXCEPT ![m] = b]
  BY <1>2, MarkerAsIs
<1>5. DoneFacts(m) # {}
  BY <1>2 DEF IInv, MarkOK
<1> QED BY <1>2, <1>3, <1>4, <1>5, LocalKeeps

LEMMA CrashKeeps ==
  ASSUME IInv, NEW m \in Machine, Crash(m)
  PROVE  IInv'
<1>1. /\ TypeOK /\ Fault /\ marker' = marker /\ scripts' = scripts
      /\ agent' = [agent EXCEPT ![m] = Down]
      /\ UNCHANGED <<factsVars, log, delivered, redeliver, busy>>
  BY DEF IInv, Crash
<1>2. Down \in Process /\ Down.pc = "down" /\ Down.conn = NoWorker
  BY DEF Down, Process
<1>3. marker[m] \in BOOLEAN /\ marker' = [marker EXCEPT ![m] = marker[m]]
  BY <1>1, MarkerAsIs
<1>4. marker[m] => DoneFacts(m) # {}
  BY DEF IInv, MarkOK
<1> QED BY <1>1, <1>2, <1>3, <1>4, LocalKeeps

(* Conns of two machines differ, and a free goroutine is nobody's. *)
LEMMA ConnsDiffer ==
  ASSUME IInv
  PROVE  /\ \A n \in Machine : agent[n].conn # NoWorker =>
              agent[n].conn \in Worker /\ posting[agent[n].conn] # Idle
         /\ \A m, n \in Machine :
              agent[n].conn # NoWorker /\ agent[n].conn = agent[m].conn => m = n
BY DEF IInv, TypeOK, Process, ConnOK

(* 201 means that the row is there; 500 was paid for by a fault. *)
LEMMA AnsweredKeeps ==
  ASSUME IInv, NEW m \in Machine, Answered(m)
  PROVE  IInv'
<1> PICK w : w = agent[m].conn
  OBVIOUS
<1>1. /\ TypeOK /\ agent[m].pc = "sending" /\ marker' = marker /\ scripts' = scripts
      /\ FactsApiTypeOK /\ IdsOK /\ MachineOK(m)
      /\ Respond(w)
      /\ GoTo(m, IF posting[w].pc = "created" THEN AfterSuccess(m) ELSE AfterFailure(m))
  BY DEF IInv, TypeOK, Answered, MachineOK
<1>2. w # NoWorker /\ w \in Worker /\ posting[w] \in Posting
  BY <1>1, ConnsDiffer, Types DEF TypeOK
<1>3. /\ ApiGoesOn /\ NothingNew /\ faults' = faults
      /\ \A v \in Worker : v # w => GoesOn(v)
  BY <1>1, <1>2, RespondKeeps
<1>4. \A n \in Machine : n # m /\ agent[n].conn # NoWorker => GoesOn(agent[n].conn)
  BY <1>3, ConnsDiffer
<1>5. marker[m] \in BOOLEAN /\ marker' = [marker EXCEPT ![m] = marker[m]]
  BY <1>1, MarkerAsIs
<1>6. marker[m] => DoneFacts(m) # {}
  BY DEF IInv, MarkOK
<1>7. m \notin WindowsMachine => agent[m].first \/ marker[m]
  BY <1>1, AgentsAssumption DEF MachineOK, MarkOK
<1>8. CASE posting[w].pc = "created"
  <2>1. GoTo(m, AfterSuccess(m)) /\ AfterSuccess(m) \in {"mark", "waiting"}
    BY <1>1, <1>8 DEF AfterSuccess
  <2>2. PICK a \in Process : /\ agent' = [agent EXCEPT ![m] = a]
                             /\ a.pc = AfterSuccess(m) /\ a.conn = NoWorker
    BY <1>1, <2>1, GoToIs
  <2>3. agent[m].first => DoneFacts(m) # {}
    <3>1. agent[m].first =>
            facts[posting[w].fact] = [machine |-> m, snapshot |-> "done"]
      BY <1>1, <1>2, <1>8 DEF MachineOK, ConnOK, Told
    <3>2. posting[w].fact \in FactId
      BY <1>2 DEF Posting
    <3> QED BY <3>1, <3>2 DEF DoneFacts
  <2>4. a.pc = "mark" => agent[m].first
    BY <2>2 DEF AfterSuccess
  <2>5. m \notin WindowsMachine /\ a.pc # "mark" => marker[m]
    BY <1>7, <2>2 DEF AfterSuccess
  <2>6. a.pc # "sending" /\ a.pc # "report"
    BY <2>1, <2>2
  <2>7. m \notin WindowsMachine /\ ~ marker[m] /\ a.pc \in {"down", "report", "waiting"}
          => MaySayDone(m)
    BY <2>5
  <2>8. marker[m] \/ a.pc = "mark" => DoneFacts(m) # {}
    BY <1>6, <2>3, <2>4
  <2> QED BY <1>1, <1>3, <1>4, <1>5, <2>2, <2>6, <2>7, <2>8, StepKeeps
<1>9. CASE posting[w].pc # "created"
  <2>1. posting[w].pc = "failed"
    BY <1>1, <1>9 DEF Respond
  <2>2. GoTo(m, AfterFailure(m)) /\ AfterFailure(m) \in {"down", "waiting"}
    BY <1>1, <1>9, FailedIs
  <2>3. PICK a \in Process : /\ agent' = [agent EXCEPT ![m] = a]
                             /\ a.pc = AfterFailure(m) /\ a.conn = NoWorker
    BY <1>1, <2>2, GoToIs
  <2>4. m \notin WindowsMachine /\ ~ marker[m] => MaySayDone(m)
    BY <1>1, <1>7, <2>1 DEF MaySayDone
  <2>5. a.pc # "sending" /\ a.pc # "mark" /\ a.pc # "report"
    BY <2>2, <2>3
  <2> QED BY <1>1, <1>3, <1>4, <1>5, <1>6, <2>3, <2>4, <2>5, StepKeeps
<1> QED BY <1>8, <1>9

(* The report that is sent is the one that m was still allowed to send. *)
LEMMA sendFactsKeeps ==
  ASSUME IInv, NEW m \in Machine, NEW w \in Worker, sendFacts(m, w)
  PROVE  IInv'
<1> PICK f : f = nextFact
  OBVIOUS
<1> DEFINE s == buildSnapshot(m)
           a == [pc |-> "sending", first |-> firstRun(m), conn |-> w]
<1>1. /\ TypeOK /\ FactsApiTypeOK /\ IdsOK /\ agent[m].pc = "report"
      /\ PostFacts(w, m, s) /\ marker' = marker /\ scripts' = scripts
      /\ agent' = [agent EXCEPT ![m] = a]
      /\ firstRun(m) \in BOOLEAN
  BY DEF IInv, TypeOK, sendFacts, firstRun, Process
<1>2. s = (IF firstRun(m) THEN "done" ELSE "plain") /\ s \in Snapshot
  BY AgentsAssumption DEF buildSnapshot
<1> HIDE DEF s
<1>3. /\ FactsApiTypeOK' /\ IdsOK' /\ RowsStay /\ faults' = faults
      /\ f \in FactId /\ posting[w] = Idle
      /\ posting'[w] = [pc |-> "insert", fact |-> f, machine |-> m, snapshot |-> s]
      /\ \A v \in Worker : v # w => posting'[v] = posting[v]
  BY <1>1, <1>2, PostFactsKeeps
<1>4. facts' = facts
  BY <1>1 DEF PostFacts
<1>5. ApiGoesOn
  BY <1>3 DEF ApiGoesOn
<1>6. a \in Process /\ w # NoWorker
  BY <1>1, AgentsAssumption DEF TypeOK, Process
<1>7. /\ agent' \in [Machine -> Process] /\ agent'[m] = a
      /\ \A n \in Machine : n # m => agent'[n] = agent[n]
  BY <1>1, <1>6 DEF TypeOK
<1>8. TypeOK'
  BY <1>1, <1>3, <1>6, <1>7 DEF TypeOK
<1>9. ASSUME NEW n \in Machine
      PROVE  Promised(n)' \subseteq IF n = m /\ firstRun(m) THEN Promised(n) \cup {f}
                                                             ELSE Promised(n)
  <2>1. ASSUME NEW g \in Promised(n)', g \notin Promised(n)
        PROVE  g = f /\ n = m /\ firstRun(m)
    <3>1. g \in FactId /\ facts'[g] # [machine |-> n, snapshot |-> "done"]
      BY <1>4, <2>1 DEF Promised, DoneFacts
    <3>2. PICK v \in Worker :
            posting'[v] = [pc |-> "insert", fact |-> g, machine |-> n, snapshot |-> "done"]
      BY <2>1, <3>1 DEF Promised, DoneFacts
    <3>3. v = w
      BY <1>3, <2>1, <3>1, <3>2 DEF Promised
    <3>4. g = f /\ n = m /\ s = "done"
      BY <1>3, <3>2, <3>3
    <3> QED BY <1>2, <3>4
  <2> QED BY <2>1
<1>10. ASSUME NEW n \in Machine, n # m PROVE MachineOK(n)'
  <2>1. MachineOK(n) /\ Promised(n)' \subseteq Promised(n)
    BY <1>9, <1>10 DEF IInv, MachineOK
  <2>2. agent'[n] = agent[n] /\ marker'[n] = marker[n]
    BY <1>1, <1>7, <1>10
  <2>3. agent[n].conn # NoWorker => GoesOn(agent[n].conn)
    <3>1. agent[n].conn # NoWorker => agent[n].conn \in Worker \ {w}
      BY <1>3, ConnsDiffer
    <3> QED BY <1>1, <1>3, <3>1, ToldStays
  <2> QED BY <1>1, <1>5, <2>1, <2>2, <2>3, OthersKeep
<1>11. MachineOK(m)'
  <2>1. MachineOK(m)
    BY DEF IInv, MachineOK
  <2>2. a.pc = "sending" /\ a.first = firstRun(m) /\ a.conn = w
    OBVIOUS
  <2> HIDE DEF a
  <2>3. ConnOK(m)'
    <3>1. /\ posting'[w].pc = "insert" /\ posting'[w].machine = m
          /\ posting'[w].snapshot = s
      BY <1>3
    <3>2. posting'[w] # Idle
      BY <3>1 DEF Idle
    <3> QED BY <1>2, <1>7, <2>2, <3>1, <3>2 DEF ConnOK, Told
  <2>4. MarkOK(m)'
    <3>1. DoneFacts(m) \subseteq DoneFacts(m)'
      BY <1>3, DoneStays
    <3>2. m \in RhelMachine => firstRun(m) = ~ marker[m]
      BY AgentsAssumption DEF firstRun
    <3> QED BY <1>1, <1>7, <2>1, <2>2, <3>1, <3>2 DEF MachineOK, MarkOK
  <2>5. ~ MaySayDone(m)'
    BY <1>3, <1>7, <2>2 DEF MaySayDone
  <2>6. DoneAllowance(m) \in Nat /\ DoneAllowance(m)' = DoneAllowance(m)
    BY <1>1, <1>3, AllowanceIs
  <2>7. Budget(m)'
    <3>1. CASE ~ firstRun(m)
      <4>1. Promised(m)' \subseteq Promised(m)
        BY <1>9, <3>1
      <4> QED BY <2>1, <2>5, <2>6, <4>1, BudgetStays DEF MachineOK
    <3>2. CASE firstRun(m)
      <4>1. Promised(m)' \subseteq Promised(m) \cup {f} /\ MaySayDone(m)
        BY <1>1, <1>9, <3>2 DEF MaySayDone, firstRun
      <4> QED BY <2>1, <2>5, <2>6, <4>1, BudgetSpent DEF MachineOK
    <3> QED BY <3>1, <3>2
  <2> QED BY <2>3, <2>4, <2>7 DEF MachineOK
<1> QED BY <1>3, <1>8, <1>10, <1>11 DEF IInv, MachineOK

(* The API works, and no agent notices. *)
LEMMA ApiKeeps ==
  ASSUME IInv, UNCHANGED agentVars, ApiGoesOn, NothingNew,
         \A m \in Machine : agent[m].conn # NoWorker => GoesOn(agent[m].conn)
  PROVE  IInv'
<1>1. agent' = agent /\ marker' = marker /\ scripts' = scripts
  BY DEF agentVars
<1>2. TypeOK'
  BY <1>1 DEF IInv, TypeOK, ApiGoesOn
<1>3. ASSUME NEW m \in Machine PROVE MachineOK(m)'
  <2>1. TypeOK /\ MachineOK(m) /\ Promised(m)' \subseteq Promised(m)
    BY DEF IInv, MachineOK, NothingNew
  <2> QED BY <1>1, <2>1, OthersKeep
<1> QED BY <1>2, <1>3 DEF IInv, MachineOK, ApiGoesOn

-----------------------------------------------------------------------------
LEMMA Initially == Init => IInv
<1> SUFFICES ASSUME Init PROVE IInv
  OBVIOUS
<1>1. BusTypeOK(FactEvent)
  <2>1. << >> \in Seq(FactEvent) /\ Len(<< >>) = 0
    BY EmptySeq
  <2>2. log = [c \in Consumer |-> << >>]
    BY DEF Init, FactsApiInit, BusInit
  <2> QED BY <2>1, <2>2, MaxFaultsAssumption
          DEF Init, FactsApiInit, BusInit, BusTypeOK, Free
<1>2. FactsApiTypeOK
  BY <1>1, MaxFactsAssumption DEF Init, FactsApiInit, FactsApiTypeOK
<1>3. TypeOK
  BY <1>2, AgentsAssumption DEF Init, TypeOK, Process, Down
<1>4. \A f \in FactId : ~ Inserted(f)
  BY DEF Init, FactsApiInit, Inserted
<1>5. \A w \in Worker : posting[w] = Idle /\ posting[w].pc = "idle"
  BY DEF Init, FactsApiInit, Idle
<1>6. IdsOK
  BY <1>4, <1>5 DEF IdsOK
<1>7. ASSUME NEW m \in Machine PROVE ConnOK(m) /\ MarkOK(m) /\ Budget(m)
  <2>1. agent[m] = Down /\ Down.pc = "down" /\ Down.conn = NoWorker /\ ~ marker[m]
    BY DEF Init, Down
  <2>2. Promised(m) = {}
    <3>1. DoneFacts(m) = {}
      BY <1>4, RowIsInserted DEF DoneFacts, Inserted
    <3> QED BY <1>5, <3>1 DEF Promised
  <2>3. Cardinality(Promised(m)) = 0 /\ faults = 0
    BY <2>2, FS_EmptySet DEF Init, FactsApiInit, BusInit
  <2>4. DoneAllowance(m) = IF m \in WindowsMachine THEN 0 ELSE 1
    BY <2>3 DEF DoneAllowance, Init
  <2>5. MaySayDone(m) => m \notin WindowsMachine
    BY <2>1 DEF MaySayDone
  <2> QED BY <2>1, <2>3, <2>4, <2>5 DEF ConnOK, MarkOK, Budget
<1> QED BY <1>3, <1>6, <1>7 DEF IInv

LEMMA Inductive == IInv /\ [Next]_vars => IInv'
<1> SUFFICES ASSUME IInv, [Next]_vars PROVE IInv'
  OBVIOUS
<1>0. FactsApiTypeOK /\ IdsOK
  BY DEF IInv, TypeOK
<1>1. ASSUME NEW m \in Machine,
             \/ Start(m) \/ RunScript(m) \/ Tick(m) \/ reportOnce(m)
             \/ ReportFails(m) \/ GiveUp(m) \/ MarkFails(m) \/ Crash(m)
      PROVE  IInv'
  BY <1>1, StartKeeps, RunScriptKeeps, sendFactsKeeps, AnsweredKeeps, MarkKeeps, ReportFailsKeeps,
     GiveUpKeeps, MarkFailsKeeps, CrashKeeps DEF reportOnce
<1>2. ASSUME NEW w \in Worker, Serve(w) \/ PostFactsDbError(w), UNCHANGED agentVars
      PROVE  IInv'
  <2>1. ApiGoesOn /\ NothingNew /\ \A v \in Worker : GoesOn(v)
    BY <1>0, <1>2, ServeKeeps
  <2> QED BY <1>2, <2>1, ConnsDiffer, ApiKeeps
<1>3. ASSUME NEW w \in Worker, RespondToNobody(w) PROVE IInv'
  <2>1. Respond(w) /\ UNCHANGED agentVars /\ \A m \in Machine : agent[m].conn # w
    BY <1>3 DEF RespondToNobody
  <2>2. ApiGoesOn /\ NothingNew /\ \A v \in Worker : v # w => GoesOn(v)
    BY <1>0, <2>1, RespondKeeps
  <2> QED BY <2>1, <2>2, ConnsDiffer, ApiKeeps
<1>4. CASE UNCHANGED vars
  <2>1. /\ UNCHANGED agentVars /\ faults' = faults
        /\ UNCHANGED <<factsVars, log, delivered, redeliver, busy>>
    BY <1>4 DEF vars, busVars
  <2>2. ApiGoesOn /\ NothingNew /\ \A v \in Worker : GoesOn(v)
    BY <1>0, <2>1, ApiIdles
  <2> QED BY <2>1, <2>2, ConnsDiffer, ApiKeeps
<1> QED BY <1>1, <1>2, <1>3, <1>4 DEF Next, Quiescent

-----------------------------------------------------------------------------
(* The inductive invariant: an agent waits for a request of its own, a 201  *)
(* tells of a stored row, and every done fact that is stored or may yet be  *)
(* is paid for: on RHEL by the first report or by a fault, on Windows by a  *)
(* run of the script.                                                       *)
THEOREM Invariance == Spec => []IInv
<1>1. Init => IInv
  BY Initially
<1>2. IInv /\ [Next]_vars => IInv'
  BY Inductive
<1> QED BY <1>1, <1>2, PTL DEF Spec

(* Values stay in their domains, and an agent waits exactly while there is  *)
(* a request to wait for.                                                   *)
THEOREM TypeCorrect == Spec => []TypeOK
<1>1. IInv => TypeOK
  BY DEF IInv
<1> QED BY <1>1, Invariance, PTL

(* No crash, timeout, lost answer or failed statement makes an agent skip   *)
(* the report that the post-install is done: where the marker is, the API   *)
(* has stored one.                                                          *)
THEOREM MarkersAreTrue == Spec => []MarkerMeansStored
<1>1. IInv => MarkerMeansStored
  BY DEF IInv, MarkOK, MarkerMeansStored
<1> QED BY <1>1, Invariance, PTL

(* The RHEL agent's done fact is stored at most once, and once more per     *)
(* fault; that of a Windows machine at most once per run of provision.ps1,  *)
(* which nothing keeps from saying done again.                              *)
THEOREM RepeatsHaveCause == Spec => []DoneAgainHasCause
<1>1. IInv => DoneAgainHasCause
  <2> SUFFICES ASSUME IInv, NEW m \in Machine
               PROVE  Cardinality(DoneFacts(m)) <= DoneAllowance(m)
    BY DEF DoneAgainHasCause
  <2>1. Budget(m)
    BY DEF IInv
  <2>2. DoneFacts(m) \subseteq Promised(m)
    BY DEF Promised
  <2>3. /\ Cardinality(DoneFacts(m)) <= Cardinality(Promised(m))
        /\ Cardinality(DoneFacts(m)) \in Nat /\ Cardinality(Promised(m)) \in Nat
    BY <2>2, PromisedFinite, FS_Subset, FS_CardinalityType
  <2>4. DoneAllowance(m) \in Nat
    BY Types DEF IInv, TypeOK, DoneAllowance
  <2> QED BY <2>1, <2>3, <2>4 DEF Budget
<1> QED BY <1>1, Invariance, PTL
=============================================================================
