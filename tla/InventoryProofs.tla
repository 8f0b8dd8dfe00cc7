-------------------------- MODULE InventoryProofs --------------------------
(***************************************************************************)
(* Proofs about Inventory (with FactsApi and Bus), for any machines,       *)
(* snapshots, requests and bounds.                                         *)
(***************************************************************************)
EXTENDS Inventory, SequenceTheorems, FiniteSetTheorems, TLAPS

(***************************************************************************)
(* computeDiff                                                             *)
(***************************************************************************)
LEMMA DiffType ==
  ASSUME NEW previous, NEW current \in Snapshot,
         previous \in Snapshot \/ previous = << >>
  PROVE  computeDiff(previous, current) \in Changes
<1>1. DOMAIN previous \subseteq Key /\ DOMAIN current \subseteq Key
  <2>1. \A s \in Snapshot : DOMAIN s \subseteq Key
    BY DEF Key
  <2>2. DOMAIN << >> = {}
    OBVIOUS
  <2> QED BY <2>1, <2>2
<1>2. \A k : Field(previous, k) \in Value /\ Field(current, k) \in Value
  <2>1. \A s \in Snapshot : \A k \in DOMAIN s : s[k] \in Value
    BY DEF Value
  <2>2. Nil \in Value
    BY DEF Value
  <2>3. DOMAIN << >> = {}
    OBVIOUS
  <2> QED BY <2>1, <2>2, <2>3 DEF Field
<1> DEFINE ks == {k \in DOMAIN previous : k \in DOMAIN current =>
                                            ~ DeepEqual(previous[k], current[k])}
                 \cup (DOMAIN current \ DOMAIN previous)
           diff == [k \in ks |-> [old |-> Field(previous, k), new |-> Field(current, k)]]
<1>3. ks \in SUBSET Key
  BY <1>1
<1>4. computeDiff(previous, current) = diff
  BY DEF computeDiff
<1>5. diff \in [ks -> [old : Value, new : Value]]
  BY <1>2
<1> QED BY <1>3, <1>4, <1>5 DEF Changes

(* What computeDiff notes leads from the one snapshot to the other, and is a *)
(* change unless it holds a number.                                        *)
LEMMA DiffExplains ==
  ASSUME NEW previous, NEW current, NEW k \in DOMAIN previous \cup DOMAIN current
  PROVE  LET diff == computeDiff(previous, current)
         IN  IF k \in DOMAIN diff
             THEN /\ diff[k].old = Field(previous, k) /\ diff[k].new = Field(current, k)
                  /\ k \in DOMAIN previous \cap DOMAIN current /\ previous[k] = current[k]
                       => previous[k] \in Numeric
             ELSE Field(previous, k) = Field(current, k)
<1> DEFINE ks == {j \in DOMAIN previous : j \in DOMAIN current =>
                                            ~ DeepEqual(previous[j], current[j])}
                 \cup (DOMAIN current \ DOMAIN previous)
<1>1. computeDiff(previous, current)
        = [j \in ks |-> [old |-> Field(previous, j), new |-> Field(current, j)]]
  BY DEF computeDiff
<1>2. CASE k \in ks
  <2>1. ASSUME k \in DOMAIN previous \cap DOMAIN current, previous[k] = current[k]
        PROVE  previous[k] \in Numeric
    BY <1>2, <2>1 DEF DeepEqual
  <2> QED BY <1>1, <1>2, <2>1
<1>3. CASE k \notin ks
  <2>1. k \in DOMAIN previous /\ k \in DOMAIN current /\ previous[k] = current[k]
    BY <1>3 DEF DeepEqual
  <2> QED BY <1>1, <1>3, <2>1 DEF Field
<1> QED BY <1>2, <1>3

(***************************************************************************)
(* Types                                                                   *)
(***************************************************************************)
LEMMA Facts ==
  ASSUME TypeOK
  PROVE  /\ "facts" \in Consumer
         /\ log["facts"] \in Seq(FactEvent)
         /\ Len(log["facts"]) \in Nat
         /\ \A i \in 1 .. Len(log["facts"]) : log["facts"][i] \in FactEvent
         /\ delivered["facts"] \in Nat /\ delivered["facts"] <= Len(log["facts"])
         /\ redeliver["facts"] \subseteq 1 .. Len(log["facts"])
         /\ IsFiniteSet(redeliver["facts"]) /\ Cardinality(redeliver["facts"]) \in Nat
         /\ busy["facts"] \in 0 .. Len(log["facts"])
         /\ faults \in 0 .. MaxFaults /\ faults \in Nat /\ replayed \in Nat
<1>1. "facts" \in Consumer
  BY FactsConsumerAssumption
<1>2. log["facts"] \in Seq(FactEvent)
  BY <1>1 DEF TypeOK, FactsApiTypeOK, BusTypeOK
<1>3. Len(log["facts"]) \in Nat /\ \A i \in 1 .. Len(log["facts"]) : log["facts"][i] \in FactEvent
  BY <1>2, LenProperties, ElementOfSeq
<1>4. redeliver["facts"] \subseteq 1 .. Len(log["facts"])
  BY <1>1 DEF TypeOK, FactsApiTypeOK, BusTypeOK
<1>5. IsFiniteSet(redeliver["facts"]) /\ Cardinality(redeliver["facts"]) \in Nat
  <2>1. IsFiniteSet(1 .. Len(log["facts"]))
    BY <1>3, FS_Interval
  <2>2. IsFiniteSet(redeliver["facts"])
    BY <1>4, <2>1, FS_Subset
  <2> QED BY <2>2, FS_CardinalityType
<1>6. busy["facts"] \in 0 .. Len(log["facts"]) /\ delivered["facts"] \in Nat
      /\ delivered["facts"] <= Len(log["facts"])
  BY <1>1, <1>3 DEF TypeOK, FactsApiTypeOK, BusTypeOK, Free
<1>7. faults \in 0 .. MaxFaults /\ faults \in Nat /\ replayed \in Nat
  BY MaxFaultsAssumption DEF TypeOK, FactsApiTypeOK, BusTypeOK
<1> QED BY <1>1, <1>2, <1>3, <1>4, <1>5, <1>6, <1>7

(* The bus stays typed if what its consumer is owed stays within the log.  *)
LEMMA BusTypes ==
  ASSUME TypeOK, log' = log, faults' \in 0 .. MaxFaults,
         delivered' \in [Consumer -> Nat], busy' \in [Consumer -> Nat],
         redeliver' \in [Consumer -> SUBSET Nat],
         delivered'["facts"] <= Len(log["facts"]),
         redeliver'["facts"] \subseteq 1 .. Len(log["facts"]),
         busy'["facts"] \in 0 .. Len(log["facts"])
  PROVE  BusTypeOK(FactEvent)'
<1>1. Len(log["facts"]) \in Nat
  BY Facts
<1> QED BY <1>1, FactsConsumerAssumption DEF TypeOK, FactsApiTypeOK, BusTypeOK, Free

(* One more member. *)
LEMMA AddOne ==
  ASSUME NEW S, NEW x, IsFiniteSet(S)
  PROVE  /\ IsFiniteSet(S \cup {x}) /\ Cardinality(S \cup {x}) \in Nat
         /\ Cardinality(S \cup {x}) <= Cardinality(S) + 1
<1>1. Cardinality(S) \in Nat
  BY FS_CardinalityType
<1>2. /\ IsFiniteSet(S \cup {x})
      /\ Cardinality(S \cup {x}) = IF x \in S THEN Cardinality(S) ELSE Cardinality(S) + 1
  BY FS_AddElement
<1> QED BY <1>1, <1>2

LEMMA FaultType ==
  ASSUME TypeOK, Fault
  PROVE  faults' \in 0 .. MaxFaults /\ faults' = faults + 1
BY MaxFaultsAssumption DEF TypeOK, FactsApiTypeOK, BusTypeOK, Fault

(* A row that was inserted is not the row of an absent fact. *)
LEMMA RowIsInserted ==
  ASSUME NEW m \in Machine, NEW s \in Snapshot
  PROVE  [machine |-> m, snapshot |-> s] # NoFactRow
BY NoFactAssumption DEF NoFactRow

-----------------------------------------------------------------------------
(***************************************************************************)
(* The API's requests.  They only add: a row that is there stays what it   *)
(* is, and so does every event that is on the stream.                      *)
(***************************************************************************)
ApiStep(w) ==
  \/ \E m \in Machine, s \in Snapshot : PostFacts(w, m, s)
  \/ Serve(w) \/ PostFactsDbError(w) \/ Respond(w)

RowsStay == \A f \in FactId : Inserted(f) => facts'[f] = facts[f]

LogGrows ==
  /\ Len(log'["facts"]) \in Nat /\ Len(log["facts"]) <= Len(log'["facts"])
  /\ \A i \in 1 .. Len(log["facts"]) : log'["facts"][i] = log["facts"][i]

LEMMA PostFactsKeeps ==
  ASSUME TypeOK, ApiOK, NEW w \in Worker, NEW m \in Machine, NEW s \in Snapshot,
         PostFacts(w, m, s)
  PROVE  FactsApiTypeOK' /\ ApiOK'
<1>1. /\ nextFact \in FactId /\ nextFact' = nextFact + 1 /\ nextFact' \in 1 .. MaxFacts + 1
      /\ \A f \in FactId : f \in Int
  BY MaxFactsAssumption DEF PostFacts, TypeOK, FactsApiTypeOK, FactId
<1> DEFINE new == [pc |-> "insert", fact |-> nextFact, machine |-> m, snapshot |-> s]
<1>2. new \in Posting
  BY <1>1 DEF Posting
<1>3. /\ posting' \in [Worker -> Posting \cup {Idle}]
      /\ posting'[w] = new
      /\ \A v \in Worker : v # w => posting'[v] = posting[v]
  BY <1>2 DEF PostFacts, TypeOK, FactsApiTypeOK
<1>4. facts' = facts /\ UNCHANGED busVars
  BY DEF PostFacts
<1>5. FactsApiTypeOK'
  BY <1>1, <1>3, <1>4 DEF TypeOK, FactsApiTypeOK, busVars, BusTypeOK
<1>6. ~ Inserted(nextFact)
  BY <1>1 DEF ApiOK
<1>7. \A f \in FactId : f >= nextFact' => ~ Inserted(f)'
  BY <1>1, <1>4 DEF ApiOK, Inserted
<1>8. \A v \in Worker : v # w /\ posting[v] # Idle =>
        posting[v].fact < nextFact /\ posting[v].fact \in FactId
  BY DEF ApiOK, PostingOK, TypeOK, FactsApiTypeOK, Posting
<1>9. ASSUME NEW v \in Worker
      PROVE  PostingOK(v)'
  <2>1. CASE v = w
    BY <1>1, <1>3, <1>4, <1>6, <2>1 DEF Inserted, PostingOK
  <2>2. CASE v # w
    <3>1. PostingOK(v) /\ posting'[v] = posting[v]
      BY <1>3, <2>2 DEF ApiOK
    <3> QED BY <1>1, <1>4, <1>8, <2>2, <3>1 DEF PostingOK, Inserted, RowOf
  <2> QED BY <2>1, <2>2
<1>10. ASSUME NEW u \in Worker, NEW v \in Worker,
              posting'[u].pc = "insert", posting'[v].pc = "insert",
              posting'[u].fact = posting'[v].fact
       PROVE  u = v
  <2>1. \A x \in Worker : x # w /\ posting'[x].pc = "insert" => posting'[x].fact < nextFact
    BY <1>3, <1>8 DEF Idle
  <2>2. CASE u = w \/ v = w
    BY <1>1, <1>3, <1>10, <2>1, <2>2
  <2>3. CASE u # w /\ v # w
    BY <1>3, <1>10, <2>3 DEF ApiOK
  <2> QED BY <2>2, <2>3
<1> QED BY <1>4, <1>5, <1>7, <1>9, <1>10 DEF ApiOK, busVars, RowOf

(* The row of a request's fact is written, or was about to be and is not:  *)
(* the request goes on to pc.                                              *)
LEMMA RowWritten ==
  ASSUME TypeOK, ApiOK, NEW w \in Worker, posting[w].pc = "insert",
         NEW pc \in {"publish", "failed"},
         posting' = [posting EXCEPT ![w].pc = pc],
         \/ InsertFactRow(posting[w].fact, posting[w].machine, posting[w].snapshot)
         \/ facts' = facts /\ pc = "failed",
         UNCHANGED <<nextFact, log>>
  PROVE  /\ facts' \in [FactId -> FactRow \cup {NoFactRow}]
         /\ posting' \in [Worker -> Posting \cup {Idle}]
         /\ ApiOK' /\ RowsStay
<1> DEFINE req == posting[w]
           row == [machine |-> req.machine, snapshot |-> req.snapshot]
<1>1. req \in Posting /\ req # Idle
  BY DEF TypeOK, FactsApiTypeOK, Idle
<1>2. req.fact \in FactId /\ req.fact < nextFact /\ ~ Inserted(req.fact)
  BY <1>1 DEF Posting, ApiOK, PostingOK
<1>3. row \in FactRow /\ row # NoFactRow
  BY <1>1, RowIsInserted DEF Posting, FactRow
<1>4. /\ posting' \in [Worker -> Posting \cup {Idle}]
      /\ posting'[w].pc = pc /\ posting'[w].fact = req.fact
      /\ RowOf(posting'[w]) = row
      /\ \A v \in Worker : v # w => posting'[v] = posting[v]
  BY <1>1 DEF TypeOK, FactsApiTypeOK, Posting, RowOf
<1>5. /\ facts' \in [FactId -> FactRow \cup {NoFactRow}]
      /\ \A f \in FactId : f # req.fact => facts'[f] = facts[f]
      /\ pc = "publish" => facts'[req.fact] = row
  BY <1>2, <1>3 DEF InsertFactRow, TypeOK, FactsApiTypeOK
<1>6. RowsStay
  BY <1>2, <1>5 DEF RowsStay
<1>7. nextFact \in Int /\ \A f \in FactId : f \in Int
  BY MaxFactsAssumption DEF TypeOK, FactsApiTypeOK, FactId
<1>8. \A f \in FactId : f >= nextFact' => ~ Inserted(f)'
  BY <1>2, <1>5, <1>7 DEF ApiOK, Inserted
<1>9. \A v \in Worker : v # w /\ posting[v].pc = "insert" =>
        posting[v].fact # req.fact
  BY DEF ApiOK
<1>10. \A v \in Worker : posting[v] # Idle => posting[v] \in Posting /\ posting[v].fact \in FactId
  BY DEF TypeOK, FactsApiTypeOK, Posting
<1>11. ASSUME NEW v \in Worker
       PROVE  PostingOK(v)'
  <2>1. CASE v = w
    BY <1>2, <1>4, <1>5, <2>1 DEF PostingOK, RowOf
  <2>2. CASE v # w /\ posting'[v] # Idle
    <3>1. /\ posting'[v] = posting[v] /\ posting[v].fact \in FactId
          /\ posting[v].fact < nextFact
          /\ posting[v].pc = "insert" => ~ Inserted(posting[v].fact)
          /\ posting[v].pc = "publish" => facts[posting[v].fact] = RowOf(posting[v])
      BY <1>4, <1>10, <2>2 DEF ApiOK, PostingOK
    <3>2. posting[v].pc = "insert" => ~ Inserted(posting[v].fact)'
      BY <1>5, <1>9, <2>2, <3>1 DEF Inserted
    <3>3. posting[v].pc = "publish" => Inserted(posting[v].fact)
      BY <1>10, <2>2, <3>1, RowIsInserted DEF Inserted, RowOf, Posting
    <3>4. posting[v].pc = "publish" => facts'[posting[v].fact] = facts[posting[v].fact]
      BY <1>6, <3>1, <3>3 DEF RowsStay
    <3> QED BY <3>1, <3>2, <3>4 DEF PostingOK, RowOf
  <2> QED BY <2>1, <2>2 DEF PostingOK
<1>12. \A u, v \in Worker :
         posting'[u].pc = "insert" /\ posting'[v].pc = "insert"
           /\ posting'[u].fact = posting'[v].fact => u = v
  BY <1>4 DEF ApiOK
<1>13. ASSUME NEW i \in 1 .. Len(log["facts"])
       PROVE  facts'[log["facts"][i].fact] = RowOf(log["facts"][i])
  <2>1. log["facts"][i] \in FactEvent
    BY Facts
  <2>2. facts[log["facts"][i].fact] = RowOf(log["facts"][i])
    BY DEF ApiOK
  <2>3. Inserted(log["facts"][i].fact) /\ log["facts"][i].fact \in FactId
    BY <2>1, <2>2, RowIsInserted DEF Inserted, RowOf, FactEvent
  <2> QED BY <1>6, <2>2, <2>3 DEF RowsStay
<1> HIDE DEF req, row
<1>14. ApiOK'
  BY <1>8, <1>11, <1>12, <1>13 DEF ApiOK, RowOf
<1> QED BY <1>4, <1>5, <1>6, <1>14

(* The event that is published tells of the row that was inserted. *)
LEMMA PublishKeeps ==
  ASSUME TypeOK, ApiOK, NEW w \in Worker, PostFactsPublish(w)
  PROVE  FactsApiTypeOK' /\ ApiOK' /\ LogGrows /\ facts' = facts
         /\ faults' \in {faults, faults + 1}
<1> DEFINE req == posting[w]
           evt == [fact |-> req.fact, machine |-> req.machine, snapshot |-> req.snapshot]
           L == log["facts"]
<1>1. req \in Posting /\ req.pc = "publish" /\ req # Idle
  BY DEF TypeOK, FactsApiTypeOK, Idle, PostFactsPublish
<1>2. evt \in FactEvent /\ RowOf(evt) = RowOf(req) /\ facts[evt.fact] = RowOf(evt)
  BY <1>1 DEF FactEvent, Posting, RowOf, ApiOK, PostingOK
<1>3. /\ posting' \in [Worker -> Posting \cup {Idle}]
      /\ posting'[w].pc = "created" /\ posting'[w].fact = req.fact /\ posting[w].fact < nextFact
      /\ \A v \in Worker : v # w => posting'[v] = posting[v]
  BY <1>1 DEF TypeOK, FactsApiTypeOK, Posting, PostFactsPublish, ApiOK, PostingOK
<1>4. L \in Seq(FactEvent) /\ Len(L) \in Nat
  BY Facts
<1>5. /\ Append(L, evt) \in Seq(FactEvent) /\ Len(Append(L, evt)) = Len(L) + 1
      /\ \A i \in 1 .. Len(L) : Append(L, evt)[i] = L[i]
      /\ Append(L, evt)[Len(L) + 1] = evt
  BY <1>2, <1>4, AppendProperties
<1>6. faults' \in 0 .. MaxFaults /\ faults' \in {faults, faults + 1}
  BY FaultType, Facts DEF PostFactsPublish
<1>7. log' \in [Consumer -> Seq(FactEvent)] /\ (log'["facts"] = L \/ log'["facts"] = Append(L, evt))
  <2>1. CASE Store("facts", evt)
    <3> HIDE DEF evt
    <3>1. log' = [log EXCEPT !["facts"] = Append(L, evt)]
      BY <2>1 DEF Store
    <3> HIDE DEF L
    <3>2. log \in [Consumer -> Seq(FactEvent)] /\ "facts" \in Consumer
      BY Facts DEF TypeOK, FactsApiTypeOK, BusTypeOK
    <3> QED BY <1>5, <3>1, <3>2
  <2>2. CASE log' = log
    BY <2>2 DEF TypeOK, FactsApiTypeOK, BusTypeOK
  <2> QED BY <2>1, <2>2 DEF PostFactsPublish
<1>8. LogGrows
  <2> HIDE DEF L, evt
  <2>1. CASE log'["facts"] = L
    BY <1>4, <2>1 DEF LogGrows, L
  <2>2. CASE log'["facts"] = Append(L, evt)
    BY <1>4, <1>5, <2>2 DEF LogGrows, L
  <2> QED BY <1>7, <2>1, <2>2
<1>9. FactsApiTypeOK'
  <2>1. /\ UNCHANGED <<delivered, redeliver, busy, facts, nextFact>>
    BY DEF PostFactsPublish
  <2>2. BusTypeOK(FactEvent)'
    BY <1>4, <1>6, <1>7, <1>8, <2>1, FactsConsumerAssumption
       DEF TypeOK, FactsApiTypeOK, BusTypeOK, LogGrows, Free
  <2> QED BY <1>3, <2>1, <2>2 DEF TypeOK, FactsApiTypeOK
<1>10. \A i \in 1 .. Len(log'["facts"]) :
         facts[log'["facts"][i].fact] = RowOf(log'["facts"][i])
  <2> HIDE DEF L, evt
  <2>1. \A i \in 1 .. Len(L) : facts[L[i].fact] = RowOf(L[i])
    BY DEF ApiOK, L
  <2>2. CASE log'["facts"] = L
    BY <2>1, <2>2
  <2>3. CASE log'["facts"] = Append(L, evt)
    BY <1>2, <1>4, <1>5, <2>1, <2>3
  <2> QED BY <1>7, <2>2, <2>3
<1>11. facts' = facts /\ nextFact' = nextFact
  BY DEF PostFactsPublish
<1>12. ApiOK'
  <2>1. \A f \in FactId : f >= nextFact' => ~ Inserted(f)'
    BY <1>11 DEF ApiOK, Inserted
  <2>2. ASSUME NEW v \in Worker
        PROVE  PostingOK(v)'
    <3>1. PostingOK(v)
      BY DEF ApiOK
    <3> QED BY <1>3, <1>11, <3>1 DEF PostingOK, Inserted, RowOf
  <2>3. \A u, v \in Worker :
          posting'[u].pc = "insert" /\ posting'[v].pc = "insert"
            /\ posting'[u].fact = posting'[v].fact => u = v
    BY <1>3 DEF ApiOK
  <2> QED BY <1>10, <1>11, <2>1, <2>2, <2>3 DEF ApiOK, RowOf
<1> QED BY <1>6, <1>8, <1>9, <1>11, <1>12

LEMMA ApiKeeps ==
  ASSUME TypeOK, ApiOK, NEW w \in Worker, ApiStep(w)
  PROVE  /\ FactsApiTypeOK' /\ ApiOK' /\ LogGrows /\ RowsStay
         /\ UNCHANGED <<delivered, redeliver, busy>>
         /\ faults' \in {faults, faults + 1}
<1>1. Len(log["facts"]) \in Nat /\ faults \in 0 .. MaxFaults /\ faults \in Nat
  BY Facts
<1>2. CASE \E m \in Machine, s \in Snapshot : PostFacts(w, m, s)
  <2>1. FactsApiTypeOK' /\ ApiOK'
    BY <1>2, PostFactsKeeps
  <2> QED BY <1>1, <1>2, <2>1 DEF PostFacts, busVars, RowsStay, LogGrows
<1>3. CASE PostFactsInsert(w)
  <2>1. /\ facts' \in [FactId -> FactRow \cup {NoFactRow}]
        /\ posting' \in [Worker -> Posting \cup {Idle}]
        /\ ApiOK' /\ RowsStay
    BY <1>3, RowWritten DEF PostFactsInsert, busVars
  <2>2. UNCHANGED <<busVars, nextFact>>
    BY <1>3 DEF PostFactsInsert
  <2>3. FactsApiTypeOK'
    BY <2>1, <2>2 DEF TypeOK, FactsApiTypeOK, BusTypeOK, busVars
  <2> QED BY <1>1, <2>1, <2>2, <2>3 DEF busVars, LogGrows
<1>4. CASE PostFactsDbError(w)
  <2>1. /\ facts' \in [FactId -> FactRow \cup {NoFactRow}]
        /\ posting' \in [Worker -> Posting \cup {Idle}]
        /\ ApiOK' /\ RowsStay
    BY <1>4, RowWritten DEF PostFactsDbError
  <2>2. UNCHANGED <<log, delivered, redeliver, busy, nextFact>>
        /\ faults' \in 0 .. MaxFaults /\ faults' = faults + 1
    BY <1>4, FaultType DEF PostFactsDbError
  <2>3. FactsApiTypeOK'
    BY <2>1, <2>2 DEF TypeOK, FactsApiTypeOK, BusTypeOK
  <2> QED BY <1>1, <2>1, <2>2, <2>3 DEF LogGrows
<1>5. CASE PostFactsPublish(w)
  <2>1. UNCHANGED <<delivered, redeliver, busy>>
    BY <1>5 DEF PostFactsPublish
  <2> QED BY <1>5, <2>1, PublishKeeps DEF RowsStay
<1>6. CASE Respond(w)
  <2>1. /\ posting' \in [Worker -> Posting \cup {Idle}]
        /\ \A v \in Worker : posting'[v] = posting[v] \/ posting'[v] = Idle
        /\ UNCHANGED <<facts, nextFact, busVars>>
    BY <1>6 DEF Respond, TypeOK, FactsApiTypeOK
  <2>2. FactsApiTypeOK'
    BY <2>1 DEF TypeOK, FactsApiTypeOK, BusTypeOK, busVars
  <2>3. /\ \A f \in FactId : f >= nextFact' => ~ Inserted(f)'
        /\ \A i \in 1 .. Len(log'["facts"]) :
             facts'[log'["facts"][i].fact] = RowOf(log'["facts"][i])
    BY <2>1 DEF ApiOK, Inserted, busVars
  <2>4. \A v \in Worker : PostingOK(v)'
    BY <2>1 DEF ApiOK, PostingOK, Inserted, RowOf
  <2>5. \A v \in Worker : posting'[v].pc = "insert" => posting'[v] = posting[v]
    BY <2>1 DEF Idle
  <2>6. \A u, v \in Worker :
          posting'[u].pc = "insert" /\ posting'[v].pc = "insert"
            /\ posting'[u].fact = posting'[v].fact => u = v
    BY <2>5 DEF ApiOK
  <2>7. ApiOK'
    BY <2>3, <2>4, <2>6 DEF ApiOK, RowOf
  <2> QED BY <1>1, <2>1, <2>2, <2>7 DEF busVars, LogGrows, RowsStay
<1> QED BY <1>2, <1>3, <1>4, <1>5, <1>6 DEF ApiStep, Serve
-----------------------------------------------------------------------------
(***************************************************************************)
(* The ingest handler.  It never changes a row: the row of an event is     *)
(* there before the event is.                                              *)
(***************************************************************************)
(* What was audited stays explained while the API goes on. *)
LEMMA ApiStepKeepsService ==
  ASSUME IInv, NEW w \in Worker, ApiStep(w), UNCHANGED invVars
  PROVE  IInv'
<1>1. /\ FactsApiTypeOK' /\ ApiOK' /\ LogGrows /\ RowsStay
      /\ UNCHANGED <<delivered, redeliver, busy>>
      /\ faults' \in {faults, faults + 1}
  BY ApiKeeps DEF IInv
<1>2. TypeOK'
  BY <1>1 DEF IInv, TypeOK, invVars
<1>3. TypeOK /\ Len(log["facts"]) \in Nat /\ busy["facts"] \in 0 .. Len(log["facts"])
      /\ delivered["facts"] \in Nat /\ delivered["facts"] <= Len(log["facts"])
      /\ faults \in Nat /\ replayed \in Nat /\ Cardinality(redeliver["facts"]) \in Nat
  BY Facts DEF IInv
<1>4. ASSUME NEW b \in FactId \cup {NoFact}, NEW f \in FactId, Compares(b, f), Inserted(f)
      PROVE  /\ Compares(b, f)'
             /\ BaseSnapshot(b)' = BaseSnapshot(b) /\ facts'[f] = facts[f] /\ Inserted(f)'
  <2>1. facts'[f] = facts[f] /\ (b # NoFact => facts'[b] = facts[b])
    BY <1>1, <1>4 DEF RowsStay, Compares
  <2> QED BY <1>4, <2>1 DEF Compares, Inserted, BaseSnapshot
<1>5. AuditOK'
  <2>1. ASSUME NEW a \in AuditRow, EntryOK(a)
        PROVE  EntryOK(a)'
    <3>1. a.fact \in FactId /\ a.base \in FactId \cup {NoFact}
      BY DEF AuditRow
    <3>2. Compares(a.base, a.fact) /\ Inserted(a.fact)
      BY <2>1 DEF EntryOK
    <3>3. /\ Compares(a.base, a.fact)' /\ Inserted(a.fact)'
          /\ BaseSnapshot(a.base)' = BaseSnapshot(a.base)
          /\ facts'[a.fact] = facts[a.fact]
      BY <1>4, <3>1, <3>2
    <3>4. computeDiff(BaseSnapshot(a.base), facts[a.fact].snapshot)'
            = computeDiff(BaseSnapshot(a.base), facts[a.fact].snapshot)
      BY <3>3 DEF computeDiff, DeepEqual, Field
    <3> QED BY <2>1, <3>3, <3>4 DEF EntryOK
  <2>2. \A i \in DOMAIN audit : audit[i] \in AuditRow /\ EntryOK(audit[i])
    <3>1. \A i \in DOMAIN audit : audit[i] \in AuditRow
      BY <1>3, ElementOfSeq, LenProperties DEF TypeOK
    <3> QED BY <3>1 DEF IInv, AuditOK
  <2>3. audit' = audit
    BY DEF invVars
  <2> QED BY <2>1, <2>2, <2>3 DEF AuditOK
<1>6. JobOK'
  <2>1. CASE ingesting = NoJob
    BY <2>1 DEF JobOK, invVars
  <2>2. CASE ingesting # NoJob
    <3>1. ingesting \in IngestJob /\ ingesting.evt = log["facts"][busy["facts"]]
          /\ Compares(ingesting.base, ingesting.evt.fact) /\ busy["facts"] # Free
      BY <1>3, <2>2 DEF IInv, JobOK, TypeOK
    <3>2. log'["facts"][busy["facts"]] = ingesting.evt
      BY <1>1, <1>3, <3>1 DEF LogGrows, Free
    <3>3. ingesting.evt.fact \in FactId /\ ingesting.base \in FactId \cup {NoFact}
          /\ ingesting.evt \in FactEvent
      BY <3>1 DEF IngestJob, FactEvent
    <3>4. facts[ingesting.evt.fact] = RowOf(ingesting.evt)
      BY <1>3, <3>1 DEF IInv, ApiOK, Free
    <3>5. Inserted(ingesting.evt.fact)
      BY <3>3, <3>4, RowIsInserted DEF Inserted, RowOf, FactEvent
    <3>6. Compares(ingesting.base, ingesting.evt.fact)'
      BY <1>4, <3>1, <3>3, <3>5 DEF invVars, Compares, Inserted
    <3> QED BY <1>1, <3>2, <3>6 DEF JobOK, invVars
  <2> QED BY <2>1, <2>2
<1>7. HandledFactIsAudited'
  <2>1. \A i : Retired("facts", i)' => Retired("facts", i) /\ i \in 1 .. Len(log["facts"])
    BY <1>1, <1>3 DEF Retired
  <2>2. \A i \in 1 .. Len(log["facts"]) : log'["facts"][i] = log["facts"][i]
    BY <1>1 DEF LogGrows
  <2> QED BY <2>1, <2>2 DEF IInv, HandledFactIsAudited, invVars
<1>8. BudgetOK'
  <2>1. Len(audit) \in Nat
    BY LenProperties DEF IInv, TypeOK
  <2> QED BY <1>1, <1>3, <2>1 DEF IInv, BudgetOK, invVars
<1> QED BY <1>1, <1>2, <1>5, <1>6, <1>7, <1>8 DEF IInv

LEMMA SameEntries ==
  ASSUME facts' = facts
  PROVE  \A a : EntryOK(a) => EntryOK(a)'
<1> SUFFICES ASSUME NEW a, EntryOK(a)
             PROVE  EntryOK(a)'
  OBVIOUS
<1>1. BaseSnapshot(a.base)' = BaseSnapshot(a.base)
  BY DEF BaseSnapshot
<1>2. computeDiff(BaseSnapshot(a.base), facts[a.fact].snapshot)'
        = computeDiff(BaseSnapshot(a.base), facts[a.fact].snapshot)
  BY <1>1 DEF computeDiff, DeepEqual, Field
<1>3. (Compares(a.base, a.fact) /\ Inserted(a.fact))'
  BY DEF EntryOK, Compares, Inserted
<1> QED BY <1>2, <1>3 DEF EntryOK

(* A callback that starts or goes on, and changes no table. *)
LEMMA CallbackKeeps ==
  ASSUME IInv, UNCHANGED <<log, factsVars, audit, replayed>>, faults' = faults,
         busy' \in [Consumer -> Nat], delivered' \in [Consumer -> Nat],
         redeliver' \in [Consumer -> SUBSET Nat],
         busy'["facts"] \in 1 .. Len(log["facts"]),
         ingesting' \in IngestJob,
         ingesting'.evt = log["facts"][busy'["facts"]],
         Compares(ingesting'.base, ingesting'.evt.fact),
         \/ UNCHANGED <<delivered, redeliver, busy>> /\ ingesting # NoJob
         \/ DeliverNext("facts", busy'["facts"])
         \/ Redeliver("facts", busy'["facts"])
  PROVE  IInv'
<1>1. TypeOK /\ Len(log["facts"]) \in Nat /\ busy["facts"] \in 0 .. Len(log["facts"])
      /\ "facts" \in Consumer
      /\ delivered["facts"] \in Nat /\ delivered["facts"] <= Len(log["facts"])
      /\ redeliver["facts"] \subseteq 1 .. Len(log["facts"])
      /\ faults \in 0 .. MaxFaults /\ faults \in Nat /\ replayed \in Nat
      /\ IsFiniteSet(redeliver["facts"]) /\ Cardinality(redeliver["facts"]) \in Nat
  BY Facts DEF IInv
<1>2. /\ delivered'["facts"] \in Nat /\ delivered'["facts"] <= Len(log["facts"])
      /\ redeliver'["facts"] \subseteq redeliver["facts"]
  BY <1>1 DEF DeliverNext, Redeliver, TypeOK, FactsApiTypeOK, BusTypeOK
<1>3. ingesting' # NoJob
  BY DEF IngestJob, NoJob
<1>4. TypeOK'
  <2>1. BusTypeOK(FactEvent)'
    BY <1>1, <1>2, BusTypes
  <2> QED BY <1>1, <1>3, <2>1 DEF TypeOK, FactsApiTypeOK, factsVars, Free
<1>5. ApiOK' /\ AuditOK'
  <2>1. facts' = facts /\ nextFact' = nextFact /\ posting' = posting /\ log' = log
        /\ audit' = audit
    BY DEF factsVars
  <2>2. ApiOK'
    BY <2>1 DEF IInv, ApiOK, PostingOK, RowOf, Inserted
  <2>3. AuditOK'
    <3>1. \A i \in DOMAIN audit : EntryOK(audit[i])
      BY DEF IInv, AuditOK
    <3> QED BY <2>1, <3>1, SameEntries DEF AuditOK
  <2> QED BY <2>2, <2>3
<1>6. JobOK'
  BY DEF JobOK, Compares, Inserted, factsVars
<1>7. HandledFactIsAudited'
  <2>1. \A i : Retired("facts", i)' => Retired("facts", i)
    <3>1. CASE UNCHANGED <<delivered, redeliver, busy>>
      BY <3>1 DEF Retired
    <3>2. CASE DeliverNext("facts", busy'["facts"]) \/ Redeliver("facts", busy'["facts"])
      <4>1. \A i : Retired("facts", i)' =>
              /\ i \in 1 .. delivered["facts"] /\ i \notin redeliver["facts"] /\ i # busy["facts"]
        BY <1>1, <3>2 DEF Retired, DeliverNext, Redeliver, Free, TypeOK, FactsApiTypeOK, BusTypeOK
      <4> QED BY <4>1 DEF Retired
    <3> QED BY <3>1, <3>2
  <2> QED BY <2>1 DEF IInv, HandledFactIsAudited
<1>8. BudgetOK'
  <2>1. Len(audit) \in Nat
    BY LenProperties DEF IInv, TypeOK
  <2>2. CASE UNCHANGED <<delivered, redeliver, busy>> /\ ingesting # NoJob
    BY <1>3, <2>2 DEF IInv, BudgetOK
  <2>3. CASE DeliverNext("facts", busy'["facts"])
    <3>1. ingesting = NoJob /\ redeliver' = redeliver /\ delivered'["facts"] = delivered["facts"] + 1
      BY <1>1, <2>3 DEF DeliverNext, TypeOK, FactsApiTypeOK, BusTypeOK
    <3> QED BY <1>1, <1>3, <2>1, <3>1 DEF IInv, BudgetOK
  <2>4. CASE Redeliver("facts", busy'["facts"])
    <3>1. /\ ingesting = NoJob /\ delivered' = delivered
          /\ busy'["facts"] \in redeliver["facts"]
          /\ redeliver'["facts"] = redeliver["facts"] \ {busy'["facts"]}
      BY <1>1, <2>4 DEF Redeliver, TypeOK, FactsApiTypeOK, BusTypeOK
    <3>2. Cardinality(redeliver'["facts"]) = Cardinality(redeliver["facts"]) - 1
      <4>1. IsFiniteSet(redeliver["facts"]) /\ busy'["facts"] \in redeliver["facts"]
        BY <1>1, <3>1
      <4>2. Cardinality(redeliver["facts"] \ {busy'["facts"]}) = Cardinality(redeliver["facts"]) - 1
        BY <4>1, FS_RemoveElement
      <4> QED BY <3>1, <4>2
    <3> QED BY <1>1, <1>3, <2>1, <3>1, <3>2 DEF IInv, BudgetOK
  <2> QED BY <2>2, <2>3, <2>4
<1> QED BY <1>4, <1>5, <1>6, <1>7, <1>8 DEF IInv

(* What the handler is about to write explains the fact of its event. *)
LEMMA EntryIsOK ==
  ASSUME IInv, ingesting # NoJob
  PROVE  /\ AuditEntry(ingesting) \in AuditRow
         /\ EntryOK(AuditEntry(ingesting))
         /\ busy["facts"] \in 1 .. Len(log["facts"])
         /\ AuditEntry(ingesting).fact = log["facts"][busy["facts"]].fact
<1> DEFINE evt == ingesting.evt
           b == ingesting.base
<1>1. TypeOK /\ ingesting \in IngestJob /\ evt = log["facts"][busy["facts"]]
      /\ Compares(b, evt.fact)
  BY DEF IInv, JobOK, TypeOK
<1>2. evt \in FactEvent /\ b \in FactId \cup {NoFact}
  BY <1>1 DEF IngestJob
<1>3. busy["facts"] \in 1 .. Len(log["facts"])
  BY <1>1, Facts DEF TypeOK, Free
<1>4. facts[evt.fact] = RowOf(evt)
  BY <1>1, <1>3 DEF IInv, ApiOK
<1>5. /\ evt.fact \in FactId /\ evt.snapshot \in Snapshot /\ Inserted(evt.fact)
      /\ facts[evt.fact].snapshot = evt.snapshot
  BY <1>2, <1>4, RowIsInserted DEF Inserted, RowOf, FactEvent
<1>6. BaseSnapshot(b) \in Snapshot \/ BaseSnapshot(b) = << >>
  BY <1>1, <1>2 DEF BaseSnapshot, Compares, Inserted, FactRow, TypeOK, FactsApiTypeOK
<1>7. computeDiff(BaseSnapshot(b), evt.snapshot) \in Changes
  BY <1>5, <1>6, DiffType
<1>8. AuditEntry(ingesting)
        = [fact |-> evt.fact, base |-> b, changes |-> computeDiff(BaseSnapshot(b), evt.snapshot)]
  BY DEF AuditEntry
<1> HIDE DEF evt, b
<1>9. AuditEntry(ingesting) \in AuditRow
  BY <1>2, <1>5, <1>7, <1>8 DEF AuditRow
<1>10. EntryOK(AuditEntry(ingesting))
  BY <1>1, <1>5, <1>8 DEF EntryOK
<1> QED BY <1>1, <1>3, <1>8, <1>9, <1>10

(* A callback ends, or there was none: the event is audited, or it is owed *)
(* another delivery that a fault has paid for.                             *)
LEMMA CallbackEnds ==
  ASSUME IInv, UNCHANGED <<log, factsVars, delivered, replayed>>,
         ingesting' = NoJob, busy' = [busy EXCEPT !["facts"] = Free],
         \/ audit' = audit
         \/ ingesting # NoJob /\ audit' = Append(audit, AuditEntry(ingesting)),
         \/ /\ ingesting # NoJob /\ audit' # audit
            /\ redeliver' = redeliver /\ faults' = faults
         \/ /\ redeliver' = [redeliver EXCEPT !["facts"] = @ \cup ({busy["facts"]} \ {Free})]
            /\ faults' = faults + 1 /\ faults' \in 0 .. MaxFaults
  PROVE  IInv'
<1> DEFINE e == AuditEntry(ingesting)
           R == redeliver["facts"]
<1>1. TypeOK /\ Len(log["facts"]) \in Nat /\ busy["facts"] \in 0 .. Len(log["facts"])
      /\ "facts" \in Consumer
      /\ delivered["facts"] \in Nat /\ delivered["facts"] <= Len(log["facts"])
      /\ R \subseteq 1 .. Len(log["facts"])
      /\ faults \in 0 .. MaxFaults /\ faults \in Nat /\ replayed \in Nat
      /\ IsFiniteSet(R) /\ Cardinality(R) \in Nat
      /\ (busy["facts"] = Free <=> ingesting = NoJob)
  BY Facts DEF IInv, TypeOK
<1>2. /\ facts' = facts /\ nextFact' = nextFact /\ posting' = posting /\ log' = log
      /\ delivered' = delivered /\ replayed' = replayed
  BY DEF factsVars
<1>3. /\ busy' \in [Consumer -> Nat] /\ busy'["facts"] = Free
      /\ redeliver' \in [Consumer -> SUBSET Nat]
      /\ redeliver'["facts"] = R \/ redeliver'["facts"] = R \cup ({busy["facts"]} \ {Free})
      /\ faults' \in 0 .. MaxFaults
  BY <1>1 DEF TypeOK, FactsApiTypeOK, BusTypeOK, Free
<1>4. /\ audit \in Seq(AuditRow) /\ Len(audit) \in Nat /\ DOMAIN audit = 1 .. Len(audit)
  BY <1>1, LenProperties DEF TypeOK
<1>5. CASE audit' = audit
  <2>1. redeliver'["facts"] = R \cup ({busy["facts"]} \ {Free}) /\ faults' = faults + 1
    BY <1>1, <1>5 DEF TypeOK, FactsApiTypeOK, BusTypeOK
  <2>2. TypeOK'
    <3>1. BusTypeOK(FactEvent)'
      BY <1>1, <1>2, <1>3, <2>1, BusTypes DEF Free, TypeOK, FactsApiTypeOK, BusTypeOK
    <3> QED BY <1>1, <1>2, <1>3, <1>5, <3>1 DEF TypeOK, FactsApiTypeOK
  <2>3. ApiOK' /\ JobOK'
    BY <1>2 DEF IInv, ApiOK, PostingOK, RowOf, Inserted, JobOK
  <2>4. AuditOK'
    BY <1>2, <1>5, SameEntries DEF IInv, AuditOK
  <2>5. HandledFactIsAudited'
    <3>1. \A i \in 1 .. Len(log["facts"]) : Retired("facts", i)' => Retired("facts", i)
      BY <1>1, <1>2, <1>3, <2>1 DEF Retired, Free
    <3> QED BY <1>2, <1>5, <3>1 DEF IInv, HandledFactIsAudited
  <2>6. BudgetOK'
    <3>1. Cardinality(redeliver'["facts"]) <= Cardinality(R) + (IF ingesting = NoJob THEN 0 ELSE 1)
      <4>1. CASE ingesting = NoJob
        <5>1. redeliver'["facts"] = R
          BY <1>1, <2>1, <4>1
        <5> QED BY <1>1, <4>1, <5>1
      <4>2. CASE ingesting # NoJob
        <5>1. redeliver'["facts"] = R \cup {busy["facts"]}
          BY <1>1, <2>1, <4>2
        <5>2. Cardinality(R \cup {busy["facts"]}) <= Cardinality(R) + 1
          BY <1>1, AddOne
        <5> QED BY <4>2, <5>1, <5>2
      <4> QED BY <4>1, <4>2
    <3>2. Cardinality(redeliver'["facts"]) \in Nat
      <4>1. IsFiniteSet(R \cup ({busy["facts"]} \ {Free}))
        <5>1. CASE busy["facts"] = Free
          <6>1. R \cup ({busy["facts"]} \ {Free}) = R
            BY <5>1
          <6> QED BY <1>1, <6>1
        <5>2. CASE busy["facts"] # Free
          <6>1. R \cup ({busy["facts"]} \ {Free}) = R \cup {busy["facts"]}
            BY <5>2
          <6>2. IsFiniteSet(R \cup {busy["facts"]})
            BY <1>1, AddOne
          <6> QED BY <6>1, <6>2
        <5> QED BY <5>1, <5>2
      <4> QED BY <2>1, <4>1, FS_CardinalityType
    <3> HIDE DEF R
    <3>3. Len(audit) + (IF ingesting = NoJob THEN 0 ELSE 1) + Cardinality(R)
            <= delivered["facts"] + replayed + faults
      BY DEF IInv, BudgetOK, R
    <3> QED BY <1>1, <1>2, <1>4, <1>5, <2>1, <3>1, <3>2, <3>3 DEF BudgetOK
  <2> QED BY <2>2, <2>3, <2>4, <2>5, <2>6 DEF IInv
<1>6. CASE ingesting # NoJob /\ audit' = Append(audit, e)
  <2>1. /\ e \in AuditRow /\ EntryOK(e)
        /\ busy["facts"] \in 1 .. Len(log["facts"])
        /\ e.fact = log["facts"][busy["facts"]].fact
    BY <1>6, EntryIsOK
  <2> HIDE DEF e, R
  <2>2. /\ audit' \in Seq(AuditRow) /\ Len(audit') = Len(audit) + 1
        /\ \A i \in 1 .. Len(audit) : audit'[i] = audit[i]
        /\ audit'[Len(audit) + 1] = e
    <3>1. audit' = Append(audit, e)
      BY <1>6 DEF e
    <3>2. /\ Append(audit, e) \in Seq(AuditRow) /\ Len(Append(audit, e)) = Len(audit) + 1
          /\ \A i \in 1 .. Len(audit) : Append(audit, e)[i] = audit[i]
          /\ Append(audit, e)[Len(audit) + 1] = e
      BY <1>4, <2>1, AppendProperties
    <3> QED BY <3>1, <3>2
  <2>3. DOMAIN audit' = 1 .. Len(audit) + 1
    BY <2>2, LenProperties
  <2>4. TypeOK'
    <3>1. BusTypeOK(FactEvent)'
      BY <1>1, <1>2, <1>3, <2>1, BusTypes DEF Free, TypeOK, FactsApiTypeOK, BusTypeOK
    <3> QED BY <1>1, <1>2, <1>3, <2>2, <3>1 DEF TypeOK, FactsApiTypeOK
  <2>5. ApiOK' /\ JobOK'
    BY <1>2 DEF IInv, ApiOK, PostingOK, RowOf, Inserted, JobOK
  <2>6. AuditOK'
    <3>1. \A i \in DOMAIN audit' : EntryOK(audit'[i])
      BY <1>4, <2>1, <2>2, <2>3 DEF IInv, AuditOK
    <3> QED BY <1>2, <3>1, SameEntries DEF AuditOK
  <2>7. HandledFactIsAudited'
    <3>1. ASSUME NEW i \in 1 .. Len(log["facts"]), Retired("facts", i)'
          PROVE  \E a \in DOMAIN audit' : audit'[a].fact = log["facts"][i].fact
      <4>1. CASE i = busy["facts"]
        <5>1. Len(audit) + 1 \in DOMAIN audit'
          BY <1>4, <2>3
        <5> QED BY <2>1, <2>2, <4>1, <5>1
      <4>2. CASE i # busy["facts"]
        <5>1. Retired("facts", i)
          BY <1>1, <1>2, <1>3, <3>1, <4>2 DEF Retired, R
        <5>2. PICK a \in DOMAIN audit : audit[a].fact = log["facts"][i].fact
          BY <5>1 DEF IInv, HandledFactIsAudited
        <5> QED BY <1>4, <2>2, <2>3, <5>2
      <4> QED BY <4>1, <4>2
    <3> QED BY <1>2, <3>1 DEF HandledFactIsAudited
  <2>8. BudgetOK'
    <3>1. Cardinality(redeliver'["facts"]) - Cardinality(R) <= faults' - faults
          /\ Cardinality(redeliver'["facts"]) \in Nat
      <4>1. CASE redeliver' = redeliver /\ faults' = faults
        BY <1>1, <4>1 DEF R
      <4>2. CASE /\ redeliver' = [redeliver EXCEPT !["facts"] = @ \cup ({busy["facts"]} \ {Free})]
                 /\ faults' = faults + 1
        <5>1. redeliver'["facts"] = R \cup {busy["facts"]}
          BY <1>1, <2>1, <4>2 DEF TypeOK, FactsApiTypeOK, BusTypeOK, Free, R
        <5>2. Cardinality(R \cup {busy["facts"]}) <= Cardinality(R) + 1
              /\ Cardinality(R \cup {busy["facts"]}) \in Nat
          BY <1>1, AddOne
        <5>3. Cardinality(R) \in Nat /\ faults \in Nat
          BY <1>1 DEF R
        <5>4. Cardinality(redeliver'["facts"]) = Cardinality(R \cup {busy["facts"]})
          BY <5>1
        <5>5. faults' - faults = 1
          BY <4>2, <5>3
        <5>6. Cardinality(R \cup {busy["facts"]}) - Cardinality(R) <= 1
          BY <5>2, <5>3
        <5> QED BY <5>2, <5>4, <5>5, <5>6
      <4> QED BY <4>1, <4>2
    <3>2. Len(audit) + 1 + Cardinality(R) <= delivered["facts"] + replayed + faults
      BY <1>6 DEF IInv, BudgetOK, R
    <3>3. faults' \in Nat
      BY <1>1, <1>3
    <3> QED BY <1>1, <1>2, <1>4, <2>2, <3>1, <3>2, <3>3 DEF BudgetOK
  <2> QED BY <2>4, <2>5, <2>6, <2>7, <2>8 DEF IInv
<1> QED BY <1>5, <1>6

(* The server will deliver a message once more; a fault pays for it. *)
LEMMA AckWaitKeeps ==
  ASSUME IInv, AckWait
  PROVE  IInv'
<1> DEFINE R == redeliver["facts"]
<1>1. TypeOK /\ Len(log["facts"]) \in Nat /\ busy["facts"] \in 0 .. Len(log["facts"])
      /\ "facts" \in Consumer
      /\ delivered["facts"] \in Nat /\ delivered["facts"] <= Len(log["facts"])
      /\ R \subseteq 1 .. Len(log["facts"])
      /\ faults \in 0 .. MaxFaults /\ faults \in Nat /\ replayed \in Nat
      /\ IsFiniteSet(R) /\ Cardinality(R) \in Nat
  BY Facts DEF IInv
<1>2. PICK i \in 1 .. Len(log["facts"]) : AckWaitExpires("facts", i)
  BY DEF AckWait
<1>3. faults' \in 0 .. MaxFaults /\ faults' = faults + 1
  BY <1>1, <1>2, FaultType DEF AckWaitExpires
<1>4. /\ redeliver' \in [Consumer -> SUBSET Nat] /\ redeliver'["facts"] = R \cup {i}
      /\ UNCHANGED <<log, delivered, busy, facts, nextFact, posting, audit, ingesting, replayed>>
  BY <1>1, <1>2 DEF AckWait, AckWaitExpires, TypeOK, FactsApiTypeOK, BusTypeOK,
                    factsVars, invVars
<1> HIDE DEF R
<1>5. TypeOK'
  <2>1. BusTypeOK(FactEvent)'
    BY <1>1, <1>3, <1>4, BusTypes DEF TypeOK, FactsApiTypeOK, BusTypeOK
  <2> QED BY <1>1, <1>4, <2>1 DEF TypeOK, FactsApiTypeOK
<1>6. ApiOK' /\ JobOK'
  BY <1>4 DEF IInv, ApiOK, PostingOK, RowOf, Inserted, JobOK, Compares
<1>7. AuditOK'
  BY <1>4, SameEntries DEF IInv, AuditOK
<1>8. HandledFactIsAudited'
  <2>1. \A j : Retired("facts", j)' => Retired("facts", j)
    BY <1>4 DEF Retired, R
  <2> QED BY <1>4, <2>1 DEF IInv, HandledFactIsAudited
<1>9. BudgetOK'
  <2>1. Cardinality(R \cup {i}) <= Cardinality(R) + 1 /\ Cardinality(R \cup {i}) \in Nat
    BY <1>1, AddOne
  <2>2. Len(audit) \in Nat
    BY <1>1, LenProperties DEF TypeOK
  <2> QED BY <1>1, <1>3, <1>4, <2>1, <2>2 DEF IInv, BudgetOK, R
<1> QED BY <1>5, <1>6, <1>7, <1>8, <1>9 DEF IInv

(* The next process is offered every event again; what the last one was     *)
(* offered is counted in replayed.                                         *)
LEMMA StopKeeps ==
  ASSUME IInv, Stop
  PROVE  IInv'
<1>1. TypeOK /\ Len(log["facts"]) \in Nat /\ "facts" \in Consumer
      /\ delivered["facts"] \in Nat /\ faults \in Nat /\ replayed \in Nat
      /\ Cardinality(redeliver["facts"]) \in Nat
  BY Facts DEF IInv
<1>2. faults' \in 0 .. MaxFaults /\ faults' = faults + 1
  BY <1>1, FaultType DEF Stop
<1>3. /\ UNCHANGED <<log, facts, nextFact, posting, audit>> /\ ingesting' = NoJob
      /\ replayed' = replayed + delivered["facts"] /\ replayed' \in Nat
      /\ busy' = [c \in Consumer |-> Free]
      /\ delivered' = [c \in Consumer |-> 0]
      /\ redeliver' = [c \in Consumer |-> {}]
  BY <1>1 DEF Stop, DeleteConsumers, factsVars
<1>4. busy'["facts"] = Free /\ delivered'["facts"] = 0 /\ redeliver'["facts"] = {}
  BY <1>1, <1>3
<1>5. TypeOK'
  <2>1. /\ busy' \in [Consumer -> Nat] /\ delivered' \in [Consumer -> Nat]
        /\ redeliver' \in [Consumer -> SUBSET Nat]
    BY <1>3 DEF Free
  <2>2. BusTypeOK(FactEvent)'
    BY <1>1, <1>2, <1>3, <1>4, <2>1, BusTypes DEF Free
  <2> QED BY <1>1, <1>3, <1>4, <2>2 DEF TypeOK, FactsApiTypeOK
<1>6. ApiOK' /\ JobOK'
  BY <1>3 DEF IInv, ApiOK, PostingOK, RowOf, Inserted, JobOK
<1>7. AuditOK'
  BY <1>3, SameEntries DEF IInv, AuditOK
<1>8. HandledFactIsAudited'
  BY <1>4 DEF HandledFactIsAudited, Retired
<1>9. BudgetOK'
  <2>1. Len(audit) \in Nat
    BY <1>1, LenProperties DEF TypeOK
  <2>2. Len(audit) <= delivered["facts"] + replayed + faults
    BY <1>1, <2>1 DEF IInv, BudgetOK
  <2>3. Cardinality({}) = 0
    BY FS_EmptySet
  <2> QED BY <1>1, <1>2, <1>3, <1>4, <2>1, <2>2, <2>3 DEF BudgetOK
<1> QED BY <1>5, <1>6, <1>7, <1>8, <1>9 DEF IInv

LEMMA Initially == Init => IInv
<1> SUFFICES ASSUME Init PROVE IInv
  OBVIOUS
<1>1. "facts" \in Consumer /\ log["facts"] = << >> /\ Len(log["facts"]) = 0
      /\ redeliver["facts"] = {} /\ delivered["facts"] = 0 /\ busy["facts"] = 0
      /\ audit = << >> /\ Len(audit) = 0 /\ replayed = 0
  BY FactsConsumerAssumption DEF Init, FactsApiInit, BusInit, Free
<1>2. BusTypeOK(FactEvent)
  <2>1. << >> \in Seq(FactEvent) /\ faults \in 0 .. MaxFaults
    BY MaxFaultsAssumption DEF Init, FactsApiInit, BusInit
  <2> QED BY <1>1, <2>1, FactsConsumerAssumption
          DEF Init, FactsApiInit, BusInit, BusTypeOK, Free
<1>3. FactsApiTypeOK
  BY <1>2, MaxFactsAssumption DEF FactsApiTypeOK, Init, FactsApiInit
<1>4. TypeOK
  BY <1>1, <1>3 DEF TypeOK, Init, Free
<1>5. ApiOK
  BY <1>1 DEF ApiOK, PostingOK, Init, FactsApiInit, Inserted, Idle
<1>6. Cardinality({}) = 0
  BY FS_EmptySet
<1>7. JobOK /\ AuditOK /\ HandledFactIsAudited
  BY <1>1 DEF JobOK, AuditOK, HandledFactIsAudited, Init
<1>8. BudgetOK
  BY <1>1, <1>6 DEF BudgetOK, Init, FactsApiInit, BusInit
<1> QED BY <1>4, <1>5, <1>7, <1>8 DEF IInv

LEMMA BeginKeeps ==
  ASSUME IInv, NEW i \in 1 .. Len(log["facts"]), IngestBegin(i)
  PROVE  IInv'
<1>1. TypeOK /\ "facts" \in Consumer /\ log["facts"][i] \in FactEvent
      /\ Len(log["facts"]) \in Nat
  BY Facts DEF IInv
<1>2. /\ UNCHANGED <<log, factsVars, audit, replayed>> /\ faults' = faults
      /\ DeliverNext("facts", i) \/ Redeliver("facts", i)
      /\ ingesting' = [pc |-> "previous", evt |-> log["facts"][i], base |-> NoFact]
  BY DEF IngestBegin, Deliver, DeliverNext, Redeliver
<1>3. /\ busy' \in [Consumer -> Nat] /\ delivered' \in [Consumer -> Nat]
      /\ redeliver' \in [Consumer -> SUBSET Nat] /\ busy'["facts"] = i
  <2>1. busy \in [Consumer -> Nat] /\ delivered \in [Consumer -> Nat]
        /\ redeliver \in [Consumer -> SUBSET Nat] /\ i \in Nat
    BY <1>1 DEF TypeOK, FactsApiTypeOK, BusTypeOK
  <2>2. CASE DeliverNext("facts", i)
    BY <1>1, <2>1, <2>2 DEF DeliverNext
  <2>3. CASE Redeliver("facts", i)
    BY <1>1, <2>1, <2>3 DEF Redeliver
  <2> QED BY <1>2, <2>2, <2>3
<1>4. ingesting' \in IngestJob
  BY <1>1, <1>2 DEF IngestJob
<1>5. Compares(ingesting'.base, ingesting'.evt.fact)
  BY <1>2 DEF Compares
<1> QED BY <1>2, <1>3, <1>4, <1>5, CallbackKeeps

LEMMA Inductive == IInv /\ [Next]_vars => IInv'
<1> SUFFICES ASSUME IInv, [Next]_vars PROVE IInv'
  OBVIOUS
<1>1. TypeOK /\ "facts" \in Consumer /\ Len(log["facts"]) \in Nat
      /\ busy["facts"] \in 0 .. Len(log["facts"]) /\ faults \in Nat
  BY Facts DEF IInv
<1>2. ingesting # NoJob =>
        /\ ingesting \in IngestJob
        /\ busy["facts"] \in 1 .. Len(log["facts"])
        /\ ingesting.evt = log["facts"][busy["facts"]] /\ ingesting.evt \in FactEvent
        /\ facts[ingesting.evt.fact] = RowOf(ingesting.evt)
        /\ Inserted(ingesting.evt.fact)
  <2> SUFFICES ASSUME ingesting # NoJob
               PROVE  /\ ingesting \in IngestJob
                      /\ busy["facts"] \in 1 .. Len(log["facts"])
                      /\ ingesting.evt = log["facts"][busy["facts"]]
                      /\ ingesting.evt \in FactEvent
                      /\ facts[ingesting.evt.fact] = RowOf(ingesting.evt)
                      /\ Inserted(ingesting.evt.fact)
    OBVIOUS
  <2>1. /\ ingesting \in IngestJob /\ ingesting.evt = log["facts"][busy["facts"]]
        /\ busy["facts"] \in 1 .. Len(log["facts"])
    BY <1>1 DEF IInv, TypeOK, JobOK, Free
  <2>2. ingesting.evt \in FactEvent
    BY <2>1 DEF IngestJob
  <2>3. facts[ingesting.evt.fact] = RowOf(ingesting.evt)
    BY <2>1 DEF IInv, ApiOK
  <2> QED BY <2>1, <2>2, <2>3, RowIsInserted DEF Inserted, RowOf, FactEvent
<1>3. busy \in [Consumer -> Nat] /\ delivered \in [Consumer -> Nat]
      /\ redeliver \in [Consumer -> SUBSET Nat]
  BY <1>1 DEF TypeOK, FactsApiTypeOK, BusTypeOK
<1>4. ASSUME NEW w \in Worker, ApiStep(w), UNCHANGED invVars
      PROVE  IInv'
  BY <1>4, ApiStepKeepsService
<1>5. CASE Begin
  BY <1>5, BeginKeeps DEF Begin
<1>6. CASE IngestPrevious
  <2>1. PICK b \in FactId \cup {NoFact} :
          /\ PreviousSnapshot(ingesting.evt.machine, ingesting.evt.fact, b)
          /\ ingesting' = [ingesting EXCEPT !.pc = "insert", !.base = b]
    BY <1>6 DEF IngestPrevious
  <2>2. ingesting # NoJob /\ UNCHANGED <<log, factsVars, audit, replayed, delivered, redeliver, busy, faults>>
    BY <1>6 DEF IngestPrevious, NoJob, busVars
  <2>3. ingesting' \in IngestJob /\ ingesting'.base = b /\ ingesting'.evt = ingesting.evt
    BY <1>2, <2>1, <2>2 DEF IngestJob
  <2>4. Compares(b, ingesting.evt.fact)
    <3>1. CASE b = NoFact
      BY <3>1 DEF Compares
    <3>2. CASE b \in Others(ingesting.evt.machine, ingesting.evt.fact)
      <4>1. facts[b].machine = ingesting.evt.machine /\ b # ingesting.evt.fact
        BY <3>2 DEF Others
      <4>2. ingesting.evt.machine \in Machine
            /\ facts[ingesting.evt.fact].machine = ingesting.evt.machine
        BY <1>2, <2>2 DEF FactEvent, RowOf
      <4> QED BY <4>1, <4>2, NoFactAssumption DEF Compares, Inserted, NoFactRow
    <3> QED BY <2>1, <3>1, <3>2 DEF PreviousSnapshot
  <2> QED BY <1>2, <1>3, <2>2, <2>3, <2>4, CallbackKeeps
<1>7. CASE IngestInsert
  <2>1. ingesting # NoJob
    BY <1>7 DEF IngestInsert, NoJob
  <2>2. UNCHANGED <<log, factsVars, audit, replayed, delivered, redeliver, busy, faults>>
    BY <1>2, <1>7, <2>1 DEF IngestInsert, StoreFact, busVars, factsVars
  <2>3. ingesting' \in IngestJob /\ ingesting'.base = ingesting.base
        /\ ingesting'.evt = ingesting.evt
    BY <1>2, <1>7, <2>1 DEF IngestInsert, IngestJob
  <2>4. Compares(ingesting.base, ingesting.evt.fact)
    BY <2>1 DEF IInv, JobOK
  <2> QED BY <1>2, <1>3, <2>1, <2>2, <2>3, <2>4, CallbackKeeps
<1>8. CASE IngestAudit
  <2>1. ingesting # NoJob
    BY <1>8 DEF IngestAudit, NoJob
  <2>2. /\ UNCHANGED <<log, factsVars, delivered, replayed>> /\ ingesting' = NoJob
        /\ busy' = [busy EXCEPT !["facts"] = Free]
        /\ audit' = Append(audit, AuditEntry(ingesting))
        /\ redeliver' = redeliver /\ faults' = faults
    BY <1>8 DEF IngestAudit, Ack
  <2>3. audit' # audit
    <3>1. audit \in Seq(AuditRow) /\ AuditEntry(ingesting) \in AuditRow
      BY <1>1, <2>1, EntryIsOK DEF TypeOK
    <3>2. Len(audit') = Len(audit) + 1 /\ Len(audit) \in Nat
      BY <2>2, <3>1, AppendProperties, LenProperties
    <3> QED BY <3>2
  <2> QED BY <2>1, <2>2, <2>3, CallbackEnds
<1>9. CASE IngestDbError
  <2>1. ingesting # NoJob /\ busy["facts"] # Free
    BY <1>1, <1>9 DEF IngestDbError, TypeOK
  <2>2. /\ UNCHANGED <<log, factsVars, delivered, replayed>> /\ ingesting' = NoJob
        /\ busy' = [busy EXCEPT !["facts"] = Free]
        /\ redeliver' = [redeliver EXCEPT !["facts"] = @ \cup {busy["facts"]}]
        /\ audit' = audit \/ audit' = Append(audit, AuditEntry(ingesting))
    BY <1>2, <1>9, <2>1 DEF IngestDbError, Nak, StoreFact, factsVars
  <2>3. {busy["facts"]} \ {Free} = {busy["facts"]}
    BY <2>1
  <2>4. faults' = faults + 1 /\ faults' \in 0 .. MaxFaults
    BY <1>1, <1>9, FaultType DEF IngestDbError
  <2> QED BY <2>1, <2>2, <2>3, <2>4, CallbackEnds
<1>10. CASE Restart
  <2>1. /\ UNCHANGED <<log, factsVars, delivered, audit, replayed>> /\ ingesting' = NoJob
        /\ busy' = [c \in Consumer |-> Free]
        /\ redeliver' = [c \in Consumer |-> redeliver[c] \cup ({busy[c]} \ {Free})]
    BY <1>10 DEF Restart, DropCallbacks
  <2>2. /\ busy' = [busy EXCEPT !["facts"] = Free]
        /\ redeliver' = [redeliver EXCEPT !["facts"] = @ \cup ({busy["facts"]} \ {Free})]
    BY <1>3, <2>1, FactsConsumerAssumption
  <2>3. faults' = faults + 1 /\ faults' \in 0 .. MaxFaults
    BY <1>1, <1>10, FaultType DEF Restart
  <2> QED BY <2>1, <2>2, <2>3, CallbackEnds
<1>11. CASE Stop
  BY <1>11, StopKeeps
<1>12. CASE AckWait
  BY <1>12, AckWaitKeeps
<1>13. CASE UNCHANGED vars
  <2>1. UNCHANGED <<log, delivered, redeliver, busy, faults, facts, nextFact, posting,
                    audit, ingesting, replayed>>
    BY <1>13 DEF vars, busVars, factsVars, invVars
  <2>2. TypeOK' /\ ApiOK' /\ JobOK' /\ HandledFactIsAudited' /\ BudgetOK'
    BY <2>1 DEF IInv, TypeOK, FactsApiTypeOK, BusTypeOK, ApiOK, PostingOK, RowOf, Inserted,
                JobOK, Compares, HandledFactIsAudited, Retired, BudgetOK
  <2>3. AuditOK'
    BY <2>1, SameEntries DEF IInv, AuditOK
  <2> QED BY <2>2, <2>3 DEF IInv
<1> QED BY <1>4, <1>5, <1>6, <1>7, <1>8, <1>9, <1>10, <1>11, <1>12, <1>13
        DEF Next, IngestStep, ApiStep, Quiescent

-----------------------------------------------------------------------------
(* The inductive invariant holds of every behaviour. *)
THEOREM Invariance == Spec => []IInv
BY Initially, Inductive, PTL DEF Spec

(* The tables, the bus and the handler's job are well formed: what is      *)
(* noted of a change has keys and values of reports, and a callback runs   *)
(* exactly while its message is busy.                                      *)
THEOREM TypeCorrect == Spec => []TypeOK
<1>1. IInv => TypeOK
  BY DEF IInv
<1> QED BY <1>1, Invariance, PTL

(* handleFact acknowledges only what it has audited, whatever fails and    *)
(* however often the service dies, or stops and starts again.              *)
THEOREM NoFactUnaudited == Spec => []HandledFactIsAudited
<1>1. IInv => HandledFactIsAudited
  BY DEF IInv
<1> QED BY <1>1, Invariance, PTL

(* Every audit entry compares two facts of one machine, and computeDiff    *)
(* notes all that leads from the one to the other, and nothing that stayed *)
(* the same but what holds a number; younger rows that come in meanwhile   *)
(* do not change what an entry says.                                       *)
THEOREM EntriesExplain == Spec => []AuditExplains
<1>1. IInv => AuditExplains
  <2> SUFFICES ASSUME IInv, NEW i \in DOMAIN audit
               PROVE  LET a   == audit[i]
                          old == BaseSnapshot(a.base)
                          new == facts[a.fact].snapshot
                      IN  /\ a.base # NoFact =>
                               a.base # a.fact /\ facts[a.base].machine = facts[a.fact].machine
                          /\ \A k \in DOMAIN old \cup DOMAIN new :
                               IF k \in DOMAIN a.changes
                               THEN /\ a.changes[k].old = Field(old, k)
                                    /\ a.changes[k].new = Field(new, k)
                                    /\ k \in DOMAIN old \cap DOMAIN new /\ old[k] = new[k]
                                         => old[k] \in Numeric
                               ELSE Field(old, k) = Field(new, k)
    BY DEF AuditExplains
  <2>1. EntryOK(audit[i])
    BY DEF IInv, AuditOK
  <2>2. audit[i].base # NoFact =>
          audit[i].base # audit[i].fact /\ facts[audit[i].base].machine = facts[audit[i].fact].machine
    BY <2>1 DEF EntryOK, Compares
  <2>3. audit[i].changes = computeDiff(BaseSnapshot(audit[i].base), facts[audit[i].fact].snapshot)
    BY <2>1 DEF EntryOK
  <2> QED BY <2>2, <2>3, DiffExplains
<1> QED BY <1>1, Invariance, PTL

(* Every entry is paid for by the first delivery of an event to a consumer *)
(* or by a fault; a stop of the service gives its successor a new consumer, *)
(* and with it the whole stream.                                           *)
THEOREM EntriesArePaidFor == Spec => []DuplicatesAreRetries
<1>1. IInv => DuplicatesAreRetries
  <2> SUFFICES ASSUME IInv PROVE DuplicatesAreRetries
    OBVIOUS
  <2>1. /\ delivered["facts"] \in Nat /\ faults \in Nat
        /\ replayed \in Nat /\ Cardinality(redeliver["facts"]) \in Nat
    BY Facts DEF IInv
  <2>2. Len(audit) \in Nat
    BY LenProperties DEF IInv, TypeOK
  <2> QED BY <2>1, <2>2 DEF IInv, BudgetOK, DuplicatesAreRetries
<1> QED BY <1>1, Invariance, PTL
=============================================================================
