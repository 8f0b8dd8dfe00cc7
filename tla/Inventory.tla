----------------------------- MODULE Inventory -----------------------------
(***************************************************************************)
(* services/inventory/ingest.go: every fact event is compared with the     *)
(* machine's newest other fact and the difference goes to the audit table. *)
(*                                                                         *)
(* The API inserts the fact row before it publishes the event, so the row  *)
(* handleFact inserts is normally there already, and so may be the rows of *)
(* younger facts.                                                          *)
(***************************************************************************)
EXTENDS FactsApi, FiniteSets

CONSTANTS
  Nil,       \* JSON null, and what computeDiff notes for an absent key
  Numeric    \* the values that are a number, or hold one somewhere

VARIABLES
  audit,      \* the audit table, in the order of its bigserial id
  ingesting,  \* the local state of handleFact
  replayed    \* observer: deliveries that stops of the service undid

invVars == <<audit, ingesting, replayed>>
vars == <<busVars, factsVars, invVars>>

(* A snapshot maps the top-level keys it has to values. *)
ASSUME SnapshotAssumption == \A s \in Snapshot : s = [k \in DOMAIN s |-> s[k]]

NoJob == [pc |-> "idle"]
IngestJob == [pc : {"previous", "insert", "audit"}, evt : FactEvent,
              base : FactId \cup {NoFact}]

(* What computeDiff notes: some of the keys, each with two values. *)
Key == UNION {DOMAIN s : s \in Snapshot}
Value == {Nil} \cup UNION {{s[k] : k \in DOMAIN s} : s \in Snapshot}
Changes == UNION {[ks -> [old : Value, new : Value]] : ks \in SUBSET Key}
AuditRow == [fact : FactId, base : FactId \cup {NoFact}, changes : Changes]

TypeOK ==
  /\ FactsApiTypeOK
  /\ ingesting \in IngestJob \cup {NoJob}
  /\ busy["facts"] = Free <=> ingesting = NoJob
  /\ audit \in Seq(AuditRow)
  /\ replayed \in Nat

Init ==
  /\ FactsApiInit
  /\ audit = << >>
  /\ ingesting = NoJob
  /\ replayed = 0

-----------------------------------------------------------------------------
Field(s, k) == IF k \in DOMAIN s THEN s[k] ELSE Nil

(* reflect.DeepEqual of a value of the stored snapshot and one of the event. *)
(* Numbers come out of the table as json.Number and out of the event as      *)
(* float64, so what holds a number never equals anything.                    *)
DeepEqual(stored, sent) == stored = sent /\ stored \notin Numeric

(* Mutant of computeDiff: keys that disappeared are not noted. *)
computeDiffPresent(previous, current) ==
  [k \in {k \in DOMAIN current : k \in DOMAIN previous =>
                                   ~ DeepEqual(previous[k], current[k])}
     |-> [old |-> Field(previous, k), new |-> Field(current, k)]]

(* Per top-level key that was removed, changed or added: old and new value. *)
computeDiff(previous, current) ==
  LET changed == {k \in DOMAIN previous : k \in DOMAIN current =>
                                            ~ DeepEqual(previous[k], current[k])}
      added   == DOMAIN current \ DOMAIN previous
  IN  [k \in changed \cup added
         |-> [old |-> Field(previous, k), new |-> Field(current, k)]]

(* The newest fact of the machine other than this one, or none. *)
Others(m, f) == {g \in FactId : facts[g].machine = m /\ g # f}

PreviousSnapshot(m, f, b) ==
  \/ b \in Others(m, f) /\ \A g \in Others(m, f) : g <= b
  \/ b = NoFact /\ Others(m, f) = {}

BaseSnapshot(b) == IF b = NoFact THEN << >> ELSE facts[b].snapshot

IngestBegin(i) ==
  /\ Deliver("facts", i)
  /\ ingesting' = [pc |-> "previous", evt |-> log["facts"][i], base |-> NoFact]
  /\ UNCHANGED <<audit, replayed, factsVars>>

IngestPrevious ==
  /\ ingesting.pc = "previous"
  /\ \E b \in FactId \cup {NoFact} :
       /\ PreviousSnapshot(ingesting.evt.machine, ingesting.evt.fact, b)
       /\ ingesting' = [ingesting EXCEPT !.pc = "insert", !.base = b]
  /\ UNCHANGED <<audit, replayed, busVars, factsVars>>

(* INSERT ... ON CONFLICT DO NOTHING *)
StoreFact(evt) ==
  IF Inserted(evt.fact) THEN UNCHANGED facts
  ELSE InsertFactRow(evt.fact, evt.machine, evt.snapshot)

(* Mutant of IngestInsert: without OnConflict the insert of a known id fails. *)
IngestInsertStrict ==
  /\ ingesting.pc = "insert"
  /\ \/ /\ Inserted(ingesting.evt.fact)
        /\ ingesting' = NoJob
        /\ Nak("facts")
     \/ /\ ~ Inserted(ingesting.evt.fact)
        /\ ingesting' = [ingesting EXCEPT !.pc = "audit"]
        /\ UNCHANGED <<delivered, redeliver, busy>>
  /\ UNCHANGED <<audit, replayed, log, faults, factsVars>>

IngestInsert ==
  /\ ingesting.pc = "insert"
  /\ StoreFact(ingesting.evt)
  /\ ingesting' = [ingesting EXCEPT !.pc = "audit"]
  /\ UNCHANGED <<audit, replayed, busVars, nextFact, posting>>

AuditEntry(job) ==
  [fact |-> job.evt.fact, base |-> job.base,
   changes |-> computeDiff(BaseSnapshot(job.base), job.evt.snapshot)]

(* Mutant of IngestAudit: the handler reports failure after it has written. *)
IngestAuditNaks ==
  /\ ingesting.pc = "audit"
  /\ audit' = Append(audit, AuditEntry(ingesting))
  /\ ingesting' = NoJob
  /\ Nak("facts")
  /\ UNCHANGED <<log, faults, factsVars, replayed>>

IngestAudit ==
  /\ ingesting.pc = "audit"
  /\ audit' = Append(audit, AuditEntry(ingesting))
  /\ ingesting' = NoJob
  /\ Ack("facts")
  /\ UNCHANGED <<log, faults, factsVars, replayed>>

(* Mutant of IngestDbError: the error is dropped and the message acked. *)
IngestErrorSwallowed ==
  /\ ingesting # NoJob
  /\ ingesting' = NoJob
  /\ Ack("facts")
  /\ Fault
  /\ UNCHANGED <<log, audit, factsVars, replayed>>

(* A statement fails, an insert possibly after its commit took effect. *)
IngestDbError ==
  /\ ingesting # NoJob
  /\ \/ UNCHANGED <<facts, audit>>
     \/ ingesting.pc = "insert" /\ StoreFact(ingesting.evt) /\ UNCHANGED audit
     \/ /\ ingesting.pc = "audit"
        /\ audit' = Append(audit, AuditEntry(ingesting))
        /\ UNCHANGED facts
  /\ ingesting' = NoJob
  /\ Nak("facts")
  /\ Fault
  /\ UNCHANGED <<log, nextFact, posting, replayed>>

(* The service dies and comes back. *)
Restart ==
  /\ Fault
  /\ DropCallbacks
  /\ ingesting' = NoJob
  /\ UNCHANGED <<audit, factsVars, replayed>>

(* It is stopped by a signal, and started again: its consumer is a new one, *)
(* which gets every event of the stream once more.                          *)
Stop ==
  /\ Fault
  /\ DeleteConsumers
  /\ ingesting' = NoJob
  /\ replayed' = replayed + delivered["facts"]
  /\ UNCHANGED <<audit, factsVars>>

AckWait ==
  /\ \E i \in 1 .. Len(log["facts"]) : AckWaitExpires("facts", i)
  /\ UNCHANGED <<factsVars, invVars>>

-----------------------------------------------------------------------------
Begin == \E i \in 1 .. Len(log["facts"]) : IngestBegin(i)
IngestStep == IngestPrevious \/ IngestInsert \/ IngestAudit

Quiescent ==
  /\ nextFact > MaxFacts
  /\ \A w \in Worker : posting[w] = Idle
  /\ busy["facts"] = Free
  /\ redeliver["facts"] = {}
  /\ delivered["facts"] = Len(log["facts"])
  /\ UNCHANGED vars

Next ==
  \/ \E w \in Worker :
       /\ \/ \E m \in Machine, s \in Snapshot : PostFacts(w, m, s)
          \/ Serve(w) \/ PostFactsDbError(w) \/ Respond(w)
       /\ UNCHANGED invVars
  \/ Begin \/ IngestStep \/ IngestDbError \/ Restart \/ Stop \/ AckWait
  \/ Quiescent

Spec == Init /\ [][Next]_vars

(* JetStream offers what is not acknowledged, and handlers keep running. *)
FairSpec == Spec /\ WF_vars(Begin) /\ WF_vars(IngestStep)

-----------------------------------------------------------------------------
(* An audit entry compares its fact with another fact of the same machine,  *)
(* and the noted changes lead from the one to the other: a key that is not  *)
(* noted kept its value; a noted one has its old and its new value, and if  *)
(* they are the same it holds a number.  (A key that was set to null and    *)
(* one that was removed look alike.)                                        *)
AuditExplains ==
  \A i \in DOMAIN audit :
    LET a   == audit[i]
        old == BaseSnapshot(a.base)
        new == facts[a.fact].snapshot
    IN  /\ a.base # NoFact =>
             a.base # a.fact /\ facts[a.base].machine = facts[a.fact].machine
        /\ \A k \in DOMAIN old \cup DOMAIN new :
             IF k \in DOMAIN a.changes
             THEN /\ a.changes[k].old = Field(old, k)
                  /\ a.changes[k].new = Field(new, k)
                  /\ k \in DOMAIN old \cap DOMAIN new /\ old[k] = new[k]
                       => old[k] \in Numeric
             ELSE Field(old, k) = Field(new, k)

(* A fact event is acknowledged for good only when it has been audited: no *)
(* failure of a statement and no restart loses a change.                   *)
HandledFactIsAudited ==
  \A i \in 1 .. Len(log["facts"]) :
    Retired("facts", i) => \E a \in DOMAIN audit : audit[a].fact = log["facts"][i].fact

(* A fact is audited again only after a failure, or because the service was *)
(* stopped and has its stream replayed: without these, every delivered      *)
(* event has at most one entry, and a replay adds at most one to each that  *)
(* had been delivered before it.                                            *)
DuplicatesAreRetries == Len(audit) <= delivered["facts"] + replayed + faults

(* Every fact event that reaches the stream is eventually audited, although *)
(* its row is in the table before the service sees it.                      *)
FactIsAudited ==
  \A f \in FactId :
    (\E i \in 1 .. Len(log["facts"]) : log["facts"][i].fact = f)
      ~> (\E a \in DOMAIN audit : audit[a].fact = f)
-----------------------------------------------------------------------------
(***************************************************************************)
(* The inductive invariant behind the theorems of InventoryProofs.         *)
(***************************************************************************)
RowOf(e) == [machine |-> e.machine, snapshot |-> e.snapshot]

PostingOK(w) ==
  posting[w] # Idle =>
    /\ posting[w].fact < nextFact
    /\ posting[w].pc = "insert" => ~ Inserted(posting[w].fact)
    /\ posting[w].pc = "publish" => facts[posting[w].fact] = RowOf(posting[w])

(* A row is written once, by the request that drew its id: ids ahead of    *)
(* nextFact have none, and an event is only published of a row.            *)
ApiOK ==
  /\ \A f \in FactId : f >= nextFact => ~ Inserted(f)
  /\ \A w \in Worker : PostingOK(w)
  /\ \A v, w \in Worker :
       posting[v].pc = "insert" /\ posting[w].pc = "insert"
         /\ posting[v].fact = posting[w].fact => v = w
  /\ \A i \in 1 .. Len(log["facts"]) :
       facts[log["facts"][i].fact] = RowOf(log["facts"][i])

Compares(b, f) ==
  b # NoFact => b # f /\ Inserted(b) /\ facts[b].machine = facts[f].machine

JobOK ==
  ingesting # NoJob =>
    /\ ingesting.evt = log["facts"][busy["facts"]]
    /\ Compares(ingesting.base, ingesting.evt.fact)

EntryOK(a) ==
  /\ Inserted(a.fact)
  /\ Compares(a.base, a.fact)
  /\ a.changes = computeDiff(BaseSnapshot(a.base), facts[a.fact].snapshot)

AuditOK == \A i \in DOMAIN audit : EntryOK(audit[i])

(* Every entry, every callback and every redelivery that is owed was paid  *)
(* for by a consumer's first delivery or by a fault.                       *)
BudgetOK ==
  Len(audit) + (IF ingesting = NoJob THEN 0 ELSE 1) + Cardinality(redeliver["facts"])
    <= delivered["facts"] + replayed + faults

IInv ==
  /\ TypeOK
  /\ ApiOK
  /\ JobOK
  /\ AuditOK
  /\ HandledFactIsAudited
  /\ BudgetOK
=============================================================================
