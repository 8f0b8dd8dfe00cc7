------------------------------ MODULE FactsApi ------------------------------
(***************************************************************************)
(* services/api: POST /v1/agents/facts, and the "facts" table it writes.   *)
(*                                                                         *)
(* A fact id stands for the row's uuid and its created_at: the handler     *)
(* picks both before it inserts the row, so ids grow with created_at and a *)
(* row may be inserted after a younger one.                                *)
(***************************************************************************)
EXTENDS Bus

CONSTANTS
  Machine,    \* machine ids
  NoMachine,  \* no machine
  Snapshot,   \* what agents report
  NoSnapshot, \* no report
  Worker,     \* request goroutines of the API
  MaxFacts    \* bound: requests the API serves, each with a fact of its own

ASSUME FactsConsumerAssumption == Consumer = {"facts"}
ASSUME NoFactAssumption == NoMachine \notin Machine /\ NoSnapshot \notin Snapshot
ASSUME MaxFactsAssumption == MaxFacts \in Nat

VARIABLES
  facts,     \* facts[f]: the row of fact f
  nextFact,  \* the next fact id
  posting    \* posting[w]: the request on goroutine w

factsVars == <<facts, nextFact, posting>>

FactId == 1 .. MaxFacts
NoFact == 0

NoFactRow == [machine |-> NoMachine, snapshot |-> NoSnapshot]
FactRow == [machine : Machine, snapshot : Snapshot]

(* The event carries the row; its id is what ties the two together. *)
FactEvent == [fact : FactId, machine : Machine, snapshot : Snapshot]

Idle == [pc |-> "idle"]
Posting == [pc : {"insert", "publish", "created", "failed"},
            fact : FactId, machine : Machine, snapshot : Snapshot]

FactsApiTypeOK ==
  /\ BusTypeOK(FactEvent)
  /\ facts \in [FactId -> FactRow \cup {NoFactRow}]
  /\ nextFact \in 1 .. MaxFacts + 1
  /\ posting \in [Worker -> Posting \cup {Idle}]

FactsApiInit ==
  /\ BusInit
  /\ facts = [f \in FactId |-> NoFactRow]
  /\ nextFact = 1
  /\ posting = [w \in Worker |-> Idle]

Inserted(f) == facts[f] # NoFactRow

InsertFactRow(f, m, s) ==
  facts' = [facts EXCEPT ![f] = [machine |-> m, snapshot |-> s]]

(* A request is decoded; uuid.New() and time.Now() for its row. *)
PostFacts(w, m, s) ==
  /\ posting[w] = Idle
  /\ nextFact <= MaxFacts
  /\ nextFact' = nextFact + 1
  /\ posting' = [posting EXCEPT ![w] =
       [pc |-> "insert", fact |-> nextFact, machine |-> m, snapshot |-> s]]
  /\ UNCHANGED <<facts, busVars>>

PostFactsInsert(w) ==
  /\ posting[w].pc = "insert"
  /\ InsertFactRow(posting[w].fact, posting[w].machine, posting[w].snapshot)
  /\ posting' = [posting EXCEPT ![w].pc = "publish"]
  /\ UNCHANGED <<nextFact, busVars>>

(* The insert fails, or commits and is reported as failed: 500, no event. *)
PostFactsDbError(w) ==
  /\ posting[w].pc = "insert"
  /\ \/ UNCHANGED facts
     \/ InsertFactRow(posting[w].fact, posting[w].machine, posting[w].snapshot)
  /\ posting' = [posting EXCEPT ![w].pc = "failed"]
  /\ Fault
  /\ UNCHANGED <<nextFact, log, delivered, redeliver, busy>>

(* publishJSON drops its errors: the event is stored or lost; 201 anyway. *)
PostFactsPublish(w) ==
  /\ posting[w].pc = "publish"
  /\ LET p == posting[w]
     IN  \/ /\ Store("facts", [fact |-> p.fact, machine |-> p.machine,
                               snapshot |-> p.snapshot])
            /\ UNCHANGED faults
         \/ Fault /\ UNCHANGED log
  /\ posting' = [posting EXCEPT ![w].pc = "created"]
  /\ UNCHANGED <<facts, nextFact, delivered, redeliver, busy>>

(* The response leaves; what the client makes of it is the client's step. *)
Respond(w) ==
  /\ posting[w].pc \in {"created", "failed"}
  /\ posting' = [posting EXCEPT ![w] = Idle]
  /\ UNCHANGED <<facts, nextFact, busVars>>

Serve(w) == PostFactsInsert(w) \/ PostFactsPublish(w)
=============================================================================
