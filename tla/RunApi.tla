------------------------------- MODULE RunApi -------------------------------
(***************************************************************************)
(* services/api: the handlers that feed the orchestrator's subjects.       *)
(*                                                                         *)
(* A request runs on a goroutine of its own; the API's connection is core  *)
(* NATS, so publishJSON drops its errors and a message may never reach the *)
(* stream.  POST /v1/machines and POST /v1/agents/facts touch no run: of   *)
(* them only the event is here.                                            *)
(***************************************************************************)
EXTENDS Bus, RunStore

CONSTANTS
  Worker,       \* request goroutines of /v1/runs/start and /v1/runs/finish
  MaxRequests   \* bound: requests the API serves

ASSUME MaxRequestsAssumption == MaxRequests \in Nat

VARIABLES
  serving,   \* serving[w]: the local state of worker w's request
  requests,  \* requests accepted so far
  reopened   \* observer: runs of which a finish request said "running"

apiVars == <<serving, requests, reopened>>

ServePc == {"insert", "announceStarted", "announceFinished"}
NoRequest == [pc |-> "idle", machine |-> NoMachine, run |-> NoRun]
Request == [pc : ServePc, machine : Machine, run : RunRef] \cup {NoRequest}

ApiTypeOK ==
  /\ serving \in [Worker -> Request]
  /\ requests \in 0 .. MaxRequests
  /\ reopened \subseteq RunId

ApiInit ==
  /\ serving = [w \in Worker |-> NoRequest]
  /\ requests = 0
  /\ reopened = {}

Accept == requests < MaxRequests /\ requests' = requests + 1

(* publishJSON: the message is stored, or lost without a trace. *)
PublishJSON(subject, msg) ==
  /\ \/ Store(subject, msg) /\ UNCHANGED faults
     \/ UNCHANGED log /\ Fault
  /\ UNCHANGED <<delivered, redeliver, busy>>

(* POST /v1/machines publishes machines.enrolled after every upsert. *)
UpsertMachine(m) ==
  /\ Accept
  /\ PublishJSON("machines", [machine |-> m, run |-> NoRun, done |-> FALSE])
  /\ UNCHANGED <<serving, reopened, runVars>>

(* POST /v1/agents/facts. *)
PostFacts(m, done) ==
  /\ Accept
  /\ PublishJSON("facts", [machine |-> m, run |-> NoRun, done |-> done])
  /\ UNCHANGED <<serving, reopened, runVars>>

(* POST /v1/runs/start: validate, read the clock, insert, publish. *)
RunStart(w, m) ==
  /\ serving[w].pc = "idle"
  /\ Accept
  /\ \E r \in RunId :
       /\ AllocateRun(r)
       /\ serving' = [serving EXCEPT ![w] =
                        [pc |-> "insert", machine |-> m, run |-> r]]
  /\ UNCHANGED <<busVars, reopened, runs>>

RunStartInsert(w) ==
  /\ serving[w].pc = "insert"
  /\ InsertRun(serving[w].run, serving[w].machine, TRUE)
  /\ serving' = [serving EXCEPT ![w].pc = "announceStarted"]
  /\ UNCHANGED <<busVars, requests, reopened>>

(* The insert fails, or commits and is reported as failed: 500, no event. *)
RunStartDbError(w) ==
  /\ serving[w].pc = "insert"
  /\ \/ UNCHANGED runVars
     \/ InsertRun(serving[w].run, serving[w].machine, TRUE)
  /\ serving' = [serving EXCEPT ![w] = NoRequest]
  /\ Fault
  /\ UNCHANGED <<log, delivered, redeliver, busy, requests, reopened>>

(* Mutant of RunFinish: announces the finished run without saving it. *)
RunFinishUnsaved(w, r, s) ==
  /\ serving[w].pc = "idle"
  /\ Accept
  /\ Exists(r)
  /\ serving' = [serving EXCEPT ![w] =
                   [pc |-> "announceFinished", machine |-> runs[r].machine,
                    run |-> r]]
  /\ UNCHANGED <<busVars, reopened, runVars>>

(* POST /v1/runs/finish saves the status it is given, whatever it is and    *)
(* whatever the run's was: a client that says "running" opens a run again.  *)
SaveFinish(r, s) ==
  /\ Exists(r)
  /\ UpdateStatus(r, s)
  /\ reopened' = IF s = "running" THEN reopened \cup {r} ELSE reopened

RunFinish(w, r, s) ==
  /\ serving[w].pc = "idle"
  /\ Accept
  /\ SaveFinish(r, s)
  /\ serving' = [serving EXCEPT ![w] =
                   [pc |-> "announceFinished", machine |-> runs[r].machine,
                    run |-> r]]
  /\ UNCHANGED busVars

(* The Save committed but was reported as failed: 500, no event. *)
RunFinishDbError(w, r, s) ==
  /\ serving[w].pc = "idle"
  /\ Accept
  /\ SaveFinish(r, s)
  /\ Fault
  /\ UNCHANGED <<log, delivered, redeliver, busy, serving>>

RunAnnounce(w) ==
  /\ \/ /\ serving[w].pc = "announceStarted"
        /\ PublishJSON("started", [machine |-> serving[w].machine,
                                   run |-> serving[w].run, done |-> FALSE])
     \/ /\ serving[w].pc = "announceFinished"
        /\ PublishJSON("finished", [machine |-> serving[w].machine,
                                    run |-> serving[w].run, done |-> FALSE])
  /\ serving' = [serving EXCEPT ![w] = NoRequest]
  /\ UNCHANGED <<requests, reopened, runVars>>

ApiNext ==
  \/ \E m \in Machine : UpsertMachine(m)
  \/ \E m \in Machine, done \in BOOLEAN : PostFacts(m, done)
  \/ \E w \in Worker :
       \/ \E m \in Machine : RunStart(w, m)
       \/ RunStartInsert(w) \/ RunStartDbError(w)
       \/ \E r \in RunId, s \in FinishStatus :
            RunFinish(w, r, s) \/ RunFinishDbError(w, r, s)
       \/ RunAnnounce(w)
=============================================================================
