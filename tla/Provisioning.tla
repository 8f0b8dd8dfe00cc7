---------------------------- MODULE Provisioning ----------------------------
(***************************************************************************)
(* The provisioning loop: the API's handlers and the orchestrator, joined  *)
(* by the runs table and the four subjects of the bus.                     *)
(***************************************************************************)
EXTENDS Orchestrator, RunApi

vars == <<busVars, runVars, smVars, apiVars>>

Init == BusInit /\ RunsInit /\ SmInit /\ ApiInit

ApiStep == ApiNext /\ UNCHANGED smVars
SmStep == SmNext /\ UNCHANGED apiVars

(* Everything asked for is done; explicit, so that being stuck is an error. *)
Quiescent ==
  /\ requests = MaxRequests
  /\ \A w \in Worker : serving[w].pc = "idle"
  /\ \A c \in Consumer :
       /\ busy[c] = Free
       /\ redeliver[c] = {}
       /\ delivered[c] = Len(log[c])
  /\ UNCHANGED vars

Next == ApiStep \/ SmStep \/ Quiescent

Spec == Init /\ [][Next]_vars

(***************************************************************************)
(* Fairness.  JetStream keeps offering the messages of a subject until     *)
(* they are acknowledged, each subscription's goroutine keeps running its  *)
(* callbacks, and the Go scheduler keeps running goroutines that can run.  *)
(* Which message comes first is left open, and neither requests nor faults *)
(* have to happen.                                                         *)
(***************************************************************************)
Begin(c) ==
  \E i \in 1 .. Len(log[c]) :
    \/ c = "machines" /\ EnrolledBegin(i)
    \/ c = "facts" /\ FactsBegin(i)
    \/ LifecycleBegin(c, i)

Handle(c) ==
  \/ c = "machines" /\ EnrolledStep
  \/ c = "facts" /\ FactsStep
  \/ c = "started" /\ RunStartedSetActive
  \/ c = "finished" /\ RunFinishedClearActive

Fairness ==
  /\ \A c \in Consumer : WF_vars((Begin(c) \/ Handle(c)) /\ UNCHANGED apiVars)
  /\ \A w \in Worker :
       WF_vars((RunStartInsert(w) \/ RunAnnounce(w)) /\ UNCHANGED smVars)

FairSpec == Spec /\ Fairness

-----------------------------------------------------------------------------
OwnRun(m, r) == Exists(r) /\ runs[r].machine = m

(* Every variable has its type, and a handler is idle iff its callback is. *)
TypeOK == BusTypeOK(Message) /\ RunsTypeOK /\ SmTypeOK /\ ApiTypeOK

(* The open runs of m that the orchestrator opened, but for those of which  *)
(* a client said to POST /v1/runs/finish that they are running.            *)
OrchestratorRuns(m) == {r \in Running(m) \ reopened : ~ runs[r].blueprint}

(* A machine never has two open runs that the orchestrator opened, however *)
(* often its enrollment is published, redelivered, replayed or retried     *)
(* after a failed or half-failed insert, a crash or a lost publish: only a *)
(* client that opens a finished run again can bring about a second one.    *)
OneOpenOrchestratorRun ==
  \A m \in Machine : \A r, s \in OrchestratorRuns(m) : r = s

(* What the cache calls a machine's active run is a run of that machine    *)
(* whose row was inserted: done facts never complete a foreign run.        *)
ActiveIsOwnRun ==
  \A m \in Machine :
    active[m] # NoRun => OwnRun(m, active[m])

(* An enrollment event is acknowledged for good only when its machine has  *)
(* (or had) a run: no failure in the handler loses the enrollment.         *)
HandledEnrollmentHasRun ==
  \A i \in 1 .. Len(log["machines"]) :
    Retired("machines", i) =>
      \E r \in RunId : OwnRun(log["machines"][i].machine, r)

(* r is no longer running, or a client wants it to be. *)
Ended(r) == runs[r].status # "running" \/ r \in reopened

(* A lifecycle event on the bus is about an inserted run of its machine,   *)
(* and a finished event about one that is no longer running, unless it was *)
(* the finish request itself that said so.                                 *)
EventsTruthful ==
  \A c \in {"started", "finished"} : \A i \in 1 .. Len(log[c]) :
    LET evt == log[c][i]
    IN  /\ OwnRun(evt.machine, evt.run)
        /\ c = "finished" => Ended(evt.run)

-----------------------------------------------------------------------------
(***************************************************************************)
(* The inductive invariant behind the theorems of ProvisioningProofs.      *)
(***************************************************************************)

(* Rows from nextRun on are untouched; an id between allocation and insert *)
(* belongs to one process and has no row yet.                              *)
IdsOK ==
  /\ \A r \in RunId : r >= nextRun => runs[r].status = "absent"
  /\ enrolling.pc = "create" =>
       /\ enrolling.run \in 1 .. nextRun - 1
       /\ ~ Exists(enrolling.run)
  /\ \A w \in Worker : serving[w].pc = "insert" =>
       /\ serving[w].run \in 1 .. nextRun - 1
       /\ ~ Exists(serving[w].run)
       /\ enrolling.pc = "create" => serving[w].run # enrolling.run
       /\ \A v \in Worker :
            serving[v].pc = "insert" /\ serving[v].run = serving[w].run => v = w

(* From the lookup to the insert nobody else opens a run without blueprint. *)
NoneOpenWhileCreating ==
  enrolling.pc \in {"new", "create"} =>
    OrchestratorRuns(enrolling.machine) = {}

(* Every reference to a run held by a process is to an inserted run of the *)
(* machine it is working for.                                              *)
RefsOK ==
  /\ enrolling.pc # "idle" =>
       enrolling.machine = log["machines"][busy["machines"]].machine
  /\ enrolling.pc \in {"adopt", "remember", "announce"} =>
       OwnRun(enrolling.machine, enrolling.run)
  /\ completing.pc \in {"adopt", "update", "clear", "announce"} =>
       OwnRun(completing.machine, completing.run)
  /\ \A w \in Worker :
       serving[w].pc \in {"announceStarted", "announceFinished"} =>
         OwnRun(serving[w].machine, serving[w].run)

(* What is about to be announced as finished is no longer running. *)
FinishedOK ==
  /\ completing.pc \in {"clear", "announce"} =>
       Ended(completing.run)
  /\ \A w \in Worker : serving[w].pc = "announceFinished" =>
       Ended(serving[w].run)

(* The inductive invariant: it implies the invariants above it. *)
IInv ==
  /\ TypeOK
  /\ IdsOK
  /\ NoneOpenWhileCreating
  /\ RefsOK
  /\ FinishedOK
  /\ OneOpenOrchestratorRun
  /\ ActiveIsOwnRun
  /\ HandledEnrollmentHasRun
  /\ EventsTruthful

-----------------------------------------------------------------------------
Abstract ==
  INSTANCE ProvisioningRuns WITH
    state <- [r \in RunId |-> CASE runs[r].status = "absent"  -> "absent"
                                [] runs[r].status = "running" -> "open"
                                [] OTHER                      -> "closed"],
    owner <- [r \in RunId |-> runs[r].machine],
    own <- [r \in RunId |-> Exists(r) /\ ~ runs[r].blueprint],
    reopened <- reopened,
    announced <- {log["finished"][i].run : i \in 1 .. Len(log["finished"])}

(* The API and the orchestrator together implement ProvisioningRuns: each  *)
(* of their steps opens, closes, reopens or announces one run as it allows, *)
(* or changes nothing it can see.                                          *)
ImplementsRuns == Abstract!Spec

Enrolled(m) == \E i \in 1 .. Len(log["machines"]) : log["machines"][i].machine = m
HasRun(m) == \E r \in RunId : OwnRun(m, r)

(* An enrollment that reaches the stream eventually gives its machine a    *)
(* run, through finitely many failed calls, lost publishes, stops and      *)
(* crashes.  (Enrollments stay in the stream and rows in the table: this   *)
(* says the same as a leads-to for every machine.)                         *)
EnrollmentGetsRun == []<>(\A m \in Machine : Enrolled(m) => HasRun(m))
=============================================================================
