------------------------------ MODULE RunStore ------------------------------
(***************************************************************************)
(* The "runs" table in Postgres, shared by the API and the orchestrator.   *)
(*                                                                         *)
(* A run id stands for the row's uuid together with its started_at: both   *)
(* are chosen by the creating process just before it inserts the row, so   *)
(* ids grow with started_at, and a row may be inserted after a younger one.*)
(* Each statement is atomic and durable once it has committed.             *)
(***************************************************************************)
EXTENDS Naturals

CONSTANTS
  Machine,       \* machine ids
  NoMachine,     \* no machine
  FinishStatus,  \* statuses clients report to POST /v1/runs/finish
  MaxRuns        \* bound: run ids that can be allocated

ASSUME MachineAssumption == NoMachine \notin Machine
ASSUME MaxRunsAssumption == MaxRuns \in Nat
(* Any status a client likes; "absent" stands for no row. *)
ASSUME FinishStatusAssumption == "absent" \notin FinishStatus

VARIABLES
  runs,     \* runs[r]: the row of run r
  nextRun   \* the next run id

runVars == <<runs, nextRun>>

RunId == 1 .. MaxRuns
NoRun == 0
RunRef == RunId \cup {NoRun}

RunStatus == {"absent", "running", "success"} \cup FinishStatus

NoRow == [machine |-> NoMachine, status |-> "absent", blueprint |-> FALSE]

(* blueprint: blueprint_id is set (API) or NULL (orchestrator). *)
Row == [machine : Machine, status : RunStatus \ {"absent"},
        blueprint : BOOLEAN] \cup {NoRow}

RunsTypeOK ==
  /\ runs \in [RunId -> Row]
  /\ nextRun \in 1 .. MaxRuns + 1

RunsInit ==
  /\ runs = [r \in RunId |-> NoRow]
  /\ nextRun = 1

Exists(r) == r \in RunId /\ runs[r].status # "absent"

(* uuid.New() and time.Now() for a run about to be inserted. *)
AllocateRun(r) ==
  /\ nextRun <= MaxRuns
  /\ r = nextRun
  /\ nextRun' = nextRun + 1

InsertRun(r, m, bp) ==
  /\ runs' = [runs EXCEPT ![r] =
                [machine |-> m, status |-> "running", blueprint |-> bp]]
  /\ UNCHANGED nextRun

UpdateStatus(r, s) ==
  /\ runs' = [runs EXCEPT ![r].status = s]
  /\ UNCHANGED nextRun

Running(m) == {r \in RunId : runs[r].machine = m /\ runs[r].status = "running"}

(* WHERE machine_id = m AND status = 'running' ORDER BY started_at DESC LIMIT 1 *)
LatestRunning(m, r) == r \in Running(m) /\ \A s \in Running(m) : s <= r
=============================================================================
