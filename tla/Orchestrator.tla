---------------------------- MODULE Orchestrator ----------------------------
(***************************************************************************)
(* services/orchestrator/sm.go: the state machine that opens a run when a  *)
(* machine enrolls and completes it when the agent reports that its        *)
(* post-install is done.                                                   *)
(*                                                                         *)
(* Four subscriptions, each with one callback at a time, run concurrently  *)
(* and share the activeRuns map (behind a mutex) and the runs table.  A    *)
(* handler step is one access to either of them, or one publish; the step  *)
(* that ends a handler also acknowledges its message.                      *)
(***************************************************************************)
EXTENDS Bus, RunStore

ASSUME ConsumerAssumption ==
  Consumer = {"machines", "facts", "started", "finished"}

VARIABLES
  active,      \* StateMachine.activeRuns: active[m], or NoRun
  enrolling,   \* the local state of handleMachineEnrolled
  completing   \* the local state of handleAgentFacts

smVars == <<active, enrolling, completing>>

(* Events: the fields the handlers read; done is isPostInstallDone(snapshot). *)
Message == [machine : Machine, run : RunRef, done : BOOLEAN]

EnrolledEvent(m) == [machine |-> m, run |-> NoRun, done |-> FALSE]
FactsEvent(m, d) == [machine |-> m, run |-> NoRun, done |-> d]
RunEvent(m, r) == [machine |-> m, run |-> r, done |-> FALSE]

EnrollPc == {"check", "find", "adopt", "new", "create", "remember", "announce"}
FactsPc == {"check", "find", "adopt", "update", "clear", "announce"}

IdleJob == [pc |-> "idle", machine |-> NoMachine, run |-> NoRun]
Job(Pc) == [pc : Pc, machine : Machine, run : RunRef] \cup {IdleJob}

SmTypeOK ==
  /\ active \in [Machine -> RunRef]
  /\ enrolling \in Job(EnrollPc)
  /\ completing \in Job(FactsPc)
  /\ busy["machines"] = Free <=> enrolling.pc = "idle"
  /\ busy["facts"] = Free <=> completing.pc = "idle"

SmInit ==
  /\ active = [m \in Machine |-> NoRun]
  /\ enrolling = IdleJob
  /\ completing = IdleJob

KeepBus == UNCHANGED <<delivered, redeliver, busy>>

SetActive(m, r) == active' = [active EXCEPT ![m] = r]

(* clearActiveRun: only if the machine's active run is still r. *)
ClearActive(m, r) ==
  active' = IF active[m] = r THEN [active EXCEPT ![m] = NoRun] ELSE active

(***************************************************************************)
(* bus.Publish waits for the stream's acknowledgement; a failure leaves    *)
(* the message stored or not.  Outcome of the handler that ends with it.   *)
(***************************************************************************)
PublishAndReturn(c, subject, msg) ==
  \/ Store(subject, msg) /\ Ack(c) /\ UNCHANGED faults
  \/ Store(subject, msg) /\ Nak(c) /\ Fault
  \/ UNCHANGED log /\ Nak(c) /\ Fault

(***************************************************************************)
(* handleMachineEnrolled                                                   *)
(***************************************************************************)
EnrolledBegin(i) ==
  /\ Deliver("machines", i)
  /\ enrolling' = [pc |-> "check", machine |-> log["machines"][i].machine,
                   run |-> NoRun]
  /\ UNCHANGED <<active, completing, runVars>>

EnrolledCheckActive ==
  /\ enrolling.pc = "check"
  /\ \/ /\ active[enrolling.machine] # NoRun
        /\ enrolling' = IdleJob
        /\ Ack("machines")
     \/ /\ active[enrolling.machine] = NoRun
        /\ enrolling' = [enrolling EXCEPT !.pc = "find"]
        /\ KeepBus
  /\ UNCHANGED <<log, faults, active, completing, runVars>>

(* Mutant of EnrolledFindRunning: trusts the cache, skips the query. *)
EnrolledSkipQuery ==
  /\ enrolling.pc = "find"
  /\ enrolling' = [enrolling EXCEPT !.pc = "new"]
  /\ KeepBus
  /\ UNCHANGED <<log, faults, active, completing, runVars>>

EnrolledFindRunning ==
  /\ enrolling.pc = "find"
  /\ \/ \E r \in RunId :
          /\ LatestRunning(enrolling.machine, r)
          /\ enrolling' = [enrolling EXCEPT !.pc = "adopt", !.run = r]
     \/ /\ Running(enrolling.machine) = {}
        /\ enrolling' = [enrolling EXCEPT !.pc = "new"]
  /\ KeepBus
  /\ UNCHANGED <<log, faults, active, completing, runVars>>

EnrolledAdopt ==
  /\ enrolling.pc = "adopt"
  /\ SetActive(enrolling.machine, enrolling.run)
  /\ enrolling' = IdleJob
  /\ Ack("machines")
  /\ UNCHANGED <<log, faults, completing, runVars>>

(* Mutant of EnrolledNewRun: remembers the run before its row is there. *)
EnrolledRememberEarly ==
  /\ enrolling.pc = "new"
  /\ \E r \in RunId :
       /\ AllocateRun(r)
       /\ SetActive(enrolling.machine, r)
       /\ enrolling' = [enrolling EXCEPT !.pc = "create", !.run = r]
  /\ KeepBus
  /\ UNCHANGED <<log, faults, completing, runs>>

EnrolledNewRun ==
  /\ enrolling.pc = "new"
  /\ \E r \in RunId :
       /\ AllocateRun(r)
       /\ enrolling' = [enrolling EXCEPT !.pc = "create", !.run = r]
  /\ KeepBus
  /\ UNCHANGED <<log, faults, active, completing, runs>>

EnrolledCreate ==
  /\ enrolling.pc = "create"
  /\ InsertRun(enrolling.run, enrolling.machine, FALSE)
  /\ enrolling' = [enrolling EXCEPT !.pc = "remember"]
  /\ KeepBus
  /\ UNCHANGED <<log, faults, active, completing>>

EnrolledRemember ==
  /\ enrolling.pc = "remember"
  /\ SetActive(enrolling.machine, enrolling.run)
  /\ enrolling' = [enrolling EXCEPT !.pc = "announce"]
  /\ KeepBus
  /\ UNCHANGED <<log, faults, completing, runVars>>

EnrolledAnnounce ==
  /\ enrolling.pc = "announce"
  /\ PublishAndReturn("machines", "started",
                      RunEvent(enrolling.machine, enrolling.run))
  /\ enrolling' = IdleJob
  /\ UNCHANGED <<active, completing, runVars>>

(* Mutant of EnrolledDbError: the error is logged and swallowed. *)
EnrolledErrorSwallowed ==
  /\ enrolling.pc \in {"find", "create"}
  /\ enrolling' = IdleJob
  /\ Ack("machines")
  /\ Fault
  /\ UNCHANGED <<log, active, completing, runVars>>

(* A query fails, or Create fails, possibly after its commit took effect. *)
EnrolledDbError ==
  /\ enrolling.pc \in {"find", "create"}
  /\ \/ UNCHANGED runVars
     \/ /\ enrolling.pc = "create"
        /\ InsertRun(enrolling.run, enrolling.machine, FALSE)
  /\ enrolling' = IdleJob
  /\ Nak("machines")
  /\ Fault
  /\ UNCHANGED <<log, active, completing>>

(***************************************************************************)
(* handleAgentFacts                                                        *)
(***************************************************************************)
FactsBegin(i) ==
  /\ Deliver("facts", i)
  /\ completing' = [pc |-> "check", machine |-> log["facts"][i].machine,
                    run |-> NoRun]
  /\ UNCHANGED <<active, enrolling, runVars>>

FactsCheck ==
  /\ completing.pc = "check"
  /\ LET done == log["facts"][busy["facts"]].done
         r    == active[completing.machine]
     IN  \/ /\ ~ done
            /\ completing' = IdleJob
            /\ Ack("facts")
         \/ /\ done /\ r # NoRun
            /\ completing' = [completing EXCEPT !.pc = "update", !.run = r]
            /\ KeepBus
         \/ /\ done /\ r = NoRun
            /\ completing' = [completing EXCEPT !.pc = "find"]
            /\ KeepBus
  /\ UNCHANGED <<log, faults, active, enrolling, runVars>>

FactsFindRunning ==
  /\ completing.pc = "find"
  /\ \/ /\ \E r \in RunId :
             /\ LatestRunning(completing.machine, r)
             /\ completing' = [completing EXCEPT !.pc = "adopt", !.run = r]
        /\ KeepBus
     \/ /\ Running(completing.machine) = {}
        /\ completing' = IdleJob
        /\ Ack("facts")
  /\ UNCHANGED <<log, faults, active, enrolling, runVars>>

FactsAdopt ==
  /\ completing.pc = "adopt"
  /\ SetActive(completing.machine, completing.run)
  /\ completing' = [completing EXCEPT !.pc = "update"]
  /\ KeepBus
  /\ UNCHANGED <<log, faults, enrolling, runVars>>

(* Mutant of FactsUpdate: an UPDATE that matches no row goes unnoticed. *)
FactsUpdateNoRows ==
  /\ completing.pc = "update"
  /\ completing' = [completing EXCEPT !.pc = "clear"]
  /\ KeepBus
  /\ UNCHANGED <<log, faults, active, enrolling, runVars>>

(* UPDATE runs SET status = 'success' WHERE id = ?, whatever the status was. *)
FactsUpdate ==
  /\ completing.pc = "update"
  /\ UpdateStatus(completing.run, "success")
  /\ completing' = [completing EXCEPT !.pc = "clear"]
  /\ KeepBus
  /\ UNCHANGED <<log, faults, active, enrolling>>

FactsClear ==
  /\ completing.pc = "clear"
  /\ ClearActive(completing.machine, completing.run)
  /\ completing' = [completing EXCEPT !.pc = "announce"]
  /\ KeepBus
  /\ UNCHANGED <<log, faults, enrolling, runVars>>

FactsAnnounce ==
  /\ completing.pc = "announce"
  /\ PublishAndReturn("facts", "finished",
                      RunEvent(completing.machine, completing.run))
  /\ completing' = IdleJob
  /\ UNCHANGED <<active, enrolling, runVars>>

(* The query or the update fails, the update possibly after it committed. *)
FactsDbError ==
  /\ completing.pc \in {"find", "update"}
  /\ \/ UNCHANGED runVars
     \/ completing.pc = "update" /\ UpdateStatus(completing.run, "success")
  /\ completing' = IdleJob
  /\ Nak("facts")
  /\ Fault
  /\ UNCHANGED <<log, active, enrolling>>

(***************************************************************************)
(* handleRunStarted and handleRunFinished only touch the map.              *)
(***************************************************************************)
LifecycleBegin(c, i) ==
  /\ c \in {"started", "finished"}
  /\ Deliver(c, i)
  /\ UNCHANGED <<smVars, runVars>>

RunStartedSetActive ==
  /\ busy["started"] # Free
  /\ LET evt == log["started"][busy["started"]]
     IN  SetActive(evt.machine, evt.run)
  /\ Ack("started")
  /\ UNCHANGED <<log, faults, enrolling, completing, runVars>>

RunFinishedClearActive ==
  /\ busy["finished"] # Free
  /\ LET evt == log["finished"][busy["finished"]]
     IN  ClearActive(evt.machine, evt.run)
  /\ Ack("finished")
  /\ UNCHANGED <<log, faults, enrolling, completing, runVars>>

(***************************************************************************)
(* The process dies and is restarted: the map starts out empty.            *)
(***************************************************************************)
Restart ==
  /\ Fault
  /\ DropCallbacks
  /\ active' = [m \in Machine |-> NoRun]
  /\ enrolling' = IdleJob
  /\ completing' = IdleJob
  /\ UNCHANGED runVars

(* It is stopped by a signal, and started again. *)
Stop ==
  /\ Fault
  /\ DeleteConsumers
  /\ active' = [m \in Machine |-> NoRun]
  /\ enrolling' = IdleJob
  /\ completing' = IdleJob
  /\ UNCHANGED runVars

AckWait(c) ==
  /\ \E i \in 1 .. Len(log[c]) : AckWaitExpires(c, i)
  /\ UNCHANGED <<smVars, runVars>>

(* Handler steps that need no fault: what the Go scheduler keeps running. *)
EnrolledStep ==
  \/ EnrolledCheckActive \/ EnrolledFindRunning \/ EnrolledAdopt
  \/ EnrolledNewRun \/ EnrolledCreate \/ EnrolledRemember \/ EnrolledAnnounce

FactsStep ==
  \/ FactsCheck \/ FactsFindRunning \/ FactsAdopt
  \/ FactsUpdate \/ FactsClear \/ FactsAnnounce

SmNext ==
  \/ \E c \in Consumer : \E i \in 1 .. Len(log[c]) :
       \/ c = "machines" /\ EnrolledBegin(i)
       \/ c = "facts" /\ FactsBegin(i)
       \/ LifecycleBegin(c, i)
  \/ EnrolledStep \/ EnrolledDbError
  \/ FactsStep \/ FactsDbError
  \/ RunStartedSetActive \/ RunFinishedClearActive
  \/ Restart \/ Stop
  \/ \E c \in Consumer : AckWait(c)
=============================================================================
