------------------------------- MODULE Agents -------------------------------
(***************************************************************************)
(* services/agents: the processes on installed machines that report facts, *)
(* above all the one that says that the post-install is done.              *)
(*                                                                         *)
(* The RHEL agent reports every 30 s and says done until it finds its own  *)
(* marker file; systemd restarts it.  On Windows every run of              *)
(* provision.ps1 says done and registers the service anew, which reports   *)
(* once whenever it starts, and never says done.  A report is one request  *)
(* to the API, which may outlive the agent's wait.                         *)
(***************************************************************************)
EXTENDS FactsApi, FiniteSets

CONSTANTS
  RhelMachine, WindowsMachine,
  NoWorker,   \* no request in flight
  MaxScripts  \* bound: runs of provision.ps1 on each machine

ASSUME AgentsAssumption ==
  /\ Machine = RhelMachine \cup WindowsMachine
  /\ RhelMachine \cap WindowsMachine = {}
  /\ Snapshot = {"done", "plain"}
  /\ NoWorker \notin Worker
  /\ MaxScripts \in Nat

VARIABLES
  agent,    \* agent[m]: the process on m
  marker,   \* marker[m]: the marker file (RHEL), the service (Windows) exists
  scripts   \* scripts[m]: how often provision.ps1 was run on m

agentVars == <<agent, marker, scripts>>
vars == <<busVars, factsVars, agentVars>>

(* pc: where reportOnce or provision.ps1 stands; first: it is the script    *)
(* that reports (Windows), the report in hand says done (RHEL); conn: the   *)
(* API goroutine that serves the report.                                    *)
Process == [pc : {"down", "report", "sending", "mark", "waiting"},
            first : BOOLEAN, conn : Worker \cup {NoWorker}]

TypeOK ==
  /\ FactsApiTypeOK
  /\ agent \in [Machine -> Process]
  /\ marker \in [Machine -> BOOLEAN]
  /\ scripts \in [WindowsMachine -> 0 .. MaxScripts]
  /\ \A m \in Machine : agent[m].pc = "sending" <=> agent[m].conn # NoWorker

Down == [pc |-> "down", first |-> FALSE, conn |-> NoWorker]

Init ==
  /\ FactsApiInit
  /\ agent = [m \in Machine |-> Down]
  /\ marker = [m \in Machine |-> FALSE]
  /\ scripts = [m \in WindowsMachine |-> 0]

GoTo(m, pc) == agent' = [agent EXCEPT ![m].pc = pc, ![m].conn = NoWorker]

ReportAs(m, first) ==
  agent' = [agent EXCEPT ![m] = [pc |-> "report", first |-> first, conn |-> NoWorker]]

-----------------------------------------------------------------------------
(* systemd starts the agent, or the service manager the registered service. *)
Start(m) ==
  /\ agent[m].pc = "down"
  /\ m \in WindowsMachine => marker[m]
  /\ ReportAs(m, FALSE)
  /\ UNCHANGED <<marker, scripts, factsVars, busVars>>

(* The first logon runs provision.ps1, or somebody does once more.  Nothing  *)
(* in it looks for an earlier run; a service that is there goes on, and     *)
(* what it makes of an answer changes nothing.                              *)
RunScript(m) ==
  /\ m \in WindowsMachine
  /\ scripts[m] < MaxScripts
  /\ \/ agent[m].pc \in {"down", "waiting"}
     \/ agent[m].pc = "sending" /\ ~ agent[m].first
  /\ scripts' = [scripts EXCEPT ![m] = @ + 1]
  /\ ReportAs(m, TRUE)
  /\ UNCHANGED <<marker, factsVars, busVars>>

(* The ticker fires; the Windows service only waits to be stopped. *)
Tick(m) ==
  /\ m \in RhelMachine
  /\ agent[m].pc = "waiting"
  /\ ReportAs(m, FALSE)
  /\ UNCHANGED <<marker, scripts, factsVars, busVars>>

(* Mutant of firstRun: the marker is not looked at. *)
firstRunAlways(m) == TRUE

(* The RHEL agent looks for its marker; the script says done in any case. *)
firstRun(m) == IF m \in WindowsMachine THEN agent[m].first ELSE ~ marker[m]

buildSnapshot(m) == IF firstRun(m) THEN "done" ELSE "plain"

sendFacts(m, w) ==
  /\ agent[m].pc = "report"
  /\ PostFacts(w, m, buildSnapshot(m))
  /\ agent' = [agent EXCEPT ![m] =
                 [pc |-> "sending", first |-> firstRun(m), conn |-> w]]
  /\ UNCHANGED <<marker, scripts>>

(* Mutant of AfterFailure: a failed report is taken for a sent one. *)
AfterFailureMarks(m) ==
  IF agent[m].first THEN "mark" ELSE "waiting"

(* After an error the RHEL agent logs it and waits for the next tick, and   *)
(* provision.ps1 stops; the Windows service logs its one failed report.  (A *)
(* service that was registered before is taken to start again after that.)  *)
AfterFailure(m) ==
  IF m \in WindowsMachine /\ agent[m].first THEN "down" ELSE "waiting"

AfterSuccess(m) == IF agent[m].first THEN "mark" ELSE "waiting"

(* buildSnapshot fails, or the request does not reach the API. *)
ReportFails(m) ==
  /\ agent[m].pc = "report"
  /\ Fault
  /\ agent' = [agent EXCEPT ![m].pc =
                 IF m \in WindowsMachine /\ firstRun(m) THEN "down" ELSE "waiting"]
  /\ UNCHANGED <<marker, scripts, factsVars, log, delivered, redeliver, busy>>

(* The API's answer arrives: 201, or 500. *)
Answered(m) ==
  /\ agent[m].pc = "sending"
  /\ Respond(agent[m].conn)
  /\ GoTo(m, IF posting[agent[m].conn].pc = "created"
             THEN AfterSuccess(m) ELSE AfterFailure(m))
  /\ UNCHANGED <<marker, scripts>>

(* The 10 s are over, or the response is lost or cut short: the request     *)
(* goes on without anyone who waits for it.                                 *)
GiveUp(m) ==
  /\ agent[m].pc = "sending"
  /\ Fault
  /\ GoTo(m, AfterFailure(m))
  /\ UNCHANGED <<marker, scripts, factsVars, log, delivered, redeliver, busy>>

RespondToNobody(w) ==
  /\ \A m \in Machine : agent[m].conn # w
  /\ Respond(w)
  /\ UNCHANGED agentVars

(* Mutant of Mark: only the state directory is made. *)
MarkForgotten(m) ==
  /\ agent[m].pc = "mark"
  /\ GoTo(m, "waiting")
  /\ UNCHANGED <<marker, scripts, factsVars, busVars>>

(* markPostinstallComplete; config and service of provision.ps1: one that   *)
(* exists is stopped, deleted and created again, and then started.          *)
Mark(m) ==
  /\ agent[m].pc = "mark"
  /\ marker' = [marker EXCEPT ![m] = TRUE]
  /\ IF m \in RhelMachine THEN GoTo(m, "waiting") ELSE ReportAs(m, FALSE)
  /\ UNCHANGED <<scripts, factsVars, busVars>>

(* An error halfway: the marker file or the service may exist already, and  *)
(* the service of an earlier run may be deleted.                            *)
MarkFails(m) ==
  /\ agent[m].pc = "mark"
  /\ Fault
  /\ \/ UNCHANGED marker
     \/ marker' = [marker EXCEPT ![m] = TRUE]
     \/ m \in WindowsMachine /\ marker' = [marker EXCEPT ![m] = FALSE]
  /\ GoTo(m, AfterFailure(m))
  /\ UNCHANGED <<scripts, factsVars, log, delivered, redeliver, busy>>

(* The process is stopped or dies, or the machine reboots. *)
Crash(m) ==
  /\ agent[m].pc # "down"
  /\ Fault
  /\ agent' = [agent EXCEPT ![m] = Down]
  /\ UNCHANGED <<marker, scripts, factsVars, log, delivered, redeliver, busy>>

-----------------------------------------------------------------------------
reportOnce(m) == (\E w \in Worker : sendFacts(m, w)) \/ Answered(m) \/ Mark(m)

(* No request can be served any more: reports are bounded, and so are runs  *)
(* of the script.                                                           *)
Quiescent ==
  /\ nextFact > MaxFacts
  /\ \A w \in Worker : posting[w] = Idle
  /\ \A m \in Machine :
       \/ agent[m].pc \in {"report", "waiting"}
       \/ m \in WindowsMachine /\ agent[m].pc = "down"
  /\ UNCHANGED vars

Next ==
  \/ \E m \in Machine :
       \/ Start(m) \/ RunScript(m) \/ Tick(m) \/ reportOnce(m)
       \/ ReportFails(m) \/ GiveUp(m) \/ MarkFails(m) \/ Crash(m)
  \/ \E w \in Worker :
       \/ (Serve(w) \/ PostFactsDbError(w)) /\ UNCHANGED agentVars
       \/ RespondToNobody(w)
  \/ Quiescent

Spec == Init /\ [][Next]_vars

(* systemd restarts the agent, the ticker fires, processes keep running. *)
FairSpec ==
  /\ Spec
  /\ \A m \in RhelMachine :
       WF_vars(Start(m)) /\ WF_vars(Tick(m)) /\ WF_vars(reportOnce(m))
  /\ \A w \in Worker :
       WF_vars((Serve(w) /\ UNCHANGED agentVars) \/ RespondToNobody(w))

-----------------------------------------------------------------------------
DoneFacts(m) == {f \in FactId : facts[f] = [machine |-> m, snapshot |-> "done"]}

(* An agent stops saying done only when the API has stored a report that    *)
(* says so: no crash, timeout or failed statement makes it skip the report. *)
MarkerMeansStored == \A m \in Machine : marker[m] => DoneFacts(m) # {}

(* How often m may have its done report stored: the RHEL agent once, and    *)
(* once more per failure; provision.ps1 once per run, whatever fails.       *)
DoneAllowance(m) == IF m \in WindowsMachine THEN scripts[m] ELSE 1 + faults

(* A machine says done again only for a reason: the RHEL agent because      *)
(* something failed before it had its marker, so that without a failure it  *)
(* says done once, and a Windows machine because the script was run again.  *)
DoneAgainHasCause ==
  \A m \in Machine : Cardinality(DoneFacts(m)) <= DoneAllowance(m)

(* Through finitely many failures and restarts the RHEL agent gets its done *)
(* report stored and remembers it.                                          *)
DoneGetsStored ==
  \A m \in RhelMachine : <>[](marker[m] /\ DoneFacts(m) # {})
-----------------------------------------------------------------------------
(***************************************************************************)
(* The inductive invariant behind the theorems of AgentsProofs.            *)
(***************************************************************************)
(* Every row is written by the one request that drew its id. *)
IdsOK ==
  /\ \A f \in FactId : f >= nextFact => ~ Inserted(f)
  /\ \A w \in Worker : posting[w].pc = "insert" =>
       posting[w].fact < nextFact /\ ~ Inserted(posting[w].fact)
  /\ \A v, w \in Worker :
       posting[v].pc = "insert" /\ posting[w].pc = "insert"
         /\ posting[v].fact = posting[w].fact => v = w

(* Before a request is answered with 201 its row is stored. *)
Told(w) ==
  posting[w].pc \in {"publish", "created"} =>
    facts[posting[w].fact] = [machine  |-> posting[w].machine,
                              snapshot |-> posting[w].snapshot]

(* The request that m waits for is m's own. *)
ConnOK(m) ==
  agent[m].conn # NoWorker =>
    /\ posting[agent[m].conn] # Idle /\ Told(agent[m].conn)
    /\ posting[agent[m].conn].machine = m
    /\ agent[m].first => posting[agent[m].conn].snapshot = "done"

MarkOK(m) ==
  /\ marker[m] \/ agent[m].pc = "mark" => DoneFacts(m) # {}
  /\ m \in RhelMachine /\ agent[m].pc = "sending" /\ ~ agent[m].first => marker[m]

(* The done facts of m that are stored, and those a request may yet store. *)
Promised(m) ==
  DoneFacts(m) \cup
    {f \in FactId : \E w \in Worker :
       posting[w] = [pc |-> "insert", fact |-> f, machine |-> m, snapshot |-> "done"]}

(* Without a further failure, or a further run of the script, m says done   *)
(* once more.                                                               *)
MaySayDone(m) ==
  IF m \in WindowsMachine
  THEN agent[m].pc = "report" /\ agent[m].first
  ELSE \/ ~ marker[m] /\ agent[m].pc \in {"down", "report", "waiting"}
       \/ /\ agent[m].pc = "sending" /\ agent[m].first
          /\ posting[agent[m].conn].pc = "failed"

Budget(m) ==
  Cardinality(Promised(m)) + (IF MaySayDone(m) THEN 1 ELSE 0) <= DoneAllowance(m)

IInv ==
  /\ TypeOK
  /\ IdsOK
  /\ \A m \in Machine : ConnOK(m) /\ MarkOK(m) /\ Budget(m)
=============================================================================
