-------------------------- MODULE ProvisioningRuns --------------------------
(***************************************************************************)
(* What the runs of a fleet promise, with no bus, cache or handler in      *)
(* sight.  A run is created once, for one machine, and stays open until it *)
(* is closed; nothing but a client's wish opens it again.  Such runs left  *)
(* aside, the orchestrator opens a run of its own (no blueprint) only for  *)
(* a machine that has none open, and announces only closed runs as         *)
(* finished.                                                               *)
(***************************************************************************)
CONSTANTS Machine, NoMachine, RunId

VARIABLES
  state,      \* state[r] \in {"absent", "open", "closed"}
  owner,      \* owner[r]: the machine of run r, once it was opened
  own,        \* own[r]: the orchestrator opened r
  reopened,   \* runs that a client wanted to be open
  announced   \* runs announced as finished

vars == <<state, owner, own, reopened, announced>>

Init ==
  /\ state = [r \in RunId |-> "absent"]
  /\ owner = [r \in RunId |-> NoMachine]
  /\ own = [r \in RunId |-> FALSE]
  /\ reopened = {}
  /\ announced = {}

OpenOwn(m) ==
  {r \in RunId \ reopened : own[r] /\ owner[r] = m /\ state[r] = "open"}

Open(r, m, mine) ==
  /\ state[r] = "absent"
  /\ mine => OpenOwn(m) = {}
  /\ state' = [state EXCEPT ![r] = "open"]
  /\ owner' = [owner EXCEPT ![r] = m]
  /\ own' = [own EXCEPT ![r] = mine]
  /\ UNCHANGED <<reopened, announced>>

Close(r) ==
  /\ state[r] = "open"
  /\ state' = [state EXCEPT ![r] = "closed"]
  /\ UNCHANGED <<owner, own, reopened, announced>>

(* A client finishes r and says that it is running: it stays or gets open. *)
Reopen(r) ==
  /\ state[r] # "absent"
  /\ state' = [state EXCEPT ![r] = "open"]
  /\ reopened' = reopened \cup {r}
  /\ UNCHANGED <<owner, own, announced>>

Announce(r) ==
  /\ state[r] = "closed" \/ r \in reopened
  /\ announced' = announced \cup {r}
  /\ UNCHANGED <<state, owner, own, reopened>>

Next ==
  \E r \in RunId :
    \/ \E m \in Machine, mine \in BOOLEAN : Open(r, m, mine)
    \/ Close(r) \/ Reopen(r) \/ Announce(r)

Spec == Init /\ [][Next]_vars
=============================================================================
