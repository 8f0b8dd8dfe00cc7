-------------------------------- MODULE Bus --------------------------------
(***************************************************************************)
(* pkg/bus: durable JetStream consumers, one callback at a time each.      *)
(*                                                                         *)
(* JetStream keeps the log of a subject and redelivers what was not        *)
(* acknowledged (external); Subscribe (pkg/bus/bus.go) turns the outcome   *)
(* of the handler into an Ack or a Nak.  The operators below are the       *)
(* pieces a component's handler steps are conjoined with: every one says   *)
(* which bus variables it writes, and leaves the others to its caller.     *)
(***************************************************************************)
EXTENDS Naturals, Sequences

CONSTANTS
  Consumer,   \* the durable consumers; each has a subject of its own
  MaxFaults   \* bound: failed calls, expired ack waits, crashes, stops, lost
              \* publishes

ASSUME MaxFaultsAssumption == MaxFaults \in Nat

VARIABLES
  log,        \* log[c]: the messages stored on c's subject, in stream order
  delivered,  \* delivered[c]: how many of them had their first callback
  redeliver,  \* redeliver[c]: positions the server owes another delivery
  busy,       \* busy[c]: the position in c's callback, or Free
  faults      \* faults taken so far

busVars == <<log, delivered, redeliver, busy, faults>>

Free == 0

BusTypeOK(Message) ==
  /\ log \in [Consumer -> Seq(Message)]
  /\ delivered \in [Consumer -> Nat]
  /\ redeliver \in [Consumer -> SUBSET Nat]
  /\ busy \in [Consumer -> Nat]
  /\ faults \in 0 .. MaxFaults
  /\ \A c \in Consumer :
       /\ delivered[c] <= Len(log[c])
       /\ redeliver[c] \subseteq 1 .. Len(log[c])
       /\ busy[c] \in {Free} \cup 1 .. Len(log[c])

BusInit ==
  /\ log = [c \in Consumer |-> << >>]
  /\ delivered = [c \in Consumer |-> 0]
  /\ redeliver = [c \in Consumer |-> {}]
  /\ busy = [c \in Consumer |-> Free]
  /\ faults = 0

(***************************************************************************)
(* Faults are counted, so that every run sees finitely many of them.       *)
(***************************************************************************)
Fault == faults < MaxFaults /\ faults' = faults + 1

(* JetStream stores a published message at the end of its subject. *)
Store(c, msg) == log' = [log EXCEPT ![c] = Append(@, msg)]

(***************************************************************************)
(* The callback of c starts on position i: either the next message that    *)
(* was never delivered, or one that is owed a redelivery, in any order.    *)
(***************************************************************************)
DeliverNext(c, i) ==
  /\ busy[c] = Free
  /\ delivered[c] < Len(log[c])
  /\ i = delivered[c] + 1
  /\ busy' = [busy EXCEPT ![c] = i]
  /\ delivered' = [delivered EXCEPT ![c] = i]
  /\ UNCHANGED <<log, redeliver, faults>>

Redeliver(c, i) ==
  /\ busy[c] = Free
  /\ i \in redeliver[c]
  /\ busy' = [busy EXCEPT ![c] = i]
  /\ redeliver' = [redeliver EXCEPT ![c] = @ \ {i}]
  /\ UNCHANGED <<log, delivered, faults>>

Deliver(c, i) == DeliverNext(c, i) \/ Redeliver(c, i)

(* The handler returned nil: msg.Ack(). *)
Ack(c) ==
  /\ busy' = [busy EXCEPT ![c] = Free]
  /\ UNCHANGED <<delivered, redeliver>>

(* Mutant of Nak: a failed message is terminated instead of redelivered. *)
NakTerminates(c) ==
  /\ busy' = [busy EXCEPT ![c] = Free]
  /\ UNCHANGED <<delivered, redeliver>>

(* The handler returned an error: msg.Nak(). *)
Nak(c) ==
  /\ busy' = [busy EXCEPT ![c] = Free]
  /\ redeliver' = [redeliver EXCEPT ![c] = @ \cup {busy[c]}]
  /\ UNCHANGED delivered

(***************************************************************************)
(* The ack wait of a message expires while its callback runs, while its    *)
(* acknowledgement is lost, or while it still sits in the client's buffer: *)
(* the server will deliver it once more, whatever the callback returns.    *)
(***************************************************************************)
AckWaitExpires(c, i) ==
  /\ Fault
  /\ i \in {busy[c]} \cup (delivered[c] + 1) .. Len(log[c])
  /\ i # Free
  /\ redeliver' = [redeliver EXCEPT ![c] = @ \cup {i}]
  /\ UNCHANGED <<log, delivered, busy>>

(* The subscriber's process dies: what was in a callback is redelivered.  So *)
(* it is when it stops without having created its durable consumers.       *)
DropCallbacks ==
  /\ busy' = [c \in Consumer |-> Free]
  /\ redeliver' = [c \in Consumer |-> redeliver[c] \cup ({busy[c]} \ {Free})]
  /\ UNCHANGED <<log, delivered>>

(***************************************************************************)
(* The process stops on a signal.  Subscribe lets the client library create *)
(* the durable consumers, and such a consumer is deleted when its           *)
(* subscription has been drained (external).  The next process creates new  *)
(* ones, which are offered the whole stream again.                          *)
(***************************************************************************)
DeleteConsumers ==
  /\ busy' = [c \in Consumer |-> Free]
  /\ delivered' = [c \in Consumer |-> 0]
  /\ redeliver' = [c \in Consumer |-> {}]
  /\ UNCHANGED log

(* Position i of c was delivered and is owed nothing more. *)
Retired(c, i) ==
  /\ i \in 1 .. delivered[c]
  /\ i \notin redeliver[c]
  /\ i # busy[c]
=============================================================================
