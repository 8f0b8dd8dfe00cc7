------------------------- MODULE ProvisioningProofs -------------------------
(***************************************************************************)
(* Proofs about Provisioning, for any machines, workers and bounds.        *)
(***************************************************************************)
EXTENDS Provisioning, SequenceTheorems, TLAPS

-----------------------------------------------------------------------------
(***************************************************************************)
(* The bus.  Each operator keeps BusTypeOK; Message is any set of messages.*)
(***************************************************************************)
LEMMA StoreKeeps ==
  ASSUME NEW Msg, BusTypeOK(Msg), NEW c \in Consumer, NEW m \in Msg, Store(c, m)
  PROVE  /\ log' \in [Consumer -> Seq(Msg)]
         /\ \A d \in Consumer :
              /\ Len(log[d]) \in Nat /\ Len(log'[d]) \in Nat
              /\ Len(log[d]) <= Len(log'[d])
              /\ \A i \in 1 .. Len(log[d]) : log'[d][i] = log[d][i]
         /\ \A d \in Consumer \ {c} : log'[d] = log[d]
         /\ Len(log'[c]) = Len(log[c]) + 1
         /\ log'[c][Len(log[c]) + 1] = m
<1> DEFINE q == log[c]
<1>1. \A d \in Consumer : log[d] \in Seq(Msg)
  BY DEF BusTypeOK
<1>2. /\ Append(q, m) \in Seq(Msg)
      /\ Len(Append(q, m)) = Len(q) + 1
      /\ \A i \in 1 .. Len(q) : Append(q, m)[i] = q[i]
      /\ Append(q, m)[Len(q) + 1] = m
  <2>1. q \in Seq(Msg)
    BY <1>1
  <2> QED BY <2>1, AppendProperties
<1>3. log \in [Consumer -> Seq(Msg)] /\ log' = [log EXCEPT ![c] = Append(q, m)]
  BY DEF BusTypeOK, Store
<1>4. \A d \in Consumer : Len(log[d]) \in Nat
  BY <1>1, LenProperties
<1> HIDE DEF q
<1>5. /\ log' \in [Consumer -> Seq(Msg)]
      /\ log'[c] = Append(q, m)
      /\ \A d \in Consumer \ {c} : log'[d] = log[d]
  BY <1>2, <1>3
<1>6. Len(log'[c]) = Len(log[c]) + 1 /\ log'[c][Len(log[c]) + 1] = m
  BY <1>2, <1>5 DEF q
<1>7. \A d \in Consumer :
        /\ Len(log[d]) \in Nat /\ Len(log'[d]) \in Nat
        /\ Len(log[d]) <= Len(log'[d])
        /\ \A i \in 1 .. Len(log[d]) : log'[d][i] = log[d][i]
  <2>1. \A i \in 1 .. Len(log[c]) : log'[c][i] = log[c][i]
    BY <1>2, <1>5 DEF q
  <2> QED BY <2>1, <1>4, <1>5, <1>6
<1> QED BY <1>5, <1>6, <1>7

LEMMA DeliverKeeps ==
  ASSUME NEW Msg, BusTypeOK(Msg), NEW c \in Consumer,
         NEW i \in 1 .. Len(log[c]), Deliver(c, i)
  PROVE  BusTypeOK(Msg)'
<1>1. \A d \in Consumer : Len(log[d]) \in Nat
  BY LenProperties DEF BusTypeOK
<1>2. CASE DeliverNext(c, i)
  BY <1>1, <1>2 DEF BusTypeOK, DeliverNext, Free
<1>3. CASE Redeliver(c, i)
  BY <1>1, <1>3 DEF BusTypeOK, Redeliver, Free
<1> QED BY <1>2, <1>3 DEF Deliver

LEMMA FaultType == faults \in 0 .. MaxFaults /\ Fault => faults' \in 0 .. MaxFaults
BY MaxFaultsAssumption DEF Fault

(* An acknowledgement, positive or negative, with or without a publish. *)
LEMMA AckKeeps ==
  ASSUME NEW Msg, BusTypeOK(Msg), NEW c \in Consumer,
         \/ Ack(c)
         \/ Nak(c) /\ busy[c] # Free,
         faults' \in 0 .. MaxFaults,
         \/ UNCHANGED log
         \/ \E d \in Consumer, m \in Msg : Store(d, m)
  PROVE  BusTypeOK(Msg)'
<1>1. \A d \in Consumer : Len(log[d]) \in Nat
  BY LenProperties DEF BusTypeOK
<1>2. /\ log' \in [Consumer -> Seq(Msg)]
      /\ \A d \in Consumer : Len(log[d]) <= Len(log'[d]) /\ Len(log'[d]) \in Nat
  <2>1. CASE UNCHANGED log
    BY <2>1, <1>1 DEF BusTypeOK
  <2>2. CASE \E d \in Consumer, m \in Msg : Store(d, m)
    BY <2>2, StoreKeeps
  <2> QED BY <2>1, <2>2
<1>3. CASE Ack(c)
  <2>1. /\ delivered' = delivered /\ redeliver' = redeliver
        /\ busy' = [busy EXCEPT ![c] = Free]
    BY <1>3 DEF Ack
  <2>2. /\ delivered' \in [Consumer -> Nat] /\ busy' \in [Consumer -> Nat]
        /\ redeliver' \in [Consumer -> SUBSET Nat]
    BY <2>1 DEF BusTypeOK, Free
  <2>3. \A d \in Consumer :
          /\ delivered'[d] <= Len(log'[d])
          /\ redeliver'[d] \subseteq 1 .. Len(log'[d])
          /\ busy'[d] \in {Free} \cup 1 .. Len(log'[d])
    <3> SUFFICES ASSUME NEW d \in Consumer
                 PROVE  /\ delivered[d] <= Len(log'[d])
                        /\ redeliver[d] \subseteq 1 .. Len(log'[d])
                        /\ busy'[d] \in {Free} \cup 1 .. Len(log'[d])
      BY <2>1
    <3>1. /\ delivered[d] <= Len(log[d]) /\ delivered[d] \in Nat
          /\ redeliver[d] \subseteq 1 .. Len(log[d])
          /\ busy[d] \in {Free} \cup 1 .. Len(log[d])
          /\ busy'[d] \in {Free, busy[d]}
      BY <2>1 DEF BusTypeOK
    <3> QED BY <3>1, <1>1, <1>2 DEF Free
  <2> QED BY <2>2, <2>3, <1>2 DEF BusTypeOK
<1>4. CASE Nak(c) /\ busy[c] # Free
  <2>1. /\ delivered' = delivered
        /\ redeliver' = [redeliver EXCEPT ![c] = @ \cup {busy[c]}]
        /\ busy' = [busy EXCEPT ![c] = Free]
    BY <1>4 DEF Nak
  <2>2. /\ delivered' \in [Consumer -> Nat] /\ busy' \in [Consumer -> Nat]
        /\ redeliver' \in [Consumer -> SUBSET Nat]
    BY <2>1 DEF BusTypeOK, Free
  <2>3. \A d \in Consumer :
          /\ delivered'[d] <= Len(log'[d])
          /\ redeliver'[d] \subseteq 1 .. Len(log'[d])
          /\ busy'[d] \in {Free} \cup 1 .. Len(log'[d])
    <3> SUFFICES ASSUME NEW d \in Consumer
                 PROVE  /\ delivered[d] <= Len(log'[d])
                        /\ redeliver'[d] \subseteq 1 .. Len(log'[d])
                        /\ busy'[d] \in {Free} \cup 1 .. Len(log'[d])
      BY <2>1
    <3>1. /\ delivered[d] <= Len(log[d]) /\ delivered[d] \in Nat
          /\ redeliver'[d] \subseteq 1 .. Len(log[d])
          /\ busy[d] \in {Free} \cup 1 .. Len(log[d])
          /\ busy'[d] \in {Free, busy[d]}
      BY <2>1, <1>4 DEF BusTypeOK, Free
    <3> QED BY <3>1, <1>1, <1>2 DEF Free
  <2> QED BY <2>2, <2>3, <1>2 DEF BusTypeOK
<1> QED BY <1>3, <1>4

(* Whatever can expire an ack wait, or a crash, owes only logged messages. *)
LEMMA AckWaitKeeps ==
  ASSUME NEW Msg, BusTypeOK(Msg), NEW c \in Consumer,
         NEW i \in 1 .. Len(log[c]), AckWaitExpires(c, i)
  PROVE  BusTypeOK(Msg)'
<1>1. \A d \in Consumer : Len(log[d]) \in Nat
  BY LenProperties DEF BusTypeOK
<1>2. faults' \in 0 .. MaxFaults
  BY FaultType DEF AckWaitExpires, BusTypeOK
<1> QED BY <1>1, <1>2 DEF BusTypeOK, AckWaitExpires, Free

LEMMA DropKeeps ==
  ASSUME NEW Msg, BusTypeOK(Msg), DropCallbacks, faults' \in 0 .. MaxFaults
  PROVE  BusTypeOK(Msg)'
<1>1. \A d \in Consumer : Len(log[d]) \in Nat
  BY LenProperties DEF BusTypeOK
<1> QED BY <1>1 DEF BusTypeOK, DropCallbacks, Free

(* New consumers start at the beginning of the stream. *)
LEMMA DeleteKeeps ==
  ASSUME NEW Msg, BusTypeOK(Msg), DeleteConsumers, faults' \in 0 .. MaxFaults
  PROVE  BusTypeOK(Msg)'
<1>1. \A d \in Consumer : Len(log[d]) \in Nat
  BY LenProperties DEF BusTypeOK
<1> QED BY <1>1 DEF BusTypeOK, DeleteConsumers, Free

-----------------------------------------------------------------------------
(***************************************************************************)
(* The runs table.                                                         *)
(***************************************************************************)
LEMMA InsertKeeps ==
  ASSUME RunsTypeOK, NEW r \in RunId, NEW m \in Machine, NEW bp \in BOOLEAN,
         InsertRun(r, m, bp)
  PROVE  /\ RunsTypeOK'
         /\ nextRun' = nextRun
         /\ runs'[r] = [machine |-> m, status |-> "running", blueprint |-> bp]
         /\ \A s \in RunId \ {r} : runs'[s] = runs[s]
BY DEF RunsTypeOK, InsertRun, Row, RunStatus

LEMMA UpdateKeeps ==
  ASSUME RunsTypeOK, NEW r \in RunId, Exists(r),
         NEW s \in FinishStatus \cup {"success"}, UpdateStatus(r, s)
  PROVE  /\ RunsTypeOK'
         /\ nextRun' = nextRun
         /\ runs'[r].machine = runs[r].machine
         /\ runs'[r].blueprint = runs[r].blueprint
         /\ runs'[r].status = s /\ s # "absent"
         /\ \A t \in RunId \ {r} : runs'[t] = runs[t]
BY FinishStatusAssumption
   DEF RunsTypeOK, UpdateStatus, Row, RunStatus, Exists, NoRow

LEMMA AllocateKeeps ==
  ASSUME RunsTypeOK, NEW r \in RunId, AllocateRun(r)
  PROVE  r = nextRun /\ nextRun' = nextRun + 1 /\ nextRun' \in 1 .. MaxRuns + 1
BY MaxRunsAssumption DEF RunsTypeOK, AllocateRun, RunId

-----------------------------------------------------------------------------
(***************************************************************************)
(* Type correctness, one step per action.                                  *)
(***************************************************************************)
LEMMA EnrollingType ==
  ASSUME TypeOK, enrolling.pc # "idle"
  PROVE  /\ enrolling.machine \in Machine
         /\ enrolling.run \in RunRef
         /\ enrolling.pc \in EnrollPc
         /\ busy["machines"] # Free
BY DEF TypeOK, SmTypeOK, Job, IdleJob

LEMMA CompletingType ==
  ASSUME TypeOK, completing.pc # "idle"
  PROVE  /\ completing.machine \in Machine
         /\ completing.run \in RunRef
         /\ completing.pc \in FactsPc
         /\ busy["facts"] # Free
BY DEF TypeOK, SmTypeOK, Job, IdleJob

LEMMA EnrollingRecord ==
  ASSUME TypeOK, enrolling.pc # "idle"
  PROVE  enrolling \in [pc : EnrollPc, machine : Machine, run : RunRef]
BY DEF TypeOK, SmTypeOK, Job, IdleJob

LEMMA CompletingRecord ==
  ASSUME TypeOK, completing.pc # "idle"
  PROVE  completing \in [pc : FactsPc, machine : Machine, run : RunRef]
BY DEF TypeOK, SmTypeOK, Job, IdleJob

LEMMA ServingType ==
  ASSUME TypeOK, NEW w \in Worker, serving[w].pc # "idle"
  PROVE  /\ serving[w].machine \in Machine
         /\ serving[w].run \in RunRef
         /\ serving[w].pc \in ServePc
BY DEF TypeOK, ApiTypeOK, Request, NoRequest

LEMMA LogType ==
  ASSUME TypeOK, NEW c \in Consumer, NEW i \in 1 .. Len(log[c])
  PROVE  log[c][i] \in Message
BY ElementOfSeq DEF TypeOK, BusTypeOK

(* The four consumers are the four subjects. *)
LEMMA Consumers ==
  /\ "machines" \in Consumer /\ "facts" \in Consumer
  /\ "started" \in Consumer /\ "finished" \in Consumer
BY ConsumerAssumption

LEMMA PublishKeeps ==
  ASSUME NEW Msg, BusTypeOK(Msg), NEW c \in Consumer, busy[c] # Free,
         NEW d \in Consumer, NEW m \in Msg, PublishAndReturn(c, d, m)
  PROVE  BusTypeOK(Msg)'
<1>1. faults' \in 0 .. MaxFaults
  BY FaultType DEF PublishAndReturn, BusTypeOK
<1>2. Ack(c) \/ Nak(c)
  BY DEF PublishAndReturn
<1>3. UNCHANGED log \/ Store(d, m)
  BY DEF PublishAndReturn
<1> QED BY <1>1, <1>2, <1>3, AckKeeps

LEMMA EnrolledTypes ==
  ASSUME TypeOK, RefsOK, UNCHANGED apiVars, EnrolledStep \/ EnrolledDbError
  PROVE  TypeOK'
<1> USE Consumers
<1> DEFINE EnrolledA ==
      \/ EnrolledCheckActive \/ EnrolledFindRunning \/ EnrolledAdopt
      \/ EnrolledNewRun \/ EnrolledCreate \/ EnrolledRemember
<1>0. EnrolledA \/ EnrolledAnnounce \/ EnrolledDbError
  BY DEF EnrolledStep
<1>1. ApiTypeOK'
  BY DEF TypeOK, ApiTypeOK, apiVars
<1>2. enrolling.pc # "idle"
  BY <1>0 DEF EnrolledDbError, EnrolledCheckActive,
         EnrolledFindRunning, EnrolledAdopt, EnrolledNewRun, EnrolledCreate,
         EnrolledRemember, EnrolledAnnounce
<1>3. /\ enrolling.machine \in Machine /\ enrolling.run \in RunRef
      /\ enrolling.pc \in EnrollPc /\ busy["machines"] # Free
  BY <1>2, EnrollingType
<1>4. BusTypeOK(Message) /\ faults \in 0 .. MaxFaults
  BY DEF TypeOK, BusTypeOK
<1>5. BusTypeOK(Message)'
  <2>1. CASE EnrolledA
    <3>1. log' = log /\ faults' = faults
      BY <2>1 DEF EnrolledCheckActive, EnrolledFindRunning, EnrolledAdopt,
                  EnrolledNewRun, EnrolledCreate, EnrolledRemember
    <3>2. Ack("machines") \/ KeepBus
      BY <2>1 DEF EnrolledCheckActive, EnrolledFindRunning, EnrolledAdopt,
                  EnrolledNewRun, EnrolledCreate, EnrolledRemember
    <3>3. CASE KeepBus
      BY <1>4, <3>1, <3>3 DEF BusTypeOK, KeepBus
    <3> QED BY <1>4, <3>1, <3>2, <3>3, AckKeeps
  <2>2. CASE EnrolledAnnounce
    <3>1. RunEvent(enrolling.machine, enrolling.run) \in Message
      BY <1>3 DEF RunEvent, Message
    <3> QED BY <1>3, <1>4, <2>2, <3>1, PublishKeeps DEF EnrolledAnnounce
  <2>3. CASE EnrolledDbError
    BY <1>3, <1>4, <2>3, FaultType, AckKeeps DEF EnrolledDbError
  <2> QED BY <1>0, <2>1, <2>2, <2>3
<1>6. RunsTypeOK'
  <2>1. CASE InsertRun(enrolling.run, enrolling.machine, FALSE)
    <3>1. CASE enrolling.run \in RunId
      BY <1>3, <2>1, <3>1, InsertKeeps DEF TypeOK
    <3>2. CASE enrolling.run \notin RunId
      BY <2>1, <3>2 DEF TypeOK, RunsTypeOK, InsertRun
    <3> QED BY <3>1, <3>2
  <2>2. CASE EnrolledNewRun
    BY <2>2, AllocateKeeps DEF EnrolledNewRun, TypeOK, RunsTypeOK
  <2>3. CASE UNCHANGED runVars
    BY <2>3 DEF TypeOK, RunsTypeOK, runVars
  <2> QED BY <1>0, <2>1, <2>2, <2>3
        DEF EnrolledDbError, EnrolledCheckActive, EnrolledFindRunning,
            EnrolledAdopt, EnrolledCreate, EnrolledRemember, EnrolledAnnounce
<1>7. completing' = completing /\ busy'["facts"] = busy["facts"]
  BY <1>0, <1>4 DEF EnrolledDbError, EnrolledCheckActive, EnrolledFindRunning,
       EnrolledAdopt, EnrolledNewRun, EnrolledCreate, EnrolledRemember,
       EnrolledAnnounce, PublishAndReturn, Ack, Nak, KeepBus, BusTypeOK
<1>8. active' \in [Machine -> RunRef]
  BY <1>0, <1>3 DEF EnrolledDbError, EnrolledCheckActive, EnrolledFindRunning,
       EnrolledAdopt, EnrolledNewRun, EnrolledCreate, EnrolledRemember,
       EnrolledAnnounce, SetActive, TypeOK, SmTypeOK
<1>9. enrolling' \in Job(EnrollPc) /\ (busy'["machines"] = Free <=> enrolling'.pc = "idle")
  <2>1. CASE enrolling' = IdleJob /\ (Ack("machines") \/ Nak("machines"))
    BY <1>4, <2>1 DEF BusTypeOK, Ack, Nak, Job, IdleJob
  <2>2. CASE /\ KeepBus
             /\ \E p \in EnrollPc, r \in RunRef :
                  \/ enrolling' = [enrolling EXCEPT !.pc = p]
                  \/ enrolling' = [enrolling EXCEPT !.pc = p, !.run = r]
    <3>1. "idle" \notin EnrollPc /\ enrolling \in Job(EnrollPc)
      BY DEF EnrollPc, TypeOK, SmTypeOK
    <3>2. PICK p \in EnrollPc, r \in RunRef :
            \/ enrolling' = [enrolling EXCEPT !.pc = p]
            \/ enrolling' = [enrolling EXCEPT !.pc = p, !.run = r]
      BY <2>2
    <3>3. enrolling \in [pc : EnrollPc, machine : Machine, run : RunRef]
      BY <1>2, <3>1 DEF Job, IdleJob
    <3>4. enrolling' \in Job(EnrollPc) /\ enrolling'.pc = p
      BY <3>2, <3>3 DEF Job
    <3> QED BY <1>3, <2>2, <3>1, <3>4 DEF KeepBus
  <2> QED
    BY <1>0, <2>1, <2>2
    DEF EnrolledDbError, EnrolledCheckActive, EnrolledFindRunning,
       EnrolledAdopt, EnrolledNewRun, EnrolledCreate, EnrolledRemember,
       EnrolledAnnounce, PublishAndReturn, EnrollPc, RunRef
<1> QED BY <1>1, <1>5, <1>6, <1>7, <1>8, <1>9 DEF TypeOK, SmTypeOK

LEMMA FactsTypes ==
  ASSUME TypeOK, RefsOK, UNCHANGED apiVars, FactsStep \/ FactsDbError
  PROVE  TypeOK'
<1> USE Consumers
<1> DEFINE FactsA ==
      \/ FactsCheck \/ FactsFindRunning \/ FactsAdopt
      \/ FactsUpdate \/ FactsClear
<1>0. FactsA \/ FactsAnnounce \/ FactsDbError
  BY DEF FactsStep
<1>1. ApiTypeOK'
  BY DEF TypeOK, ApiTypeOK, apiVars
<1>2. completing.pc # "idle"
  BY <1>0 DEF FactsDbError, FactsCheck, FactsFindRunning, FactsAdopt,
         FactsUpdate, FactsClear, FactsAnnounce
<1>3. /\ completing.machine \in Machine /\ completing.run \in RunRef
      /\ completing.pc \in FactsPc /\ busy["facts"] # Free
  BY <1>2, CompletingType
<1>4. BusTypeOK(Message) /\ faults \in 0 .. MaxFaults
  BY DEF TypeOK, BusTypeOK
<1>5. BusTypeOK(Message)'
  <2>1. CASE FactsA
    <3>1. log' = log /\ faults' = faults
      BY <2>1 DEF FactsCheck, FactsFindRunning, FactsAdopt, FactsUpdate, FactsClear
    <3>2. Ack("facts") \/ KeepBus
      BY <2>1 DEF FactsCheck, FactsFindRunning, FactsAdopt, FactsUpdate, FactsClear
    <3>3. CASE KeepBus
      BY <1>4, <3>1, <3>3 DEF BusTypeOK, KeepBus
    <3> QED BY <1>4, <3>1, <3>2, <3>3, AckKeeps
  <2>2. CASE FactsAnnounce
    <3>1. RunEvent(completing.machine, completing.run) \in Message
      BY <1>3 DEF RunEvent, Message
    <3> QED BY <1>3, <1>4, <2>2, <3>1, PublishKeeps DEF FactsAnnounce
  <2>3. CASE FactsDbError
    BY <1>3, <1>4, <2>3, FaultType, AckKeeps DEF FactsDbError
  <2> QED BY <1>0, <2>1, <2>2, <2>3
<1>6. RunsTypeOK'
  <2>1. CASE completing.pc = "update" /\ UpdateStatus(completing.run, "success")
    <3>1. Exists(completing.run) /\ completing.run \in RunId
      BY <2>1 DEF RefsOK, OwnRun, Exists
    <3> QED BY <2>1, <3>1, UpdateKeeps DEF TypeOK
  <2>2. CASE UNCHANGED runVars
    BY <2>2 DEF TypeOK, RunsTypeOK, runVars
  <2> QED BY <1>0, <2>1, <2>2
        DEF FactsDbError, FactsCheck, FactsFindRunning, FactsAdopt,
            FactsUpdate, FactsClear, FactsAnnounce
<1>7. enrolling' = enrolling /\ busy'["machines"] = busy["machines"]
  BY <1>0, <1>4 DEF FactsDbError, FactsCheck, FactsFindRunning, FactsAdopt,
       FactsUpdate, FactsClear, FactsAnnounce, PublishAndReturn, Ack, Nak,
       KeepBus, BusTypeOK
<1>8. active' \in [Machine -> RunRef]
  BY <1>0, <1>3 DEF FactsDbError, FactsCheck, FactsFindRunning, FactsAdopt,
       FactsUpdate, FactsClear, FactsAnnounce, SetActive, ClearActive,
       TypeOK, SmTypeOK, RunRef
<1>9. completing' \in Job(FactsPc) /\ (busy'["facts"] = Free <=> completing'.pc = "idle")
  <2>1. CASE completing' = IdleJob /\ (Ack("facts") \/ Nak("facts"))
    BY <1>4, <2>1 DEF BusTypeOK, Ack, Nak, Job, IdleJob
  <2>2. CASE /\ KeepBus
             /\ \E p \in FactsPc, r \in RunRef :
                  \/ completing' = [completing EXCEPT !.pc = p]
                  \/ completing' = [completing EXCEPT !.pc = p, !.run = r]
    <3>1. "idle" \notin FactsPc /\ completing \in Job(FactsPc)
      BY DEF FactsPc, TypeOK, SmTypeOK
    <3>2. PICK p \in FactsPc, r \in RunRef :
            \/ completing' = [completing EXCEPT !.pc = p]
            \/ completing' = [completing EXCEPT !.pc = p, !.run = r]
      BY <2>2
    <3>3. completing \in [pc : FactsPc, machine : Machine, run : RunRef]
      BY <1>2, <3>1 DEF Job, IdleJob
    <3>4. completing' \in Job(FactsPc) /\ completing'.pc = p
      BY <3>2, <3>3 DEF Job
    <3> QED BY <1>3, <2>2, <3>1, <3>4 DEF KeepBus
  <2>3. active[completing.machine] \in RunRef
    BY <1>3 DEF TypeOK, SmTypeOK
  <2> QED
    BY <1>0, <2>1, <2>2, <2>3
    DEF FactsDbError, FactsCheck, FactsFindRunning, FactsAdopt, FactsUpdate,
        FactsClear, FactsAnnounce, PublishAndReturn, FactsPc, RunRef
<1> QED BY <1>1, <1>5, <1>6, <1>7, <1>8, <1>9 DEF TypeOK, SmTypeOK

(* Deliveries, the two map-only handlers, restarts, expired ack waits. *)
LEMMA OtherSmTypes ==
  ASSUME TypeOK, UNCHANGED apiVars,
         \/ \E c \in Consumer : \E i \in 1 .. Len(log[c]) :
              \/ c = "machines" /\ EnrolledBegin(i)
              \/ c = "facts" /\ FactsBegin(i)
              \/ LifecycleBegin(c, i)
         \/ RunStartedSetActive \/ RunFinishedClearActive
         \/ Restart \/ Stop
         \/ \E c \in Consumer : AckWait(c)
  PROVE  TypeOK'
<1> USE Consumers
<1>1. ApiTypeOK'
  BY DEF TypeOK, ApiTypeOK, apiVars
<1>2. RunsTypeOK'
  BY DEF TypeOK, RunsTypeOK, runVars, EnrolledBegin, FactsBegin,
         LifecycleBegin, RunStartedSetActive, RunFinishedClearActive,
         Restart, Stop, AckWait
<1>3. BusTypeOK(Message) /\ faults \in 0 .. MaxFaults
  BY DEF TypeOK, BusTypeOK
<1>4. ASSUME NEW i \in 1 .. Len(log["machines"]), EnrolledBegin(i)
      PROVE  TypeOK'
  <2>1. BusTypeOK(Message)'
    BY <1>3, <1>4, DeliverKeeps DEF EnrolledBegin
  <2>2. busy' = [busy EXCEPT !["machines"] = i] /\ i # Free
    BY <1>4 DEF EnrolledBegin, Deliver, DeliverNext, Redeliver, Free
  <2>3. enrolling' \in Job(EnrollPc) /\ enrolling'.pc = "check"
    BY <1>4, LogType DEF EnrolledBegin, Job, EnrollPc, Message, RunRef, NoRun
  <2>4. SmTypeOK'
    BY <1>3, <1>4, <2>2, <2>3 DEF EnrolledBegin, TypeOK, SmTypeOK, BusTypeOK
  <2> QED BY <1>1, <1>2, <2>1, <2>4 DEF TypeOK
<1>5. ASSUME NEW i \in 1 .. Len(log["facts"]), FactsBegin(i)
      PROVE  TypeOK'
  <2>1. BusTypeOK(Message)'
    BY <1>3, <1>5, DeliverKeeps DEF FactsBegin
  <2>2. busy' = [busy EXCEPT !["facts"] = i] /\ i # Free
    BY <1>5 DEF FactsBegin, Deliver, DeliverNext, Redeliver, Free
  <2>3. completing' \in Job(FactsPc) /\ completing'.pc = "check"
    BY <1>5, LogType DEF FactsBegin, Job, FactsPc, Message, RunRef, NoRun
  <2>4. SmTypeOK'
    BY <1>3, <1>5, <2>2, <2>3 DEF FactsBegin, TypeOK, SmTypeOK, BusTypeOK
  <2> QED BY <1>1, <1>2, <2>1, <2>4 DEF TypeOK
<1>6. ASSUME NEW c \in Consumer, NEW i \in 1 .. Len(log[c]), LifecycleBegin(c, i)
      PROVE  TypeOK'
  <2>1. BusTypeOK(Message)'
    BY <1>3, <1>6, DeliverKeeps DEF LifecycleBegin
  <2>2. busy' = [busy EXCEPT ![c] = i] /\ c \in {"started", "finished"}
    BY <1>6 DEF LifecycleBegin, Deliver, DeliverNext, Redeliver
  <2>3. SmTypeOK'
    BY <1>3, <1>6, <2>2 DEF LifecycleBegin, TypeOK, SmTypeOK, BusTypeOK, smVars
  <2> QED BY <1>1, <1>2, <2>1, <2>3 DEF TypeOK
<1>7. CASE RunStartedSetActive \/ RunFinishedClearActive
  <2>1. BusTypeOK(Message)'
    BY <1>3, <1>7, AckKeeps DEF RunStartedSetActive, RunFinishedClearActive
  <2>2. ASSUME NEW c \in Consumer, busy[c] # Free
        PROVE  log[c][busy[c]] \in Message
    <3>1. busy[c] \in 1 .. Len(log[c])
      BY <1>3, <2>2 DEF BusTypeOK
    <3> QED BY <3>1, LogType
  <2>3. active' \in [Machine -> RunRef]
    BY <1>7, <2>2 DEF RunStartedSetActive, RunFinishedClearActive, SetActive,
       ClearActive, TypeOK, SmTypeOK, Message, RunRef
  <2>4. SmTypeOK'
    BY <1>3, <1>7, <2>3 DEF RunStartedSetActive, RunFinishedClearActive,
       TypeOK, SmTypeOK, BusTypeOK, Ack
  <2> QED BY <1>1, <1>2, <2>1, <2>4 DEF TypeOK
<1>8. CASE Restart \/ Stop
  <2>1. BusTypeOK(Message)'
    BY <1>3, <1>8, FaultType, DropKeeps, DeleteKeeps DEF Restart, Stop
  <2>2. SmTypeOK'
    BY <1>3, <1>8 DEF Restart, Stop, DropCallbacks, DeleteConsumers, SmTypeOK,
       Job, IdleJob, RunRef
  <2> QED BY <1>1, <1>2, <2>1, <2>2 DEF TypeOK
<1>9. ASSUME NEW c \in Consumer, AckWait(c)
      PROVE  TypeOK'
  <2>1. BusTypeOK(Message)'
    BY <1>3, <1>9, AckWaitKeeps DEF AckWait
  <2>2. SmTypeOK'
    BY <1>9 DEF AckWait, AckWaitExpires, TypeOK, SmTypeOK, smVars
  <2> QED BY <1>1, <1>2, <2>1, <2>2 DEF TypeOK
<1> QED BY <1>4, <1>5, <1>6, <1>7, <1>8, <1>9

LEMMA PublishJSONKeeps ==
  ASSUME NEW Msg, BusTypeOK(Msg), NEW c \in Consumer, NEW m \in Msg,
         PublishJSON(c, m)
  PROVE  BusTypeOK(Msg)'
<1>1. \A d \in Consumer : Len(log[d]) \in Nat
  BY LenProperties DEF BusTypeOK
<1>2. faults' \in 0 .. MaxFaults
  BY FaultType DEF PublishJSON, BusTypeOK
<1>3. /\ log' \in [Consumer -> Seq(Msg)]
      /\ \A d \in Consumer : Len(log[d]) <= Len(log'[d]) /\ Len(log'[d]) \in Nat
  <2>1. CASE UNCHANGED log
    BY <2>1, <1>1 DEF BusTypeOK
  <2>2. CASE Store(c, m)
    BY <2>2, StoreKeeps
  <2> QED BY <2>1, <2>2 DEF PublishJSON
<1>4. \A d \in Consumer :
        /\ delivered[d] <= Len(log'[d])
        /\ redeliver[d] \subseteq 1 .. Len(log'[d])
        /\ busy[d] \in {Free} \cup 1 .. Len(log'[d])
  <2> SUFFICES ASSUME NEW d \in Consumer
               PROVE  /\ delivered[d] <= Len(log'[d])
                      /\ redeliver[d] \subseteq 1 .. Len(log'[d])
                      /\ busy[d] \in {Free} \cup 1 .. Len(log'[d])
    OBVIOUS
  <2>1. /\ delivered[d] <= Len(log[d]) /\ delivered[d] \in Nat
        /\ redeliver[d] \subseteq 1 .. Len(log[d])
        /\ busy[d] \in {Free} \cup 1 .. Len(log[d])
    BY DEF BusTypeOK
  <2> QED BY <2>1, <1>1, <1>3
<1> QED BY <1>2, <1>3, <1>4 DEF PublishJSON, BusTypeOK

LEMMA ApiTypes ==
  ASSUME TypeOK, IdsOK, RefsOK, ApiNext, UNCHANGED smVars
  PROVE  TypeOK'
<1> USE Consumers
<1>1. BusTypeOK(Message) /\ RunsTypeOK /\ ApiTypeOK /\ faults \in 0 .. MaxFaults
  BY DEF TypeOK, BusTypeOK
<1>2. nextRun - 1 \in Nat /\ 1 .. nextRun - 1 \subseteq RunId
  BY <1>1, MaxRunsAssumption DEF RunsTypeOK, RunId
<1>3. ASSUME UNCHANGED busy, BusTypeOK(Message)', RunsTypeOK', ApiTypeOK'
      PROVE  TypeOK'
  BY <1>3 DEF TypeOK, SmTypeOK, smVars
<1>4. ASSUME Accept PROVE requests' \in 0 .. MaxRequests
  BY <1>1, <1>4, MaxRequestsAssumption DEF Accept, ApiTypeOK
<1>5. ASSUME NEW m \in Machine, UpsertMachine(m)
      PROVE  TypeOK'
  <2>1. [machine |-> m, run |-> NoRun, done |-> FALSE] \in Message
    BY DEF Message, RunRef
  <2>2. BusTypeOK(Message)'
    BY <1>1, <1>5, <2>1, PublishJSONKeeps DEF UpsertMachine
  <2> QED BY <1>1, <1>3, <1>4, <1>5, <2>2
          DEF UpsertMachine, PublishJSON, runVars, RunsTypeOK, ApiTypeOK
<1>6. ASSUME NEW m \in Machine, NEW d \in BOOLEAN, PostFacts(m, d)
      PROVE  TypeOK'
  <2>1. [machine |-> m, run |-> NoRun, done |-> d] \in Message
    BY DEF Message, RunRef
  <2>2. BusTypeOK(Message)'
    BY <1>1, <1>6, <2>1, PublishJSONKeeps DEF PostFacts
  <2> QED BY <1>1, <1>3, <1>4, <1>6, <2>2
          DEF PostFacts, PublishJSON, runVars, RunsTypeOK, ApiTypeOK
<1>7. ASSUME NEW w \in Worker, NEW m \in Machine, RunStart(w, m)
      PROVE  TypeOK'
  <2>1. BusTypeOK(Message)' /\ UNCHANGED busy
    BY <1>1, <1>7 DEF RunStart, busVars, BusTypeOK
  <2>2. PICK r \in RunId :
          /\ AllocateRun(r)
          /\ serving' = [serving EXCEPT ![w] =
                           [pc |-> "insert", machine |-> m, run |-> r]]
    BY <1>7 DEF RunStart
  <2>3. RunsTypeOK'
    BY <1>1, <1>7, <2>2, AllocateKeeps DEF RunStart, RunsTypeOK
  <2>4. ApiTypeOK'
    BY <1>1, <1>4, <1>7, <2>2
       DEF RunStart, ApiTypeOK, Request, ServePc, RunRef
  <2> QED BY <1>3, <2>1, <2>3, <2>4
<1>8. ASSUME NEW w \in Worker, RunStartInsert(w) \/ RunStartDbError(w)
      PROVE  TypeOK'
  <2>1. BusTypeOK(Message)' /\ UNCHANGED busy
    BY <1>1, <1>8, FaultType
       DEF RunStartInsert, RunStartDbError, busVars, BusTypeOK
  <2>2. /\ serving[w].pc = "insert"
        /\ serving[w].run \in RunId
        /\ serving[w].machine \in Machine
    BY <1>2, <1>8, ServingType DEF RunStartInsert, RunStartDbError, IdsOK
  <2>3. RunsTypeOK'
    BY <1>1, <1>8, <2>2, InsertKeeps
       DEF RunStartInsert, RunStartDbError, RunsTypeOK, runVars
  <2>4. serving[w] \in [pc : ServePc, machine : Machine, run : RunRef]
    BY <1>1, <2>2 DEF ApiTypeOK, Request, NoRequest
  <2>5. ApiTypeOK'
    BY <1>1, <1>8, <2>4
       DEF RunStartInsert, RunStartDbError, ApiTypeOK, Request, ServePc
  <2> QED BY <1>3, <2>1, <2>3, <2>5
<1>9. ASSUME NEW w \in Worker, NEW r \in RunId, NEW s \in FinishStatus,
             RunFinish(w, r, s) \/ RunFinishDbError(w, r, s)
      PROVE  TypeOK'
  <2>1. BusTypeOK(Message)' /\ UNCHANGED busy
    BY <1>1, <1>9, FaultType DEF RunFinish, RunFinishDbError, busVars, BusTypeOK
  <2>2. RunsTypeOK'
    BY <1>1, <1>9, UpdateKeeps DEF RunFinish, RunFinishDbError, SaveFinish
  <2>3. runs[r].machine \in Machine
    BY <1>1, <1>9
       DEF RunFinish, RunFinishDbError, SaveFinish, Exists, RunsTypeOK, Row, NoRow
  <2>4. ApiTypeOK'
    BY <1>1, <1>4, <1>9, <2>3
       DEF RunFinish, RunFinishDbError, SaveFinish, ApiTypeOK, Request, ServePc, RunRef
  <2> QED BY <1>3, <2>1, <2>2, <2>4
<1>10. ASSUME NEW w \in Worker, RunAnnounce(w)
       PROVE  TypeOK'
  <2>1. serving[w].machine \in Machine /\ serving[w].run \in RunRef
    BY <1>10, ServingType DEF RunAnnounce
  <2>2. [machine |-> serving[w].machine, run |-> serving[w].run, done |-> FALSE]
          \in Message
    BY <2>1 DEF Message
  <2>3. BusTypeOK(Message)'
    BY <1>1, <1>10, <2>2, PublishJSONKeeps DEF RunAnnounce
  <2>4. ApiTypeOK'
    BY <1>1, <1>10 DEF RunAnnounce, ApiTypeOK, Request
  <2> QED BY <1>1, <1>3, <1>10, <2>3, <2>4
          DEF RunAnnounce, PublishJSON, runVars, RunsTypeOK
<1> QED BY <1>5, <1>6, <1>7, <1>8, <1>9, <1>10 DEF ApiNext

LEMMA TypeStep == TypeOK /\ IdsOK /\ RefsOK /\ [Next]_vars => TypeOK'
<1> SUFFICES ASSUME TypeOK, IdsOK, RefsOK, [Next]_vars
             PROVE  TypeOK'
  OBVIOUS
<1>1. CASE UNCHANGED vars
  BY <1>1 DEF vars, busVars, runVars, smVars, apiVars, TypeOK, BusTypeOK,
              RunsTypeOK, SmTypeOK, ApiTypeOK
<1>2. CASE ApiStep
  BY <1>2, ApiTypes DEF ApiStep
<1>3. CASE SmStep
  BY <1>3, EnrolledTypes, FactsTypes, OtherSmTypes DEF SmStep, SmNext
<1> QED BY <1>1, <1>2, <1>3 DEF Next, Quiescent

-----------------------------------------------------------------------------
(***************************************************************************)
(* What a step can do to the table and to the log, whoever takes it.       *)
(***************************************************************************)

(* A row is inserted under an id allocated before; only handleMachineEnrolled *)
(* inserts rows without a blueprint.                                          *)
Opens(r, m, bp) ==
  /\ r \in 1 .. nextRun - 1
  /\ ~ Exists(r)
  /\ InsertRun(r, m, bp)
  /\ UNCHANGED reopened
  /\ bp = FALSE =>
       /\ enrolling.pc = "create" /\ enrolling'.pc # "create" /\ enrolling'.pc # "new"
       /\ m = enrolling.machine

Closes(r) ==
  /\ Exists(r)
  /\ \E s \in (FinishStatus \cup {"success"}) \ {"running"} : UpdateStatus(r, s)
  /\ UNCHANGED reopened

Reopens(r) ==
  /\ Exists(r)
  /\ "running" \in FinishStatus
  /\ UpdateStatus(r, "running")
  /\ reopened' = reopened \cup {r}

TableChange ==
  \/ UNCHANGED <<runs, reopened>> /\ nextRun' \in {nextRun, nextRun + 1}
  \/ \E r \in RunId, m \in Machine, bp \in BOOLEAN : Opens(r, m, bp)
  \/ \E r \in RunId : Closes(r) \/ Reopens(r)

LogChange ==
  \/ UNCHANGED log
  \/ \E c \in Consumer, msg \in Message :
       /\ Store(c, msg)
       /\ UNCHANGED <<runs, reopened>>
       /\ c \in {"started", "finished"} => OwnRun(msg.machine, msg.run)
       /\ c = "finished" => Ended(msg.run)

LEMMA Change ==
  ASSUME TypeOK, IdsOK, RefsOK, FinishedOK, [Next]_vars
  PROVE  TableChange /\ LogChange
<1> USE Consumers
<1>0. nextRun - 1 \in Nat /\ 1 .. nextRun - 1 \subseteq RunId /\ nextRun \in Nat
  BY MaxRunsAssumption DEF TypeOK, RunsTypeOK, RunId
<1>1. CASE UNCHANGED <<log, runs, nextRun, reopened>>
  BY <1>1 DEF TableChange, LogChange
<1>2. ASSUME UNCHANGED apiVars, EnrolledStep \/ EnrolledDbError
      PROVE  TableChange /\ LogChange
  <2>1. enrolling.pc # "idle"
    BY <1>2 DEF EnrolledDbError, EnrolledStep, EnrolledCheckActive,
         EnrolledFindRunning, EnrolledAdopt, EnrolledNewRun, EnrolledCreate,
         EnrolledRemember, EnrolledAnnounce
  <2>2. enrolling.machine \in Machine /\ enrolling.run \in RunRef
    BY <2>1, EnrollingType
  <2>3. \/ UNCHANGED runs /\ nextRun' \in {nextRun, nextRun + 1}
        \/ /\ enrolling.pc = "create" /\ enrolling'.pc \in {"remember", "idle"}
           /\ InsertRun(enrolling.run, enrolling.machine, FALSE)
    <3>1. enrolling \in [pc : EnrollPc, machine : Machine, run : RunRef]
      BY <2>1 DEF TypeOK, SmTypeOK, Job, IdleJob
    <3>2. CASE EnrolledCreate
      BY <3>1, <3>2 DEF EnrolledCreate
    <3>3. CASE EnrolledDbError
      BY <3>3 DEF EnrolledDbError, IdleJob, runVars
    <3> QED BY <1>2, <3>2, <3>3 DEF EnrolledStep, EnrolledCheckActive,
         EnrolledFindRunning, EnrolledAdopt, EnrolledNewRun,
         EnrolledRemember, EnrolledAnnounce, runVars, AllocateRun
  <2>4. TableChange
    <3>1. CASE /\ enrolling.pc = "create" /\ enrolling'.pc \in {"remember", "idle"}
               /\ InsertRun(enrolling.run, enrolling.machine, FALSE)
      <4>1. Opens(enrolling.run, enrolling.machine, FALSE)
        BY <1>2, <3>1 DEF Opens, IdsOK, apiVars
      <4>2. enrolling.run \in RunId
        BY <1>0, <3>1 DEF IdsOK
      <4> QED BY <2>2, <4>1, <4>2 DEF TableChange
    <3> QED BY <1>2, <2>3, <3>1 DEF TableChange, apiVars
  <2>5. CASE EnrolledAnnounce
    <3>1. RunEvent(enrolling.machine, enrolling.run) \in Message
      BY <2>2 DEF RunEvent, Message
    <3>2. OwnRun(enrolling.machine, enrolling.run)
      BY <2>5 DEF EnrolledAnnounce, RefsOK
    <3>3. UNCHANGED <<runs, reopened>>
      BY <1>2, <2>5 DEF EnrolledAnnounce, runVars, apiVars
    <3>4. \/ UNCHANGED log
          \/ Store("started", RunEvent(enrolling.machine, enrolling.run))
      BY <2>5 DEF EnrolledAnnounce, PublishAndReturn
    <3> QED BY <2>4, <3>1, <3>2, <3>3, <3>4 DEF LogChange, RunEvent
  <2>6. CASE ~ EnrolledAnnounce
    BY <1>2, <2>4, <2>6 DEF EnrolledDbError, EnrolledStep, EnrolledCheckActive,
         EnrolledFindRunning, EnrolledAdopt, EnrolledNewRun, EnrolledCreate,
         EnrolledRemember, LogChange
  <2> QED BY <2>5, <2>6
<1>3. ASSUME UNCHANGED apiVars, FactsStep \/ FactsDbError
      PROVE  TableChange /\ LogChange
  <2>1. completing.pc # "idle"
    BY <1>3 DEF FactsDbError, FactsStep, FactsCheck, FactsFindRunning,
         FactsAdopt, FactsUpdate, FactsClear, FactsAnnounce
  <2>2. completing.machine \in Machine /\ completing.run \in RunRef
    BY <2>1, CompletingType
  <2>3. \/ UNCHANGED <<runs, nextRun>>
        \/ completing.pc = "update" /\ UpdateStatus(completing.run, "success")
    BY <1>3 DEF FactsDbError, FactsStep, FactsCheck, FactsFindRunning,
         FactsAdopt, FactsUpdate, FactsClear, FactsAnnounce, runVars
  <2>4. TableChange
    <3>1. CASE completing.pc = "update" /\ UpdateStatus(completing.run, "success")
      <4>1. Exists(completing.run) /\ completing.run \in RunId
        BY <3>1 DEF RefsOK, OwnRun, Exists
      <4>2. Closes(completing.run)
        BY <1>3, <3>1, <4>1 DEF Closes, apiVars
      <4> QED BY <4>1, <4>2 DEF TableChange
    <3> QED BY <1>3, <2>3, <3>1 DEF TableChange, apiVars
  <2>5. CASE FactsAnnounce
    <3>1. RunEvent(completing.machine, completing.run) \in Message
      BY <2>2 DEF RunEvent, Message
    <3>2. /\ OwnRun(completing.machine, completing.run)
          /\ Ended(completing.run)
      BY <2>5 DEF FactsAnnounce, RefsOK, FinishedOK
    <3>3. UNCHANGED <<runs, reopened>>
      BY <1>3, <2>5 DEF FactsAnnounce, runVars, apiVars
    <3>4. \/ UNCHANGED log
          \/ Store("finished", RunEvent(completing.machine, completing.run))
      BY <2>5 DEF FactsAnnounce, PublishAndReturn
    <3> QED BY <2>4, <3>1, <3>2, <3>3, <3>4 DEF LogChange, RunEvent
  <2>6. CASE ~ FactsAnnounce
    BY <1>3, <2>4, <2>6 DEF FactsDbError, FactsStep, FactsCheck,
         FactsFindRunning, FactsAdopt, FactsUpdate, FactsClear, LogChange
  <2> QED BY <2>5, <2>6
<1>4. ASSUME NEW m \in Machine, NEW d \in BOOLEAN,
             UpsertMachine(m) \/ PostFacts(m, d)
      PROVE  TableChange /\ LogChange
  <2>1. UNCHANGED <<runs, nextRun, reopened>>
    BY <1>4 DEF UpsertMachine, PostFacts, runVars
  <2>2. [machine |-> m, run |-> NoRun, done |-> FALSE] \in Message
    BY DEF Message, RunRef
  <2>3. [machine |-> m, run |-> NoRun, done |-> d] \in Message
    BY DEF Message, RunRef
  <2>4. \/ UNCHANGED log
        \/ Store("machines", [machine |-> m, run |-> NoRun, done |-> FALSE])
        \/ Store("facts", [machine |-> m, run |-> NoRun, done |-> d])
    BY <1>4 DEF UpsertMachine, PostFacts, PublishJSON
  <2> QED BY <2>1, <2>2, <2>3, <2>4 DEF TableChange, LogChange
<1>5. ASSUME NEW w \in Worker, RunStartInsert(w) \/ RunStartDbError(w)
      PROVE  TableChange /\ LogChange
  <2>1. serving[w].pc = "insert" /\ UNCHANGED <<log, reopened>>
    BY <1>5 DEF RunStartInsert, RunStartDbError, busVars
  <2>2. /\ serving[w].machine \in Machine /\ ~ Exists(serving[w].run)
        /\ serving[w].run \in 1 .. nextRun - 1 /\ serving[w].run \in RunId
    BY <1>0, <2>1, ServingType DEF IdsOK
  <2>3. \/ UNCHANGED <<runs, nextRun>>
        \/ InsertRun(serving[w].run, serving[w].machine, TRUE)
    BY <1>5 DEF RunStartInsert, RunStartDbError, runVars
  <2> QED BY <2>1, <2>2, <2>3 DEF TableChange, LogChange, Opens
<1>6. ASSUME NEW w \in Worker, NEW r \in RunId, NEW s \in FinishStatus,
             RunFinish(w, r, s) \/ RunFinishDbError(w, r, s)
      PROVE  TableChange /\ LogChange
  <2>1. SaveFinish(r, s) /\ UNCHANGED log
    BY <1>6 DEF RunFinish, RunFinishDbError, busVars
  <2>2. CASE s = "running"
    <3>1. Reopens(r)
      BY <2>1, <2>2 DEF SaveFinish, Reopens
    <3> QED BY <2>1, <3>1 DEF TableChange, LogChange
  <2>3. CASE s # "running"
    <3>1. Closes(r)
      BY <2>1, <2>3 DEF SaveFinish, Closes
    <3> QED BY <2>1, <3>1 DEF TableChange, LogChange
  <2> QED BY <2>2, <2>3
<1>7. ASSUME NEW w \in Worker, RunAnnounce(w)
      PROVE  TableChange /\ LogChange
  <2>1. /\ serving[w].pc \in {"announceStarted", "announceFinished"}
        /\ UNCHANGED <<runs, nextRun, reopened>>
    BY <1>7 DEF RunAnnounce, runVars
  <2>2. /\ OwnRun(serving[w].machine, serving[w].run)
        /\ serving[w].pc = "announceFinished" => Ended(serving[w].run)
    BY <2>1 DEF RefsOK, FinishedOK
  <2> DEFINE evt == [machine |-> serving[w].machine, run |-> serving[w].run,
                     done |-> FALSE]
  <2>3. evt \in Message
    BY <2>1, ServingType DEF Message
  <2>4. \/ UNCHANGED log
        \/ Store("started", evt) /\ serving[w].pc = "announceStarted"
        \/ Store("finished", evt) /\ serving[w].pc = "announceFinished"
    BY <1>7 DEF RunAnnounce, PublishJSON
  <2>5. evt.machine = serving[w].machine /\ evt.run = serving[w].run
    OBVIOUS
  <2> HIDE DEF evt
  <2> QED BY <2>1, <2>2, <2>3, <2>4, <2>5 DEF TableChange, LogChange
<1>8. ASSUME NEW w \in Worker, NEW m \in Machine, RunStart(w, m)
      PROVE  TableChange /\ LogChange
  BY <1>8 DEF RunStart, TableChange, LogChange, AllocateRun, busVars
<1>9. CASE ApiNext
  BY <1>4, <1>5, <1>6, <1>7, <1>8, <1>9 DEF ApiNext
<1>10. CASE SmStep
  <2>1. CASE \/ \E c \in Consumer : \E i \in 1 .. Len(log[c]) :
                  \/ c = "machines" /\ EnrolledBegin(i)
                  \/ c = "facts" /\ FactsBegin(i)
                  \/ LifecycleBegin(c, i)
             \/ RunStartedSetActive \/ RunFinishedClearActive
             \/ Restart \/ Stop
             \/ \E c \in Consumer : AckWait(c)
    <3>1. UNCHANGED <<log, runs, nextRun, reopened>>
      BY <1>10, <2>1 DEF SmStep, apiVars, EnrolledBegin, FactsBegin, LifecycleBegin, Deliver,
         DeliverNext, Redeliver, RunStartedSetActive, RunFinishedClearActive,
         Restart, Stop, DropCallbacks, DeleteConsumers, AckWait,
         AckWaitExpires, runVars
    <3> QED BY <1>1, <3>1
  <2> QED BY <1>2, <1>3, <1>10, <2>1 DEF SmStep, SmNext
<1>11. CASE UNCHANGED vars
  BY <1>1, <1>11 DEF vars, busVars, runVars, apiVars
<1> QED BY <1>9, <1>10, <1>11 DEF Next, ApiStep, Quiescent

(* Rows and messages are never taken back, and what has ended stays ended. *)
Monotone ==
  /\ \A r \in RunId : Exists(r) =>
       /\ Exists(r)'
       /\ runs'[r].machine = runs[r].machine
       /\ runs'[r].blueprint = runs[r].blueprint
       /\ Ended(r) => Ended(r)'
  /\ \A c \in Consumer :
       /\ Len(log[c]) \in Nat /\ Len(log'[c]) \in Nat
       /\ Len(log[c]) <= Len(log'[c])
       /\ \A i \in 1 .. Len(log[c]) : log'[c][i] = log[c][i]

LEMMA Evolve ==
  ASSUME TypeOK, TableChange, LogChange
  PROVE  Monotone
<1>1. BusTypeOK(Message) /\ RunsTypeOK
  BY DEF TypeOK
<1>2. \A c \in Consumer :
       /\ Len(log[c]) \in Nat /\ Len(log'[c]) \in Nat
       /\ Len(log[c]) <= Len(log'[c])
       /\ \A i \in 1 .. Len(log[c]) : log'[c][i] = log[c][i]
  <2>1. CASE UNCHANGED log
    <3>1. \A c \in Consumer : Len(log[c]) \in Nat
      BY <1>1, LenProperties DEF BusTypeOK
    <3> QED BY <2>1, <3>1
  <2>2. CASE \E c \in Consumer, msg \in Message : Store(c, msg)
    BY <1>1, <2>2, StoreKeeps
  <2> QED BY <2>1, <2>2 DEF LogChange
<1>3. ASSUME NEW r \in RunId, Exists(r)
      PROVE  /\ Exists(r)'
             /\ runs'[r].machine = runs[r].machine
             /\ runs'[r].blueprint = runs[r].blueprint
             /\ Ended(r) => Ended(r)'
  <2>1. CASE UNCHANGED <<runs, reopened>>
    BY <1>3, <2>1 DEF Exists, Ended
  <2>2. ASSUME NEW s \in RunId, NEW m \in Machine, NEW bp \in BOOLEAN, Opens(s, m, bp)
        PROVE  runs'[r] = runs[r] /\ UNCHANGED reopened
    <3>1. s # r /\ InsertRun(s, m, bp) /\ UNCHANGED reopened
      BY <1>3, <2>2 DEF Opens
    <3> QED BY <1>1, <3>1, InsertKeeps
  <2>3. ASSUME NEW s \in RunId, Closes(s) \/ Reopens(s)
        PROVE  /\ reopened \subseteq reopened'
               /\ \/ runs'[r] = runs[r]
                  \/ /\ runs'[r].machine = runs[r].machine
                     /\ runs'[r].blueprint = runs[r].blueprint
                     /\ runs'[r].status # "absent"
                     /\ runs'[r].status # "running" \/ r \in reopened'
    BY <1>1, <2>3, UpdateKeeps DEF Closes, Reopens
  <2> QED BY <1>3, <2>1, <2>2, <2>3 DEF TableChange, Exists, Ended
<1> QED BY <1>2, <1>3 DEF Monotone

-----------------------------------------------------------------------------
(***************************************************************************)
(* One lemma for each conjunct of IInv.                                    *)
(***************************************************************************)
LEMMA OneOpenStep ==
  ASSUME TypeOK, NoneOpenWhileCreating, OneOpenOrchestratorRun, TableChange
  PROVE  OneOpenOrchestratorRun'
<1>1. RunsTypeOK
  BY DEF TypeOK
(* Where no row becomes an open one of the orchestrator's, nothing changes. *)
<1>2. ASSUME \A m \in Machine : OrchestratorRuns(m)' \subseteq OrchestratorRuns(m)
      PROVE  OneOpenOrchestratorRun'
  BY <1>2 DEF OneOpenOrchestratorRun
<1>3. CASE UNCHANGED <<runs, reopened>>
  BY <1>2, <1>3 DEF OrchestratorRuns, Running
<1>4. ASSUME NEW r \in RunId, NEW m \in Machine, NEW bp \in BOOLEAN, Opens(r, m, bp)
      PROVE  OneOpenOrchestratorRun'
  <2>1. /\ runs'[r] = [machine |-> m, status |-> "running", blueprint |-> bp]
        /\ \A s \in RunId \ {r} : runs'[s] = runs[s]
        /\ UNCHANGED reopened
    BY <1>1, <1>4, InsertKeeps DEF Opens
  <2>2. CASE bp = TRUE
    BY <1>2, <2>1, <2>2 DEF OrchestratorRuns, Running
  <2>3. CASE bp = FALSE
    <3>1. OrchestratorRuns(m) = {}
      BY <1>4, <2>3 DEF Opens, NoneOpenWhileCreating
    <3>2. OrchestratorRuns(m)' \subseteq {r}
      BY <2>1, <3>1 DEF OrchestratorRuns, Running
    <3>3. \A n \in Machine \ {m} : OrchestratorRuns(n)' \subseteq OrchestratorRuns(n)
      BY <2>1 DEF OrchestratorRuns, Running
    <3> QED BY <3>2, <3>3 DEF OneOpenOrchestratorRun
  <2> QED BY <2>2, <2>3
<1>5. ASSUME NEW r \in RunId, Closes(r) \/ Reopens(r)
      PROVE  OneOpenOrchestratorRun'
  <2>1. /\ runs'[r].status # "running" \/ r \in reopened'
        /\ \A s \in RunId \ {r} : runs'[s] = runs[s]
        /\ reopened \subseteq reopened'
    BY <1>1, <1>5, UpdateKeeps DEF Closes, Reopens
  <2> QED BY <1>2, <2>1 DEF OrchestratorRuns, Running
<1> QED BY <1>3, <1>4, <1>5 DEF TableChange

(* How a step reaches "new" or "create", or stays there. *)
EnrollChange ==
  \/ enrolling'.pc \notin {"new", "create"}
  \/ UNCHANGED enrolling
  \/ /\ UNCHANGED runs
     /\ enrolling'.machine = enrolling.machine
     /\ \/ /\ enrolling'.pc = "new"
           /\ Running(enrolling.machine) = {}
        \/ /\ enrolling.pc = "new" /\ enrolling'.pc = "create"
           /\ enrolling'.run = nextRun /\ nextRun' = nextRun + 1
           /\ UNCHANGED serving

LEMMA EnrollStep ==
  ASSUME TypeOK, [Next]_vars
  PROVE  EnrollChange
<1>1. CASE UNCHANGED enrolling
  BY <1>1 DEF EnrollChange
<1>2. ASSUME EnrolledStep \/ EnrolledDbError, UNCHANGED apiVars
      PROVE  EnrollChange
  <2>1. enrolling.pc # "idle"
    BY <1>2 DEF EnrolledDbError, EnrolledStep, EnrolledCheckActive,
         EnrolledFindRunning, EnrolledAdopt, EnrolledNewRun, EnrolledCreate,
         EnrolledRemember, EnrolledAnnounce
  <2>2. enrolling \in [pc : EnrollPc, machine : Machine, run : RunRef]
    BY <2>1 DEF TypeOK, SmTypeOK, Job, IdleJob
  <2>3. CASE EnrolledFindRunning
    BY <2>2, <2>3 DEF EnrolledFindRunning, EnrollChange, runVars
  <2>4. CASE EnrolledNewRun
    BY <1>2, <2>2, <2>4 DEF EnrolledNewRun, EnrollChange, AllocateRun, apiVars
  <2>5. CASE \/ EnrolledCheckActive \/ EnrolledCreate \/ EnrolledRemember
    <3>1. \/ enrolling' = IdleJob
          \/ \E p \in {"find", "remember", "announce"} :
               enrolling' = [enrolling EXCEPT !.pc = p]
      BY <2>5 DEF EnrolledCheckActive, EnrolledCreate, EnrolledRemember
    <3>2. enrolling'.pc \in {"idle", "find", "remember", "announce"}
      BY <2>2, <3>1 DEF IdleJob
    <3> QED BY <3>2 DEF EnrollChange
  <2>6. CASE EnrolledAdopt \/ EnrolledAnnounce \/ EnrolledDbError
    <3>1. enrolling' = IdleJob
      BY <2>6 DEF EnrolledAdopt, EnrolledAnnounce, EnrolledDbError
    <3> QED BY <3>1 DEF IdleJob, EnrollChange
  <2> QED BY <1>2, <2>3, <2>4, <2>5, <2>6 DEF EnrolledStep
<1>3. ASSUME NEW i, EnrolledBegin(i)
      PROVE  EnrollChange
  BY <1>3 DEF EnrolledBegin, EnrollChange
<1>4. CASE Restart \/ Stop
  BY <1>4 DEF Restart, Stop, EnrollChange, IdleJob
<1>5. CASE SmStep
  BY <1>1, <1>2, <1>3, <1>4, <1>5 DEF SmStep, SmNext, FactsBegin,
     LifecycleBegin, FactsStep, FactsCheck, FactsFindRunning, FactsAdopt,
     FactsUpdate, FactsClear, FactsAnnounce, FactsDbError,
     RunStartedSetActive, RunFinishedClearActive, AckWait, smVars
<1> QED BY <1>1, <1>5 DEF Next, ApiStep, Quiescent, vars, smVars

LEMMA NoneOpenStep ==
  ASSUME TypeOK, NoneOpenWhileCreating, TableChange, EnrollChange
  PROVE  NoneOpenWhileCreating'
<1> SUFFICES ASSUME enrolling'.pc \in {"new", "create"},
                    NEW s \in RunId, runs'[s].machine = enrolling'.machine,
                    runs'[s].status = "running", s \notin reopened'
             PROVE  runs'[s].blueprint
  BY DEF NoneOpenWhileCreating, OrchestratorRuns, Running
<1>1. RunsTypeOK
  BY DEF TypeOK
<1>2. CASE UNCHANGED runs
  <2>1. reopened \subseteq reopened'
    BY DEF TableChange, Opens, Closes, Reopens
  <2> QED BY <1>2, <2>1 DEF EnrollChange, NoneOpenWhileCreating,
                            OrchestratorRuns, Running
<1>3. CASE UNCHANGED enrolling
  <2>1. ASSUME runs[s].machine = enrolling.machine, runs[s].status = "running",
               s \notin reopened
        PROVE  runs[s].blueprint
    BY <1>3, <2>1 DEF NoneOpenWhileCreating, OrchestratorRuns, Running
  <2>2. ASSUME NEW r \in RunId, NEW m \in Machine, NEW bp \in BOOLEAN, Opens(r, m, bp)
        PROVE  runs'[s].blueprint
    <3>1. bp = TRUE /\ UNCHANGED reopened
      BY <2>2 DEF Opens
    <3>2. /\ runs'[r] = [machine |-> m, status |-> "running", blueprint |-> bp]
          /\ s # r => runs'[s] = runs[s]
      BY <1>1, <2>2, InsertKeeps DEF Opens
    <3> QED BY <1>3, <2>1, <3>1, <3>2
  <2>3. ASSUME NEW r \in RunId, Closes(r) \/ Reopens(r)
        PROVE  runs'[s].blueprint
    <3>1. /\ runs'[r].status # "running" \/ r \in reopened'
          /\ s # r => runs'[s] = runs[s]
          /\ reopened \subseteq reopened'
      BY <1>1, <2>3, UpdateKeeps DEF Closes, Reopens
    <3> QED BY <1>3, <2>1, <3>1
  <2> QED BY <1>2, <2>2, <2>3 DEF TableChange
<1> QED BY <1>2, <1>3 DEF EnrollChange

LEMMA EventsStep ==
  ASSUME TypeOK, EventsTruthful, LogChange, Monotone
  PROVE  EventsTruthful'
<1> SUFFICES ASSUME NEW c \in {"started", "finished"}, NEW i \in 1 .. Len(log'[c])
             PROVE  /\ OwnRun(log[c][i].machine, log[c][i].run)'
                    /\ c = "finished" => Ended(log[c][i].run)'
  BY DEF EventsTruthful
<1>1. BusTypeOK(Message) /\ c \in Consumer
  BY Consumers DEF TypeOK
<1>2. CASE i \in 1 .. Len(log[c])
  <2>1. log'[c][i] = log[c][i]
    BY <1>1, <1>2 DEF Monotone
  <2>2. /\ OwnRun(log[c][i].machine, log[c][i].run)
        /\ c = "finished" => Ended(log[c][i].run)
    BY <1>2 DEF EventsTruthful
  <2> QED BY <2>1, <2>2 DEF Monotone, OwnRun, Exists, Ended
<1>3. CASE i \notin 1 .. Len(log[c])
  <2>1. PICK d \in Consumer, msg \in Message :
          /\ Store(d, msg)
          /\ UNCHANGED <<runs, reopened>>
          /\ d \in {"started", "finished"} => OwnRun(msg.machine, msg.run)
          /\ d = "finished" => Ended(msg.run)
    BY <1>3 DEF LogChange
  <2>2. /\ Len(log'[d]) = Len(log[d]) + 1 /\ log'[d][Len(log[d]) + 1] = msg
        /\ c # d => log'[c] = log[c]
        /\ Len(log[d]) \in Nat
    BY <1>1, <2>1, StoreKeeps
  <2>3. c = d
    BY <1>3, <2>2
  <2>4. i = Len(log[d]) + 1
    BY <1>3, <2>2, <2>3
  <2> QED BY <2>1, <2>2, <2>3, <2>4 DEF OwnRun, Exists, Ended
<1> QED BY <1>2, <1>3

LEMMA IdsStep ==
  ASSUME TypeOK, TypeOK', IdsOK, RefsOK, TableChange, EnrollChange, [Next]_vars
  PROVE  IdsOK'
<1>1. /\ RunsTypeOK /\ nextRun \in Nat /\ nextRun' \in Nat /\ nextRun >= 1
      /\ \A r \in RunId : r \in Nat
  BY MaxRunsAssumption DEF TypeOK, RunsTypeOK, RunId
(* A row that appears was allocated before; one that was there remains. *)
<1>2. /\ nextRun <= nextRun'
      /\ \A r \in RunId : runs'[r].status # "absent" => r < nextRun'
  <2>1. CASE UNCHANGED runs /\ nextRun' \in {nextRun, nextRun + 1}
    BY <1>1, <2>1 DEF IdsOK
  <2>2. ASSUME NEW r \in RunId, NEW m \in Machine, NEW bp \in BOOLEAN, Opens(r, m, bp)
        PROVE  /\ nextRun' = nextRun
               /\ \A t \in RunId : runs'[t].status # "absent" => t < nextRun
    <3>1. /\ r < nextRun /\ nextRun' = nextRun
          /\ \A t \in RunId \ {r} : runs'[t] = runs[t]
      <4>1. r \in 1 .. nextRun - 1 /\ InsertRun(r, m, bp)
        BY <2>2 DEF Opens
      <4>2. r < nextRun
        BY <1>1, <4>1
      <4> QED BY <1>1, <4>1, <4>2, InsertKeeps
    <3>2. \A t \in RunId : runs[t].status # "absent" => t < nextRun
      BY <1>1 DEF IdsOK
    <3> QED BY <3>1, <3>2
  <2>3. ASSUME NEW r \in RunId, Closes(r) \/ Reopens(r)
        PROVE  /\ nextRun' = nextRun
               /\ \A t \in RunId : runs'[t].status # "absent" => t < nextRun
    BY <1>1, <2>3, UpdateKeeps DEF Closes, Reopens, IdsOK, Exists
  <2> QED BY <1>1, <2>1, <2>2, <2>3 DEF TableChange
<1>3. \A r \in RunId : r >= nextRun' => runs'[r].status = "absent"
  BY <1>1, <1>2
<1> DEFINE HeldE == enrolling.pc = "create" =>
                      /\ enrolling.run \in 1 .. nextRun - 1
                      /\ ~ Exists(enrolling.run)
           HeldW(w) == serving[w].pc = "insert" =>
                      /\ serving[w].run \in 1 .. nextRun - 1
                      /\ ~ Exists(serving[w].run)
                      /\ enrolling.pc = "create" => serving[w].run # enrolling.run
                      /\ \A v \in Worker :
                           serving[v].pc = "insert" /\ serving[v].run = serving[w].run
                             => v = w
<1>4. HeldE /\ \A w \in Worker : HeldW(w)
  BY DEF IdsOK
<1>5. SUFFICES HeldE' /\ \A w \in Worker : HeldW(w)'
  BY <1>3 DEF IdsOK
<1>6. ASSUME \A r \in RunId : Exists(r)' => Exists(r), UNCHANGED serving
      PROVE  HeldE' /\ \A w \in Worker : HeldW(w)'
  <2>1. \A r : Exists(r)' => Exists(r)
    BY <1>6 DEF Exists
  <2>2. CASE enrolling'.pc # "create" \/ UNCHANGED enrolling
    BY <1>1, <1>2, <1>4, <1>6, <2>1, <2>2
  <2>3. CASE ~ (enrolling'.pc # "create" \/ UNCHANGED enrolling)
    <3>1. enrolling'.run = nextRun /\ nextRun' = nextRun + 1
      BY <2>3 DEF EnrollChange
    <3>2. ~ Exists(nextRun)
      BY <1>1 DEF IdsOK, Exists
    <3> QED BY <1>1, <1>4, <1>6, <2>1, <3>1, <3>2
  <2> QED BY <2>2, <2>3
<1>7. CASE UNCHANGED <<runs, serving>>
  BY <1>6, <1>7 DEF Exists
<1>8. ASSUME UNCHANGED apiVars, EnrolledCreate \/ EnrolledDbError
      PROVE  HeldE' /\ \A w \in Worker : HeldW(w)'
  <2>1. CASE UNCHANGED runVars
    BY <1>7, <1>8, <2>1 DEF runVars, apiVars
  <2>2. CASE ~ UNCHANGED runVars
    <3>1. /\ enrolling.pc = "create"
          /\ InsertRun(enrolling.run, enrolling.machine, FALSE)
      BY <1>8, <2>2 DEF EnrolledCreate, EnrolledDbError
    <3>2. nextRun' = nextRun /\ \A r : Exists(r)' => Exists(r) \/ r = enrolling.run
      BY <1>1, <3>1 DEF InsertRun, Exists, RunsTypeOK
    <3>3. enrolling'.pc # "create"
      <4>1. enrolling \in [pc : EnrollPc, machine : Machine, run : RunRef]
        BY <3>1, EnrollingRecord
      <4>2. CASE EnrolledCreate
        BY <4>1, <4>2 DEF EnrolledCreate
      <4>3. CASE EnrolledDbError
        BY <4>3 DEF EnrolledDbError, IdleJob
      <4> QED BY <1>8, <4>2, <4>3
    <3> QED BY <1>4, <1>8, <3>1, <3>2, <3>3 DEF apiVars
  <2> QED BY <2>1, <2>2
<1>9. ASSUME UNCHANGED apiVars, FactsUpdate \/ FactsDbError
      PROVE  HeldE' /\ \A w \in Worker : HeldW(w)'
  <2>1. CASE UNCHANGED runVars
    BY <1>7, <1>9, <2>1 DEF runVars, apiVars
  <2>2. CASE ~ UNCHANGED runVars
    <3>1. UpdateStatus(completing.run, "success") /\ Exists(completing.run)
      BY <1>9, <2>2 DEF FactsUpdate, FactsDbError, RefsOK, OwnRun
    <3>2. \A r \in RunId : Exists(r)' => Exists(r)
      BY <1>1, <3>1 DEF UpdateStatus, Exists, RunsTypeOK
    <3> QED BY <1>6, <1>9, <3>2 DEF apiVars
  <2> QED BY <2>1, <2>2
<1>10. CASE SmStep
  BY <1>7, <1>8, <1>9, <1>10 DEF SmStep, SmNext, EnrolledBegin, FactsBegin,
     LifecycleBegin, EnrolledStep, EnrolledCheckActive, EnrolledFindRunning,
     EnrolledAdopt, EnrolledNewRun, EnrolledRemember, EnrolledAnnounce,
     FactsStep, FactsCheck, FactsFindRunning, FactsAdopt, FactsClear,
     FactsAnnounce, RunStartedSetActive, RunFinishedClearActive, Restart,
     Stop, AckWait, runVars, apiVars
<1>11. ASSUME NEW w \in Worker, NEW m \in Machine, RunStart(w, m),
              UNCHANGED smVars
       PROVE  HeldE' /\ \A v \in Worker : HeldW(v)'
  <2>1. PICK r \in RunId :
          /\ AllocateRun(r)
          /\ serving' = [serving EXCEPT ![w] =
                           [pc |-> "insert", machine |-> m, run |-> r]]
    BY <1>11 DEF RunStart
  <2>2. r = nextRun /\ nextRun' = nextRun + 1 /\ UNCHANGED runs
    BY <1>11, <2>1 DEF AllocateRun, RunStart
  <2>3. \A x : Exists(x)' <=> Exists(x)
    BY <2>2 DEF Exists
  <2>4. ~ Exists(nextRun)
    BY <1>1 DEF IdsOK, Exists
  <2>5. HeldE'
    BY <1>1, <1>4, <1>11, <2>2, <2>3 DEF smVars
  <2>6. /\ serving'[w].pc = "insert" /\ serving'[w].run = nextRun
        /\ \A v \in Worker \ {w} : serving'[v] = serving[v]
    BY <2>1, <2>2 DEF TypeOK, ApiTypeOK
  <2>7. \A v \in Worker \ {w} : HeldW(v)'
    BY <1>1, <1>4, <1>11, <2>2, <2>3, <2>6 DEF smVars
  <2>8. HeldW(w)'
    BY <1>1, <1>4, <1>11, <2>2, <2>3, <2>4, <2>6 DEF smVars
  <2> QED BY <2>5, <2>7, <2>8
(* A worker that allocates nothing may insert the row of its own id. *)
<1>12. ASSUME NEW w \in Worker, UNCHANGED <<enrolling, nextRun>>,
              serving'[w].pc # "insert",
              \A v \in Worker \ {w} : serving'[v] = serving[v],
              \A r : Exists(r)' =>
                       \/ Exists(r)
                       \/ serving[w].pc = "insert" /\ r = serving[w].run
       PROVE  HeldE' /\ \A v \in Worker : HeldW(v)'
  BY <1>1, <1>4, <1>12
<1>13. ASSUME NEW w \in Worker, UNCHANGED smVars,
              \/ RunStartInsert(w) \/ RunStartDbError(w) \/ RunAnnounce(w)
              \/ \E r \in RunId, s \in FinishStatus :
                   RunFinish(w, r, s) \/ RunFinishDbError(w, r, s)
       PROVE  HeldE' /\ \A v \in Worker : HeldW(v)'
  <2>1. UNCHANGED <<enrolling, nextRun>>
    BY <1>13 DEF RunStartInsert, RunStartDbError, RunAnnounce, RunFinish,
       RunFinishDbError, SaveFinish, InsertRun, UpdateStatus, runVars, smVars
  <2>2. /\ serving'[w].pc # "insert"
        /\ \A v \in Worker \ {w} : serving'[v] = serving[v]
    <3>1. \/ serving' = [serving EXCEPT ![w].pc = "announceStarted"]
          \/ serving' = [serving EXCEPT ![w] = NoRequest]
          \/ serving' = serving /\ serving[w].pc = "idle"
          \/ \E r \in RunId :
               serving' = [serving EXCEPT ![w] =
                             [pc |-> "announceFinished",
                              machine |-> runs[r].machine, run |-> r]]
      BY <1>13 DEF RunStartInsert, RunStartDbError, RunAnnounce, RunFinish,
         RunFinishDbError
    <3> QED BY <3>1 DEF TypeOK, ApiTypeOK, Request, NoRequest
  <2>3. ASSUME NEW r, Exists(r)'
        PROVE  \/ Exists(r)
               \/ serving[w].pc = "insert" /\ r = serving[w].run
    <3>1. CASE RunStartInsert(w) \/ RunStartDbError(w) \/ RunAnnounce(w)
      BY <1>1, <2>3, <3>1 DEF RunStartInsert, RunStartDbError, RunAnnounce,
         InsertRun, Exists, runVars, RunsTypeOK
    <3>2. ASSUME NEW t \in RunId, NEW s, Exists(t), UpdateStatus(t, s)
          PROVE  Exists(r)
      <4>1. r # t => runs'[r] = runs[r]
        BY <1>1, <2>3, <3>2 DEF UpdateStatus, RunsTypeOK, Exists
      <4> QED BY <2>3, <3>2, <4>1 DEF Exists
    <3> QED BY <1>13, <3>1, <3>2 DEF RunFinish, RunFinishDbError, SaveFinish
  <2> QED BY <1>12, <2>1, <2>2, <2>3
<1>14. CASE ApiStep
  BY <1>7, <1>11, <1>13, <1>14
     DEF ApiStep, ApiNext, UpsertMachine, PostFacts, runVars
<1>15. CASE UNCHANGED vars
  BY <1>7, <1>15 DEF vars, runVars, apiVars
<1> QED BY <1>10, <1>14, <1>15 DEF Next, Quiescent

(***************************************************************************)
(* References, and what is announced as finished.                          *)
(***************************************************************************)
(* After the step, r is an inserted run of m. *)
OwnedNext(m, r) ==
  r \in RunId /\ runs'[r].status # "absent" /\ runs'[r].machine = m

(* After the step, r is no longer running, or a client wants it to be. *)
EndedNext(r) == runs'[r].status # "running" \/ r \in reopened'

LEMMA OwnRunStays ==
  ASSUME Monotone, NEW m, NEW r, OwnRun(m, r)
  PROVE  /\ OwnedNext(m, r)
         /\ Ended(r) => EndedNext(r)
BY DEF Monotone, OwnRun, Exists, OwnedNext, Ended, EndedNext

LEMMA RefsStep ==
  ASSUME TypeOK, TypeOK', IdsOK, RefsOK, FinishedOK, ActiveIsOwnRun, Monotone,
         [Next]_vars
  PROVE  RefsOK' /\ FinishedOK'
<1> USE Consumers
<1> DEFINE RefE == /\ enrolling.pc # "idle" =>
                        enrolling.machine = log["machines"][busy["machines"]].machine
                   /\ enrolling.pc \in {"adopt", "remember", "announce"} =>
                        OwnRun(enrolling.machine, enrolling.run)
           RefC == /\ completing.pc \in {"adopt", "update", "clear", "announce"} =>
                        OwnRun(completing.machine, completing.run)
                   /\ completing.pc \in {"clear", "announce"} =>
                        Ended(completing.run)
           RefW(w) == /\ serving[w].pc \in {"announceStarted", "announceFinished"} =>
                           OwnRun(serving[w].machine, serving[w].run)
                      /\ serving[w].pc = "announceFinished" =>
                           Ended(serving[w].run)
<1>1. RefE /\ RefC /\ \A w \in Worker : RefW(w)
  BY DEF RefsOK, FinishedOK
<1>2. SUFFICES RefE' /\ RefC' /\ \A w \in Worker : RefW(w)'
  BY DEF RefsOK, FinishedOK
<1>3. RunsTypeOK /\ BusTypeOK(Message)
  BY DEF TypeOK
(* A process that does not move keeps its references. *)
<1>4. ASSUME UNCHANGED <<enrolling, busy["machines"]>> PROVE RefE'
  <2>1. enrolling.pc # "idle" => busy["machines"] \in 1 .. Len(log["machines"])
    BY <1>3 DEF TypeOK, SmTypeOK, BusTypeOK
  <2>2. enrolling.pc # "idle" =>
          log'["machines"][busy["machines"]] = log["machines"][busy["machines"]]
    BY <2>1 DEF Monotone
  <2> QED BY <1>1, <1>4, <2>2, OwnRunStays DEF OwnedNext, OwnRun, Exists
<1>5. ASSUME UNCHANGED completing PROVE RefC'
  BY <1>1, <1>5, OwnRunStays DEF OwnedNext, OwnRun, Exists, Ended, EndedNext
<1>6. ASSUME NEW w \in Worker, serving'[w] = serving[w] PROVE RefW(w)'
  BY <1>1, <1>6, OwnRunStays DEF OwnedNext, OwnRun, Exists, Ended, EndedNext
<1>7. ASSUME EnrolledStep \/ EnrolledDbError PROVE RefE'
  <2>1. enrolling.pc # "idle"
    BY <1>7 DEF EnrolledDbError, EnrolledStep, EnrolledCheckActive,
         EnrolledFindRunning, EnrolledAdopt, EnrolledNewRun, EnrolledCreate,
         EnrolledRemember, EnrolledAnnounce
  <2>2. enrolling \in [pc : EnrollPc, machine : Machine, run : RunRef]
    BY <2>1, EnrollingRecord
  <2>3. busy["machines"] \in 1 .. Len(log["machines"])
    BY <1>3, <2>1 DEF TypeOK, SmTypeOK, BusTypeOK
  <2>4. log'["machines"][busy["machines"]] = log["machines"][busy["machines"]]
    BY <2>3 DEF Monotone
  (* A step inside the handler keeps machine and message. *)
  <2>5. ASSUME KeepBus, enrolling'.machine = enrolling.machine,
               enrolling'.pc \in {"adopt", "remember", "announce"} =>
                 OwnedNext(enrolling.machine, enrolling'.run)
        PROVE  RefE'
    BY <1>1, <2>1, <2>4, <2>5 DEF KeepBus, OwnedNext, OwnRun, Exists
  <2>6. CASE enrolling' = IdleJob
    BY <2>6 DEF IdleJob
  <2>7. CASE EnrolledCheckActive \/ EnrolledFindRunning \/ EnrolledNewRun
    <3>1. CASE \/ enrolling' = [enrolling EXCEPT !.pc = "find"] /\ KeepBus
               \/ enrolling' = [enrolling EXCEPT !.pc = "new"] /\ KeepBus
      BY <2>2, <2>5, <3>1
    <3>2. ASSUME NEW r \in RunId, KeepBus,
                 enrolling' = [enrolling EXCEPT !.pc = "create", !.run = r]
          PROVE  RefE'
      BY <2>2, <2>5, <3>2
    <3>3. ASSUME NEW r \in RunId, KeepBus, LatestRunning(enrolling.machine, r),
                 enrolling' = [enrolling EXCEPT !.pc = "adopt", !.run = r]
          PROVE  RefE'
      <4>1. OwnRun(enrolling.machine, r)
        BY <3>3 DEF LatestRunning, Running, OwnRun, Exists
      <4>2. OwnedNext(enrolling.machine, r)
        BY <4>1, OwnRunStays
      <4> QED BY <2>2, <2>5, <3>3, <4>2
    <3> QED BY <2>6, <2>7, <3>1, <3>2, <3>3
            DEF EnrolledCheckActive, EnrolledFindRunning, EnrolledNewRun
  <2>8. CASE EnrolledCreate
    <3>1. /\ enrolling.pc = "create" /\ enrolling'.pc = "remember" /\ KeepBus
          /\ enrolling'.machine = enrolling.machine
          /\ enrolling'.run = enrolling.run
          /\ InsertRun(enrolling.run, enrolling.machine, FALSE)
      BY <2>2, <2>8 DEF EnrolledCreate
    <3>2. enrolling.run \in RunId
      BY <3>1, MaxRunsAssumption, <1>3 DEF IdsOK, RunsTypeOK, RunId
    <3>3. OwnedNext(enrolling.machine, enrolling.run)
      BY <1>3, <3>1, <3>2 DEF OwnedNext, InsertRun, RunsTypeOK
    <3> QED BY <2>5, <3>1, <3>3
  <2>9. CASE EnrolledRemember
    <3>1. /\ enrolling.pc = "remember" /\ enrolling'.pc = "announce" /\ KeepBus
          /\ enrolling'.machine = enrolling.machine
          /\ enrolling'.run = enrolling.run
      BY <2>2, <2>9 DEF EnrolledRemember
    <3>2. OwnedNext(enrolling.machine, enrolling.run)
      BY <1>1, <3>1, OwnRunStays
    <3> QED BY <2>5, <3>1, <3>2
  <2> QED BY <1>7, <2>6, <2>7, <2>8, <2>9
          DEF EnrolledStep, EnrolledDbError, EnrolledAdopt, EnrolledAnnounce
<1>8. ASSUME FactsStep \/ FactsDbError PROVE RefC'
  <2>1. completing.pc # "idle"
    BY <1>8 DEF FactsDbError, FactsStep, FactsCheck, FactsFindRunning,
         FactsAdopt, FactsUpdate, FactsClear, FactsAnnounce
  <2>2. completing \in [pc : FactsPc, machine : Machine, run : RunRef]
    BY <2>1, CompletingRecord
  <2>3. ASSUME completing'.machine = completing.machine,
               OwnedNext(completing.machine, completing'.run),
               completing'.pc \in {"clear", "announce"} =>
                 EndedNext(completing'.run)
        PROVE  RefC'
    BY <2>3 DEF OwnedNext, OwnRun, Exists, Ended, EndedNext
  <2>4. CASE completing' = IdleJob
    BY <2>4 DEF IdleJob
  <2>5. CASE FactsCheck
    <3>1. CASE completing' = [completing EXCEPT !.pc = "find"]
      BY <2>2, <3>1
    <3>2. CASE /\ active[completing.machine] # NoRun
               /\ completing' = [completing EXCEPT !.pc = "update",
                                                   !.run = active[completing.machine]]
      <4>1. OwnRun(completing.machine, active[completing.machine])
        BY <2>2, <3>2 DEF ActiveIsOwnRun
      <4>2. OwnedNext(completing.machine, active[completing.machine])
        BY <4>1, OwnRunStays
      <4>3. /\ completing'.pc = "update"
            /\ completing'.machine = completing.machine
            /\ completing'.run = active[completing.machine]
        BY <2>2, <3>2
      <4> QED BY <2>3, <4>2, <4>3
    <3> QED BY <2>4, <2>5, <3>1, <3>2 DEF FactsCheck
  <2>6. CASE FactsFindRunning
    <3>1. ASSUME NEW r \in RunId, LatestRunning(completing.machine, r),
                 completing' = [completing EXCEPT !.pc = "adopt", !.run = r]
          PROVE  RefC'
      <4>1. OwnRun(completing.machine, r)
        BY <3>1 DEF LatestRunning, Running, OwnRun, Exists
      <4>2. OwnedNext(completing.machine, r)
        BY <4>1, OwnRunStays
      <4> QED BY <2>2, <2>3, <3>1, <4>2
    <3> QED BY <2>4, <2>6, <3>1 DEF FactsFindRunning
  <2>7. CASE FactsAdopt \/ FactsClear
    <3>1. /\ completing.pc \in {"adopt", "clear"}
          /\ completing'.machine = completing.machine
          /\ completing'.run = completing.run
          /\ completing.pc = "adopt" => completing'.pc = "update"
          /\ completing.pc = "clear" => completing'.pc = "announce"
      BY <2>2, <2>7 DEF FactsAdopt, FactsClear
    <3>2. OwnRun(completing.machine, completing.run)
      BY <1>1, <3>1
    <3> QED BY <1>1, <2>3, <3>1, <3>2, OwnRunStays
  <2>8. CASE FactsUpdate
    <3>1. /\ completing.pc = "update" /\ completing'.pc = "clear"
          /\ completing'.machine = completing.machine
          /\ completing'.run = completing.run
          /\ UpdateStatus(completing.run, "success")
      BY <2>2, <2>8 DEF FactsUpdate
    <3>2. OwnRun(completing.machine, completing.run)
      BY <1>1, <3>1
    <3>3. EndedNext(completing.run)
      <4>1. completing.run \in RunId /\ Exists(completing.run)
        BY <3>2 DEF OwnRun, Exists
      <4> QED BY <1>3, <3>1, <4>1, UpdateKeeps DEF EndedNext
    <3> QED BY <2>3, <3>1, <3>2, <3>3, OwnRunStays
  <2> QED BY <1>8, <2>4, <2>5, <2>6, <2>7, <2>8
          DEF FactsStep, FactsDbError, FactsAnnounce
<1>9. ASSUME EnrolledStep \/ EnrolledDbError
      PROVE  UNCHANGED completing
  BY <1>9 DEF EnrolledDbError, EnrolledStep, EnrolledCheckActive,
       EnrolledFindRunning, EnrolledAdopt, EnrolledNewRun, EnrolledCreate,
       EnrolledRemember, EnrolledAnnounce
<1>10. ASSUME FactsStep \/ FactsDbError
       PROVE  UNCHANGED <<enrolling, busy["machines"]>>
  BY <1>3, <1>10 DEF FactsDbError, FactsStep, FactsCheck, FactsFindRunning,
       FactsAdopt, FactsUpdate, FactsClear, FactsAnnounce, PublishAndReturn,
       Ack, Nak, KeepBus, BusTypeOK
<1>11. ASSUME NEW i \in 1 .. Len(log["machines"]), EnrolledBegin(i)
       PROVE  RefE' /\ RefC'
  <2>1. UNCHANGED completing /\ enrolling'.pc = "check"
        /\ enrolling'.machine = log["machines"][i].machine
    BY <1>11 DEF EnrolledBegin
  <2>2. busy'["machines"] = i /\ log' = log
    BY <1>3, <1>11 DEF EnrolledBegin, Deliver, DeliverNext, Redeliver, BusTypeOK
  <2> QED BY <1>5, <2>1, <2>2
<1>12. ASSUME NEW i \in 1 .. Len(log["facts"]), FactsBegin(i)
       PROVE  RefE' /\ RefC'
  <2>1. UNCHANGED <<enrolling, busy["machines"]>> /\ completing'.pc = "check"
    BY <1>3, <1>12 DEF FactsBegin, Deliver, DeliverNext, Redeliver, BusTypeOK
  <2> QED BY <1>4, <2>1
<1>13. ASSUME NEW c \in Consumer, NEW i \in 1 .. Len(log[c]), LifecycleBegin(c, i)
       PROVE  RefE' /\ RefC'
  <2>1. UNCHANGED <<enrolling, completing, busy["machines"]>>
    BY <1>3, <1>13 DEF LifecycleBegin, Deliver, DeliverNext, Redeliver,
       BusTypeOK, smVars
  <2> QED BY <1>4, <1>5, <2>1
<1>14. ASSUME \/ RunStartedSetActive \/ RunFinishedClearActive
              \/ \E c \in Consumer : AckWait(c)
       PROVE  RefE' /\ RefC'
  <2>1. UNCHANGED <<enrolling, completing, busy["machines"]>>
    BY <1>3, <1>14 DEF RunStartedSetActive, RunFinishedClearActive, AckWait,
       AckWaitExpires, Ack, BusTypeOK, smVars
  <2> QED BY <1>4, <1>5, <2>1
<1>15. ASSUME Restart \/ Stop PROVE RefE' /\ RefC'
  <2>1. enrolling' = IdleJob /\ completing' = IdleJob
    BY <1>15 DEF Restart, Stop
  <2> QED BY <2>1 DEF IdleJob
<1>16. CASE SmStep
  <2>1. \A w \in Worker : RefW(w)'
    BY <1>6, <1>16 DEF SmStep, apiVars
  <2> QED BY <1>4, <1>5, <1>7, <1>8, <1>9, <1>10, <1>11, <1>12, <1>13, <1>14,
             <1>15, <1>16, <2>1 DEF SmStep, SmNext
<1>17. ASSUME NEW w \in Worker,
              \A v \in Worker \ {w} : serving'[v] = serving[v], RefW(w)',
              UNCHANGED <<enrolling, completing, busy>>
       PROVE  RefE' /\ RefC' /\ \A v \in Worker : RefW(v)'
  BY <1>4, <1>5, <1>6, <1>17
<1>18. CASE ApiStep
  <2>1. UNCHANGED <<enrolling, completing>>
    BY <1>18 DEF ApiStep, smVars
  <2>2. ASSUME UNCHANGED <<serving, busy>>
        PROVE  RefE' /\ RefC' /\ \A v \in Worker : RefW(v)'
    BY <1>4, <1>5, <1>6, <2>1, <2>2
  <2>3. ASSUME NEW m \in Machine, NEW d \in BOOLEAN, UpsertMachine(m) \/ PostFacts(m, d)
        PROVE  UNCHANGED <<serving, busy>>
    BY <2>3 DEF UpsertMachine, PostFacts, PublishJSON
  <2>4. ASSUME NEW w \in Worker, NEW m \in Machine, RunStart(w, m)
        PROVE  RefE' /\ RefC' /\ \A v \in Worker : RefW(v)'
    <3>1. /\ UNCHANGED busy /\ serving'[w].pc = "insert"
          /\ \A v \in Worker \ {w} : serving'[v] = serving[v]
      BY <2>4 DEF RunStart, busVars, TypeOK, ApiTypeOK
    <3> QED BY <1>17, <2>1, <3>1
  <2>5. ASSUME NEW w \in Worker, RunStartInsert(w)
        PROVE  RefE' /\ RefC' /\ \A v \in Worker : RefW(v)'
    <3>1. serving[w].pc = "insert" /\ InsertRun(serving[w].run, serving[w].machine, TRUE)
      BY <2>5 DEF RunStartInsert
    <3>2. serving[w].run \in RunId
      BY <3>1, MaxRunsAssumption, <1>3 DEF IdsOK, RunsTypeOK, RunId
    <3>3. OwnedNext(serving[w].machine, serving[w].run)
      BY <1>3, <3>1, <3>2 DEF OwnedNext, InsertRun, RunsTypeOK
    <3>4. serving[w] \in [pc : ServePc, machine : Machine, run : RunRef]
      BY <3>1 DEF TypeOK, ApiTypeOK, Request, NoRequest
    <3>5. /\ serving'[w].pc = "announceStarted"
          /\ serving'[w].run = serving[w].run
          /\ serving'[w].machine = serving[w].machine
          /\ \A v \in Worker \ {w} : serving'[v] = serving[v]
      BY <2>5, <3>4 DEF RunStartInsert, TypeOK, ApiTypeOK
    <3> QED BY <1>17, <2>1, <2>5, <3>3, <3>5
            DEF RunStartInsert, busVars, OwnedNext, OwnRun, Exists
  <2>6. ASSUME NEW w \in Worker, RunStartDbError(w) \/ RunAnnounce(w)
        PROVE  RefE' /\ RefC' /\ \A v \in Worker : RefW(v)'
    <3>1. serving' = [serving EXCEPT ![w] = NoRequest] /\ UNCHANGED busy
      BY <2>6 DEF RunStartDbError, RunAnnounce, PublishJSON
    <3>2. /\ serving'[w].pc = "idle"
          /\ \A v \in Worker \ {w} : serving'[v] = serving[v]
      BY <3>1 DEF TypeOK, ApiTypeOK, NoRequest
    <3> QED BY <1>17, <2>1, <3>1, <3>2
  <2>7. ASSUME NEW w \in Worker, NEW r \in RunId, NEW s \in FinishStatus, RunFinish(w, r, s)
        PROVE  RefE' /\ RefC' /\ \A v \in Worker : RefW(v)'
    <3>1. SaveFinish(r, s) /\ Exists(r) /\ UpdateStatus(r, s)
      BY <2>7 DEF RunFinish, SaveFinish
    <3>2. OwnedNext(runs[r].machine, r) /\ EndedNext(r)
      BY <1>3, <3>1, UpdateKeeps DEF OwnedNext, EndedNext, SaveFinish
    <3>3. /\ serving'[w].pc = "announceFinished" /\ serving'[w].run = r
          /\ serving'[w].machine = runs[r].machine
          /\ \A v \in Worker \ {w} : serving'[v] = serving[v]
      BY <2>7 DEF RunFinish, TypeOK, ApiTypeOK
    <3> QED BY <1>17, <2>1, <2>7, <3>2, <3>3
            DEF RunFinish, busVars, OwnedNext, OwnRun, Exists, Ended, EndedNext
  <2>8. ASSUME NEW w \in Worker, NEW r \in RunId, NEW s \in FinishStatus,
               RunFinishDbError(w, r, s)
        PROVE  UNCHANGED <<serving, busy>>
    BY <2>8 DEF RunFinishDbError
  <2> QED BY <1>18, <2>2, <2>3, <2>4, <2>5, <2>6, <2>7, <2>8 DEF ApiStep, ApiNext
<1>19. CASE UNCHANGED vars
  BY <1>4, <1>5, <1>6, <1>19 DEF vars, smVars, apiVars, busVars
<1> QED BY <1>16, <1>18, <1>19 DEF Next, Quiescent

(***************************************************************************)
(* The cache only ever holds runs of its machine.                          *)
(***************************************************************************)
LEMMA ActiveStep ==
  ASSUME TypeOK, RefsOK, ActiveIsOwnRun, EventsTruthful, Monotone, [Next]_vars
  PROVE  ActiveIsOwnRun'
<1> USE Consumers
<1>1. active \in [Machine -> RunRef] /\ BusTypeOK(Message)
  BY DEF TypeOK, SmTypeOK
<1>2. ASSUME NEW m \in Machine, NEW r, OwnRun(m, r), SetActive(m, r)
      PROVE  ActiveIsOwnRun'
  <2>1. ASSUME NEW n \in Machine, active'[n] # NoRun
        PROVE  OwnedNext(n, active'[n])
    <3>1. OwnRun(n, active'[n])
      BY <1>1, <1>2, <2>1 DEF SetActive, ActiveIsOwnRun
    <3> QED BY <3>1, OwnRunStays
  <2> QED BY <2>1 DEF ActiveIsOwnRun, OwnedNext, OwnRun, Exists
<1>3. ASSUME \A n \in Machine : active'[n] \in {active[n], NoRun}
      PROVE  ActiveIsOwnRun'
  <2>1. ASSUME NEW n \in Machine, active'[n] # NoRun
        PROVE  OwnedNext(n, active'[n])
    <3>1. OwnRun(n, active'[n])
      BY <1>3, <2>1 DEF ActiveIsOwnRun
    <3> QED BY <3>1, OwnRunStays
  <2> QED BY <2>1 DEF ActiveIsOwnRun, OwnedNext, OwnRun, Exists
<1>4. CASE UNCHANGED active
  BY <1>3, <1>4
<1>5. CASE EnrolledAdopt \/ EnrolledRemember
  <2>1. /\ enrolling.pc \in {"adopt", "remember"}
        /\ SetActive(enrolling.machine, enrolling.run)
    BY <1>5 DEF EnrolledAdopt, EnrolledRemember
  <2>2. OwnRun(enrolling.machine, enrolling.run) /\ enrolling.machine \in Machine
    BY <2>1, EnrollingType DEF RefsOK
  <2> QED BY <1>2, <2>1, <2>2
<1>6. CASE FactsAdopt
  <2>1. completing.pc = "adopt" /\ SetActive(completing.machine, completing.run)
    BY <1>6 DEF FactsAdopt
  <2>2. OwnRun(completing.machine, completing.run) /\ completing.machine \in Machine
    BY <2>1, CompletingType DEF RefsOK
  <2> QED BY <1>2, <2>1, <2>2
<1>7. CASE FactsClear \/ RunFinishedClearActive \/ Restart \/ Stop
  BY <1>1, <1>3, <1>7
     DEF FactsClear, RunFinishedClearActive, ClearActive, Restart, Stop
<1>8. CASE RunStartedSetActive
  <2> DEFINE evt == log["started"][busy["started"]]
  <2>1. busy["started"] \in 1 .. Len(log["started"]) /\ SetActive(evt.machine, evt.run)
    BY <1>1, <1>8 DEF RunStartedSetActive, BusTypeOK
  <2>2. OwnRun(evt.machine, evt.run)
    BY <2>1 DEF EventsTruthful
  <2>3. evt \in Message
    BY <2>1, LogType
  <2>4. evt.machine \in Machine
    BY <2>3 DEF Message
  <2> QED BY <1>2, <2>1, <2>2, <2>4
<1>9. CASE SmStep
  BY <1>4, <1>5, <1>6, <1>7, <1>8, <1>9 DEF SmStep, SmNext, EnrolledBegin,
     FactsBegin, LifecycleBegin, EnrolledStep, EnrolledCheckActive,
     EnrolledFindRunning, EnrolledNewRun, EnrolledCreate, EnrolledAnnounce,
     EnrolledDbError, FactsStep, FactsCheck, FactsFindRunning, FactsUpdate,
     FactsAnnounce, FactsDbError, AckWait, smVars
<1> QED BY <1>4, <1>9 DEF Next, ApiStep, Quiescent, vars, smVars

(***************************************************************************)
(* A message is retired only by its own callback's acknowledgement.        *)
(***************************************************************************)
LEMMA RetiredBy ==
  ASSUME NEW Msg, BusTypeOK(Msg), NEW c \in Consumer, NEW i, Retired(c, i)',
         ~ Retired(c, i),
         \/ \E d \in Consumer : Ack(d) \/ (Nak(d) /\ busy[d] # Free)
         \/ \E d \in Consumer : \E j \in 1 .. Len(log[d]) :
              Deliver(d, j) \/ AckWaitExpires(d, j)
         \/ UNCHANGED <<delivered, redeliver, busy>>
         \/ DropCallbacks \/ DeleteConsumers
  PROVE  /\ i = busy[c] /\ i # Free
         /\ Ack(c)
<1>1. i # Free
  BY DEF Retired, Free, BusTypeOK
<1>2. CASE UNCHANGED <<delivered, redeliver, busy>>
  BY <1>2 DEF Retired
<1>3. CASE DropCallbacks \/ DeleteConsumers
  BY <1>1, <1>3 DEF Retired, DropCallbacks, DeleteConsumers, BusTypeOK
<1>4. ASSUME NEW d \in Consumer, NEW j \in 1 .. Len(log[d]), AckWaitExpires(d, j)
      PROVE  FALSE
  BY <1>4 DEF Retired, AckWaitExpires, BusTypeOK
<1>5. ASSUME NEW d \in Consumer, NEW j \in 1 .. Len(log[d]), Deliver(d, j)
      PROVE  FALSE
  <2>1. CASE DeliverNext(d, j)
    BY <1>1, <1>5, <2>1 DEF Retired, DeliverNext, BusTypeOK
  <2>2. CASE Redeliver(d, j)
    BY <1>1, <1>5, <2>2 DEF Retired, Redeliver, BusTypeOK
  <2> QED BY <1>5, <2>1, <2>2 DEF Deliver
<1>6. ASSUME NEW d \in Consumer, Nak(d)
      PROVE  FALSE
  BY <1>1, <1>6 DEF Retired, Nak, BusTypeOK
<1>7. ASSUME NEW d \in Consumer, Ack(d)
      PROVE  i = busy[c] /\ Ack(c)
  BY <1>1, <1>7 DEF Retired, Ack, BusTypeOK
<1> QED BY <1>1, <1>2, <1>3, <1>4, <1>5, <1>6, <1>7

LEMMA BusSteps ==
  ASSUME TypeOK, [Next]_vars
  PROVE  \/ \E d \in Consumer : Ack(d) \/ (Nak(d) /\ busy[d] # Free)
         \/ \E d \in Consumer : \E j \in 1 .. Len(log[d]) :
              Deliver(d, j) \/ AckWaitExpires(d, j)
         \/ UNCHANGED <<delivered, redeliver, busy>>
         \/ DropCallbacks \/ DeleteConsumers
<1> USE Consumers
<1>1. CASE ApiStep
  <2>1. UNCHANGED <<delivered, redeliver, busy>>
    BY <1>1 DEF ApiStep, ApiNext, UpsertMachine, PostFacts, PublishJSON,
       RunStart, RunStartInsert, RunStartDbError, RunFinish, RunFinishDbError,
       RunAnnounce, busVars
  <2> QED BY <2>1
<1>2. CASE EnrolledStep \/ EnrolledDbError
  <2>1. enrolling.pc # "idle"
    BY <1>2 DEF EnrolledDbError, EnrolledStep, EnrolledCheckActive,
         EnrolledFindRunning, EnrolledAdopt, EnrolledNewRun, EnrolledCreate,
         EnrolledRemember, EnrolledAnnounce
  <2>2. busy["machines"] # Free
    BY <2>1, EnrollingType
  <2>3. Ack("machines") \/ Nak("machines") \/ UNCHANGED <<delivered, redeliver, busy>>
    BY <1>2 DEF EnrolledDbError, EnrolledStep, EnrolledCheckActive,
         EnrolledFindRunning, EnrolledAdopt, EnrolledNewRun, EnrolledCreate,
         EnrolledRemember, EnrolledAnnounce, PublishAndReturn, KeepBus
  <2> QED BY <2>2, <2>3
<1>3. CASE FactsStep \/ FactsDbError
  <2>1. completing.pc # "idle"
    BY <1>3 DEF FactsDbError, FactsStep, FactsCheck, FactsFindRunning,
         FactsAdopt, FactsUpdate, FactsClear, FactsAnnounce
  <2>2. busy["facts"] # Free
    BY <2>1, CompletingType
  <2>3. Ack("facts") \/ Nak("facts") \/ UNCHANGED <<delivered, redeliver, busy>>
    BY <1>3 DEF FactsDbError, FactsStep, FactsCheck, FactsFindRunning,
         FactsAdopt, FactsUpdate, FactsClear, FactsAnnounce, PublishAndReturn,
         KeepBus
  <2> QED BY <2>2, <2>3
<1>4. CASE SmStep
  BY <1>2, <1>3, <1>4 DEF SmStep, SmNext, EnrolledBegin, FactsBegin,
     LifecycleBegin, RunStartedSetActive, RunFinishedClearActive, Restart,
     Stop, AckWait
<1>5. CASE UNCHANGED vars
  BY <1>5 DEF vars, busVars
<1> QED BY <1>1, <1>4, <1>5 DEF Next, Quiescent

LEMMA HandledStep ==
  ASSUME TypeOK, RefsOK, ActiveIsOwnRun, HandledEnrollmentHasRun, Monotone,
         [Next]_vars
  PROVE  HandledEnrollmentHasRun'
<1> USE Consumers
<1>1. BusTypeOK(Message)
  BY DEF TypeOK
<1> SUFFICES ASSUME NEW i \in 1 .. Len(log'["machines"]), Retired("machines", i)'
             PROVE  \E r \in RunId : OwnedNext(log'["machines"][i].machine, r)
  BY DEF HandledEnrollmentHasRun, OwnedNext, OwnRun, Exists
<1>2. SUFFICES ASSUME i \in 1 .. Len(log["machines"])
               PROVE  \E r \in RunId : OwnRun(log["machines"][i].machine, r)
  <2>1. i \in 1 .. Len(log["machines"])
    <3>1. /\ Len(log["machines"]) \in Nat /\ delivered["machines"] \in Nat
          /\ delivered["machines"] <= Len(log["machines"])
      BY <1>1 DEF Monotone, BusTypeOK
    <3>2. \/ UNCHANGED delivered
          \/ \E d \in Consumer : \E j \in 1 .. Len(log[d]) :
               delivered' = [delivered EXCEPT ![d] = j]
          \/ delivered' = [d \in Consumer |-> 0]
      BY BusSteps DEF Ack, Nak, Deliver, DeliverNext, Redeliver, AckWaitExpires,
                      DropCallbacks, DeleteConsumers
    <3>3. \/ delivered'["machines"] \in {delivered["machines"], 0}
          \/ delivered'["machines"] \in 1 .. Len(log["machines"])
      BY <1>1, <3>2 DEF BusTypeOK
    <3>4. i \in 1 .. delivered'["machines"]
      BY DEF Retired
    <3> QED BY <3>1, <3>3, <3>4
  <2>2. log'["machines"][i] = log["machines"][i]
    BY <2>1 DEF Monotone
  <2>3. PICK r \in RunId : OwnRun(log["machines"][i].machine, r)
    BY <1>2, <2>1
  <2> QED BY <2>2, <2>3, OwnRunStays
<1>3. CASE Retired("machines", i)
  BY <1>2, <1>3 DEF HandledEnrollmentHasRun
<1>4. CASE ~ Retired("machines", i)
  <2>1. i = busy["machines"] /\ i # Free /\ Ack("machines")
    BY <1>1, <1>4, BusSteps, RetiredBy
  <2>2. busy'["machines"] # busy["machines"]
    BY <1>1, <2>1 DEF Ack, BusTypeOK
  <2>3. i \notin redeliver'["machines"]
    BY DEF Retired
  <2>4. enrolling.pc # "idle" /\ enrolling.machine = log["machines"][i].machine
    BY <2>1 DEF TypeOK, SmTypeOK, RefsOK
  <2>5. CASE EnrolledStep \/ EnrolledDbError
    <3>1. CASE EnrolledCheckActive
      <4>1. enrolling.machine \in Machine
        BY <2>4, EnrollingType
      <4>2. active[enrolling.machine] # NoRun
        BY <2>2, <3>1 DEF EnrolledCheckActive, KeepBus
      <4>3. OwnRun(enrolling.machine, active[enrolling.machine])
        BY <4>1, <4>2 DEF ActiveIsOwnRun
      <4> QED BY <2>4, <4>3 DEF OwnRun, Exists
    <3>2. CASE EnrolledAdopt \/ EnrolledAnnounce
      <4>1. enrolling.pc \in {"adopt", "announce"}
        BY <3>2 DEF EnrolledAdopt, EnrolledAnnounce
      <4>2. OwnRun(enrolling.machine, enrolling.run)
        BY <4>1 DEF RefsOK
      <4> QED BY <2>4, <4>2 DEF OwnRun, Exists
    <3>3. CASE EnrolledDbError
      <4>1. i \in redeliver'["machines"]
        BY <1>1, <2>1, <3>3 DEF EnrolledDbError, Nak, BusTypeOK
      <4> QED BY <2>3, <4>1
    <3> QED BY <2>2, <2>5, <3>1, <3>2, <3>3 DEF EnrolledStep,
          EnrolledFindRunning, EnrolledNewRun, EnrolledCreate, EnrolledRemember,
          KeepBus
  <2>6. CASE SmStep
    <3>1. CASE FactsStep \/ FactsDbError
      <4>1. busy'["machines"] = busy["machines"]
        BY <1>1, <3>1 DEF FactsDbError, FactsStep, FactsCheck, FactsFindRunning,
           FactsAdopt, FactsUpdate, FactsClear, FactsAnnounce, PublishAndReturn,
           Ack, Nak, KeepBus, BusTypeOK
      <4> QED BY <2>2, <4>1
    <3>2. CASE Restart
      <4>1. i \in redeliver'["machines"]
        BY <1>1, <2>1, <3>2 DEF Restart, DropCallbacks, BusTypeOK
      <4> QED BY <2>3, <4>1
    <3>5. CASE Stop
      <4>1. i \in 1 .. 0
        BY <3>5 DEF Stop, DeleteConsumers, Retired
      <4> QED BY <4>1
    <3>3. CASE RunStartedSetActive \/ RunFinishedClearActive \/ \E c \in Consumer : AckWait(c)
      <4>1. busy'["machines"] = busy["machines"]
        BY <1>1, <3>3 DEF RunStartedSetActive, RunFinishedClearActive, AckWait,
           AckWaitExpires, Ack, BusTypeOK
      <4> QED BY <2>2, <4>1
    <3>4. ASSUME NEW c \in Consumer, NEW j \in 1 .. Len(log[c]), Deliver(c, j)
          PROVE  FALSE
      <4>1. busy'["machines"] \in {busy["machines"], j} /\ j # Free
        BY <1>1, <3>4 DEF Deliver, DeliverNext, Redeliver, BusTypeOK, Free
      <4> QED BY <1>1, <2>1, <2>2, <4>1 DEF Ack, BusTypeOK
    <3> QED BY <2>5, <2>6, <3>1, <3>2, <3>3, <3>4, <3>5 DEF SmStep, SmNext,
          EnrolledBegin, FactsBegin, LifecycleBegin
  <2>7. CASE ApiStep
    <3>1. UNCHANGED busy
      BY <2>7 DEF ApiStep, ApiNext, UpsertMachine, PostFacts, PublishJSON,
         RunStart, RunStartInsert, RunStartDbError, RunFinish, RunFinishDbError,
         RunAnnounce, busVars
    <3> QED BY <2>2, <3>1
  <2>8. CASE UNCHANGED vars
    BY <2>2, <2>8 DEF vars, busVars
  <2> QED BY <2>6, <2>7, <2>8 DEF Next, Quiescent
<1> QED BY <1>3, <1>4

-----------------------------------------------------------------------------
(***************************************************************************)
(* The invariant is inductive, and the theorems that follow from it.       *)
(***************************************************************************)
LEMMA Initially == Init => IInv
<1> SUFFICES ASSUME Init PROVE IInv
  OBVIOUS
<1> USE DEF Init, BusInit, RunsInit, SmInit, ApiInit
<1>1. BusTypeOK(Message)
  <2>1. << >> \in Seq(Message) /\ Len(<< >>) = 0
    BY EmptySeq
  <2> QED BY <2>1, MaxFaultsAssumption DEF BusTypeOK, Free
<1>2. RunsTypeOK
  BY MaxRunsAssumption DEF RunsTypeOK, Row, NoRow, RunId
<1>3. SmTypeOK
  BY Consumers DEF SmTypeOK, Job, IdleJob, RunRef, Free
<1>4. ApiTypeOK
  BY MaxRequestsAssumption DEF ApiTypeOK, Request, NoRequest
<1>5. \A c \in Consumer : Len(log[c]) = 0
  BY EmptySeq
<1>6. IdsOK
  BY <1>2 DEF IdsOK, IdleJob, NoRequest, NoRow
<1>7. NoneOpenWhileCreating /\ RefsOK /\ FinishedOK
  BY DEF NoneOpenWhileCreating, RefsOK, FinishedOK, IdleJob, NoRequest
<1>8. OneOpenOrchestratorRun /\ ActiveIsOwnRun
  BY DEF OneOpenOrchestratorRun, OrchestratorRuns, Running, ActiveIsOwnRun, NoRow
<1>9. HandledEnrollmentHasRun /\ EventsTruthful
  BY <1>5, Consumers DEF HandledEnrollmentHasRun, EventsTruthful
<1> QED BY <1>1, <1>2, <1>3, <1>4, <1>6, <1>7, <1>8, <1>9 DEF IInv, TypeOK

LEMMA Inductive == IInv /\ [Next]_vars => IInv'
<1> SUFFICES ASSUME IInv, [Next]_vars PROVE IInv'
  OBVIOUS
<1> USE DEF IInv
<1>1. TypeOK'
  BY TypeStep
<1>2. TableChange /\ LogChange /\ EnrollChange
  BY Change, EnrollStep
<1>3. Monotone
  BY <1>2, Evolve
<1>4. IdsOK' /\ NoneOpenWhileCreating'
  BY <1>1, <1>2, IdsStep, NoneOpenStep
<1>5. RefsOK' /\ FinishedOK'
  BY <1>1, <1>3, RefsStep
<1>6. OneOpenOrchestratorRun' /\ EventsTruthful'
  BY <1>2, <1>3, OneOpenStep, EventsStep
<1>7. ActiveIsOwnRun' /\ HandledEnrollmentHasRun'
  BY <1>3, ActiveStep, HandledStep
<1> QED BY <1>1, <1>4, <1>5, <1>6, <1>7

(* IInv holds in every state of every instance of the provisioning loop.   *)
THEOREM Invariance == Spec => []IInv
BY Initially, Inductive, PTL DEF Spec

(* Every variable keeps its type, and a handler of handleMachineEnrolled   *)
(* or handleAgentFacts is idle exactly while its callback is.              *)
THEOREM TypeCorrect == Spec => []TypeOK
<1>1. IInv => TypeOK
  BY DEF IInv
<1> QED BY <1>1, Invariance, PTL

(* handleMachineEnrolled never leaves a machine with two running runs of   *)
(* its own, through redeliveries, replays, failed inserts, crashes, stops  *)
(* and lost events.  Not counted are the runs that a client has declared   *)
(* running with POST /v1/runs/finish.                                      *)
THEOREM NoTwoOpenRuns == Spec => []OneOpenOrchestratorRun
<1>1. IInv => OneOpenOrchestratorRun
  BY DEF IInv
<1> QED BY <1>1, Invariance, PTL

(* activeRuns maps a machine only to inserted runs of that machine.        *)
THEOREM CacheSound == Spec => []ActiveIsOwnRun
<1>1. IInv => ActiveIsOwnRun
  BY DEF IInv
<1> QED BY <1>1, Invariance, PTL

(* An enrollment leaves the stream only once its machine has a run.        *)
THEOREM NoEnrollmentLost == Spec => []HandledEnrollmentHasRun
<1>1. IInv => HandledEnrollmentHasRun
  BY DEF IInv
<1> QED BY <1>1, Invariance, PTL

(* goosed.runs.started and goosed.runs.finished only tell what the table   *)
(* already says: the row is there, and no longer running when the event    *)
(* says that it finished, unless a finish request itself set it running.   *)
THEOREM EventsFollowTable == Spec => []EventsTruthful
<1>1. IInv => EventsTruthful
  BY DEF IInv
<1> QED BY <1>1, Invariance, PTL

-----------------------------------------------------------------------------
(***************************************************************************)
(* The API and the orchestrator implement ProvisioningRuns.                *)
(***************************************************************************)
StateOf(status) == CASE status = "absent"  -> "absent"
                     [] status = "running" -> "open"
                     [] OTHER              -> "closed"
absState == [r \in RunId |-> StateOf(runs[r].status)]
absOwner == [r \in RunId |-> runs[r].machine]
absOwn == [r \in RunId |-> Exists(r) /\ ~ runs[r].blueprint]
absAnnounced == {log["finished"][i].run : i \in 1 .. Len(log["finished"])}

LEMMA AbstractInit == Init => Abstract!Init
<1> SUFFICES ASSUME Init PROVE Abstract!Init
  OBVIOUS
<1>1. \A r \in RunId : runs[r] = NoRow
  BY DEF Init, RunsInit
<1>2. absAnnounced = {}
  <2>1. Len(log["finished"]) = 0
    BY Consumers, EmptySeq DEF Init, BusInit
  <2> QED BY <2>1 DEF absAnnounced
<1>3. /\ absState = [r \in RunId |-> "absent"]
      /\ absOwner = [r \in RunId |-> NoMachine]
      /\ absOwn = [r \in RunId |-> FALSE]
  <2>1. \A r \in RunId :
          runs[r].status = "absent" /\ runs[r].machine = NoMachine /\ Exists(r) = FALSE
    BY <1>1 DEF NoRow, Exists
  <2>2. absState = [r \in RunId |-> "absent"] /\ absOwner = [r \in RunId |-> NoMachine]
    BY <2>1 DEF absState, absOwner, StateOf
  <2>3. absOwn = [r \in RunId |-> FALSE]
    BY <2>1, Zenon DEF absOwn
  <2> QED BY <2>2, <2>3
<1>4. reopened = {}
  BY DEF Init, ApiInit
<1> QED BY <1>2, <1>3, <1>4 DEF Abstract!Init, absState, absOwner, absOwn,
                          absAnnounced, StateOf

LEMMA AbstractStep == IInv /\ [Next]_vars => [Abstract!Next]_(Abstract!vars)
<1> SUFFICES ASSUME IInv, [Next]_vars
             PROVE  [Abstract!Next]_(Abstract!vars)
  OBVIOUS
<1> USE Consumers
<1>1. /\ TypeOK /\ RunsTypeOK /\ BusTypeOK(Message) /\ NoneOpenWhileCreating
      /\ TableChange /\ LogChange
  BY Change DEF IInv, TypeOK
<1>2. CASE UNCHANGED <<runs, log, reopened>>
  BY <1>2 DEF Abstract!vars, Exists
<1>3. ASSUME NEW c \in Consumer, NEW msg \in Message, Store(c, msg),
             UNCHANGED <<runs, reopened>>,
             c = "finished" => OwnRun(msg.machine, msg.run),
             c = "finished" => Ended(msg.run)
      PROVE  [Abstract!Next]_(Abstract!vars)
  <2>1. /\ absState' = absState /\ absOwner' = absOwner /\ absOwn' = absOwn
    BY <1>3 DEF absState, absOwner, absOwn, Exists
  <2>2. CASE c # "finished"
    <3>1. log'["finished"] = log["finished"]
      BY <1>1, <1>3, <2>2, StoreKeeps
    <3>2. absAnnounced' = absAnnounced
      BY <3>1 DEF absAnnounced
    <3> QED BY <1>3, <2>1, <3>2 DEF Abstract!vars, absState, absOwner, absOwn,
                              absAnnounced, StateOf
  <2>3. CASE c = "finished"
    <3>1. absAnnounced' = absAnnounced \cup {msg.run}
      <4>1. /\ Len(log["finished"]) \in Nat
            /\ Len(log'["finished"]) = Len(log["finished"]) + 1
            /\ log'["finished"][Len(log["finished"]) + 1] = msg
            /\ \A i \in 1 .. Len(log["finished"]) :
                 log'["finished"][i] = log["finished"][i]
        BY <1>1, <1>3, <2>3, StoreKeeps
      <4> QED BY <4>1 DEF absAnnounced
    <3>2. /\ msg.run \in RunId
          /\ absState[msg.run] = "closed" \/ msg.run \in reopened
      BY <1>3, <2>3 DEF absState, StateOf, OwnRun, Exists, Ended
    <3>3. Abstract!Announce(msg.run)
      BY <1>3, <2>1, <3>1, <3>2 DEF Abstract!Announce, absState, absOwner, absOwn,
                              absAnnounced, StateOf
    <3> QED BY <3>2, <3>3 DEF Abstract!Next
  <2> QED BY <2>2, <2>3
<1>4. ASSUME NEW r \in RunId, NEW m \in Machine, NEW bp \in BOOLEAN, Opens(r, m, bp),
             UNCHANGED log
      PROVE  [Abstract!Next]_(Abstract!vars)
  <2>1. /\ ~ Exists(r) /\ runs[r].status = "absent"
        /\ runs'[r] = [machine |-> m, status |-> "running", blueprint |-> bp]
        /\ \A s \in RunId \ {r} : runs'[s] = runs[s]
        /\ UNCHANGED reopened
    BY <1>1, <1>4, InsertKeeps DEF Opens, Exists
  <2>2. /\ absState[r] = "absent"
        /\ absState' = [absState EXCEPT ![r] = "open"]
        /\ absOwner' = [absOwner EXCEPT ![r] = m]
    <3>1. /\ runs'[r].status = "running" /\ runs'[r].machine = m
          /\ \A s \in RunId \ {r} : /\ runs'[s].status = runs[s].status
                                  /\ runs'[s].machine = runs[s].machine
      BY <2>1
    <3> QED BY <2>1, <3>1 DEF absState, absOwner, StateOf
  <2>3. absOwn' = [absOwn EXCEPT ![r] = ~ bp]
    <3>1. /\ Exists(r)' /\ runs'[r].blueprint = bp
          /\ \A s \in RunId \ {r} : runs'[s] = runs[s]
      BY <2>1 DEF Exists
    <3>2. absOwn'[r] = ~ bp
      BY <3>1, Zenon DEF absOwn
    <3>3. \A s \in RunId \ {r} : absOwn'[s] = absOwn[s]
      BY <3>1, Zenon DEF absOwn, Exists
    <3> QED BY <3>2, <3>3, Zenon DEF absOwn
  <2>4. absAnnounced' = absAnnounced
    BY <1>4 DEF absAnnounced
  <2>5. ~ bp => {s \in RunId \ reopened :
                   absOwn[s] /\ absOwner[s] = m /\ absState[s] = "open"} = {}
    <3>1. SUFFICES ASSUME bp = FALSE, NEW s \in RunId \ reopened, absOwn[s], absOwner[s] = m,
                          absState[s] = "open"
                   PROVE  FALSE
      <4>1. bp = TRUE \/ bp = FALSE
        OBVIOUS
      <4> QED BY <4>1, Zenon
    <3>2. s \in OrchestratorRuns(m)
      BY <3>1 DEF absState, absOwner, absOwn, StateOf, OrchestratorRuns, Running
    <3> QED BY <1>1, <1>4, <3>1, <3>2 DEF Opens, NoneOpenWhileCreating
  <2>6. (~ bp) \in BOOLEAN
    OBVIOUS
  <2>7. Abstract!Open(r, m, ~ bp)
    BY <2>1, <2>2, <2>3, <2>4, <2>5 DEF Abstract!Open, Abstract!OpenOwn, absState,
       absOwner, absOwn, absAnnounced, StateOf
  <2> QED BY <2>6, <2>7 DEF Abstract!Next
<1>5. ASSUME NEW r \in RunId, Closes(r), UNCHANGED log
      PROVE  [Abstract!Next]_(Abstract!vars)
  <2>1. /\ runs[r].status # "absent"
        /\ runs'[r].machine = runs[r].machine
        /\ runs'[r].blueprint = runs[r].blueprint
        /\ runs'[r].status \notin {"running", "absent"}
        /\ \A s \in RunId \ {r} : runs'[s] = runs[s]
        /\ UNCHANGED reopened
    BY <1>1, <1>5, UpdateKeeps DEF Closes, Exists
  <2>2. absOwner' = absOwner /\ absOwn' = absOwn
    BY <2>1 DEF absOwner, absOwn, Exists
  <2>3. absAnnounced' = absAnnounced
    BY <1>5 DEF absAnnounced
  <2>4. absState' = [absState EXCEPT ![r] = "closed"]
    BY <2>1 DEF absState, StateOf
  <2>5. CASE runs[r].status = "running"
    <3>1. absState[r] = "open"
      BY <2>5 DEF absState, StateOf
    <3>2. Abstract!Close(r)
      BY <2>1, <2>2, <2>3, <2>4, <3>1 DEF Abstract!Close, absState, absOwner, absOwn,
         absAnnounced, StateOf
    <3> QED BY <3>2 DEF Abstract!Next
  <2>6. CASE runs[r].status # "running"
    <3>1. absState' = absState
      BY <2>1, <2>6 DEF absState, StateOf
    <3> QED BY <2>1, <2>2, <2>3, <3>1 DEF Abstract!vars, absState, absOwner, absOwn,
            absAnnounced, StateOf
  <2> QED BY <2>5, <2>6
<1>6. ASSUME NEW r \in RunId, Reopens(r), UNCHANGED log
      PROVE  [Abstract!Next]_(Abstract!vars)
  <2>1. /\ runs[r].status # "absent"
        /\ runs'[r].machine = runs[r].machine
        /\ runs'[r].blueprint = runs[r].blueprint
        /\ runs'[r].status = "running"
        /\ \A s \in RunId \ {r} : runs'[s] = runs[s]
        /\ reopened' = reopened \cup {r}
    BY <1>1, <1>6, UpdateKeeps DEF Reopens, Exists
  <2>2. absOwner' = absOwner /\ absOwn' = absOwn
    BY <2>1 DEF absOwner, absOwn, Exists
  <2>3. absAnnounced' = absAnnounced
    BY <1>6 DEF absAnnounced
  <2>4. absState[r] # "absent" /\ absState' = [absState EXCEPT ![r] = "open"]
    BY <2>1 DEF absState, StateOf
  <2>5. Abstract!Reopen(r)
    BY <2>1, <2>2, <2>3, <2>4 DEF Abstract!Reopen, absState, absOwner, absOwn,
       absAnnounced, StateOf
  <2> QED BY <2>5 DEF Abstract!Next
<1>7. CASE UNCHANGED log
  BY <1>1, <1>2, <1>4, <1>5, <1>6, <1>7 DEF TableChange
<1> QED BY <1>1, <1>3, <1>7 DEF LogChange

(* Seen through the table and the finished events alone, the system opens, *)
(* closes, reopens and announces runs as ProvisioningRuns allows: only a   *)
(* finish request with status "running" opens a run again, and such runs   *)
(* left aside, none is announced before it is closed and the orchestrator  *)
(* has at most one run of its own open per machine.                        *)
THEOREM Refinement == Spec => ImplementsRuns
BY Invariance, AbstractInit, AbstractStep, PTL DEF Spec, ImplementsRuns, Abstract!Spec
=============================================================================
