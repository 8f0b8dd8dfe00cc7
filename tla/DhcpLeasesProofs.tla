-------------------------- MODULE DhcpLeasesProofs --------------------------
(***************************************************************************)
(* Proofs about DhcpLeases, for any clients, range, lease time and bounds. *)
(***************************************************************************)
EXTENDS DhcpLeases, TLAPS

(* assign only ever finds nextIP itself: every address from nextIP on is   *)
(* unleased, so the first loop never gets past its first iteration.        *)
LEMMA NextIsFree ==
  ASSUME IInv, NEW ip \in IP, Available(ip)
  PROVE  ip = nextIP /\ nextIP \in PoolIP
<1> USE RangeAssumption, TopAssumption
<1>1. nextIP \in Nat /\ StartIP <= nextIP /\ nextIP <= EndIP
  BY DEF IInv, Available
<1>2. ~ IsAllocated(nextIP)
  <2>1. SUFFICES ASSUME NEW m \in Mac, HasLease(m), leases[m].ip = nextIP
                 PROVE  FALSE
    BY DEF IsAllocated
  <2>2. leases[m] # NoLease
    BY <2>1 DEF HasLease, NoLease, IInv, TypeOK
  <2>3. Given(m, nextIP) /\ nextIP \in IP
    BY <1>1, <2>1, <2>2 DEF Given, IP
  <2> QED BY <1>1, <2>3 DEF IInv, GivenBelowNext
<1>3. nextIP \in nextIP .. EndIP
  BY <1>1
<1>4. FirstFree(nextIP, ip)
  BY <1>2, <1>3 DEF Available
<1>5. ip \in nextIP .. EndIP /\ \A other \in nextIP .. ip - 1 : IsAllocated(other)
  BY <1>4 DEF FirstFree
<1>6. ~ (nextIP \in nextIP .. ip - 1)
  BY <1>2, <1>5
<1>7. ip \in Nat
  BY DEF IP
<1> QED BY <1>1, <1>5, <1>6, <1>7 DEF PoolIP

(* What was given stays below nextIP and with its client, if a step gives  *)
(* nothing new, or just nextIP to one client.                              *)
LEMMA GivenKeeps ==
  ASSUME IInv, nextIP' \in Int,
         \/ /\ nextIP' = nextIP
            /\ \A m \in Mac : \A ip \in IP : Given(m, ip)' => Given(m, ip)
         \/ /\ nextIP' = nextIP + 1
            /\ \E c \in Mac : \A m \in Mac : \A ip \in IP :
                 Given(m, ip)' => Given(m, ip) \/ (m = c /\ ip = nextIP)
  PROVE  GivenOnce' /\ GivenBelowNext'
<1>1. nextIP \in Int /\ \A ip \in IP : ip \in Int
  BY RangeAssumption DEF IInv, IP
<1>2. \A m \in Mac : \A ip \in IP : Given(m, ip) => ip < nextIP
  BY DEF IInv, GivenBelowNext
<1>3. \A m, n \in Mac : \A ip \in IP : Given(m, ip) /\ Given(n, ip) => m = n
  BY DEF IInv, GivenOnce
<1>4. CASE nextIP' = nextIP /\ \A m \in Mac : \A ip \in IP : Given(m, ip)' => Given(m, ip)
  BY <1>1, <1>2, <1>3, <1>4 DEF GivenOnce, GivenBelowNext
<1>5. ASSUME nextIP' = nextIP + 1, NEW c \in Mac,
             \A m \in Mac : \A ip \in IP :
               Given(m, ip)' => Given(m, ip) \/ (m = c /\ ip = nextIP)
      PROVE  GivenOnce' /\ GivenBelowNext'
  <2>1. ASSUME NEW m \in Mac, NEW ip \in IP, Given(m, ip)'
        PROVE  ip < nextIP'
    BY <1>1, <1>2, <1>5, <2>1
  <2>2. ASSUME NEW m \in Mac, NEW n \in Mac, NEW ip \in IP, Given(m, ip)', Given(n, ip)'
        PROVE  m = n
    <3>1. CASE ip = nextIP
      <4>1. ~ Given(m, ip) /\ ~ Given(n, ip)
        BY <1>1, <1>2, <3>1
      <4> QED BY <1>5, <2>2, <4>1
    <3>2. CASE ip # nextIP
      BY <1>3, <1>5, <2>2, <3>2
    <3> QED BY <3>1, <3>2
  <2> QED BY <2>1, <2>2 DEF GivenOnce, GivenBelowNext
<1> QED BY <1>4, <1>5

(* A step that grants nothing leaves the grants as they are, or takes some  *)
(* back.                                                                    *)
LEMMA GrantsKeep ==
  ASSUME IInv, \A m \in Mac : held'[m] = held[m] \/ held'[m] = NoGrant
  PROVE  GrantedOnce'
<1>1. GrantedOnce
  BY DEF IInv
<1>2. \A m \in Mac : held'[m] # NoGrant => held'[m] = held[m]
  OBVIOUS
<1> QED BY <1>1, <1>2 DEF GrantedOnce

LEMMA AssignKeeps ==
  ASSUME IInv, NEW m \in Mac, NEW type \in {"offer", "ack"}, Assign(m, type)
  PROVE  IInv'
<1> USE RangeAssumption, TopAssumption, LeaseAssumption, DhcpBounds
<1>1. PICK ip \in IP :
        /\ KeepLease(m, ip) \/ NewLease(m, ip)
        /\ replies' = replies \cup {[mac |-> m, ip |-> ip, type |-> type]}
        /\ UNCHANGED <<held, now, life>>
  BY DEF Assign
<1>2. TypeOK /\ InRange /\ nextIP \in StartIP .. EndIP + 1
  BY DEF IInv
<1>3. replies' \in SUBSET Reply
  BY <1>1, <1>2 DEF TypeOK, Reply
<1>4. CASE KeepLease(m, ip)
  <2>1. leases[m] # NoLease /\ ip = leases[m].ip /\ leases' = leases /\ nextIP' = nextIP
    BY <1>2, <1>4 DEF KeepLease, HasLease, NoLease, TypeOK
  <2>2. ip \in PoolIP
    BY <1>2, <2>1 DEF InRange
  <2>3. TypeOK' /\ InRange'
    BY <1>1, <1>2, <1>3, <2>1, <2>2 DEF TypeOK, InRange
  <2>4. \A n \in Mac : \A a \in IP : Given(n, a)' => Given(n, a)
    BY <1>1, <2>1 DEF Given
  <2>5. GivenOnce' /\ GivenBelowNext'
    BY <1>2, <2>1, <2>4, GivenKeeps
  <2>6. GrantedOnce'
    BY <1>1, GrantsKeep
  <2> QED BY <1>2, <2>1, <2>3, <2>5, <2>6 DEF IInv
<1>5. CASE NewLease(m, ip)
  <2>1. /\ ip = nextIP /\ nextIP \in PoolIP
        /\ leases' = [leases EXCEPT ![m] = [ip |-> ip, expires |-> now + LeaseTime]]
    BY <1>5, NextIsFree DEF NewLease
  <2>2. nextIP' = nextIP + 1 /\ nextIP' \in IP /\ nextIP' \in StartIP .. EndIP + 1
    BY <1>5, <2>1 DEF NewLease, IncrementIP, PoolIP, IP
  <2>3. [ip |-> ip, expires |-> now + LeaseTime] \in Lease
    BY <1>2 DEF Lease, TypeOK
  <2>4. TypeOK'
    BY <1>1, <1>2, <1>3, <2>1, <2>2, <2>3 DEF TypeOK
  <2>5. InRange'
    BY <1>1, <1>2, <2>1 DEF InRange, TypeOK
  <2>6. \A n \in Mac : \A a \in IP : Given(n, a)' => Given(n, a) \/ (n = m /\ a = nextIP)
    BY <1>1, <1>2, <2>1 DEF Given, TypeOK
  <2>7. GivenOnce' /\ GivenBelowNext'
    BY <2>2, <2>6, GivenKeeps
  <2>8. GrantedOnce'
    BY <1>1, GrantsKeep
  <2> QED BY <2>2, <2>4, <2>5, <2>7, <2>8 DEF IInv
<1> QED BY <1>1, <1>4, <1>5

LEMMA Initially == Init => IInv
<1> SUFFICES ASSUME Init PROVE IInv
  OBVIOUS
<1> USE RangeAssumption, TopAssumption, DhcpBounds
<1>1. TypeOK /\ InRange /\ nextIP \in StartIP .. EndIP + 1
  BY DEF Init, TypeOK, InRange, IP, NoGrant
<1>2. \A m \in Mac, ip \in IP : ~ Given(m, ip)
  BY DEF Init, Given
<1>3. GrantedOnce
  BY DEF Init, GrantedOnce
<1> QED BY <1>1, <1>2, <1>3 DEF IInv, GivenOnce, GivenBelowNext

LEMMA Inductive == IInv /\ [Next]_vars => IInv'
<1> SUFFICES ASSUME IInv, [Next]_vars PROVE IInv'
  OBVIOUS
<1> USE RangeAssumption, TopAssumption, LeaseAssumption, DhcpBounds
<1>1. TypeOK /\ InRange /\ nextIP \in StartIP .. EndIP + 1 /\ nextIP \in Int
  BY DEF IInv
(* Steps that give nothing new and leave nextIP alone. *)
<1>2. ASSUME TypeOK', InRange', GrantedOnce', nextIP' = nextIP,
             \A m \in Mac : \A ip \in IP : Given(m, ip)' => Given(m, ip)
      PROVE  IInv'
  BY <1>1, <1>2, GivenKeeps DEF IInv
<1>3. CASE UNCHANGED vars
  <2>1. GrantedOnce'
    BY <1>3, GrantsKeep DEF vars
  <2> QED BY <1>1, <1>2, <1>3, <2>1 DEF vars, TypeOK, InRange, Given
<1>4. ASSUME NEW m \in Mac, GiveUp(m) PROVE IInv'
  <2>1. TypeOK' /\ InRange'
    BY <1>1, <1>4 DEF GiveUp, TypeOK, InRange, NoGrant
  <2>2. \A n \in Mac : \A ip \in IP : Given(n, ip)' => Given(n, ip)
    BY <1>1, <1>4 DEF GiveUp, TypeOK, Given
  <2>3. GrantedOnce'
    <3>1. \A n \in Mac : held'[n] = held[n] \/ held'[n] = NoGrant
      BY <1>1, <1>4 DEF GiveUp, TypeOK
    <3> QED BY <3>1, GrantsKeep
  <2> QED BY <1>2, <1>4, <2>1, <2>2, <2>3 DEF GiveUp
<1>5. ASSUME NEW m \in Mac, Release(m) PROVE IInv'
  <2>1. TypeOK' /\ InRange'
    BY <1>1, <1>5 DEF Release, TypeOK, InRange
  <2>2. \A n \in Mac : \A ip \in IP : Given(n, ip)' => Given(n, ip)
    BY <1>1, <1>5 DEF Release, TypeOK, Given
  <2>3. GrantedOnce'
    BY <1>5, GrantsKeep DEF Release
  <2> QED BY <1>2, <1>5, <2>1, <2>2, <2>3 DEF Release
<1>6. ASSUME NEW rep \in replies, SendReply(rep) PROVE IInv'
  <2>1. rep \in Reply /\ rep.ip \in PoolIP /\ rep.ip \in IP /\ rep.mac \in Mac
    BY <1>1, <1>6 DEF TypeOK, InRange, Reply
  <2> DEFINE g == [ip |-> rep.ip, until |-> now + LeaseTime, life |-> life]
  <2>2. g \in Grant /\ g.ip = rep.ip /\ g.life = life
    BY <1>1, <2>1 DEF Grant, TypeOK
  <2>3. held' = held \/ held' = [held EXCEPT ![rep.mac] = g]
    BY <1>6 DEF SendReply
  <2>4. /\ replies' = replies \ {rep}
        /\ UNCHANGED <<leases, nextIP, now, life>>
    BY <1>6 DEF SendReply
  <2> HIDE DEF g
  <2>5. \A n \in Mac : held'[n] = held[n] \/ (n = rep.mac /\ held'[n] = g)
    BY <1>1, <2>3 DEF TypeOK
  <2>6. TypeOK' /\ InRange'
    BY <1>1, <2>1, <2>2, <2>3, <2>4, <2>5 DEF TypeOK, InRange
  <2>7. \A n \in Mac : \A ip \in IP : Given(n, ip)' => Given(n, ip)
    BY <1>6, <2>2, <2>4, <2>5 DEF Given
  <2>8. GrantedOnce'
    <3>1. ASSUME NEW n \in Mac, n # rep.mac, held[n] # NoGrant,
                 held[n].ip = rep.ip, held[n].life = life
          PROVE  FALSE
      <4>1. Given(n, rep.ip) /\ Given(rep.mac, rep.ip)
        BY <3>1 DEF Given
      <4> QED BY <2>1, <3>1, <4>1 DEF IInv, GivenOnce
    <3>2. CASE held' = held
      BY <3>2, GrantsKeep
    <3>3. CASE held' = [held EXCEPT ![rep.mac] = g]
      <4>1. held'[rep.mac] = g
        BY <1>1, <2>1, <3>3 DEF TypeOK
      <4>2. ASSUME NEW m \in Mac, NEW n \in Mac,
                   held'[m] # NoGrant, held'[n] # NoGrant,
                   held'[m].ip = held'[n].ip, held'[m].life = held'[n].life
            PROVE  m = n
        <5>1. CASE m = rep.mac \/ n = rep.mac
          BY <2>2, <2>5, <3>1, <4>1, <4>2, <5>1
        <5>2. CASE m # rep.mac /\ n # rep.mac
          BY <2>5, <4>2, <5>2 DEF IInv, GrantedOnce
        <5> QED BY <5>1, <5>2
      <4> QED BY <4>2 DEF GrantedOnce
    <3> QED BY <2>3, <3>2, <3>3
  <2> QED BY <1>2, <2>4, <2>6, <2>7, <2>8
<1>7. ASSUME NEW rep \in replies, LoseReply(rep) PROVE IInv'
  <2>1. GrantedOnce'
    BY <1>7, GrantsKeep DEF LoseReply
  <2> QED BY <1>1, <1>2, <1>7, <2>1 DEF LoseReply, TypeOK, InRange, Given
<1>8. CASE Tick
  <2>1. now' \in 0 .. MaxTime
    BY <1>1, <1>8 DEF Tick, TypeOK
  <2>2. GrantedOnce'
    BY <1>8, GrantsKeep DEF Tick
  <2> QED BY <1>1, <1>2, <1>8, <2>1, <2>2 DEF Tick, TypeOK, InRange, Given
<1>9. CASE Restart
  <2>1. life' = life + 1 /\ life' \in 0 .. MaxRestarts /\ life \in Nat
    BY <1>1, <1>9 DEF Restart, TypeOK
  <2>2. TypeOK' /\ InRange' /\ nextIP' \in StartIP .. EndIP + 1
    <3>1. \A m \in Mac : held[m].life <= life'
      BY <1>1, <2>1 DEF TypeOK, Grant, NoGrant
    <3> QED BY <1>1, <1>9, <2>1, <3>1 DEF Restart, TypeOK, InRange, IP
  <2>3. \A m \in Mac : held[m] # NoGrant => held[m].life # life'
    <3>1. ASSUME NEW m \in Mac, held[m] # NoGrant PROVE held[m].life # life'
      <4>1. held[m].life <= life /\ held[m].life \in Int
        BY <1>1, <3>1 DEF TypeOK, Grant
      <4> QED BY <2>1, <4>1
    <3> QED BY <3>1
  <2>4. \A m \in Mac, ip \in IP : ~ Given(m, ip)'
    BY <1>9, <2>3 DEF Restart, Given
  <2>5. GrantedOnce'
    BY <1>9, GrantsKeep DEF Restart
  <2> QED BY <2>2, <2>4, <2>5 DEF IInv, GivenOnce, GivenBelowNext
<1> QED BY <1>3, <1>4, <1>5, <1>6, <1>7, <1>8, <1>9, AssignKeeps DEF Next, Refuse

(* The inductive invariant holds in every reachable state. *)
THEOREM Invariance == Spec => []IInv
BY Initially, Inductive, PTL DEF Spec

(* Leases, replies and grants keep their types; nextIP stays an address. *)
THEOREM TypeCorrect == Spec => []TypeOK
<1>1. IInv => TypeOK
  BY DEF IInv
<1> QED BY <1>1, Invariance, PTL

(* The addresses handed out are those of the configured range. *)
THEOREM OnlyPoolAddresses == Spec => []InRange
<1>1. IInv => InRange
  BY DEF IInv
<1> QED BY <1>1, Invariance, PTL

(* Two clients that hold one address by their own clocks got it from two   *)
(* processes: none grants an address twice, although a renewal promises a  *)
(* client more time than the table records.                                *)
THEOREM OneProcessNeverShares == Spec => []SharedOnlyAcrossRestarts
<1>1. IInv => SharedOnlyAcrossRestarts
  <2> SUFFICES ASSUME IInv, NEW m \in Mac, NEW n \in Mac, NEW ip \in IP,
                      Holds(m, ip), Holds(n, ip), held[m].life = held[n].life
               PROVE  m = n
    BY DEF SharedOnlyAcrossRestarts
  <2>1. held[m] # NoGrant /\ held[n] # NoGrant
    BY DEF Holds, NoGrant, IInv, TypeOK, IP
  <2> QED BY <2>1 DEF IInv, GrantedOnce, Holds
<1> QED BY <1>1, Invariance, PTL

(* An offer or acknowledgement on its way is for an address on which nobody *)
(* else has a lease, and which nobody else was granted by the process that  *)
(* sends it, even if the lease was released or ran out in the meantime.     *)
THEOREM RepliesAreFree == Spec => []ReplyIsFree
<1>1. IInv => ReplyIsFree
  <2> SUFFICES ASSUME IInv, NEW rep \in replies, NEW m \in Mac
               PROVE  /\ HasLease(m) /\ leases[m].ip = rep.ip => m = rep.mac
                      /\ Holds(m, rep.ip) => m = rep.mac \/ held[m].life < life
    BY DEF ReplyIsFree
  <2>1. rep.ip \in IP /\ rep.mac \in Mac /\ Given(rep.mac, rep.ip)
    BY DEF IInv, TypeOK, Reply, Given
  <2>2. ASSUME HasLease(m), leases[m].ip = rep.ip
        PROVE  m = rep.mac
    <3>1. leases[m] # NoLease
      BY <2>1, <2>2 DEF NoLease, IP
    <3>2. Given(m, rep.ip)
      BY <2>2, <3>1 DEF Given
    <3> QED BY <2>1, <3>2 DEF IInv, GivenOnce
  <2>3. ASSUME Holds(m, rep.ip), ~ (held[m].life < life)
        PROVE  m = rep.mac
    <3>1. held[m] # NoGrant
      BY <2>1, <2>3 DEF Holds, NoGrant, IP
    <3>2. held[m].life = life
      BY <2>3, <3>1, DhcpBounds DEF IInv, TypeOK, Grant
    <3>3. Given(m, rep.ip)
      BY <2>3, <3>1, <3>2 DEF Holds, Given
    <3> QED BY <2>1, <3>3 DEF IInv, GivenOnce
  <2> QED BY <2>2, <2>3
<1> QED BY <1>1, Invariance, PTL
=============================================================================
