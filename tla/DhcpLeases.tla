----------------------------- MODULE DhcpLeases -----------------------------
(***************************************************************************)
(* services/pxe-stack/internal/dhcp: the lease table of the DHCP helper,   *)
(* and what its clients believe they hold.                                 *)
(*                                                                         *)
(* Every packet is handled on a goroutine of its own; assign and release   *)
(* hold the handler's mutex, the reply is sent after it is unlocked.       *)
(* Packets come from any client at any time, late or twice; replies may be *)
(* lost.  The table is in memory only and starts out empty.                *)
(***************************************************************************)
EXTENDS Integers, FiniteSets

CONSTANTS
  Mac,          \* client hardware addresses
  StartIP,      \* the configured range; addresses are numbers
  EndIP,
  TopIP,        \* 255.255.255.255: incrementing it gives 0
  LeaseTime,    \* in ticks of the clock
  MaxTime,      \* bound: ticks
  MaxRestarts,  \* bound: restarts of the process
  MaxReplies    \* bound: replies being sent at a time

ASSUME RangeAssumption ==
  StartIP \in Nat /\ EndIP \in Nat /\ TopIP \in Nat /\ StartIP <= EndIP
(* 255.255.255.255 is no host address: no range ends with it. *)
ASSUME TopAssumption == EndIP < TopIP
(* PXE_DHCP_LEASE_SECONDS is positive. *)
ASSUME LeaseAssumption == LeaseTime \in Nat \ {0}
ASSUME DhcpBounds == MaxTime \in Nat /\ MaxRestarts \in Nat /\ MaxReplies \in Nat

VARIABLES
  leases,   \* handler.leases[m], or NoLease
  nextIP,   \* handler.nextIP
  replies,  \* replies computed by assign and not sent yet
  held,     \* held[m]: the grant m got with its last ACK, or NoGrant
  now,      \* the clock
  life      \* restarts so far

vars == <<leases, nextIP, replies, held, now, life>>

IP == 0 .. TopIP
PoolIP == StartIP .. EndIP
NoLease == [ip |-> -1, expires |-> -1]
NoGrant == [ip |-> -1, until |-> -1, life |-> -1]

Reply == [mac : Mac, ip : IP, type : {"offer", "ack"}]
Lease == [ip : IP, expires : Nat]
Grant == [ip : IP, until : Nat, life : 0 .. MaxRestarts]

TypeOK ==
  /\ leases \in [Mac -> Lease \cup {NoLease}]
  /\ nextIP \in IP
  /\ replies \in SUBSET Reply
  /\ held \in [Mac -> Grant \cup {NoGrant}]
  /\ now \in 0 .. MaxTime
  /\ life \in 0 .. MaxRestarts
  /\ \A m \in Mac : held[m].life <= life

Init ==
  /\ leases = [m \in Mac |-> NoLease]
  /\ nextIP = StartIP
  /\ replies = {}
  /\ held = [m \in Mac |-> NoGrant]
  /\ now = 0
  /\ life = 0

IncrementIP(ip) == IF ip = TopIP THEN 0 ELSE ip + 1

HasLease(m) == leases[m].expires > now
IsAllocated(ip) == \E m \in Mac : HasLease(m) /\ leases[m].ip = ip

(* ip is the first free address from lo on. *)
FirstFree(lo, ip) ==
  /\ ip \in lo .. EndIP
  /\ ~ IsAllocated(ip)
  /\ \A other \in lo .. ip - 1 : IsAllocated(other)

(* Mutant of Available: the end of the range is not checked. *)
AvailableUnbounded(ip) ==
  /\ ip >= nextIP /\ ~ IsAllocated(ip)
  /\ \A other \in nextIP .. ip - 1 : IsAllocated(other)

(* Mutant of Available: the search wraps when it starts beyond the range. *)
AvailableWrapping(ip) ==
  \/ FirstFree(nextIP, ip)
  \/ (\A other \in nextIP .. EndIP : IsAllocated(other)) /\ FirstFree(StartIP, ip)

(***************************************************************************)
(* The two loops of assign: from nextIP to the end of the range, and, only *)
(* if the last address of the range was reached and is taken, once more    *)
(* from the start.                                                         *)
(***************************************************************************)
Available(ip) ==
  /\ nextIP <= EndIP
  /\ \/ FirstFree(nextIP, ip)
     \/ /\ \A other \in nextIP .. EndIP : IsAllocated(other)
        /\ FirstFree(StartIP, ip)

(* A lease that has not expired is handed out again, its expiry unchanged. *)
KeepLease(m, ip) ==
  /\ HasLease(m)
  /\ ip = leases[m].ip
  /\ UNCHANGED <<leases, nextIP>>

NewLease(m, ip) ==
  /\ ~ HasLease(m)
  /\ Available(ip)
  /\ leases' = [leases EXCEPT ![m] = [ip |-> ip, expires |-> now + LeaseTime]]
  /\ nextIP' = IncrementIP(ip)

(* DISCOVER or REQUEST, up to the unlock in assign. *)
Assign(m, type) ==
  \E ip \in IP :
    /\ KeepLease(m, ip) \/ NewLease(m, ip)
    /\ Cardinality(replies) < MaxReplies
    /\ replies' = replies \cup {[mac |-> m, ip |-> ip, type |-> type]}
    /\ UNCHANGED <<held, now, life>>

(* "no available lease": logged, and no reply is sent. *)
Refuse(m) ==
  /\ ~ HasLease(m)
  /\ \A ip \in IP : ~ Available(ip)
  /\ UNCHANGED vars

(* The reply reaches its client; an ACK grants a whole LeaseTime from now. *)
SendReply(rep) ==
  /\ rep \in replies
  /\ replies' = replies \ {rep}
  /\ held' = IF rep.type = "ack"
               THEN [held EXCEPT ![rep.mac] =
                       [ip |-> rep.ip, until |-> now + LeaseTime, life |-> life]]
               ELSE held
  /\ UNCHANGED <<leases, nextIP, now, life>>

LoseReply(rep) ==
  /\ rep \in replies
  /\ replies' = replies \ {rep}
  /\ UNCHANGED <<leases, nextIP, held, now, life>>

(* The client gives its address up; its RELEASE may arrive later, or never. *)
GiveUp(m) ==
  /\ held[m] # NoGrant
  /\ held' = [held EXCEPT ![m] = NoGrant]
  /\ UNCHANGED <<leases, nextIP, replies, now, life>>

Release(m) ==
  /\ leases' = [leases EXCEPT ![m] = NoLease]
  /\ UNCHANGED <<nextIP, replies, held, now, life>>

Restart ==
  /\ life < MaxRestarts
  /\ life' = life + 1
  /\ leases' = [m \in Mac |-> NoLease]
  /\ nextIP' = StartIP
  /\ replies' = {}
  /\ UNCHANGED <<held, now>>

Tick ==
  /\ now < MaxTime
  /\ now' = now + 1
  /\ UNCHANGED <<leases, nextIP, replies, held, life>>

Next ==
  \/ \E m \in Mac :
       \/ \E type \in {"offer", "ack"} : Assign(m, type)
       \/ Refuse(m) \/ GiveUp(m) \/ Release(m)
  \/ \E rep \in replies : SendReply(rep) \/ LoseReply(rep)
  \/ Restart
  \/ Tick

Spec == Init /\ [][Next]_vars

-----------------------------------------------------------------------------
(* What a client that trusts its ACK believes it may use, whichever process *)
(* sent it.                                                                 *)
Holds(m, ip) == held[m].ip = ip /\ held[m].until > now

(* What one process granted it never grants to another client, although    *)
(* its table forgets a lease LeaseTime after the first offer, renewals or  *)
(* not: two clients that hold an address by their own clocks got it from   *)
(* two processes, the later of which knows nothing of the earlier's leases. *)
SharedOnlyAcrossRestarts ==
  \A m, n \in Mac : \A ip \in IP :
    Holds(m, ip) /\ Holds(n, ip) => m = n \/ held[m].life # held[n].life

(* Nothing outside the configured range is leased, offered or granted,     *)
(* also when nextIP has run past its end.                                  *)
InRange ==
  /\ \A m \in Mac : leases[m] = NoLease \/ leases[m].ip \in PoolIP
  /\ \A rep \in replies : rep.ip \in PoolIP
  /\ \A m \in Mac : held[m] = NoGrant \/ held[m].ip \in PoolIP

(* A reply on its way names an address that no other client has a lease    *)
(* on, and no other client holds but by the word of an earlier process.    *)
ReplyIsFree ==
  \A rep \in replies : \A m \in Mac :
    /\ HasLease(m) /\ leases[m].ip = rep.ip => m = rep.mac
    /\ Holds(m, rep.ip) => m = rep.mac \/ held[m].life < life

-----------------------------------------------------------------------------
(***************************************************************************)
(* The inductive invariant: this process gave every address below nextIP   *)
(* to at most one client, and none of the others to anybody; so did every  *)
(* earlier one, as far as its grants still show it.                        *)
(***************************************************************************)
Given(m, ip) ==
  \/ leases[m] # NoLease /\ leases[m].ip = ip
  \/ \E rep \in replies : rep.mac = m /\ rep.ip = ip
  \/ held[m] # NoGrant /\ held[m].life = life /\ held[m].ip = ip

GivenOnce == \A m, n \in Mac : \A ip \in IP : Given(m, ip) /\ Given(n, ip) => m = n
GivenBelowNext == \A m \in Mac : \A ip \in IP : Given(m, ip) => ip < nextIP

GrantedOnce ==
  \A m, n \in Mac :
    held[m] # NoGrant /\ held[n] # NoGrant
      /\ held[m].ip = held[n].ip /\ held[m].life = held[n].life => m = n

IInv ==
  /\ TypeOK
  /\ InRange
  /\ nextIP \in StartIP .. EndIP + 1
  /\ GivenOnce
  /\ GivenBelowNext
  /\ GrantedOnce

-----------------------------------------------------------------------------
(* "no available lease for <mac>" is logged only when every address of the *)
(* range is leased; the loop that starts over from startIP is there for it. *)
FreeAddressIsOffered ==
  \A m \in Mac :
    ~ HasLease(m) /\ (\E ip \in PoolIP : ~ IsAllocated(ip))
      => \E ip \in PoolIP : Available(ip)
=============================================================================
