-------------------------- MODULE TokenStoreProofs --------------------------
(***************************************************************************)
(* Proofs about TokenStore, for any machines, workers, TTL and bounds.     *)
(***************************************************************************)
EXTENDS TokenStore, TLAPS

Record == [pc : Pc, kind : Kind, mac : Mac, token : TokenRef, time : Nat,
           spent : SUBSET TokenId]

(* No step brings a dead token back: what was used stays used or goes, and *)
(* a row's expiry never moves later.                                       *)
Decays ==
  /\ next <= next' /\ now <= now'
  /\ \A t \in TokenId :
       /\ booted[t] > 0 => booted'[t] > 0
       /\ rotated[t] > 0 => rotated'[t] > 0
       /\ t < next =>
            /\ tokens[t].used \/ ~ Exists(t) => tokens'[t].used \/ tokens'[t] = NoRow
            /\ tokens'[t].expires <= tokens[t].expires

-----------------------------------------------------------------------------
LEMMA RowFields ==
  ASSUME TypeOK, NEW t \in TokenId
  PROVE  /\ tokens[t].expires \in Int
         /\ tokens[t].used \in BOOLEAN
         /\ Exists(t) => tokens[t] \in Row
<1>1. tokens[t] \in Row \cup {NoRow}
  BY DEF TypeOK
<1>2. tokens[t].expires \in Int
  BY <1>1 DEF Row, NoRow
<1>3. tokens[t].used \in BOOLEAN
  <2>1. CASE tokens[t] = NoRow
    BY <2>1 DEF NoRow
  <2>2. CASE tokens[t] \in Row
    BY <2>2 DEF Row
  <2> QED BY <1>1, <2>1, <2>2
<1> QED BY <1>1, <1>2, <1>3 DEF Exists

LEMMA RequestFields ==
  ASSUME TypeOK, NEW w \in Worker
  PROVE  /\ requests[w].pc # "idle" => requests[w] \in Record
         /\ requests[w].pc \in Pc \cup {"idle"}
         /\ requests[w].kind \in Kind
         /\ requests[w].token \in TokenRef
         /\ requests[w].time \in Nat
         /\ requests[w].spent \in SUBSET TokenId
  BY DEF TypeOK, Request, Record, Idle, Pc, Kind, TokenRef

(* A request whose own state does not change keeps its part of IInv. *)
LEMMA RequestKeeps ==
  ASSUME IInv, Decays, next' \in Nat, now' \in Nat, TypeOK',
         NEW w \in Worker, requests'[w] = requests[w]
  PROVE  RequestOK(w)'
<1> DEFINE req == requests[w]
<1>1. /\ TypeOK /\ RequestOK(w) /\ FreshOK
      /\ next \in Nat /\ now \in Nat
  BY TokenBounds DEF IInv, TypeOK
<1>2. CASE req.pc = "idle"
  BY <1>2 DEF RequestOK
<1>3. CASE req.pc # "idle"
  <2>1. req.spent \in SUBSET TokenId /\ req.time \in Nat /\ req.token \in TokenRef
    BY <1>1, RequestFields
  <2>2. \A t \in TokenId : t \in Int /\ tokens[t].expires \in Int /\ tokens'[t].expires \in Int
    <3>1. \A t \in TokenId : tokens'[t] \in Row \cup {NoRow}
      BY DEF TypeOK
    <3>2. \A t \in TokenId : tokens'[t].expires \in Int
      BY <3>1 DEF Row, NoRow
    <3> QED BY <1>1, <3>2, RowFields, TokenBounds DEF TokenId
  <2>3. \A t \in TokenId : (booted[t] > 0 \/ rotated[t] > 0) => t < next
    BY <1>1, <2>2 DEF FreshOK, TypeOK
  <2>4. ASSUME req.kind = "ipxe" PROVE BootOK(w)'
    <3>1. BootOK(w)
      BY <1>1, <1>3, <2>4 DEF RequestOK
    <3>2. \A t \in req.spent : booted'[t] > 0
      BY <2>1, <3>1 DEF BootOK, Decays
    <3>3. req.pc \in {"mark", "render"} =>
            req.token \in 1 .. next' - 1 /\ req.token \notin req.spent
      BY <1>1, <3>1 DEF BootOK, Decays
    <3>4. req.pc = "render" => tokens'[req.token].used \/ tokens'[req.token] = NoRow
      <4>1. SUFFICES ASSUME req.pc = "render"
                     PROVE  tokens'[req.token].used \/ tokens'[req.token] = NoRow
        OBVIOUS
      <4>2. req.token \in TokenId /\ req.token < next
        BY <1>1, <2>1, <3>1, <4>1, TokenBounds DEF BootOK, TokenRef, NoToken, TokenId
      <4>3. tokens[req.token].used \/ ~ Exists(req.token)
        BY <3>1, <4>1 DEF BootOK
      <4> QED BY <4>2, <4>3 DEF Decays
    <3> QED BY <3>2, <3>3, <3>4 DEF BootOK, Exists
  <2>5. ASSUME req.kind = "refresh" PROVE RefreshOK(w)'
    <3>1. RefreshOK(w)
      BY <1>1, <1>3, <2>5 DEF RequestOK
    <3>2. \A t \in req.spent : rotated'[t] > 0
      BY <2>1, <3>1 DEF RefreshOK, Decays
    <3>3. req.token \in 1 .. next' - 1
      BY <1>1, <3>1 DEF RefreshOK, Decays
    <3>4. ASSUME req.pc = "commit"
          PROVE  req.time <= now' /\ \A t \in req.spent : tokens'[t].expires <= req.time
      <4>1. req.time <= now /\ \A t \in req.spent : tokens[t].expires <= req.time
        BY <3>1, <3>4 DEF RefreshOK
      <4>2. req.time <= now'
        BY <1>1, <2>1, <4>1 DEF Decays
      <4>3. ASSUME NEW t \in req.spent PROVE tokens'[t].expires <= req.time
        <5>1. t \in TokenId /\ rotated[t] > 0
          BY <2>1, <3>1 DEF RefreshOK
        <5>2. tokens'[t].expires <= tokens[t].expires
          BY <2>3, <5>1 DEF Decays
        <5>3. tokens[t].expires <= req.time
          BY <4>1
        <5> QED BY <2>1, <2>2, <5>1, <5>2, <5>3
      <4> QED BY <4>2, <4>3
    <3> QED BY <3>1, <3>2, <3>3, <3>4 DEF RefreshOK
  <2> QED BY <1>1, <2>4, <2>5 DEF RequestOK
<1> QED BY <1>2, <1>3

(* A step of one request w keeps the invariant, if it keeps the rows' part *)
(* of it and w's own.                                                      *)
LEMMA StepOf ==
  ASSUME IInv, TypeOK', FreshOK', SpentIsDead', Decays, NEW w \in Worker,
         \A v \in Worker : v # w => requests'[v] = requests[v],
         RequestOK(w)'
  PROVE  IInv'
<1>1. next' \in Nat /\ now' \in Nat
  BY TokenBounds DEF TypeOK
<1>2. ASSUME NEW v \in Worker PROVE RequestOK(v)'
  BY <1>1, RequestKeeps
<1> QED BY <1>2 DEF IInv

(* Steps that only move requests. *)
LEMMA Still ==
  ASSUME IInv, UNCHANGED <<tokens, next, now, booted, rotated>>
  PROVE  FreshOK' /\ SpentIsDead' /\ Decays
<1>1. next \in Int /\ now \in Int /\ \A t \in TokenId : tokens[t].expires \in Int
  BY RowFields, TokenBounds DEF IInv, TypeOK
<1> QED BY <1>1 DEF IInv, FreshOK, SpentIsDead, Decays, Exists

(* Steps that neither render for iPXE nor rotate. *)
LEMMA DeadStaysDead ==
  ASSUME IInv, TypeOK', Decays, UNCHANGED <<booted, rotated>>
  PROVE  SpentIsDead'
<1>1. /\ next \in Int /\ now \in Int /\ now' \in Int
      /\ \A t \in TokenId : t \in Int /\ tokens[t].expires \in Int /\ tokens'[t].expires \in Int
      /\ \A t \in TokenId : booted[t] \in Nat /\ rotated[t] \in Nat
  <2>1. TypeOK
    BY DEF IInv
  <2>2. \A t \in TokenId : tokens'[t] \in Row \cup {NoRow}
    BY DEF TypeOK
  <2>3. \A t \in TokenId : tokens'[t].expires \in Int
    BY <2>2 DEF Row, NoRow
  <2> QED BY <2>1, <2>3, RowFields, TokenBounds DEF TypeOK, TokenId
<1>2. SUFFICES ASSUME NEW t \in TokenId
               PROVE  /\ booted[t] > 0 => tokens'[t].used \/ tokens'[t] = NoRow
                      /\ rotated[t] > 0 => tokens'[t].expires <= now'
  BY DEF SpentIsDead, Exists
<1>3. booted[t] > 0 \/ rotated[t] > 0 => t < next
  BY <1>1 DEF IInv, FreshOK
<1>4. ASSUME booted[t] > 0 PROVE tokens'[t].used \/ tokens'[t] = NoRow
  BY <1>3, <1>4 DEF IInv, SpentIsDead, Decays
<1>5. ASSUME rotated[t] > 0 PROVE tokens'[t].expires <= now'
  <2>1. tokens'[t].expires <= tokens[t].expires /\ now <= now'
    BY <1>3, <1>5 DEF Decays
  <2>2. tokens[t].expires <= now
    BY <1>5 DEF IInv, SpentIsDead
  <2> QED BY <1>1, <2>1, <2>2
<1> QED BY <1>4, <1>5

-----------------------------------------------------------------------------
LEMMA Initially == Init => IInv
<1> SUFFICES ASSUME Init PROVE IInv
  OBVIOUS
<1> USE TokenBounds
<1>1. TypeOK
  BY DEF Init, TypeOK, Request
<1>2. FreshOK /\ SpentIsDead
  BY DEF Init, FreshOK, SpentIsDead, Exists
<1>3. \A w \in Worker : requests[w].pc = "idle"
  BY DEF Init, Idle
<1> QED BY <1>1, <1>2, <1>3 DEF IInv, RequestOK

(* Steps that end a request and leave the tokens alone. *)
LEMMA DoneKeeps ==
  ASSUME IInv, NEW w \in Worker, Done(w),
         UNCHANGED <<tokens, next, now, accepted, booted, rotated>>,
         served' \in [TokenId -> Nat]
  PROVE  IInv'
<1>1. TypeOK' /\ requests' = [requests EXCEPT ![w] = Idle]
  BY DEF IInv, TypeOK, Done, Request
<1>2. \A v \in Worker : v # w => requests'[v] = requests[v]
  BY <1>1
<1>3. requests'[w].pc = "idle"
  BY <1>1 DEF IInv, TypeOK, Idle
<1>4. RequestOK(w)'
  BY <1>3 DEF RequestOK
<1> QED BY <1>1, <1>2, <1>4, Still, StepOf

LEMMA BeginIPXEKeeps ==
  ASSUME IInv, NEW w \in Worker, NEW mac \in Mac, BeginIPXE(w, mac)
  PROVE  IInv'
<1> DEFINE rec == [pc |-> "purge", kind |-> "ipxe", mac |-> mac,
                   token |-> NoToken, time |-> 0,
                   spent |-> {t \in TokenId : booted[t] > 0}]
<1>1. /\ requests' = [requests EXCEPT ![w] = rec]
      /\ accepted < MaxRequests /\ accepted' = accepted + 1
      /\ UNCHANGED <<tokens, next, now, booted, served, rotated>>
  BY DEF BeginIPXE, Accept
<1>2. rec \in Record
  BY DEF Record, Pc, Kind, TokenRef, NoToken
<1>3. TypeOK'
  BY <1>1, <1>2, TokenBounds DEF IInv, TypeOK, Request, Record
<1>4. requests'[w] = rec /\ \A v \in Worker : v # w => requests'[v] = requests[v]
  BY <1>1 DEF IInv, TypeOK
<1>5. RequestOK(w)'
  BY <1>1, <1>4 DEF RequestOK, BootOK
<1> QED BY <1>1, <1>3, <1>4, <1>5, Still, StepOf

LEMMA BeginFileKeeps ==
  ASSUME IInv, NEW w \in Worker, NEW mac \in Mac, BeginFile(w, mac)
  PROVE  IInv'
<1> DEFINE rec == [pc |-> "issuePurge", kind |-> "file", mac |-> mac,
                   token |-> NoToken, time |-> 0, spent |-> {}]
<1>1. /\ requests' = [requests EXCEPT ![w] = rec]
      /\ accepted < MaxRequests /\ accepted' = accepted + 1
      /\ UNCHANGED <<tokens, next, now, booted, served, rotated>>
  BY DEF BeginFile, Accept
<1>2. rec \in Record
  BY DEF Record, Pc, Kind, TokenRef, NoToken
<1>3. TypeOK'
  BY <1>1, <1>2, TokenBounds DEF IInv, TypeOK, Request, Record
<1>4. requests'[w] = rec /\ \A v \in Worker : v # w => requests'[v] = requests[v]
  BY <1>1 DEF IInv, TypeOK
<1>5. RequestOK(w)'
  BY <1>1, <1>4 DEF RequestOK
<1> QED BY <1>1, <1>3, <1>4, <1>5, Still, StepOf

LEMMA BeginRefreshKeeps ==
  ASSUME IInv, NEW w \in Worker, NEW mac \in Mac, NEW t \in TokenId,
         BeginRefresh(w, mac, t)
  PROVE  IInv'
<1> DEFINE rec == [pc |-> "begin", kind |-> "refresh", mac |-> mac,
                   token |-> t, time |-> 0,
                   spent |-> {u \in TokenId : rotated[u] > 0}]
<1>1. /\ requests' = [requests EXCEPT ![w] = rec] /\ t < next
      /\ accepted < MaxRequests /\ accepted' = accepted + 1
      /\ UNCHANGED <<tokens, next, now, booted, served, rotated>>
  BY DEF BeginRefresh, Accept
<1>2. rec \in Record
  BY DEF Record, Pc, Kind, TokenRef
<1>3. TypeOK'
  BY <1>1, <1>2, TokenBounds DEF IInv, TypeOK, Request, Record
<1>4. requests'[w] = rec /\ \A v \in Worker : v # w => requests'[v] = requests[v]
  BY <1>1 DEF IInv, TypeOK
<1>5. t \in 1 .. next - 1
  BY <1>1, TokenBounds DEF IInv, TypeOK, TokenId
<1>6. RequestOK(w)'
  BY <1>1, <1>4, <1>5 DEF RequestOK, RefreshOK
<1> QED BY <1>1, <1>3, <1>4, <1>6, Still, StepOf

(* A request that moves on is still a request and differs in pc alone. *)
LEMMA Moves ==
  ASSUME TypeOK, NEW w \in Worker, requests[w].pc # "idle", NEW p \in Pc, Goto(w, p)
  PROVE  /\ requests' \in [Worker -> Request]
         /\ \A v \in Worker : v # w => requests'[v] = requests[v]
         /\ requests'[w].pc = p
         /\ requests'[w].kind = requests[w].kind
         /\ requests'[w].token = requests[w].token
         /\ requests'[w].time = requests[w].time
         /\ requests'[w].spent = requests[w].spent
<1>1. requests[w] \in Record
  BY RequestFields
<1>2. requests' = [requests EXCEPT ![w] = [requests[w] EXCEPT !.pc = p]]
  BY DEF Goto
<1>3. [requests[w] EXCEPT !.pc = p] \in Record
  BY <1>1 DEF Record
<1> QED BY <1>1, <1>2, <1>3 DEF TypeOK, Request, Record

LEMMA PurgeKeeps ==
  ASSUME IInv, NEW w \in Worker, Purge(w)
  PROVE  IInv'
<1>1. /\ TypeOK /\ requests[w].pc \in {"purge", "issuePurge"}
      /\ tokens' = Purged(now)
      /\ UNCHANGED <<next, now, accepted, booted, served, rotated>>
  BY DEF IInv, Purge
<1>2. PICK p \in {"active", "insert"} :
        Goto(w, p) /\ (p = "active" => requests[w].pc = "purge")
  BY DEF Purge
<1>3. /\ requests' \in [Worker -> Request]
      /\ \A v \in Worker : v # w => requests'[v] = requests[v]
      /\ requests'[w].pc = p
      /\ requests'[w].kind = requests[w].kind
      /\ requests'[w].spent = requests[w].spent
  BY <1>1, <1>2, Moves DEF Pc
<1>4. TypeOK'
  BY <1>1, <1>3 DEF TypeOK, Purged
<1>5. /\ next \in Int /\ now \in Int
      /\ \A t \in TokenId : tokens[t].expires \in Int /\ tokens[t].expires >= -1
  <2>1. \A t \in TokenId : tokens[t] \in Row \cup {NoRow}
    BY <1>1 DEF TypeOK
  <2>2. \A t \in TokenId : tokens[t].expires \in Int /\ tokens[t].expires >= -1
    BY <2>1 DEF Row, NoRow
  <2> QED BY <1>1, <2>2, TokenBounds DEF TypeOK
<1>6. \A t \in TokenId : tokens'[t] = tokens[t] \/ tokens'[t] = NoRow
  BY <1>1 DEF Purged
<1>7. NoRow.expires = -1
  BY DEF NoRow
<1>8. Decays
  BY <1>1, <1>5, <1>6, <1>7 DEF Decays, Exists
<1>9. FreshOK'
  BY <1>1, <1>6 DEF IInv, FreshOK, Exists
<1>10. SpentIsDead'
  BY <1>1, <1>4, <1>8, DeadStaysDead
<1>11. RequestOK(w)'
  <2>1. RequestOK(w) /\ requests[w].pc \notin {"idle", "begin", "commit"}
    BY <1>1 DEF IInv
  <2>2. requests[w].kind # "refresh"
    BY <2>1 DEF RequestOK, RefreshOK
  <2> QED BY <1>1, <1>2, <1>3, <2>1, <2>2 DEF RequestOK, BootOK
<1> QED BY <1>3, <1>4, <1>8, <1>9, <1>10, <1>11, StepOf

LEMMA ActiveKeeps ==
  ASSUME IInv, NEW w \in Worker, Active(w)
  PROVE  IInv'
<1> DEFINE req == requests[w]
<1>1. /\ TypeOK /\ req.pc = "active" /\ RequestOK(w)
      /\ UNCHANGED <<tokens, next, now, accepted, booted, served, rotated>>
  BY DEF IInv, Active
<1>2. req \in Record
  BY <1>1, RequestFields
<1>3. req.kind # "refresh" /\ (req.kind = "ipxe" => BootOK(w))
  BY <1>1 DEF RequestOK, RefreshOK
<1>4. FreshOK' /\ SpentIsDead' /\ Decays
  BY <1>1, Still
<1>5. ASSUME Goto(w, "issuePurge") PROVE IInv'
  <2>1. /\ requests' \in [Worker -> Request]
        /\ \A v \in Worker : v # w => requests'[v] = requests[v]
        /\ requests'[w].pc = "issuePurge"
        /\ requests'[w].kind = req.kind
        /\ requests'[w].spent = req.spent
    BY <1>1, <1>5, Moves DEF Pc
  <2>2. TypeOK'
    BY <1>1, <2>1 DEF TypeOK
  <2>3. RequestOK(w)'
    BY <1>1, <1>3, <2>1 DEF RequestOK, BootOK
  <2> QED BY <1>4, <2>1, <2>2, <2>3, StepOf
(* The token found is unused, so no iPXE script ever carried it. *)
<1>6. ASSUME NEW t \in TokenId, Usable(t, req.mac),
             requests' = [requests EXCEPT ![w].token = t, ![w].pc = "mark"]
      PROVE  IInv'
  <2> DEFINE rec == [req EXCEPT !.token = t, !.pc = "mark"]
  <2>1. rec \in Record
    BY <1>2 DEF Record, Pc, TokenRef
  <2>2. requests' = [requests EXCEPT ![w] = rec]
    BY <1>6
  <2>3. TypeOK'
    BY <1>1, <2>1, <2>2 DEF TypeOK, Request, Record
  <2>4. /\ \A v \in Worker : v # w => requests'[v] = requests[v]
        /\ requests'[w].pc = "mark"
        /\ requests'[w].kind = req.kind
        /\ requests'[w].token = t
        /\ requests'[w].spent = req.spent
    BY <1>1, <1>2, <2>2 DEF TypeOK, Record
  <2>5. Exists(t) /\ ~ tokens[t].used
    <3>1. req.mac \in Mac /\ NoRow.mac = NoMac
      BY <1>2 DEF Record, NoRow
    <3> QED BY <1>6, <3>1, MacAssumption DEF Usable, Exists
  <2>6. t \in 1 .. next - 1 /\ ~ (booted[t] > 0)
    BY <1>1, <2>5, TokenBounds DEF IInv, FreshOK, SpentIsDead, TypeOK, TokenId
  <2>7. req.kind = "ipxe"
    BY <1>1 DEF RequestOK
  <2>8. RequestOK(w)'
    BY <1>1, <1>3, <2>4, <2>6, <2>7 DEF RequestOK, BootOK
  <2> QED BY <1>4, <2>3, <2>4, <2>8, StepOf
<1> QED BY <1>5, <1>6 DEF Active

LEMMA InsertKeeps ==
  ASSUME IInv, NEW w \in Worker, Insert(w)
  PROVE  IInv'
<1> DEFINE req == requests[w]
           row == NewToken(req.mac, now)
           pc  == IF req.kind = "ipxe" THEN "mark" ELSE "render"
           rec == [req EXCEPT !.token = next, !.pc = pc]
<1>1. /\ TypeOK /\ RequestOK(w) /\ req.pc = "insert" /\ req \in Record
      /\ next \in TokenId /\ next' = next + 1
      /\ tokens' = [tokens EXCEPT ![next] = row]
      /\ UNCHANGED <<now, accepted, booted, served, rotated>>
  <2>1. TypeOK /\ RequestOK(w) /\ req.pc = "insert" /\ next <= MaxTokens
    BY DEF IInv, Insert
  <2>2. next \in TokenId
    BY <2>1, TokenBounds DEF TypeOK, TokenId
  <2> QED BY <2>1, <2>2, RequestFields DEF Insert
<1>2. requests' = [requests EXCEPT ![w] = rec]
  BY DEF Insert
<1>3. now \in Nat /\ next \in Nat /\ TTL \in Nat /\ MaxTokens \in Nat
  BY <1>1, TokenBounds, TTLAssumption DEF TypeOK
<1>4. row \in Row
  BY <1>1, <1>3 DEF NewToken, Row, Record
<1>5. rec \in Record
  BY <1>1 DEF Record, Pc, TokenRef
<1>6. TypeOK'
  <2>1. tokens' \in [TokenId -> Row \cup {NoRow}]
    BY <1>1, <1>4 DEF TypeOK
  <2>2. requests' \in [Worker -> Request]
    BY <1>1, <1>2, <1>5 DEF TypeOK, Request, Record
  <2>3. next' \in 1 .. MaxTokens + 1
    BY <1>1, <1>3 DEF TokenId
  <2> QED BY <1>1, <2>1, <2>2, <2>3 DEF TypeOK
<1>7. /\ \A v \in Worker : v # w => requests'[v] = requests[v]
      /\ requests'[w].pc = pc
      /\ requests'[w].kind = req.kind
      /\ requests'[w].token = next
      /\ requests'[w].spent = req.spent
  BY <1>1, <1>2 DEF TypeOK, Record
<1>8. \A t \in TokenId : t # next => tokens'[t] = tokens[t]
  BY <1>1 DEF TypeOK
<1>9. \A t \in TokenId : t \in Int /\ tokens[t].expires \in Int
  BY <1>1, <1>3, RowFields DEF TokenId
<1>10. Decays
  BY <1>1, <1>3, <1>8, <1>9 DEF Decays, Exists
<1>11. FreshOK'
  BY <1>1, <1>3, <1>8, <1>9 DEF IInv, FreshOK, Exists
<1>12. SpentIsDead'
  BY <1>1, <1>6, <1>10, DeadStaysDead
(* The value is new, so no script carried it. *)
<1>13. RequestOK(w)'
  <2>1. req.kind # "refresh" /\ (req.kind = "ipxe" => BootOK(w))
    BY <1>1 DEF RequestOK, RefreshOK
  <2>2. ~ (booted[next] > 0)
    BY <1>1, <1>3 DEF IInv, FreshOK
  <2>3. next \in 1 .. next' - 1
    BY <1>1, <1>3 DEF TokenId
  <2>4. req.kind = "ipxe" => BootOK(w)'
    BY <1>1, <1>7, <2>1, <2>2, <2>3 DEF BootOK
  <2> QED BY <1>1, <1>7, <2>1, <2>4 DEF RequestOK
<1> QED BY <1>6, <1>7, <1>10, <1>11, <1>12, <1>13, StepOf

LEMMA MarkUsedKeeps ==
  ASSUME IInv, NEW w \in Worker, MarkUsed(w)
  PROVE  IInv'
<1> DEFINE req == requests[w]
           t == req.token
<1>1. /\ TypeOK /\ RequestOK(w) /\ req.pc = "mark"
      /\ UNCHANGED <<next, now, accepted, booted, served, rotated>>
  BY DEF IInv, MarkUsed
<1>2. req.kind = "ipxe" /\ BootOK(w)
  BY <1>1 DEF RequestOK
<1>3. t \in TokenId
  BY <1>1, <1>2, TokenBounds DEF BootOK, TypeOK, TokenId
<1>4. ASSUME ~ Exists(t), Done(w), UNCHANGED tokens PROVE IInv'
  BY <1>1, <1>4, DoneKeeps DEF TypeOK
<1>5. ASSUME Exists(t), Goto(w, "render"), tokens' = [tokens EXCEPT ![t].used = TRUE]
      PROVE  IInv'
  <2>1. /\ requests' \in [Worker -> Request]
        /\ \A v \in Worker : v # w => requests'[v] = requests[v]
        /\ requests'[w].pc = "render"
        /\ requests'[w].kind = req.kind
        /\ requests'[w].token = t
        /\ requests'[w].spent = req.spent
    BY <1>1, <1>5, Moves DEF Pc
  <2>2. /\ tokens[t] \in Row
        /\ tokens' = [tokens EXCEPT ![t] = [tokens[t] EXCEPT !.used = TRUE]]
    BY <1>1, <1>3, <1>5, RowFields
  <2>3. [tokens[t] EXCEPT !.used = TRUE] \in Row
    BY <2>2 DEF Row
  <2>4. TypeOK'
    BY <1>1, <2>1, <2>2, <2>3 DEF TypeOK
  <2>5. /\ \A u \in TokenId : u # t => tokens'[u] = tokens[u]
        /\ tokens'[t].used
        /\ tokens'[t].expires = tokens[t].expires
    BY <1>1, <1>3, <2>2 DEF TypeOK, Row
  <2>6. /\ next \in Int /\ now \in Int
        /\ \A u \in TokenId : u \in Int /\ tokens[u].expires \in Int
    <3>1. \A u \in TokenId : tokens[u].expires \in Int
      BY <1>1, RowFields
    <3> QED BY <1>1, <3>1, TokenBounds DEF TypeOK, TokenId
  <2>7. Decays
    <3>1. \A u \in TokenId : tokens'[u].expires = tokens[u].expires
      BY <2>5
    <3>2. \A u \in TokenId : tokens[u].used \/ ~ Exists(u) =>
                            tokens'[u].used \/ tokens'[u] = NoRow
      BY <2>5 DEF Exists
    <3> QED BY <1>1, <2>6, <3>1, <3>2 DEF Decays
  <2>8. FreshOK'
    <3>1. \A u \in TokenId : u >= next => u # t
      BY <1>2, <1>1, <2>6, <1>3 DEF BootOK
    <3> QED BY <1>1, <2>5, <3>1 DEF IInv, FreshOK, Exists
  <2>9. SpentIsDead'
    BY <1>1, <2>4, <2>7, DeadStaysDead
  <2>10. RequestOK(w)'
    BY <1>1, <1>2, <2>1, <2>5 DEF RequestOK, BootOK
  <2> QED BY <2>1, <2>4, <2>7, <2>8, <2>9, <2>10, StepOf
<1> QED BY <1>4, <1>5 DEF MarkUsed

LEMMA RenderKeeps ==
  ASSUME IInv, NEW w \in Worker, Render(w)
  PROVE  IInv'
<1> DEFINE req == requests[w]
           t == req.token
<1>1. /\ TypeOK /\ RequestOK(w) /\ req.pc = "render" /\ Done(w)
      /\ UNCHANGED <<tokens, next, now, accepted, rotated>>
  BY DEF IInv, Render
<1>2. ASSUME req.kind = "file", served' = Count(served, t), UNCHANGED booted
      PROVE  IInv'
  <2>1. served' \in [TokenId -> Nat]
    <3>1. served \in [TokenId -> Nat] /\ \A u \in TokenId : served[u] + 1 \in Nat
      BY <1>1 DEF TypeOK
    <3>2. served' = [served EXCEPT ![t] = served[t] + 1]
      BY <1>2 DEF Count
    <3> QED BY <3>1, <3>2
  <2> QED BY <1>1, <1>2, <2>1, DoneKeeps
<1>3. ASSUME req.kind = "ipxe", booted' = Count(booted, t), UNCHANGED served
      PROVE  IInv'
  <2>1. BootOK(w)
    BY <1>1, <1>3 DEF RequestOK
  <2>2. t \in TokenId /\ t < next /\ (tokens[t].used \/ ~ Exists(t))
    BY <1>1, <2>1, TokenBounds DEF BootOK, TypeOK, TokenId
  <2>3. /\ \A u \in TokenId : u # t => booted'[u] = booted[u]
        /\ booted' \in [TokenId -> Nat] /\ booted'[t] = booted[t] + 1
        /\ booted[t] \in Nat
    BY <1>1, <1>3, <2>2 DEF TypeOK, Count
  <2>4. requests' = [requests EXCEPT ![w] = Idle]
    BY <1>1 DEF Done
  <2>5. TypeOK'
    BY <1>1, <1>3, <2>3, <2>4 DEF TypeOK, Request
  <2>6. /\ \A v \in Worker : v # w => requests'[v] = requests[v]
        /\ requests'[w].pc = "idle"
    BY <1>1, <2>4 DEF TypeOK, Idle
  <2>7. RequestOK(w)'
    BY <2>6 DEF RequestOK
  <2>8. \A u \in TokenId : u \in Int /\ tokens[u].expires \in Int
    <3>1. \A u \in TokenId : tokens[u].expires \in Int
      BY <1>1, RowFields
    <3> QED BY <3>1, TokenBounds DEF TokenId
  <2>9. next \in Int /\ now \in Int
    BY <1>1, TokenBounds DEF TypeOK
  <2>10. Decays
    <3>1. \A u \in TokenId : booted[u] > 0 => booted'[u] > 0
      BY <2>3
    <3> QED BY <1>1, <2>8, <2>9, <3>1 DEF Decays, Exists
  <2>11. FreshOK'
    <3>1. \A u \in TokenId : u >= next => booted'[u] = booted[u]
      BY <2>2, <2>3, <2>8, <2>9
    <3> QED BY <1>1, <3>1 DEF IInv, FreshOK, Exists
  <2>12. SpentIsDead'
    BY <1>1, <2>2, <2>3 DEF IInv, SpentIsDead, Exists
  <2> QED BY <2>5, <2>6, <2>7, <2>10, <2>11, <2>12, StepOf
<1> QED BY <1>2, <1>3 DEF Render

LEMMA RotateBeginKeeps ==
  ASSUME IInv, NEW w \in Worker, RotateBegin(w)
  PROVE  IInv'
<1> DEFINE req == requests[w]
           rec == [req EXCEPT !.pc = "commit", !.time = now]
<1>1. /\ TypeOK /\ RequestOK(w) /\ req.pc = "begin" /\ req \in Record
      /\ UNCHANGED <<tokens, next, now, accepted, booted, served, rotated>>
  BY RequestFields DEF IInv, RotateBegin
<1>2. requests' = [requests EXCEPT ![w] = rec]
  BY DEF RotateBegin
<1>3. now \in Nat
  BY <1>1, TokenBounds DEF TypeOK
<1>4. rec \in Record
  BY <1>1, <1>3 DEF Record, Pc
<1>5. TypeOK'
  BY <1>1, <1>2, <1>4 DEF TypeOK, Request, Record
<1>6. /\ \A v \in Worker : v # w => requests'[v] = requests[v]
      /\ requests'[w].pc = "commit"
      /\ requests'[w].kind = req.kind
      /\ requests'[w].token = req.token
      /\ requests'[w].time = now
      /\ requests'[w].spent = req.spent
  BY <1>1, <1>2 DEF TypeOK, Record
<1>7. req.kind = "refresh" /\ RefreshOK(w) /\ req.spent \in SUBSET TokenId
  BY <1>1, RequestFields DEF RequestOK
<1>8. \A t \in req.spent : rotated[t] > 0 /\ tokens[t].expires <= now
  BY <1>7 DEF RefreshOK, IInv, SpentIsDead
<1>9. RefreshOK(w)'
  BY <1>1, <1>3, <1>6, <1>7, <1>8 DEF RefreshOK
<1>10. RequestOK(w)'
  BY <1>6, <1>7, <1>9 DEF RequestOK
<1> QED BY <1>1, <1>5, <1>6, <1>10, Still, StepOf

LEMMA RotateCommitKeeps ==
  ASSUME IInv, NEW w \in Worker, RotateCommit(w)
  PROVE  IInv'
<1> DEFINE req == requests[w]
           t == req.token
           time == req.time
           old == [tokens[t] EXCEPT !.used = TRUE, !.expires = time]
           new == NewToken(req.mac, time)
<1>1. /\ TypeOK /\ RequestOK(w) /\ req.pc = "commit" /\ req \in Record
      /\ tokens[t].mac = req.mac /\ tokens[t].expires > time
      /\ next <= MaxTokens /\ next' = next + 1
      /\ rotated' = Count(rotated, t) /\ Done(w)
      /\ UNCHANGED <<now, accepted, booted, served>>
  BY RequestFields DEF IInv, RotateCommit
<1>2. /\ next \in TokenId /\ next \in Nat /\ now \in Nat /\ time \in Nat
      /\ MaxTokens \in Nat /\ TTL \in Nat
  BY <1>1, TokenBounds, TTLAssumption DEF TypeOK, TokenId, Record
<1>3. t \in TokenId /\ t < next /\ time <= now
  <2>1. RefreshOK(w)
    BY <1>1 DEF RequestOK
  <2> QED BY <1>1, <1>2, <2>1 DEF RefreshOK, TokenId
<1>4. tokens[t] \in Row
  <2>1. tokens[t] \in Row \cup {NoRow} /\ req.mac \in Mac
    BY <1>1, <1>3 DEF TypeOK, Record
  <2> QED BY <1>1, <2>1, MacAssumption DEF NoRow
<1>5. old \in Row /\ old.used /\ old.expires = time
  BY <1>2, <1>4 DEF Row
<1>6. new \in Row
  BY <1>1, <1>2 DEF NewToken, Row, Record
<1>7. /\ tokens'[next] = new /\ tokens'[t] = old
      /\ \A u \in TokenId : u # next /\ u # t =>
           tokens'[u] = tokens[u] \/ (tokens'[u] = NoRow /\ tokens[u].expires <= time)
      /\ tokens' \in [TokenId -> Row \cup {NoRow}]
  <2>1. tokens' = [Purged(time) EXCEPT ![t].used = TRUE, ![t].expires = time,
                     ![next] = new]
    BY DEF RotateCommit
  <2>2. /\ Purged(time) \in [TokenId -> Row \cup {NoRow}]
        /\ \A u \in TokenId : Purged(time)[u] = tokens[u]
             \/ (Purged(time)[u] = NoRow /\ tokens[u].expires <= time)
    <3>1. \A u \in TokenId : tokens[u] \in Row \cup {NoRow}
      BY <1>1 DEF TypeOK
    <3>2. \A u \in TokenId : Purged(time)[u] = tokens[u]
             \/ (Purged(time)[u] = NoRow /\ tokens[u].expires <= time)
      BY DEF Purged
    <3>3. Purged(time) = [u \in TokenId |-> Purged(time)[u]]
      BY DEF Purged
    <3> QED BY <3>1, <3>2, <3>3
  <2>3. Purged(time)[t] = tokens[t]
    <3>1. ~ (tokens[t].expires <= time)
      BY <1>1, <1>2, <1>4 DEF Row
    <3> QED BY <1>3, <3>1 DEF Purged
  <2>4. tokens' = [Purged(time) EXCEPT ![t] = old, ![next] = new]
    BY <1>2, <1>3, <2>1, <2>2, <2>3
  <2>5. t # next
    BY <1>2, <1>3 DEF TokenId
  <2> QED BY <1>2, <1>3, <1>5, <1>6, <2>2, <2>4, <2>5
<1>8. /\ \A u \in TokenId : u # t => rotated'[u] = rotated[u]
      /\ rotated' \in [TokenId -> Nat] /\ rotated'[t] = rotated[t] + 1
      /\ rotated[t] \in Nat
  <2>1. rotated' = [rotated EXCEPT ![t] = rotated[t] + 1]
    BY <1>1 DEF Count
  <2>2. rotated \in [TokenId -> Nat] /\ rotated[t] + 1 \in Nat
    BY <1>1, <1>3 DEF TypeOK
  <2> QED BY <1>3, <2>1, <2>2
<1>9. requests' = [requests EXCEPT ![w] = Idle]
  BY <1>1 DEF Done
<1>10. TypeOK'
  <2>1. next' \in 1 .. MaxTokens + 1
    BY <1>1, <1>2
  <2>2. requests' \in [Worker -> Request]
    BY <1>1, <1>9 DEF TypeOK, Request
  <2> QED BY <1>1, <1>7, <1>8, <2>1, <2>2 DEF TypeOK
<1>11. /\ \A v \in Worker : v # w => requests'[v] = requests[v]
       /\ RequestOK(w)'
  BY <1>1, <1>9 DEF TypeOK, Idle, RequestOK
<1>12. \A u \in TokenId : u \in Int /\ tokens[u].expires \in Int /\ tokens[u].expires >= -1
  <2>1. \A u \in TokenId : tokens[u] \in Row \cup {NoRow}
    BY <1>1 DEF TypeOK
  <2>2. \A u \in TokenId : tokens[u].expires \in Int /\ tokens[u].expires >= -1
    BY <2>1 DEF Row, NoRow
  <2> QED BY <1>2, <2>2 DEF TokenId
<1>13. NoRow.expires = -1
  BY DEF NoRow
<1>14. Decays
  <2>1. ASSUME NEW u \in TokenId, u < next
        PROVE  /\ tokens[u].used \/ ~ Exists(u) => tokens'[u].used \/ tokens'[u] = NoRow
               /\ tokens'[u].expires <= tokens[u].expires
    <3>1. u # next
      BY <1>2, <2>1, <1>12
    <3>2. CASE u = t
      <4>1. tokens'[u].expires <= tokens[u].expires
        <5>1. tokens'[u].expires = time /\ tokens[u].expires > time
          BY <1>1, <1>5, <1>7, <3>2
        <5>2. tokens[u].expires \in Int
          BY <1>1, RowFields
        <5>3. time \in Int
          BY <1>2
        <5> QED BY <5>1, <5>2, <5>3
      <4>2. tokens'[u].used
        BY <1>5, <1>7, <3>2
      <4> QED BY <4>1, <4>2
    <3>3. CASE u # t
      BY <1>7, <1>12, <1>13, <3>1, <3>3 DEF Exists
    <3> QED BY <3>2, <3>3
  <2>2. \A u \in TokenId : rotated[u] > 0 => rotated'[u] > 0
    BY <1>8
  <2>3. next <= next' /\ now <= now'
    BY <1>1, <1>2
  <2>4. booted' = booted
    BY <1>1
  <2> QED BY <2>1, <2>2, <2>3, <2>4 DEF Decays
<1>15. FreshOK'
  <2>1. SUFFICES ASSUME NEW u \in TokenId, u >= next'
                 PROVE  tokens'[u] = NoRow /\ booted'[u] = 0 /\ rotated'[u] = 0
    BY DEF FreshOK, Exists
  <2>2. u >= next /\ u # next /\ u # t
    BY <1>1, <1>2, <1>3, <1>12, <2>1
  <2> QED BY <1>1, <1>7, <1>8, <2>2 DEF IInv, FreshOK, Exists
<1>16. SpentIsDead'
  <2>1. SUFFICES ASSUME NEW u \in TokenId
                 PROVE  /\ booted'[u] > 0 => tokens'[u].used \/ tokens'[u] = NoRow
                        /\ rotated'[u] > 0 => tokens'[u].expires <= now'
    BY DEF SpentIsDead, Exists
  <2>2. CASE u = t
    BY <1>1, <1>3, <1>5, <1>7, <2>2
  <2>3. CASE u = next
    <3>1. booted[u] = 0 /\ rotated[u] = 0
      BY <1>2, <2>3 DEF IInv, FreshOK
    <3>2. u # t
      BY <1>2, <1>3, <1>12, <2>3
    <3> QED BY <1>1, <1>8, <3>1, <3>2
  <2>4. CASE u # t /\ u # next
    <3>1. rotated'[u] = rotated[u] /\ booted'[u] = booted[u] /\ now' = now
      BY <1>1, <1>8, <2>4
    <3>2. tokens'[u] = tokens[u] \/ tokens'[u] = NoRow
      BY <1>7, <2>4
    <3>3. /\ booted[u] > 0 => tokens[u].used \/ ~ Exists(u)
          /\ rotated[u] > 0 => tokens[u].expires <= now
      BY DEF IInv, SpentIsDead
    <3> QED BY <1>2, <1>13, <3>1, <3>2, <3>3 DEF Exists
  <2> QED BY <2>2, <2>3, <2>4
<1> QED BY <1>10, <1>11, <1>14, <1>15, <1>16, StepOf

LEMMA TickKeeps ==
  ASSUME IInv, Tick
  PROVE  IInv'
<1>1. /\ TypeOK /\ now < MaxTime /\ now' = now + 1
      /\ UNCHANGED <<tokens, next, requests, accepted, booted, served, rotated>>
  BY DEF IInv, Tick
<1>2. next \in Nat /\ now \in Nat /\ \A t \in TokenId : tokens[t].expires \in Int
  BY <1>1, RowFields, TokenBounds DEF TypeOK
<1>3. TypeOK'
  BY <1>1, TokenBounds DEF TypeOK
<1>4. Decays /\ FreshOK'
  BY <1>1, <1>2 DEF Decays, IInv, FreshOK, Exists
<1>5. SpentIsDead'
  BY <1>1, <1>3, <1>4, DeadStaysDead
<1>6. \A w \in Worker : RequestOK(w)'
  BY <1>1, <1>2, <1>3, <1>4, RequestKeeps
<1> QED BY <1>3, <1>4, <1>5, <1>6 DEF IInv

LEMMA Inductive == IInv /\ [Next]_vars => IInv'
<1> SUFFICES ASSUME IInv, [Next]_vars PROVE IInv'
  OBVIOUS
<1>1. CASE UNCHANGED vars
  BY <1>1 DEF vars, IInv, TypeOK, FreshOK, SpentIsDead, RequestOK, BootOK,
              RefreshOK, Exists
<1>2. ASSUME NEW w \in Worker, RotateRefused(w) \/ Fail(w) PROVE IInv'
  <2>1. served \in [TokenId -> Nat]
    BY DEF IInv, TypeOK
  <2> QED BY <1>2, <2>1, DoneKeeps DEF RotateRefused, Fail
<1>3. CASE Quiescent
  BY <1>1, <1>3 DEF Quiescent
<1> QED BY <1>1, <1>2, <1>3, BeginIPXEKeeps, BeginFileKeeps, BeginRefreshKeeps,
           PurgeKeeps, ActiveKeeps, InsertKeeps, MarkUsedKeeps, RenderKeeps,
           RotateBeginKeeps, RotateCommitKeeps, TickKeeps DEF Next

(* The database's rows and the requests in flight always agree: nothing    *)
(* that was put in a script is unused, nothing rotated is unexpired, and   *)
(* no request holds a token that was spent before it began.                *)
THEOREM Invariance == Spec => []IInv
  BY Initially, Inductive, PTL DEF Spec

THEOREM TypeCorrect == Spec => []TypeOK
<1>1. IInv => TypeOK
  BY DEF IInv
<1> QED BY <1>1, Invariance, PTL

(* A boot request never renders a token that an iPXE script carried before *)
(* the request began (handleIPXE with Active and MarkUsed).                *)
THEOREM BootsOnceInSequence == Spec => BootNeverRepeats
<1>1. IInv /\ [Next]_vars =>
        [\A w \in Worker :
           Finishes(w, "render") /\ booted' # booted =>
             requests[w].token \notin requests[w].spent]_vars
  <2> SUFFICES ASSUME IInv, Next, NEW w \in Worker, Finishes(w, "render"), booted' # booted
               PROVE  requests[w].token \notin requests[w].spent
    BY DEF vars
  <2>1. PICK v \in Worker : Render(v) /\ requests[v].kind = "ipxe" /\ requests'[v].pc = "idle"
    <3>1. PICK v \in Worker : Render(v) /\ requests[v].kind = "ipxe"
      BY DEF Next, BeginIPXE, BeginFile, BeginRefresh, Accept, Purge, Active, Insert,
             MarkUsed, Render, RotateBegin, RotateCommit, RotateRefused, Fail, Tick,
             Quiescent, vars
    <3> QED BY <3>1 DEF Render, Done, IInv, TypeOK, Idle
  <2>2. v = w
    BY <2>1 DEF Finishes, Render, Done, IInv, TypeOK, Idle
  <2>3. RequestOK(w) /\ requests[w].pc = "render"
    BY DEF IInv, Finishes
  <2>4. BootOK(w)
    BY <2>1, <2>2, <2>3 DEF RequestOK
  <2> QED BY <2>3, <2>4 DEF BootOK
<1> QED BY <1>1, Invariance, PTL DEF Spec, BootNeverRepeats

(* A refresh that began after its token was rotated gets no successor,     *)
(* even if its clock was read before it had to wait for the row (Rotate).  *)
THEOREM RotatesOnceInSequence == Spec => RotationNeverRepeats
<1>1. IInv /\ [Next]_vars =>
        [\A w \in Worker :
           Finishes(w, "commit") /\ rotated' # rotated =>
             requests[w].token \notin requests[w].spent]_vars
  <2> SUFFICES ASSUME IInv, Next, NEW w \in Worker, Finishes(w, "commit"), rotated' # rotated
               PROVE  requests[w].token \notin requests[w].spent
    BY DEF vars
  <2>1. PICK v \in Worker : RotateCommit(v)
    BY DEF Next, BeginIPXE, BeginFile, BeginRefresh, Accept, Purge, Active, Insert,
           MarkUsed, Render, RotateBegin, RotateCommit, RotateRefused, Fail, Tick,
           Quiescent, vars
  <2>2. v = w
    BY <2>1 DEF Finishes, RotateCommit, Done, IInv, TypeOK, Idle
  <2>3. TypeOK /\ RequestOK(w) /\ requests[w].pc = "commit"
    BY DEF IInv, Finishes
  <2>4. RefreshOK(w) /\ requests[w].time \in Nat
    BY <2>3, RequestFields DEF RequestOK
  <2>5. tokens[requests[w].token].expires > requests[w].time
    BY <2>1, <2>2 DEF RotateCommit
  <2>6. requests[w].token \in TokenId
    BY <2>3, <2>4, TokenBounds DEF RefreshOK, TypeOK, TokenId
  <2>7. tokens[requests[w].token].expires \in Int
    BY <2>3, <2>6, RowFields
  <2> QED BY <2>3, <2>4, <2>5, <2>7 DEF RefreshOK
<1> QED BY <1>1, Invariance, PTL DEF Spec, RotationNeverRepeats

-----------------------------------------------------------------------------
(* A step that renders no file and lets no request wait for that anew.      *)
LEMMA FilesStay ==
  ASSUME TypeOK, FilesOK, next <= next', next' \in Nat, served' = served,
         \A w \in Worker :
           \/ requests'[w] = requests[w]
           \/ /\ ~ RendersFile(w)'
              /\ requests'[w].kind = "file" => requests'[w].pc \in {"issuePurge", "insert"}
  PROVE  FilesOK'
<1>1. next \in Nat /\ \A t \in TokenId : t \in Int
  BY TokenBounds DEF TypeOK, TokenId
<1>2. \A w \in Worker : RendersFile(w)' => RendersFile(w) /\ requests'[w] = requests[w]
  BY DEF RendersFile
<1>3. \A t \in TokenId : t >= next' => served'[t] = 0
  BY <1>1 DEF FilesOK
<1>4. ASSUME NEW w \in Worker, RendersFile(w)'
      PROVE  requests'[w].token \in 1 .. next' - 1 /\ served'[requests'[w].token] = 0
  <2>1. requests'[w] = requests[w]
    BY <1>2, <1>4
  <2>2. requests[w].token \in 1 .. next - 1 /\ served[requests[w].token] = 0
    BY <1>2, <1>4 DEF FilesOK
  <2> QED BY <1>1, <2>1, <2>2
<1> QED BY <1>2, <1>3, <1>4 DEF FilesOK

(* The insert of Issue: the new token was in no file and in no request.     *)
LEMMA InsertKeepsFiles ==
  ASSUME TypeOK, FilesOK, NEW w \in Worker, Insert(w)
  PROVE  FilesOK'
<1>1. next \in Nat /\ next \in TokenId /\ next' = next + 1 /\ served' = served
  BY TokenBounds DEF TypeOK, TokenId, Insert
<1>2. \A t \in TokenId : t \in Int
  BY DEF TokenId
<1>3. requests[w] \in Request /\ DOMAIN requests = Worker
  BY DEF TypeOK
<1>4. /\ \A v \in Worker : v # w => requests'[v] = requests[v]
      /\ requests'[w].kind = requests[w].kind
      /\ requests'[w].pc = IF requests[w].kind = "ipxe" THEN "mark" ELSE "render"
      /\ requests'[w].token = next
  BY <1>3 DEF Insert, Request, Idle
<1>5. \A t \in TokenId : t >= next' => served'[t] = 0
  <2>1. \A t \in TokenId : t >= next => served[t] = 0
    BY DEF FilesOK
  <2>2. \A t \in TokenId : t >= next' => t >= next
    BY <1>1, <1>2
  <2> QED BY <1>1, <2>1, <2>2
<1>6. \A v \in Worker : v # w /\ RendersFile(v)' =>
        /\ RendersFile(v) /\ requests'[v].token = requests[v].token
        /\ requests[v].token \in 1 .. next - 1
        /\ served[requests[v].token] = 0
  BY <1>4 DEF FilesOK, RendersFile
<1>7. served[next] = 0
  BY <1>1 DEF FilesOK
<1>8. \A v \in Worker : requests'[v].kind = "file" =>
        requests'[v].pc \in {"issuePurge", "insert", "render"}
  BY <1>4 DEF FilesOK
<1>9. \A v \in Worker : RendersFile(v)' =>
        requests'[v].token \in 1 .. next' - 1 /\ served'[requests'[v].token] = 0
  <2>1. SUFFICES ASSUME NEW v \in Worker, RendersFile(v)'
                 PROVE  requests'[v].token \in 1 .. next' - 1
                        /\ served'[requests'[v].token] = 0
    OBVIOUS
  <2>2. CASE v = w
    <3>1. requests'[v].token = next
      BY <1>4, <2>2
    <3>2. next \in 1 .. next' - 1
      BY <1>1, TokenBounds DEF TypeOK
    <3> QED BY <1>1, <1>7, <3>1, <3>2
  <2>3. CASE v # w
    <3>1. requests'[v].token = requests[v].token /\ requests[v].token \in 1 .. next - 1
          /\ served[requests[v].token] = 0
      BY <1>6, <2>1, <2>3
    <3>2. requests'[v].token \in 1 .. next' - 1
      BY <1>1, <3>1
    <3> QED BY <1>1, <3>1, <3>2
  <2> QED BY <2>2, <2>3
<1>10. ASSUME NEW u \in Worker, NEW v \in Worker, RendersFile(u)', RendersFile(v)',
              requests'[u].token = requests'[v].token
       PROVE  u = v
  <2>1. CASE u # w /\ v # w
    <3>1. RendersFile(u) /\ RendersFile(v) /\ requests[u].token = requests[v].token
      BY <1>6, <1>10, <2>1
    <3> QED BY <3>1 DEF FilesOK
  <2>2. \A x \in Worker : x # w /\ RendersFile(x)' => requests'[x].token # next
    BY <1>1, <1>6
  <2>3. CASE u = w \/ v = w
    BY <1>4, <1>10, <2>2, <2>3
  <2> QED BY <2>1, <2>3
<1> QED BY <1>5, <1>8, <1>9, <1>10 DEF FilesOK

(* A file is rendered: no other request waits with its token.               *)
LEMMA RenderKeepsFiles ==
  ASSUME TypeOK, FilesOK, NEW w \in Worker, Render(w)
  PROVE  FilesOK' /\ \A t \in TokenId : served'[t] <= 1 \/ served'[t] = served[t]
<1>1. next \in Nat /\ next' = next /\ served \in [TokenId -> Nat]
  BY TokenBounds DEF TypeOK, Render
<1>2. /\ \A v \in Worker : v # w => requests'[v] = requests[v]
      /\ requests'[w].kind = "ipxe"
  BY DEF Render, Done, TypeOK, Idle
<1>3. CASE served' = served
  <2>1. \A v \in Worker : requests'[v] = requests[v]
                          \/ (~ RendersFile(v)' /\ requests'[v].kind # "file")
    BY <1>2 DEF RendersFile
  <2> QED BY <1>1, <1>3, <2>1, FilesStay
<1>4. CASE requests[w].kind = "file" /\ served' = Count(served, requests[w].token)
  <2>1. RendersFile(w)
    BY <1>4 DEF RendersFile, Render
  <2>2. requests[w].token \in 1 .. next - 1 /\ served[requests[w].token] = 0
    BY <2>1 DEF FilesOK
  <2>3. requests[w].token \in TokenId /\ ~ requests[w].token >= next
    BY <1>1, <2>2, TokenBounds DEF TypeOK, TokenId
  <2>4. \A t \in TokenId :
          served'[t] = IF t = requests[w].token THEN 1 ELSE served[t]
    BY <1>1, <1>4, <2>2, <2>3 DEF Count
  <2>5. \A v \in Worker : RendersFile(v)' =>
          /\ v # w /\ RendersFile(v) /\ requests'[v] = requests[v]
    BY <1>2 DEF RendersFile
  <2>6. \A v \in Worker : RendersFile(v)' =>
          requests[v].token # requests[w].token /\ requests[v].token \in TokenId
    <3>1. SUFFICES ASSUME NEW v \in Worker, RendersFile(v)'
                   PROVE  requests[v].token # requests[w].token /\ requests[v].token \in TokenId
      OBVIOUS
    <3>2. v # w /\ RendersFile(v)
      BY <2>5, <3>1
    <3>3. requests[v].token \in 1 .. next - 1
      BY <3>2 DEF FilesOK
    <3>4. requests[v].token \in TokenId
      BY <1>1, <3>3, TokenBounds DEF TypeOK, TokenId
    <3> QED BY <2>1, <3>2, <3>4 DEF FilesOK
  <2>7. \A t \in TokenId : t >= next' => served'[t] = 0
    BY <1>1, <2>3, <2>4 DEF FilesOK
  <2>8. \A v \in Worker : requests'[v].kind = "file" =>
          requests'[v].pc \in {"issuePurge", "insert", "render"}
    BY <1>2 DEF FilesOK
  <2>9. \A v \in Worker : RendersFile(v)' =>
          requests'[v].token \in 1 .. next' - 1 /\ served'[requests'[v].token] = 0
    BY <1>1, <2>4, <2>5, <2>6 DEF FilesOK
  <2>10. \A u, v \in Worker :
           RendersFile(u)' /\ RendersFile(v)' /\ requests'[u].token = requests'[v].token => u = v
    BY <2>5 DEF FilesOK
  <2>11. FilesOK'
    BY <2>7, <2>8, <2>9, <2>10 DEF FilesOK
  <2> QED BY <2>4, <2>11
<1> QED BY <1>3, <1>4 DEF Render

(* Every other step only starts a file request, or moves one that is not    *)
(* about to render.                                                         *)
LEMMA OthersKeepFiles ==
  ASSUME IInv, FilesOK, next' \in Nat, [Next]_vars,
         \A w \in Worker : ~ Insert(w) /\ ~ Render(w)
  PROVE  FilesOK' /\ served' = served
<1>1. TypeOK /\ next \in Nat /\ DOMAIN requests = Worker
      /\ \A w \in Worker : requests[w] \in Request
  BY TokenBounds DEF IInv, TypeOK
<1>2. \A w \in Worker : requests[w].kind = "file" =>
        requests[w].pc \in {"issuePurge", "insert", "render"}
  BY DEF FilesOK
<1>3. ASSUME NEW w \in Worker, NEW mac \in Mac, BeginIPXE(w, mac) \/ BeginFile(w, mac)
      PROVE  FilesOK' /\ served' = served
  <2>1. /\ next' = next /\ served' = served
        /\ \A v \in Worker : requests'[v] = requests[v]
             \/ (requests'[v].pc \in {"purge", "issuePurge"} /\ requests'[v].kind \in {"ipxe", "file"}
                 /\ (requests'[v].kind = "file" => requests'[v].pc = "issuePurge"))
    BY <1>1, <1>3 DEF BeginIPXE, BeginFile, Accept
  <2> QED BY <1>1, <2>1, FilesStay DEF RendersFile
<1>4. ASSUME NEW w \in Worker, NEW mac \in Mac, NEW t \in TokenId, BeginRefresh(w, mac, t)
      PROVE  FilesOK' /\ served' = served
  <2>1. /\ next' = next /\ served' = served
        /\ \A v \in Worker : requests'[v] = requests[v] \/ requests'[v].kind = "refresh"
    BY <1>1, <1>4 DEF BeginRefresh, Accept
  <2> QED BY <1>1, <2>1, FilesStay DEF RendersFile
<1>5. ASSUME NEW w \in Worker,
             \/ Purge(w) \/ Active(w) \/ MarkUsed(w) \/ RotateBegin(w)
             \/ RotateCommit(w) \/ RotateRefused(w) \/ Fail(w)
      PROVE  FilesOK' /\ served' = served
  <2>1. next <= next' /\ served' = served
    BY <1>1, <1>5 DEF Purge, Active, MarkUsed, RotateBegin, RotateCommit, RotateRefused, Fail
  <2>2. \A v \in Worker : v # w => requests'[v] = requests[v]
    BY <1>1, <1>5 DEF Purge, Active, MarkUsed, RotateBegin, RotateCommit, RotateRefused, Fail,
                      Goto, Done
  <2>3. ~ RendersFile(w)' /\ (requests'[w].kind = "file" => requests'[w].pc \in {"issuePurge", "insert"})
    <3>1. CASE Purge(w)
      BY <1>1, <1>2, <3>1 DEF Purge, Goto, RendersFile, Request, Idle
    <3>2. CASE Active(w)
      BY <1>1, <1>2, <3>2 DEF Active, Goto, RendersFile, Request, Idle
    <3>3. CASE MarkUsed(w)
      BY <1>1, <1>2, <3>3 DEF MarkUsed, Goto, Done, RendersFile, Request, Idle
    <3>4. CASE RotateBegin(w)
      BY <1>1, <1>2, <3>4 DEF RotateBegin, RendersFile, Request, Idle
    <3>5. CASE RotateCommit(w) \/ RotateRefused(w) \/ Fail(w)
      BY <1>1, <3>5 DEF RotateCommit, RotateRefused, Fail, Done, RendersFile, Idle
    <3> QED BY <1>5, <3>1, <3>2, <3>3, <3>4, <3>5
  <2> QED BY <1>1, <2>1, <2>2, <2>3, FilesStay
<1>6. CASE Tick \/ Quiescent \/ UNCHANGED vars
  <2>1. requests' = requests /\ served' = served /\ next' = next
    BY <1>6 DEF Tick, Quiescent, vars
  <2> QED BY <1>1, <2>1, FilesStay
<1> QED BY <1>3, <1>4, <1>5, <1>6 DEF Next

(* Two Kickstart or unattend files never carry the same token: Issue gives  *)
(* each request a token of its own, and nothing else writes it into a file. *)
THEOREM FilesHaveOwnTokens == Spec => []OneFilePerToken
<1>1. Init => FilesOK /\ OneFilePerToken
  BY DEF Init, FilesOK, OneFilePerToken, RendersFile, Idle
<1>2. IInv /\ IInv' /\ FilesOK /\ OneFilePerToken /\ [Next]_vars => FilesOK' /\ OneFilePerToken'
  <2> SUFFICES ASSUME IInv, IInv', FilesOK, OneFilePerToken, [Next]_vars
               PROVE  FilesOK' /\ OneFilePerToken'
    OBVIOUS
  <2>1. TypeOK /\ next' \in Nat
    BY TokenBounds DEF IInv, TypeOK
  <2>2. ASSUME NEW w \in Worker, Insert(w) PROVE FilesOK' /\ OneFilePerToken'
    BY <2>1, <2>2, InsertKeepsFiles DEF Insert, OneFilePerToken
  <2>3. ASSUME NEW w \in Worker, Render(w) PROVE FilesOK' /\ OneFilePerToken'
    BY <2>1, <2>3, RenderKeepsFiles DEF OneFilePerToken
  <2>4. CASE \A w \in Worker : ~ Insert(w) /\ ~ Render(w)
    BY <2>1, <2>4, OthersKeepFiles DEF OneFilePerToken
  <2> QED BY <2>2, <2>3, <2>4
<1> QED BY <1>1, <1>2, Invariance, PTL DEF Spec
=============================================================================
