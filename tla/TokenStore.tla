----------------------------- MODULE TokenStore -----------------------------
(***************************************************************************)
(* services/api: boot and agent tokens in Postgres (token_store.go), and   *)
(* the handlers that render or rotate them (handlers_boot.go,              *)
(* handlers_tokens.go).                                                    *)
(*                                                                         *)
(* Each request runs on a goroutine of its own, possibly in another        *)
(* replica of the API.  A step is one statement (read committed), except   *)
(* that the transaction of Rotate takes effect at its commit: it holds the *)
(* lock on the row it read, and other statements see the row as it was.    *)
(* A statement reads the clock before it runs.                             *)
(***************************************************************************)
EXTENDS Integers

CONSTANTS
  Mac,          \* MAC addresses of known machines
  NoMac,        \* no MAC address
  Worker,       \* requests served at a time
  TTL,          \* token lifetime, in ticks of the clock
  MaxTime,      \* bound: ticks
  MaxRequests,  \* bound: requests
  MaxTokens     \* bound: tokens issued

ASSUME MacAssumption == NoMac \notin Mac
(* newTokenStore replaces a TTL that is not positive. *)
ASSUME TTLAssumption == TTL \in Nat \ {0}
ASSUME TokenBounds ==
  /\ MaxTime \in Nat /\ MaxRequests \in Nat
  /\ MaxTokens \in Nat /\ MaxTokens >= MaxRequests  \* a request issues one at most

VARIABLES
  tokens,    \* tokens[t]: the row of token t, or NoRow
  next,      \* the next token value
  requests,  \* requests[w]: the local state of w's request
  now,       \* the clock
  accepted,  \* requests accepted so far
  booted,    \* booted[t]: iPXE scripts that were rendered with t
  served,    \* Kickstart and unattend files that were rendered with t
  rotated    \* successors that were issued for t

vars == <<tokens, next, requests, now, accepted, booted, served, rotated>>

TokenId == 1 .. MaxTokens
NoToken == 0
TokenRef == TokenId \cup {NoToken}

NoRow == [mac |-> NoMac, expires |-> -1, used |-> FALSE]
Row == [mac : Mac, expires : Nat, used : BOOLEAN]

Kind == {"ipxe", "file", "refresh"}
Pc == {"purge", "active", "issuePurge", "insert", "mark", "render",
       "begin", "commit"}
Idle == [pc |-> "idle", kind |-> "ipxe", mac |-> NoMac, token |-> NoToken,
         time |-> 0, spent |-> {}]

(* token: the token found or issued; time: the clock as the transaction    *)
(* read it; spent: tokens rendered by iPXE or rotated before the request.  *)
Request == [pc : Pc, kind : Kind, mac : Mac, token : TokenRef, time : Nat,
            spent : SUBSET TokenId] \cup {Idle}

TypeOK ==
  /\ tokens \in [TokenId -> Row \cup {NoRow}]
  /\ next \in 1 .. MaxTokens + 1
  /\ requests \in [Worker -> Request]
  /\ now \in 0 .. MaxTime
  /\ accepted \in 0 .. MaxRequests
  /\ booted \in [TokenId -> Nat]
  /\ served \in [TokenId -> Nat]
  /\ rotated \in [TokenId -> Nat]

Init ==
  /\ tokens = [t \in TokenId |-> NoRow]
  /\ next = 1
  /\ requests = [w \in Worker |-> Idle]
  /\ now = 0
  /\ accepted = 0
  /\ booted = [t \in TokenId |-> 0]
  /\ served = [t \in TokenId |-> 0]
  /\ rotated = [t \in TokenId |-> 0]

Exists(t) == tokens[t] # NoRow
Count(f, t) == [f EXCEPT ![t] = @ + 1]

Goto(w, pc) == requests' = [requests EXCEPT ![w].pc = pc]
Done(w) == requests' = [requests EXCEPT ![w] = Idle]

(* tokens without the rows that had expired at time t. *)
Purged(t) ==
  [u \in TokenId |-> IF tokens[u].expires <= t THEN NoRow ELSE tokens[u]]

NewToken(mac, time) == [mac |-> mac, expires |-> time + TTL, used |-> FALSE]

-----------------------------------------------------------------------------
Accept(w, kind, pc, mac, token, spent) ==
  /\ requests[w].pc = "idle"
  /\ accepted < MaxRequests
  /\ accepted' = accepted + 1
  /\ requests' = [requests EXCEPT ![w] =
       [pc |-> pc, kind |-> kind, mac |-> mac, token |-> token, time |-> 0,
        spent |-> spent]]
  /\ UNCHANGED <<tokens, next, now, booted, served, rotated>>

(* GET /v1/boot/ipxe *)
BeginIPXE(w, mac) ==
  Accept(w, "ipxe", "purge", mac, NoToken, {t \in TokenId : booted[t] > 0})

(* Mutant of BeginFile: the machine's active token is taken, as for iPXE. *)
BeginFileActive(w, mac) ==
  Accept(w, "file", "purge", mac, NoToken, {})

(* GET /v1/render/kickstart and /v1/render/unattend *)
BeginFile(w, mac) ==
  Accept(w, "file", "issuePurge", mac, NoToken, {})

(* POST /v1/agents/token/refresh, with a token the agent was given *)
BeginRefresh(w, mac, t) ==
  /\ t < next
  /\ Accept(w, "refresh", "begin", mac, t, {u \in TokenId : rotated[u] > 0})

(* purgeExpired, first statement of Active and of Issue *)
Purge(w) ==
  /\ \/ requests[w].pc = "purge" /\ Goto(w, "active")
     \/ requests[w].pc = "issuePurge" /\ Goto(w, "insert")
  /\ tokens' = Purged(now)
  /\ UNCHANGED <<next, now, accepted, booted, served, rotated>>

Usable(t, mac) == tokens[t].mac = mac /\ ~ tokens[t].used /\ tokens[t].expires > now

(* The query of Active: an unused, unexpired token, the latest to expire. *)
Active(w) ==
  LET mac == requests[w].mac
  IN  /\ requests[w].pc = "active"
      /\ \/ \E t \in TokenId :
              /\ Usable(t, mac)
              /\ \A u \in TokenId :
                   Usable(u, mac) => tokens[u].expires <= tokens[t].expires
              /\ requests' = [requests EXCEPT ![w].token = t, ![w].pc = "mark"]
         \/ /\ \A t \in TokenId : ~ Usable(t, mac)
            /\ Goto(w, "issuePurge")
      /\ UNCHANGED <<tokens, next, now, accepted, booted, served, rotated>>

(* The insert of Issue *)
Insert(w) ==
  /\ requests[w].pc = "insert"
  /\ next <= MaxTokens
  /\ next' = next + 1
  /\ tokens' = [tokens EXCEPT ![next] = NewToken(requests[w].mac, now)]
  /\ requests' = [requests EXCEPT ![w].token = next,
       ![w].pc = IF requests[w].kind = "ipxe" THEN "mark" ELSE "render"]
  /\ UNCHANGED <<now, accepted, booted, served, rotated>>

(* Mutant of MarkUsed: the row keeps its flag. *)
MarkNothing(w) ==
  /\ requests[w].pc = "mark"
  /\ IF Exists(requests[w].token) THEN Goto(w, "render") ELSE Done(w)
  /\ UNCHANGED <<tokens, next, now, accepted, booted, served, rotated>>

(* MarkUsed: by value, used already or not; ErrTokenNotFound if purged. *)
MarkUsed(w) ==
  LET t == requests[w].token
  IN  /\ requests[w].pc = "mark"
      /\ \/ /\ Exists(t)
            /\ tokens' = [tokens EXCEPT ![t].used = TRUE]
            /\ Goto(w, "render")
         \/ /\ ~ Exists(t)
            /\ Done(w)
            /\ UNCHANGED tokens
      /\ UNCHANGED <<next, now, accepted, booted, served, rotated>>

(* The script or file with the token in it is written to the client. *)
Render(w) ==
  LET t == requests[w].token
  IN  /\ requests[w].pc = "render"
      /\ \/ /\ requests[w].kind = "ipxe"
            /\ booted' = Count(booted, t)
            /\ UNCHANGED served
         \/ /\ requests[w].kind = "file"
            /\ served' = Count(served, t)
            /\ UNCHANGED booted
      /\ Done(w)
      /\ UNCHANGED <<tokens, next, now, accepted, rotated>>

(* Rotate reads the clock, then waits for the lock on the token's row. *)
RotateBegin(w) ==
  /\ requests[w].pc = "begin"
  /\ requests' = [requests EXCEPT ![w].pc = "commit", ![w].time = now]
  /\ UNCHANGED <<tokens, next, now, accepted, booted, served, rotated>>

(* Mutant of RotateCommit: marks the old token used, lets it live on. *)
RotateKeepsExpiry(w) ==
  LET t == requests[w].token
      time == requests[w].time
  IN  /\ requests[w].pc = "commit"
      /\ tokens[t].mac = requests[w].mac
      /\ tokens[t].expires > time
      /\ next <= MaxTokens
      /\ next' = next + 1
      /\ tokens' = [Purged(time) EXCEPT ![t].used = TRUE,
                      ![next] = NewToken(requests[w].mac, time)]
      /\ rotated' = Count(rotated, t)
      /\ Done(w)
      /\ UNCHANGED <<now, accepted, booted, served>>

(* The row is there, is the machine's and has not expired: it is expired   *)
(* as of now and replaced, in one transaction that also purges.            *)
RotateCommit(w) ==
  LET t == requests[w].token
      time == requests[w].time
  IN  /\ requests[w].pc = "commit"
      /\ tokens[t].mac = requests[w].mac
      /\ tokens[t].expires > time
      /\ next <= MaxTokens
      /\ next' = next + 1
      /\ tokens' = [Purged(time) EXCEPT ![t].used = TRUE, ![t].expires = time,
                      ![next] = NewToken(requests[w].mac, time)]
      /\ rotated' = Count(rotated, t)
      /\ Done(w)
      /\ UNCHANGED <<now, accepted, booted, served>>

(* ErrTokenNotFound or ErrTokenExpired: the transaction is rolled back. *)
RotateRefused(w) ==
  LET t == requests[w].token
  IN  /\ requests[w].pc = "commit"
      /\ tokens[t].mac # requests[w].mac \/ tokens[t].expires <= requests[w].time
      /\ Done(w)
      /\ UNCHANGED <<tokens, next, now, accepted, booted, served, rotated>>

(* A statement or the template fails, the client leaves, the API dies. *)
Fail(w) ==
  /\ requests[w].pc # "idle"
  /\ Done(w)
  /\ UNCHANGED <<tokens, next, now, accepted, booted, served, rotated>>

Tick ==
  /\ now < MaxTime
  /\ now' = now + 1
  /\ UNCHANGED <<tokens, next, requests, accepted, booted, served, rotated>>

(* All requests are served; explicit, so that being stuck is an error. *)
Quiescent ==
  /\ accepted = MaxRequests /\ now = MaxTime
  /\ \A w \in Worker : requests[w].pc = "idle"
  /\ UNCHANGED vars

Next ==
  \/ \E w \in Worker :
       \/ \E mac \in Mac : BeginIPXE(w, mac) \/ BeginFile(w, mac)
       \/ \E mac \in Mac, t \in TokenId : BeginRefresh(w, mac, t)
       \/ Purge(w) \/ Active(w) \/ Insert(w) \/ MarkUsed(w) \/ Render(w)
       \/ RotateBegin(w) \/ RotateCommit(w) \/ RotateRefused(w)
       \/ Fail(w)
  \/ Tick
  \/ Quiescent

Spec == Init /\ [][Next]_vars

-----------------------------------------------------------------------------
(* Two Kickstart or unattend files never carry the same token: each gets    *)
(* one of its own, whatever other requests for the machine do meanwhile.    *)
OneFilePerToken == \A t \in TokenId : served[t] <= 1

Finishes(w, pc) == requests[w].pc = pc /\ requests'[w].pc = "idle"

(* A boot request never renders a token that some iPXE script carried      *)
(* before the request began: one-time tokens are not reused in sequence.   *)
BootNeverRepeats ==
  [][\A w \in Worker :
       Finishes(w, "render") /\ booted' # booted =>
         requests[w].token \notin requests[w].spent]_vars

(* A refresh that began after its token was rotated gets no successor,     *)
(* whatever other refreshes, purges and boots run beside it.               *)
RotationNeverRepeats ==
  [][\A w \in Worker :
       Finishes(w, "commit") /\ rotated' # rotated =>
         requests[w].token \notin requests[w].spent]_vars

-----------------------------------------------------------------------------
(***************************************************************************)
(* The inductive invariant behind the theorems of TokenStoreProofs.        *)
(***************************************************************************)
FreshOK ==
  \A t \in TokenId : t >= next =>
    ~ Exists(t) /\ booted[t] = 0 /\ rotated[t] = 0

(* What was rendered in a script is used or gone, what was rotated is      *)
(* expired or gone.                                                        *)
SpentIsDead ==
  \A t \in TokenId :
    /\ booted[t] > 0 => tokens[t].used \/ ~ Exists(t)
    /\ rotated[t] > 0 => tokens[t].expires <= now

BootOK(w) ==
  LET req == requests[w]
  IN  /\ \A t \in req.spent : booted[t] > 0
      /\ req.pc \in {"mark", "render"} =>
           req.token \in 1 .. next - 1 /\ req.token \notin req.spent
      /\ req.pc = "render" => tokens[req.token].used \/ ~ Exists(req.token)

RefreshOK(w) ==
  LET req == requests[w]
  IN  /\ req.pc \in {"begin", "commit"} /\ req.token \in 1 .. next - 1
      /\ \A t \in req.spent : rotated[t] > 0
      /\ req.pc = "commit" =>
           /\ req.time <= now
           /\ \A t \in req.spent : tokens[t].expires <= req.time

RequestOK(w) ==
  requests[w].pc # "idle" =>
    /\ requests[w].kind = "ipxe" => BootOK(w)
    /\ requests[w].kind = "refresh" => RefreshOK(w)
    /\ requests[w].pc \in {"purge", "active", "mark"} => requests[w].kind = "ipxe"
    /\ requests[w].pc \in {"begin", "commit"} => requests[w].kind = "refresh"

IInv == TypeOK /\ FreshOK /\ SpentIsDead /\ \A w \in Worker : RequestOK(w)

(* Behind OneFilePerToken: a token waits to be rendered in one file at a    *)
(* time, and only if it was in none before.                                 *)
RendersFile(w) == requests[w].kind = "file" /\ requests[w].pc = "render"

FilesOK ==
  /\ \A t \in TokenId : t >= next => served[t] = 0
  /\ \A w \in Worker :
       requests[w].kind = "file" => requests[w].pc \in {"issuePurge", "insert", "render"}
  /\ \A w \in Worker : RendersFile(w) =>
       requests[w].token \in 1 .. next - 1 /\ served[requests[w].token] = 0
  /\ \A v, w \in Worker :
       RendersFile(v) /\ RendersFile(w) /\ requests[v].token = requests[w].token => v = w
=============================================================================
