------------------------- MODULE ArtifactsGateway -------------------------
(***************************************************************************)
(* services/artifacts-gw: GET /v1/presign/get, and the process around it.  *)
(* An HTTP server runs until a signal comes; the other services' mains are *)
(* the same but for what they register.                                    *)
(***************************************************************************)
EXTENDS Durations

CONSTANTS
  Request,                  \* requests
  DefaultTtl, MaxTtl,       \* defaultTTLSeconds, maxTTLSeconds
  MaxRequests               \* bound: requests served

ASSUME GatewayAssumption ==
  /\ MaxTtl \in Nat /\ DefaultTtl \in 1 .. MaxTtl /\ MaxTtl * Second < Half
  /\ MaxRequests \in Nat

VARIABLES
  gateway,      \* run: "init", "serve", "flush" (telemetry), "exit"
  interrupted,  \* SIGINT or SIGTERM: ctx is done
  closing,      \* the goroutine that calls server.Shutdown
  request,      \* request[r]: where it stands
  served        \* requests accepted

gatewayVars == <<gateway, interrupted, closing, request, served>>

(* The query: a key or none; a ttl that is absent, no number, or a number.  *)
Query == [key : BOOLEAN, given : {"none", "bad"}, ttl : {0}]
         \cup [key : BOOLEAN, given : {"number"}, ttl : Int64]
NoRequest == [pc |-> "none"]

GatewayTypeOK ==
  /\ gateway \in {"init", "serve", "flush", "exit"}
  /\ interrupted \in BOOLEAN
  /\ closing \in {"none", "waiting", "draining", "done"}
  /\ gateway = "serve" => closing # "none"
  /\ request \in [Request ->
       [pc : {"open"}, query : Query]
         \cup [pc : {"url"}, query : Query, expires : Int64]
         \cup [pc : {"rejected"}] \cup {NoRequest}]
  /\ served \in 0 .. MaxRequests

GatewayInit ==
  /\ gateway = "init"
  /\ interrupted = FALSE
  /\ closing = "none"
  /\ request = [r \in Request |-> NoRequest]
  /\ served = 0

-----------------------------------------------------------------------------
Accept(r, query) ==
  /\ gateway = "serve" /\ closing = "waiting"
  /\ request[r] = NoRequest
  /\ served < MaxRequests
  /\ served' = served + 1
  /\ request' = [request EXCEPT ![r] = [pc |-> "open", query |-> query]]
  /\ UNCHANGED <<gateway, interrupted, closing>>

(* Mutant of ttlSeconds: the number is taken as it is. *)
ttlSecondsUncapped(q) == IF q.given = "none" THEN DefaultTtl ELSE q.ttl

ttlSeconds(q) == IF q.given = "none" THEN DefaultTtl
                 ELSE IF q.ttl > MaxTtl THEN MaxTtl ELSE q.ttl

Acceptable(q) ==
  /\ q.key
  /\ q.given # "bad"
  /\ q.given = "number" => q.ttl > 0

(* Presigning needs no call to S3; it may still fail. *)
Presign(r) ==
  /\ request[r].pc = "open"
  /\ gateway # "exit"
  /\ request' = [request EXCEPT ![r] =
       IF Acceptable(@.query)
       THEN [pc |-> "url", query |-> @.query,
             expires |-> Duration(ttlSeconds(@.query))]
       ELSE [pc |-> "rejected"]]
  /\ UNCHANGED <<gateway, interrupted, closing, served>>

PresignFails(r) ==
  /\ request[r].pc = "open" /\ gateway # "exit"
  /\ request' = [request EXCEPT ![r] = [pc |-> "rejected"]]
  /\ UNCHANGED <<gateway, interrupted, closing, served>>

Finish(r) ==
  /\ request[r].pc \in {"url", "rejected"} /\ gateway # "exit"
  /\ request' = [request EXCEPT ![r] = NoRequest]
  /\ UNCHANGED <<gateway, interrupted, closing, served>>

-----------------------------------------------------------------------------
(* Telemetry, S3 client and bucket are there, or run returns an error. *)
Start ==
  /\ gateway = "init"
  /\ \/ gateway' = "serve" /\ closing' = "waiting"
     \/ gateway' = "flush" /\ UNCHANGED closing
  /\ UNCHANGED <<interrupted, request, served>>

Interrupt ==
  /\ ~ interrupted /\ gateway # "exit"
  /\ interrupted' = TRUE
  /\ UNCHANGED <<gateway, closing, request, served>>

(* Mutant of Shutdown: it waits for the open requests before it closes. *)
ShutdownWhenIdle ==
  /\ gateway # "exit"
  /\ \/ /\ closing = "waiting" /\ interrupted
        /\ \A r \in Request : request[r] = NoRequest
        /\ closing' = "draining"
     \/ closing = "draining" /\ closing' = "done"
  /\ UNCHANGED <<gateway, interrupted, request, served>>

(* Listeners are closed at once; then the open requests have 10 s. *)
Shutdown ==
  /\ gateway # "exit"
  /\ \/ closing = "waiting" /\ interrupted /\ closing' = "draining"
     \/ closing = "draining" /\ closing' = "done"
  /\ UNCHANGED <<gateway, interrupted, request, served>>

(* ListenAndServe returns as soon as Shutdown has begun, or by itself.  *)
(* The deferred flush of the traces takes 5 s at most; it waits for none of *)
(* the requests, and neither does the exit.                             *)
StopServing ==
  /\ gateway = "serve" /\ closing \in {"draining", "done"}
  /\ gateway' = "flush"
  /\ UNCHANGED <<interrupted, closing, request, served>>

ServeFails ==
  /\ gateway = "serve"
  /\ gateway' = "flush"
  /\ UNCHANGED <<interrupted, closing, request, served>>

EndProcess ==
  /\ gateway = "flush"
  /\ gateway' = "exit"
  /\ UNCHANGED <<interrupted, closing, request, served>>

GatewayNext ==
  \/ Start \/ Interrupt \/ Shutdown \/ StopServing \/ ServeFails \/ EndProcess
  \/ \E r \in Request :
       \/ \E query \in Query : Accept(r, query)
       \/ Presign(r) \/ PresignFails(r) \/ Finish(r)

(* The goroutine of run and the one that waits for ctx are scheduled; how   *)
(* long a handler takes is up to its client.                                *)
GatewaySpec == GatewayInit /\ [][GatewayNext]_gatewayVars
GatewayFairSpec ==
  /\ GatewaySpec
  /\ WF_gatewayVars(Start) /\ WF_gatewayVars(Shutdown)
  /\ WF_gatewayVars(StopServing) /\ WF_gatewayVars(EndProcess)

-----------------------------------------------------------------------------
(* A URL is issued only for a key and a ttl that is positive or absent, and *)
(* lives for as many seconds as were asked for: for the default if none     *)
(* were, for the limit if they were more.  So none outlives the limit or is *)
(* issued expired, although the product with a second could wrap.           *)
LivesAsAsked(url) ==
  LET q == url.query
      lives(seconds) == url.expires = seconds * Second
  IN  /\ q.key /\ q.given \in {"none", "number"}
      /\ url.expires \in 1 .. MaxTtl * Second
      /\ q.given = "none" => lives(DefaultTtl)
      /\ q.given = "number" => /\ q.ttl > 0
                               /\ q.ttl <= MaxTtl => lives(q.ttl)
                               /\ q.ttl > MaxTtl => lives(MaxTtl)

UrlLifetime ==
  \A r \in Request : request[r].pc = "url" => LivesAsAsked(request[r])

(* A signal ends the process, also when clients keep requests open. *)
SignalEndsGateway == interrupted ~> gateway = "exit"

(* Types, and the life time of every URL that is on its way: inductive. *)
GatewayIInv == GatewayTypeOK /\ UrlLifetime
=============================================================================
