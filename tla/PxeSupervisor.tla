--------------------------- MODULE PxeSupervisor ---------------------------
(***************************************************************************)
(* services/pxe-stack/cmd/pxe: run loads the configuration (PxeConfig),    *)
(* starts the DHCP and the TFTP server, each on a goroutine that owns a    *)
(* readiness flag, looks for a port for HTTP, and ends with the first      *)
(* error or signal.  Time is what passes in the backoff of                 *)
(* listenWithRetry, in units of its first delay.                           *)
(***************************************************************************)
EXTENDS PxeConfig

CONSTANTS
  MaxWait, InitialDelay, MaxDelay,   \* of listenWithRetry
  MaxEvents      \* bound: ports taken or freed, failures

ASSUME SupervisorAssumption ==
  /\ MaxWait \in Nat /\ InitialDelay \in Nat \ {0} /\ MaxDelay \in Nat \ {0}
  /\ InitialDelay <= MaxDelay
  /\ MaxEvents \in Nat

VARIABLES
  enabled,    \* the servers that are enabled in the configuration
  ports,      \* portsToTry
  main,       \* where run stands
  server,     \* server[s]: the goroutine of s
  ready,      \* ready[s]: its flag
  errCh,      \* errors reported to run
  signalled,  \* SIGINT or SIGTERM has come: ctx is done
  shutdown,   \* the goroutine that shuts the HTTP server down
  taken,      \* ports another process listens on
  timedOut,   \* observer: positions of ports given up at their deadline
  events

conf == <<configVars, enabled, ports>>
serverVars == <<server, ready, errCh>>
stopVars == <<signalled, shutdown>>
envVars == <<taken, timedOut, events>>
pxeVars == <<conf, main, serverVars, stopVars, envVars>>

(* The servers that run on goroutines of their own. *)
Server == {"dhcp", "tftp"}

Event == events < MaxEvents /\ events' = events + 1

(* The channel has a place for each sender: two servers and HTTP. *)
ErrCap == 3

RealPort == 1 .. MaxPort

(* The preferred port, then the fallbacks that are set and new. *)
portsToTry(port, fallbacks) ==
  LET tried == Distinct(<<port>> \o fallbacks, Nat \ {0})
  IN  IF tried = << >> THEN <<DefaultPort>> ELSE tried

(* at: position in ports; waited, delay: of listenWithRetry; sleep: until   *)
(* the next attempt.                                                        *)
Main == [pc : {"load", "configure", "listen", "sleep", "serve", "ok", "error"},
         at : Nat, waited : Nat, delay : Nat, sleep : Nat]

PortsOK ==
  /\ ports \in Seq(Nat \ {0}) /\ IsInjective(ports)
  /\ main.pc \in {"listen", "sleep", "serve"} => main.at \in 1 .. Len(ports)

ProcessOK ==
  /\ enabled \subseteq Server
  /\ main \in Main
  /\ server \in [Server -> {"off", "starting", "serving", "failed", "ended"}]
  /\ ready \in [Server \cup {"http"} -> BOOLEAN]
  /\ errCh \in Seq(Server \cup {"http"}) /\ Len(errCh) <= ErrCap
  /\ signalled \in BOOLEAN
  /\ shutdown \in {"none", "waiting", "draining", "done"}
  /\ taken \subseteq RealPort
  /\ timedOut \subseteq Nat
  /\ events \in 0 .. MaxEvents

PxeTypeOK == ConfigTypeOK /\ PortsOK /\ ProcessOK

PxeInit ==
  /\ ConfigInit
  /\ enabled = {}
  /\ ports = << >>
  /\ main = [pc |-> "load", at |-> 1, waited |-> 0,
             delay |-> InitialDelay, sleep |-> 0]
  /\ server = [s \in Server |-> "off"]
  /\ ready = [s \in Server \cup {"http"} |-> FALSE]
  /\ errCh = << >>
  /\ signalled = FALSE
  /\ shutdown = "none"
  /\ taken \in SUBSET RealPort
  /\ timedOut = {}
  /\ events = 0

Exited == main.pc \in {"ok", "error"}
Exit(result) == main' = [main EXCEPT !.pc = result]

-----------------------------------------------------------------------------
(* The servers' goroutines.                                                 *)
-----------------------------------------------------------------------------
(* Mutant of ServerBinds: the flag is set before the socket is there. *)
ServerReadyFirst(s) ==
  /\ server[s] = "starting"
  /\ ready' = [ready EXCEPT ![s] = TRUE]
  /\ UNCHANGED <<main, server, errCh, stopVars, envVars>>

(* The socket is bound, then the flag is set; it is never cleared. *)
ServerBinds(s) ==
  /\ server[s] = "starting"
  /\ server' = [server EXCEPT ![s] = "serving"]
  /\ ready' = [ready EXCEPT ![s] = TRUE]
  /\ UNCHANGED <<main, errCh, stopVars, envVars>>

(* Mutant of ServerFails: an error that follows readiness is only logged. *)
ServerFailsQuietly(s) ==
  /\ server[s] \in {"starting", "serving"}
  /\ Event
  /\ server' = [server EXCEPT ![s] = "failed"]
  /\ errCh' = IF server[s] = "starting" THEN Append(errCh, s) ELSE errCh
  /\ UNCHANGED <<main, ready, stopVars, taken, timedOut>>

(* Binding fails, or Serve does (DHCP): the error goes to run. *)
ServerFails(s) ==
  /\ server[s] = "starting" \/ (server[s] = "serving" /\ s = "dhcp")
  /\ Event
  /\ Len(errCh) < ErrCap
  /\ server' = [server EXCEPT ![s] = "failed"]
  /\ errCh' = Append(errCh, s)
  /\ UNCHANGED <<main, ready, stopVars, taken, timedOut>>

(* Run returns nil: ctx is done, or the TFTP server stopped by itself.      *)
ServerEnds(s) ==
  /\ server[s] = "serving"
  /\ signalled \/ s = "tftp"
  /\ server' = [server EXCEPT ![s] = "ended"]
  /\ UNCHANGED <<main, ready, errCh, stopVars, envVars>>

-----------------------------------------------------------------------------
(* run, and what it calls.                                                  *)
-----------------------------------------------------------------------------
LoadConfig ==
  /\ main.pc = "load"
  /\ Load
  /\ main' = [main EXCEPT !.pc = "configure"]
  /\ UNCHANGED <<enabled, ports, serverVars, stopVars, envVars>>

(* What run does not keep of the environment, the host and cfg. *)
Drop == env' = [state |-> "used"] /\ host' = << >> /\ cfg' = [state |-> "used"]

(* Create and start the enabled servers, register the HTTP handlers, list  *)
(* the ports; a server that is off counts as ready.                         *)
Configure ==
  /\ main.pc = "configure"
  /\ IsLoaded
  /\ enabled' = {s \in Server : IF s = "dhcp" THEN cfg.enabled ELSE cfg.tftp}
  /\ ports' = portsToTry(cfg.port, cfg.ports)
  /\ server' = [s \in Server |-> IF s \in enabled' THEN "starting" ELSE "off"]
  /\ ready' = [s \in DOMAIN ready |-> s \notin enabled']
  /\ Drop
  /\ main' = [main EXCEPT !.pc = "listen"]
  /\ UNCHANGED <<errCh, stopVars, envVars>>

(* The configuration is refused, or another of these steps fails. *)
ConfigureFails ==
  /\ main.pc = "configure"
  /\ \/ cfg = LoadError /\ UNCHANGED events
     \/ IsLoaded /\ Event
  /\ Exit("error")
  /\ Drop
  /\ UNCHANGED <<enabled, ports, serverVars, stopVars, taken, timedOut>>

port == ports[main.at]

(* net.Listen succeeds: run starts the goroutines for Serve and Shutdown. *)
Listen ==
  /\ main.pc = "listen"
  /\ port \in RealPort \ taken
  /\ main' = [main EXCEPT !.pc = "serve"]
  /\ shutdown' = "waiting"
  /\ UNCHANGED <<serverVars, signalled, envVars>>

(* The address is in use and the deadline ahead: wait, at most up to it. *)
Backoff ==
  /\ main.pc = "listen"
  /\ port \in taken
  /\ main.waited < MaxWait
  /\ LET remaining == MaxWait - main.waited
     IN  main' = [main EXCEPT !.pc = "sleep",
                    !.sleep = IF main.delay > remaining THEN remaining
                              ELSE main.delay]
  /\ UNCHANGED <<serverVars, stopVars, envVars>>

(* The timer fires: the next delay is twice as long, up to the maximum. *)
Retry ==
  /\ main.pc = "sleep"
  /\ main' = [main EXCEPT !.pc = "listen", !.waited = @ + main.sleep, !.sleep = 0,
                !.delay = IF 2 * @ > MaxDelay THEN MaxDelay ELSE 2 * @]
  /\ UNCHANGED <<serverVars, stopVars, envVars>>

(* Mutant of Cancelled: a cancelled wait is followed by the next port. *)
CancelledTriesNext ==
  /\ main.pc = "sleep"
  /\ signalled
  /\ IF main.at < Len(ports)
     THEN main' = [pc |-> "listen", at |-> main.at + 1, waited |-> 0,
                   delay |-> InitialDelay, sleep |-> 0]
     ELSE Exit("error")
  /\ UNCHANGED <<serverVars, stopVars, envVars>>

(* ctx ends the wait: run returns its error, no other port is tried. *)
Cancelled ==
  /\ main.pc = "sleep"
  /\ signalled
  /\ Exit("error")
  /\ UNCHANGED <<serverVars, stopVars, envVars>>

(* The deadline has passed: on to the next port, if there is one. *)
GiveUpPort ==
  /\ main.pc = "listen"
  /\ port \in taken
  /\ main.waited >= MaxWait
  /\ timedOut' = timedOut \cup {main.at}
  /\ IF main.at < Len(ports)
     THEN main' = [pc |-> "listen", at |-> main.at + 1, waited |-> 0,
                   delay |-> InitialDelay, sleep |-> 0]
     ELSE Exit("error")
  /\ UNCHANGED <<serverVars, stopVars, taken, events>>

(* net.Listen refuses a port that is none: no retry, no other port. *)
InvalidPort ==
  /\ main.pc = "listen"
  /\ port \notin RealPort
  /\ Exit("error")
  /\ UNCHANGED <<serverVars, stopVars, envVars>>

(* net.Listen fails for another reason: no retry, no other port. *)
ListenFails ==
  /\ main.pc = "listen"
  /\ Event
  /\ Exit("error")
  /\ UNCHANGED <<serverVars, stopVars, taken, timedOut>>

(* The HTTP server stops with an error of its own. *)
HttpFails ==
  /\ main.pc = "serve" /\ shutdown = "waiting"
  /\ Event
  /\ ~ Contains(errCh, "http") /\ Len(errCh) < ErrCap
  /\ errCh' = Append(errCh, "http")
  /\ UNCHANGED <<main, server, ready, stopVars, taken, timedOut>>

(* The first error, or the signal, ends run; Go picks either if both came.  *)
(* Nobody waits for the goroutine that shuts HTTP down.                     *)
ReturnError ==
  /\ main.pc = "serve"
  /\ errCh # << >>
  /\ errCh' = Tail(errCh)
  /\ Exit("error")
  /\ UNCHANGED <<server, ready, stopVars, envVars>>

(* Mutant of ReturnOnSignal: run waits until HTTP has been drained. *)
ReturnOnSignalDrained ==
  /\ main.pc = "serve"
  /\ shutdown = "done"
  /\ Exit("ok")
  /\ UNCHANGED <<serverVars, stopVars, envVars>>

ReturnOnSignal ==
  /\ main.pc = "serve"
  /\ signalled
  /\ Exit("ok")
  /\ UNCHANGED <<serverVars, stopVars, envVars>>

(* server.Shutdown: stop accepting, then wait for connections (10 s). *)
ShutdownHttp ==
  /\ \/ shutdown = "waiting" /\ signalled /\ shutdown' = "draining"
     \/ shutdown = "draining" /\ shutdown' = "done"
  /\ UNCHANGED <<main, serverVars, signalled, envVars>>

-----------------------------------------------------------------------------
Signal ==
  /\ ~ signalled
  /\ signalled' = TRUE
  /\ UNCHANGED <<main, serverVars, shutdown, envVars>>

(* Another process takes or frees a port that is not ours. *)
Occupy(p) ==
  /\ Event
  /\ ~ (main.pc = "serve" /\ p = port)
  /\ taken' = IF p \in taken THEN taken \ {p} ELSE taken \cup {p}
  /\ UNCHANGED <<main, serverVars, stopVars, timedOut>>

RunStep ==
  \/ Listen \/ Backoff \/ Retry \/ Cancelled \/ GiveUpPort \/ InvalidPort
  \/ ReturnError \/ ReturnOnSignal

Begin == LoadConfig \/ Configure \/ ConfigureFails

(* The process is gone, and its goroutines with it. *)
Gone == Exited /\ UNCHANGED pxeVars

PxeNext ==
  \/ /\ ~ Exited
     /\ \/ Begin
        \/ /\ \/ RunStep \/ ListenFails \/ HttpFails \/ ShutdownHttp
              \/ \E s \in Server : ServerBinds(s) \/ ServerFails(s) \/ ServerEnds(s)
              \/ Signal \/ \E p \in RealPort : Occupy(p)
           /\ UNCHANGED conf
  \/ Gone

(* The Go scheduler keeps running run, and timers fire. *)
PxeSpec == PxeInit /\ [][PxeNext]_pxeVars
PxeFairSpec == PxeSpec /\ WF_pxeVars(~ Exited /\ (Begin \/ (RunStep /\ UNCHANGED conf)))

-----------------------------------------------------------------------------
(* GET /readyz is answered 200. *)
ReadyOK == main.pc = "serve" /\ \A s \in DOMAIN ready : ready[s]

(* The stack calls itself ready only when every enabled server has had its  *)
(* socket, whichever goroutine was slow or failed, and HTTP listens.        *)
ReadyMeansBound ==
  ReadyOK => \A s \in enabled : server[s] \in {"serving", "ended", "failed"}
                                /\ (server[s] = "failed" => Contains(errCh, s))

(* HTTP is served on the first port of the list that could be had: every    *)
(* port before it was still taken when its whole waiting time had passed,   *)
(* and no port is waited for beyond its deadline.                           *)
FallbackInOrder ==
  /\ main.pc = "serve" => 1 .. main.at - 1 = timedOut
  /\ main.waited + main.sleep <= MaxWait /\ main.sleep <= MaxDelay

(* A server's error ends the process, also when it comes while run is busy  *)
(* with looking for a port.                                                 *)
FailureStopsStack ==
  (\E s \in Server : server[s] = "failed") ~> Exited

(* So does a signal, at whatever point of the start it comes. *)
SignalStopsStack == signalled ~> Exited
-----------------------------------------------------------------------------
(***************************************************************************)
(* The inductive invariant behind the theorems of ServiceProofs.           *)
(***************************************************************************)
ConfigOK ==
  /\ cfg = NotLoaded => env \in Environment /\ host \in Host
  /\ DhcpIsUsable /\ InterfaceIsOurs /\ FallbacksAsGiven

(* A flag that is up was set by its server, and an error waits to be read. *)
ServersOK ==
  \A s \in enabled :
    /\ ready[s] => server[s] \in {"serving", "ended", "failed"}
    /\ server[s] = "failed" => Exited \/ Contains(errCh, s)

(* The ports that run has left behind are those it has given up. *)
PortsTried ==
  /\ ~ Exited => main.at >= 1 /\ timedOut = 1 .. main.at - 1
  /\ main.pc \in {"load", "configure"} => main.at = 1
  /\ main.waited + main.sleep <= MaxWait
  /\ main.sleep <= MaxDelay /\ main.delay <= MaxDelay

PxeIInv == PxeTypeOK /\ ConfigOK /\ ServersOK /\ PortsTried
=============================================================================
