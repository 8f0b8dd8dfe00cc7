----------------------------- MODULE PxeConfig -----------------------------
(***************************************************************************)
(* services/pxe-stack/internal/config: Load turns the environment and the  *)
(* host's network interfaces into a configuration, or an error.  It is     *)
(* called once, by run (PxeSupervisor).                                    *)
(*                                                                         *)
(* A variable is Unset, Bad (it does not parse), or a value.  An IPv4      *)
(* address is its bytes; V6 stands for any address that is not IPv4.       *)
(***************************************************************************)
EXTENDS Durations, Sequences, FiniteSets, SequencesExt

CONSTANTS
  Environment,   \* environments: records of variables
  Host,          \* tables of interfaces: sequences of [name, addrs]
  Unset, Bad, V6,
  Byte,          \* values of a byte
  MaxPort,       \* 65535
  DefaultPort    \* 8080

VARIABLES
  env, host,   \* what Load reads
  cfg          \* what it returns

configVars == <<env, host, cfg>>

(* Two bytes are enough to compare addresses, class and host. *)
IPv4 == [1 .. 2 -> Byte]
Address == IPv4 \cup {Unset, Bad, V6}

ASSUME PxeConfigAssumption ==
  /\ Byte \subseteq Nat /\ \E max \in Byte : \A b \in Byte : b <= max
  /\ MaxPort \in Nat /\ DefaultPort \in 1 .. MaxPort
  /\ Unset # Bad /\ V6 \notin {Unset, Bad} /\ {Unset, Bad, V6} \cap IPv4 = {}
  /\ \A e \in Environment :
       /\ {e.start, e.end, e.mask, e.router, e.server, e.next} \subseteq Address
       /\ e.lease \in Int \cup {Unset, Bad} /\ e.port \in Int \cup {Unset, Bad}
       /\ e.interface = Unset \/ (e.interface \in Seq(STRING) /\ e.interface # Bad)
       /\ e.fallbacks \in Seq(Int \cup {Bad})
  /\ Host \subseteq Seq([name : STRING \ {""}, addrs : SUBSET IPv4])

NotLoaded == [state |-> "none"]
LoadError == [state |-> "error"]

-----------------------------------------------------------------------------
(* Mutant of bytesCompare: any smaller byte decides. *)
bytesCompareAny(a, b) ==
  IF a = b THEN 0 ELSE IF \E i \in DOMAIN a : a[i] < b[i] THEN -1 ELSE 1

(* The first byte that differs decides. *)
bytesCompare(a, b) ==
  IF a = b THEN 0
  ELSE LET i == Min({j \in DOMAIN a : a[j] # b[j]})
       IN  IF a[i] < b[i] THEN -1 ELSE 1

(* The first interface with this IPv4 address. *)
interfaceByIP(ip) ==
  LET with == {i \in DOMAIN host : ip \in host[i].addrs}
  IN  IF with = {} THEN Bad ELSE host[Min(with)].name

(* Mutant of resolveDHCPInterface: the first candidate, there or not. *)
resolveFirst(spec, serverIP) ==
  LET named == SelectSeq(spec, LAMBDA n : n \notin {"", "auto"})
  IN  IF named # << >> THEN Head(named)
      ELSE IF serverIP = Unset THEN Bad ELSE interfaceByIP(serverIP)

(* "auto" anywhere in the list, or an empty list, outweighs the names. *)
resolveDHCPInterface(spec, serverIP) ==
  LET trimmed == {n \in DOMAIN spec : spec[n] # ""}
      there == {n \in trimmed : \E i \in DOMAIN host : host[i].name = spec[n]}
  IN  IF trimmed = {} \/ \E n \in trimmed : spec[n] = "auto"
      THEN IF serverIP = Unset THEN Bad ELSE interfaceByIP(serverIP)
      ELSE IF there = {} THEN Bad ELSE spec[Min(there)]

(* The members of wanted in s, each where it comes first. *)
Distinct(s, wanted) ==
  LET upTo[n \in 0 .. Len(s)] ==
        IF n = 0 THEN << >>
        ELSE IF s[n] \in wanted /\ ~ Contains(upTo[n - 1], s[n])
             THEN Append(upTo[n - 1], s[n])
             ELSE upTo[n - 1]
  IN  upTo[Len(s)]

(* Mutant of parsePortList: what is out of range is skipped. *)
parsePortListSkipping(parts) == Distinct(parts, 1 .. MaxPort)

(* Blank parts are gone already; repetitions are dropped, in order. *)
parsePortList(parts) ==
  IF ToSet(parts) \subseteq 1 .. MaxPort THEN Distinct(parts, 1 .. MaxPort) ELSE Bad

(* getEnv; of getEnvBool and getEnvInt, for which Bad counts as unset. *)
getEnv(v, default) == IF v \in {Unset, Bad} THEN default ELSE v

(* net.IPMask(ip.To4()) of an IPv6 mask is nil, as if it were unset: the    *)
(* mask is that of the class the range's start is in.                       *)
subnetMask(e, enabled) ==
  CASE e.mask \in IPv4 -> "given"
    [] e.mask \notin IPv4 /\ enabled -> "of the class"
    [] OTHER -> "none"

(* What DHCP needs when it is enabled. *)
dhcpComplete(e) ==
  /\ {e.start, e.end, e.server} \cap {Unset, V6} = {}
  /\ bytesCompare(e.start, e.end) <= 0

(* The interface is resolved whether DHCP is enabled or not.  A lease of    *)
(* enough seconds wraps, and may be accepted as none or as a negative one.  *)
Loaded(e) ==
  LET enabled == getEnv(e.dhcp, TRUE)
      iface == resolveDHCPInterface(getEnv(e.interface, <<"eth0", "en0">>), e.server)
      ports == parsePortList(e.fallbacks)
  IN  IF \/ Bad \in {e.start, e.end, e.mask, e.router, e.server, e.next, iface, ports}
                      \cup ToSet(e.dns)
         \/ e.lease = Bad \/ (e.lease # Unset /\ e.lease <= 0)
         \/ enabled /\ ~ dhcpComplete(e)
      THEN LoadError
      ELSE [state |-> "loaded", enabled |-> enabled, interface |-> iface,
            mask |-> subnetMask(e, enabled),
            router |-> IF enabled /\ e.router = Unset THEN e.server ELSE e.router,
            lease |-> Duration(IF e.lease = Unset THEN 86400 ELSE e.lease),
            tftp |-> getEnv(e.tftp, TRUE),
            port |-> getEnv(e.port, DefaultPort), ports |-> ports]

ConfigInit ==
  /\ env \in Environment
  /\ host \in Host
  /\ cfg = NotLoaded

Load ==
  /\ cfg = NotLoaded
  /\ cfg' = Loaded(env)
  /\ UNCHANGED <<env, host>>

-----------------------------------------------------------------------------
IsLoaded == cfg.state = "loaded"
DhcpOn == IsLoaded /\ cfg.enabled

ConfigTypeOK ==
  /\ cfg.state \in {"none", "error", "loaded", "used"}
  /\ IsLoaded => /\ cfg.lease \in Int64 /\ cfg.port \in Int
                 /\ cfg.ports \in Seq(1 .. MaxPort)

(* What the DHCP server is given: a range that is not empty as numbers, so  *)
(* that its pool has an address and its cursor meets the end, and a mask,   *)
(* of its own or of a class, and a router for its answers.                  *)
DhcpIsUsable ==
  LET value(ip) == ip[1] * (Max(Byte) + 1) + ip[2]
  IN  DhcpOn => /\ value(env.start) <= value(env.end)
                /\ cfg.mask # "none"
                /\ cfg.router \in IPv4 \cup {V6}

(* The interface is one of the host's; among several candidates it is the   *)
(* first that is there, and with "auto" it has the address the answers of   *)
(* the DHCP server name.                                                    *)
InterfaceIsOurs ==
  IsLoaded =>
    LET spec == IF env.interface = Unset THEN <<"eth0", "en0">> ELSE env.interface
        auto == \/ \E n \in DOMAIN spec : spec[n] = "auto"
                \/ \A n \in DOMAIN spec : spec[n] = ""
    IN  /\ \E i \in DOMAIN host : /\ host[i].name = cfg.interface
                                   /\ auto => env.server \in host[i].addrs
        /\ ~ auto => \E n \in DOMAIN spec :
                       /\ spec[n] = cfg.interface
                       /\ \A k \in 1 .. n - 1, i \in DOMAIN host :
                            host[i].name # spec[k]

(* What comes first in d came first in s. *)
InOrderOf(s, d) ==
  \A a, b \in DOMAIN d : a < b =>
    \E i \in DOMAIN s : s[i] = d[a] /\ \A j \in 1 .. i : s[j] # d[b]

(* A list of fallback ports is used as it was given, or it is refused: none *)
(* of its ports is lost without a word, none is tried twice or before one   *)
(* that was named earlier.                                                  *)
FallbacksAsGiven ==
  IsLoaded => /\ ToSet(cfg.ports) = ToSet(env.fallbacks)
              /\ IsInjective(cfg.ports)
              /\ InOrderOf(env.fallbacks, cfg.ports)
              /\ ToSet(cfg.ports) \subseteq 1 .. MaxPort
=============================================================================
