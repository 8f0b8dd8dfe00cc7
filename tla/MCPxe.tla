------------------------------- MODULE MCPxe -------------------------------
EXTENDS PxeSupervisor

Bytes == 0 .. 1

(* The values of the Helm chart, and the variables that depart from them. *)
Chart == [dhcp |-> TRUE, interface |-> <<"eth0", "en0">>, start |-> <<0, 1>>,
          end |-> <<1, 0>>, mask |-> <<1, 0>>, router |-> <<0, 0>>,
          server |-> <<0, 0>>, next |-> <<0, 0>>, dns |-> << <<0, 0>> >>,
          lease |-> 86400, tftp |-> TRUE, port |-> 1, fallbacks |-> <<2>>]

Ranges == {[Chart EXCEPT !.dhcp = d, !.start = s, !.end = e, !.server = a] :
             d \in {TRUE, FALSE, Unset, Bad}, s \in Address, e \in Address,
             a \in {<<0, 0>>, Unset, V6}}

(* The last two leases wrap: to - Half and to 0. *)
Others == {[Chart EXCEPT !.dhcp = d, !.mask = m, !.router = r, !.lease = l] :
             d \in BOOLEAN, m \in Address, r \in Address, l \in {Unset, Bad, 0, 1, 131072, 262144}}

Candidates == {[Chart EXCEPT !.interface = c, !.server = a] :
                 c \in SeqOf({"eth0", "en0", "auto", ""}, 3) \cup {Unset},
                 a \in {<<0, 0>>, <<1, 1>>, Unset}}

(* 0 and 3 are no ports. *)
Ports == {[Chart EXCEPT !.fallbacks = f, !.port = p] :
            f \in SeqOf({Bad, 0, 1, 2, 3}, 3), p \in {Unset, Bad, 0, 1, 3}}

Servers == {[Chart EXCEPT !.dhcp = d, !.tftp = t, !.fallbacks = f, !.port = p] :
              d \in BOOLEAN, t \in {TRUE, FALSE, Unset},
              f \in SeqOf({1, 2}, 2), p \in {Unset, 0, 1}}

Environments == Ranges \cup Others \cup Candidates \cup Ports \cup Servers

Eth0(addrs) == [name |-> "eth0", addrs |-> addrs]
En0(addrs) == [name |-> "en0", addrs |-> addrs]
Hosts == {<< >>, <<Eth0({<<0, 0>>})>>, <<En0({<<0, 0>>})>>,
          <<Eth0({}), En0({<<0, 0>>})>>, <<En0({<<0, 0>>, <<1, 1>>}), Eth0({<<0, 0>>})>>}
=============================================================================
