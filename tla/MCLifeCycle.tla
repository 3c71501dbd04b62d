---------------------------- MODULE MCLifeCycle ----------------------------
(***************************************************************************)
(* LifeCycle for TLC: a loopback interface, one that is down, and two that *)
(* can be used, with IPv6 addresses.                                       *)
(***************************************************************************)
EXTENDS LifeCycle

If(name, n, addr) == [ name |-> name, index |-> n, up |-> TRUE, loopback |-> FALSE,
                       multicast |-> TRUE, family |-> "inet", addr |-> addr ]
Lo     == [If("lo", 1, Loopback) EXCEPT !.loopback = TRUE]
Down   == [If("eth0", 2, "10.0.0.1") EXCEPT !.up = FALSE]
Eth    == If("eth1", 3, "10.0.0.2")
Wlan   == If("wlan0", 4, "10.0.0.3")

Inet6(n, scope, addr) == [index |-> n, scope |-> scope, addr |-> addr]
MCInet6 == << Inet6(3, "global", "2001::2"), Inet6(4, "linklocal", "fe80::3"),
              Inet6(3, "linklocal", "fe80::2") >>

MCInterfaceLists == { [ifs |-> <<Lo, Down>>, inet6 |-> <<>>],
                      [ifs |-> <<Lo, Down, Eth, Wlan>>, inet6 |-> MCInet6] }
=============================================================================
