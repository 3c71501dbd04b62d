---------------------------- MODULE Interfaces ----------------------------
(***************************************************************************)
(* How the SDK finds its addresses: UpnpGetIfInfo and getlocalhostname of  *)
(* upnpapi.c, over what the system reports.                                *)
(*                                                                         *)
(* An interface is [name, index, up, loopback, multicast, family, addr], a *)
(* line of /proc/net/if_inet6 is [index, scope, addr].  net is what the    *)
(* gIF_* variables hold.                                                   *)
(***************************************************************************)
EXTENDS Naturals, Sequences
LOCAL INSTANCE SequencesExt

NoAddr   == "none"            \* an empty string
AnyAddr  == "0.0.0.0"
Loopback == "127.0.0.1"
TooLong  == "a name of more than LINE_SIZE bytes"
DefaultInterface == 1         \* DEFAULT_INTERFACE

NoNet == [name |-> NoAddr, index |-> 0, v4 |-> NoAddr, v6 |-> NoAddr, ula |-> NoAddr]

\* The scan of the interfaces: found is ifname_found, valid valid_addr_found,
\* which also ends it.
Usable(i) == ~i.loopback /\ i.up /\ i.multicast

ConsiderMutant(s, i) ==
  IF i.family = "inet"
  THEN [s EXCEPT !.found = TRUE, !.valid = TRUE,
                 !.net = [@ EXCEPT !.name = i.name, !.v4 = i.addr, !.index = i.index]]
  ELSE s

Consider(s, i) ==
  LET named == IF s.found THEN s ELSE [s EXCEPT !.found = TRUE, !.net.name = i.name]
  IN  IF named.net.name # i.name THEN named          \* not the one asked for
      ELSE IF i.family = "inet"
      THEN [named EXCEPT !.valid = TRUE,
                         !.net = [@ EXCEPT !.v4 = i.addr, !.index = i.index]]
      ELSE [named EXCEPT !.found = FALSE]            \* not an IPv4 address

Scanned(s, i) == IF s.valid \/ ~Usable(i) THEN s ELSE Consider(s, i)

\* The scan after each of the interfaces.
Scan(s, ifs) ==
  LET scan[n \in 0 .. Len(ifs)] == IF n = 0 THEN s ELSE Scanned(scan[n - 1], ifs[n])
  IN  scan
ScanInterfaces(s, ifs) == Scan(s, ifs)[Len(ifs)]

\* The IPv6 addresses of the same interface.  A unique local address replaces
\* what was there, the others are kept only where there is none yet.
TakeInet6(net, l) ==
  CASE l.index # net.index                                 -> net
    [] l.scope = "ula"                                     -> [net EXCEPT !.ula = l.addr]
    [] l.scope = "global" /\ net.ula = NoAddr              -> [net EXCEPT !.ula = l.addr]
    [] l.scope = "linklocal" /\ net.v6 = NoAddr            -> [net EXCEPT !.v6 = l.addr]
    [] OTHER                                               -> net

\* net after each of the lines of /proc/net/if_inet6.
ReadInet6(net, inet6) ==
  LET read[n \in 0 .. Len(inet6)] == IF n = 0 THEN net ELSE TakeInet6(read[n - 1], inet6[n])
  IN  read

UpnpGetIfInfo(ifname, ifs, inet6, net) ==
  LET asked == ifname # NoAddr
      start == [found |-> asked, valid |-> FALSE,
                net   |-> IF asked THEN [net EXCEPT !.name = ifname] ELSE net]
      s     == ScanInterfaces(start, ifs)
  IN  IF ifname = TooLong THEN [ret |-> "INVALID_INTERFACE", net |-> net]
      ELSE IF ~s.found \/ ~s.valid THEN [ret |-> "INVALID_INTERFACE", net |-> s.net]
      ELSE [ret |-> "SUCCESS", net |-> ReadInet6(s.net, inet6)[Len(inet6)]]

\* getlocalhostname: the address of the first interface that is up and not a
\* loopback one.  Without one it is what was copied last, and no error.
LocalAddr(s, i) ==
  CASE s.j >= DefaultInterface \/ i.loopback \/ ~i.up -> s
    [] i.family = "inet" /\ i.addr = Loopback         -> [s EXCEPT !.addr = i.addr]
    [] i.family = "inet"                              -> [addr |-> i.addr, j |-> s.j + 1]
    [] OTHER                                          -> [s EXCEPT !.j = @ + 1]
GetLocalHostName(ifs) == FoldLeft(LocalAddr, [addr |-> AnyAddr, j |-> 0], ifs).addr
=============================================================================
