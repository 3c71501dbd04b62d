----------------------------- MODULE LifeCycle -----------------------------
(***************************************************************************)
(* The life of the SDK: UpnpInit, UpnpInit2, UpnpFinish and what they      *)
(* start and stop (upnpapi.c), the mini server (miniserver.c) and its      *)
(* sockets (get_ssdp_sockets in ssdp_server.c), and the registration of    *)
(* the control point.  The build is one with UPNP_ENABLE_IPV6; the web     *)
(* server is left out, as in upnpconfig.h.                                 *)
(*                                                                         *)
(* The application follows upnp.h: other calls are made after an UpnpInit  *)
(* has returned, and UpnpFinish is the last one.  Several threads may      *)
(* call UpnpInit at once.  Every step that can fail may fail.              *)
(***************************************************************************)
EXTENDS Interfaces
LOCAL INSTANCE SequencesExt

CONSTANTS Threads,       \* threads of the application
          NumHandle,     \* NUM_HANDLE
          InterfaceLists,\* what the system may report: [ifs, inet6]
          IfNames,       \* names the application may ask for
          DirNames,      \* virtual directories, without a leading slash
          MaxInits       \* bound on the calls of UpnpInit

Nobody == "nobody"       \* no thread holds gSDKInitMutex

ASSUME LifeCycleAssumption ==
  /\ NumHandle \in Nat /\ NumHandle > 2 /\ MaxInits \in Nat
  /\ IfNames \cap {NoAddr} = {} /\ Nobody \notin Threads

\* SIOCGIFCONF reports the interfaces that have an IPv4 address.
ASSUME InterfacesAssumption ==
  \A l \in InterfaceLists :
    /\ Len(l.ifs) \in Nat /\ Len(l.inet6) \in Nat
    /\ \A i \in ToSet(l.ifs) : i.family = "inet"

VARIABLES
  pc,         \* where the call of a thread is, or "idle"
  arg,        \* the argument of a call
  sdkInit,    \* UpnpSdkInit
  mutex,      \* who holds gSDKInitMutex
  parts,      \* what is initialised and not destroyed
  net,        \* the gIF_* variables
  sock,       \* the sockets of MiniServerSockArray: "none", "open" or "closed"
  gMServState,
  mthread,    \* RunMiniServer: "none", "ready", "run", "over"
  shutDown,   \* a ShutDown datagram is on its way to the stop socket
  handles,    \* the slots of HandleTable in use
  registered, \* UpnpSdkClientRegistered
  dirs,       \* pVirtualDirList
  inits,      \* calls of UpnpInit and UpnpInit2
  gaveUp,     \* history: what was given up
  twice       \* history: what was initialised, or closed, twice

vars == <<pc, arg, sdkInit, mutex, parts, net, sock, gMServState, mthread, shutDown,
          handles, registered, dirs, inits, gaveUp, twice>>
server == <<gMServState, mthread, shutDown>>
client == <<handles, registered, dirs>>

Parts     == {"log", "mutexes", "send", "recv", "mini", "timer"}
SockNames == {"stop", "req4", "req6", "ssdp4", "ssdp6", "ulagua"}

\* What is initialised when InitPreamble fails at a step, in this order.
PreambleSteps == <<"log", "mutexes", "send", "recv", "mini", "timer">>

Init ==
  /\ pc = [t \in Threads |-> "idle"] /\ arg = [t \in Threads |-> <<"none", NoAddr>>]
  /\ sdkInit = 0 /\ mutex = Nobody /\ parts = {} /\ net = NoNet
  /\ sock = [s \in SockNames |-> "none"]
  /\ gMServState = "IDLE" /\ mthread = "none" /\ shutDown = FALSE
  /\ handles = {} /\ registered = FALSE /\ dirs = <<>>
  /\ inits = 0 /\ gaveUp = {} /\ twice = {}

Goto(t, where) == pc' = [pc EXCEPT ![t] = where]
At(t, where)   == pc[t] = where

\* sock_close on several sockets.  A closed one keeps its number.
Close(S) ==
  /\ sock'  = [s \in SockNames |-> IF s \in S /\ sock[s] = "open" THEN "closed" ELSE sock[s]]
  /\ twice' = twice \cup { s \in S : sock[s] = "closed" }

----------------------------------------------------------------------------
(***************************************************************************)
(* UpnpInit and UpnpInit2.                                                 *)
(***************************************************************************)
\* a is <<"UpnpInit", address or none>> or <<"UpnpInit2", interface or none>>.
UpnpInit(t, a) ==
  /\ At(t, "idle") /\ inits < MaxInits
  /\ \A u \in Threads : pc[u] \in {"idle", "init", "preamble", "address", "start", "add", "wait"}
  /\ Goto(t, "init") /\ arg' = [arg EXCEPT ![t] = a] /\ inits' = inits + 1
  /\ UNCHANGED <<sdkInit, mutex, parts, net, sock, server, client, gaveUp, twice>>

InitLockMutant(t) ==
  /\ At(t, "init") /\ mutex = Nobody
  /\ Goto(t, "preamble") /\ mutex' = t
  /\ UNCHANGED <<arg, sdkInit, parts, net, sock, server, client, inits, gaveUp, twice>>

\* gSDKInitMutex; an SDK that is up already is left alone.
InitLock(t) ==
  /\ At(t, "init") /\ mutex = Nobody
  /\ IF sdkInit = 1 THEN Goto(t, "idle") /\ UNCHANGED mutex
                    ELSE Goto(t, "preamble") /\ mutex' = t
  /\ UNCHANGED <<arg, sdkInit, parts, net, sock, server, client, inits, gaveUp, twice>>

\* UpnpInitPreamble, with UpnpInitMutexes and UpnpInitThreadPools.  UpnpFinish,
\* called on the failure of a pool or of the timer, does nothing while
\* UpnpSdkInit is 0.
InitPreamble(t) ==
  \E n \in 0 .. Len(PreambleSteps) :
    LET done == { PreambleSteps[i] : i \in 1 .. n }
        ok   == n = Len(PreambleSteps)
    IN  /\ At(t, "preamble")
        /\ parts' = parts \cup done
        /\ twice' = twice \cup ((parts \cap done) \ {"log"})
        /\ handles' = IF "mutexes" \in done THEN {} ELSE handles
        /\ IF ok THEN Goto(t, "address") /\ UNCHANGED <<mutex, gaveUp>>
                 ELSE Goto(t, "idle") /\ mutex' = Nobody /\ gaveUp' = gaveUp \cup {"init"}
        /\ UNCHANGED <<arg, sdkInit, net, sock, server, registered, dirs, inits>>

\* The addresses that UpnpInit and UpnpInit2 find, and whether they go on.
Addresses(a, l) ==
  IF a[1] = "UpnpInit2" THEN UpnpGetIfInfo(a[2], l.ifs, l.inet6, net)
  ELSE [ret |-> "SUCCESS",
        net |-> [net EXCEPT !.v4 = IF a[2] # NoAddr THEN a[2] ELSE GetLocalHostName(l.ifs)]]

\* On failure what the preamble has started stays up.
InitAddress(t) ==
  \E l \in InterfaceLists, sockets \in BOOLEAN :
    LET a == Addresses(arg[t], l)
        works == a.ret = "SUCCESS" /\ (sockets \/ (arg[t][1] = "UpnpInit" /\ arg[t][2] # NoAddr))
    IN  /\ At(t, "address")
        /\ net' = IF sockets THEN a.net
                  ELSE IF arg[t][1] = "UpnpInit" THEN [net EXCEPT !.v4 = arg[t][2]]
                  ELSE IF arg[t][2] \in {NoAddr, TooLong} THEN net
                  ELSE [net EXCEPT !.name = arg[t][2]]
        /\ IF works THEN Goto(t, "start") /\ sdkInit' = 1 /\ UNCHANGED <<mutex, gaveUp>>
           ELSE /\ Goto(t, "idle") /\ mutex' = Nobody /\ gaveUp' = gaveUp \cup {"init"}
                /\ UNCHANGED sdkInit
        /\ UNCHANGED <<arg, parts, sock, server, client, inits, twice>>

(***************************************************************************)
(* StartMiniServer.                                                        *)
(***************************************************************************)
\* get_ssdp_sockets makes these, in this order, where there is an address;
\* when one cannot be made it closes the ones named for it.
SsdpSockets == <<"req4", "req6", "ssdp4", "ssdp6", "ulagua">>
AddressOf   == [ req4 |-> net.v4, ssdp4 |-> net.v4, req6 |-> net.v6, ssdp6 |-> net.v6,
                 ulagua |-> net.ula ]
ClosedOn(s) ==
  CASE s = "req4"   -> {}
    [] s = "req6"   -> {"req4"}
    [] s = "ssdp4"  -> {"req4", "req6"}
    [] s = "ssdp6"  -> {"ssdp4", "req4", "req6"}
    [] s = "ulagua" -> {"ssdp4", "ssdp6", "req4", "req6"}

Wanted == { s \in {"req4", "req6", "ssdp4", "ssdp6", "ulagua"} : AddressOf[s] # NoAddr }
\* What a constructor leaves when it fails: no socket, or one it has closed.
\* The only failure of the request sockets is that of socket().
CreateSsdpSockReqV4   == {"none"}
CreateSsdpSockReqV6   == {"none"}
CreateSsdpSockV4      == {"none", "closed"}
CreateSsdpSockV6      == {"none", "closed"}
CreateSsdpSockV6UlaGua == {"none", "closed"}
LeftBy == [ req4 |-> CreateSsdpSockReqV4, req6 |-> CreateSsdpSockReqV6,
            ssdp4 |-> CreateSsdpSockV4, ssdp6 |-> CreateSsdpSockV6,
            ulagua |-> CreateSsdpSockV6UlaGua ]

\* The sockets once those before SsdpSockets[n] have been made: closed again
\* are the ones in gone, and SsdpSockets[n] itself is left as it says.
SocketsUpTo(n, gone, itself, stop) ==
  [ s \in SockNames |->
      IF s = "stop" THEN stop
      ELSE IF \E i \in 1 .. n - 1 : SsdpSockets[i] = s /\ s \in Wanted
      THEN IF s \in gone THEN "closed" ELSE "open"
      ELSE IF n <= Len(SsdpSockets) /\ s = SsdpSockets[n] THEN itself ELSE "none" ]

\* SsdpSockets[n] cannot be made.  get_ssdp_sockets has cleaned up; the stop
\* socket is closed by the caller.
SsdpFails(n) ==
  /\ \E left \in LeftBy[SsdpSockets[n]] :
       sock' = SocketsUpTo(n, ClosedOn(SsdpSockets[n]), left, "closed")
  /\ UNCHANGED twice

\* get_miniserver_stopsock fails, and leaves no socket behind.
StopsockFails == UNCHANGED <<sock, twice>>

\* UpnpInitStartServers takes the SDK down again when the mini server failed.
StartServersFails(t) == Goto(t, "fin_unreg")

StartMiniServer(t) ==
  /\ At(t, "start")
  /\ \/ StartServersFails(t) /\ UNCHANGED <<sock, twice>>    \* it runs already, or no memory
     \/ StartServersFails(t) /\ StopsockFails
     \/ /\ gMServState = "IDLE"
        /\ \E n \in 1 .. Len(SsdpSockets) :
             SsdpSockets[n] \in Wanted /\ SsdpFails(n)
        /\ StartServersFails(t)
     \/ /\ gMServState = "IDLE"
        /\ sock' = SocketsUpTo(Len(SsdpSockets) + 1, {}, "none", "open")
        /\ Goto(t, "add") /\ UNCHANGED twice
  /\ UNCHANGED <<arg, sdkInit, mutex, parts, net, server, client, inits, gaveUp>>

\* ThreadPoolAddPersistent of RunMiniServer.  Its errors, EMAXTHREADS and
\* EOUTOFMEM, are positive numbers, so the branch for a negative one is never
\* taken: a thread that was refused is waited for like one that is coming.
AddMiniServer(t) ==
  /\ At(t, "add")
  /\ Goto(t, "wait") /\ mthread' \in {"ready", mthread}
  /\ UNCHANGED <<arg, sdkInit, mutex, parts, net, sock, gMServState, shutDown, client, inits,
                 gaveUp, twice>>

WaitStarted(t) ==
  /\ At(t, "wait") /\ gMServState = "RUNNING"
  /\ Goto(t, "idle") /\ mutex' = Nobody
  /\ UNCHANGED <<arg, sdkInit, parts, net, sock, server, client, inits, gaveUp, twice>>

\* max_count waits are over and the thread has not run yet, or never will: its
\* sockets are closed, under it if it comes later.
StartTakesTooLong(t) ==
  /\ At(t, "wait") /\ gMServState # "RUNNING"
  /\ Close(SockNames)
  /\ gaveUp' = IF mthread = "none" THEN gaveUp ELSE gaveUp \cup {"start"}
  /\ StartServersFails(t)
  /\ UNCHANGED <<arg, sdkInit, mutex, parts, net, server, client, inits>>

(***************************************************************************)
(* RunMiniServer.                                                          *)
(***************************************************************************)
MServStarts ==
  /\ mthread = "ready"
  /\ mthread' = "run" /\ gMServState' = "RUNNING"
  /\ UNCHANGED <<pc, arg, sdkInit, mutex, parts, net, sock, shutDown, client, inits, gaveUp, twice>>

\* The datagram arrives: the loop ends, the sockets are closed.
MServStops ==
  /\ mthread = "run" /\ shutDown /\ sock.stop = "open"
  /\ shutDown' = FALSE
  /\ Close(SockNames)
  /\ mthread' = "over" /\ gMServState' = "IDLE"
  /\ UNCHANGED <<pc, arg, sdkInit, mutex, parts, net, client, inits, gaveUp>>

DatagramLost ==
  /\ shutDown /\ shutDown' = FALSE
  /\ UNCHANGED <<pc, arg, sdkInit, mutex, parts, net, sock, gMServState, mthread, client,
                 inits, gaveUp, twice>>

(***************************************************************************)
(* UpnpFinish, by the application or by an UpnpInit that failed.           *)
(***************************************************************************)
UpnpFinish(t) ==
  /\ \A u \in Threads : At(u, "idle")
  /\ sdkInit = 1
  /\ Goto(t, "fin_unreg")
  /\ UNCHANGED <<arg, sdkInit, mutex, parts, net, sock, server, client, inits, gaveUp, twice>>

\* GetClientHandleInfo looks at two handles; UpnpUnRegisterClient.
ClientHandle == IF 1 \in handles THEN 1 ELSE IF 2 \in handles THEN 2 ELSE 0
FinishUnRegister(t) ==
  /\ At(t, "fin_unreg")
  /\ IF ClientHandle # 0 /\ registered
     THEN handles' = handles \ {ClientHandle} /\ registered' = FALSE
     ELSE UNCHANGED <<handles, registered>>
  /\ Goto(t, "fin_stop")
  /\ parts' = parts \ {"timer"}                         \* TimerThreadShutdown
  /\ UNCHANGED <<arg, sdkInit, mutex, net, sock, server, dirs, inits, gaveUp, twice>>

\* StopMiniServer: nothing to do unless it runs.
StopMiniServer(t) ==
  /\ At(t, "fin_stop")
  /\ IF gMServState # "RUNNING" THEN Goto(t, "fin_pools") /\ UNCHANGED <<gMServState, gaveUp>>
     ELSE /\ gMServState' = "STOPPING"
          /\ \/ Goto(t, "fin_send") /\ UNCHANGED gaveUp
             \/ Goto(t, "fin_pools") /\ gaveUp' = gaveUp \cup {"stop"}   \* no socket
  /\ UNCHANGED <<arg, sdkInit, mutex, parts, net, sock, mthread, shutDown, client, inits, twice>>

SendShutDownMutant(t) ==
  /\ At(t, "fin_send")
  /\ shutDown' = TRUE
  /\ Goto(t, "fin_pools")
  /\ UNCHANGED <<arg, sdkInit, mutex, parts, net, sock, gMServState, mthread, client,
                 inits, gaveUp, twice>>

\* One round of its loop: the datagram is sent until the state is IDLE.
SendShutDown(t) ==
  /\ At(t, "fin_send")
  /\ IF gMServState = "IDLE" THEN Goto(t, "fin_pools") /\ UNCHANGED shutDown
                             ELSE shutDown' = TRUE /\ UNCHANGED pc
  /\ UNCHANGED <<arg, sdkInit, mutex, parts, net, sock, gMServState, mthread, client,
                 inits, gaveUp, twice>>

UpnpRemoveAllVirtualDirs == dirs' = <<>>

\* ThreadPoolShutdown waits for RunMiniServer; the rest is taken down.
FinishPools(t) ==
  /\ At(t, "fin_pools")
  /\ mthread \in {"none", "over"}
  /\ mthread' = "none" /\ parts' = {} /\ UpnpRemoveAllVirtualDirs /\ sdkInit' = 0
  /\ Goto(t, "idle")
  /\ mutex' = IF mutex = t THEN Nobody ELSE mutex       \* UpnpInit failed
  /\ UNCHANGED <<arg, net, sock, gMServState, shutDown, handles, registered, inits, gaveUp, twice>>

----------------------------------------------------------------------------
(***************************************************************************)
(* Calls of an application whose SDK is up.                                *)
(***************************************************************************)
Usual(t) ==
  /\ At(t, "idle") /\ sdkInit = 1 /\ mutex = Nobody
  /\ \A u \in Threads : pc[u] \in {"idle", "init", "unregister"}

\* GetFreeHandle: the lowest free slot, or NumHandle.
GetFreeHandle ==
  CHOOSE i \in 1 .. NumHandle : /\ i = NumHandle \/ i \notin handles
                                /\ \A j \in 1 .. i - 1 : j \in handles
UpnpRegisterClient(t) ==
  /\ Usual(t)
  /\ ~registered /\ GetFreeHandle # NumHandle
  /\ handles' = handles \cup {GetFreeHandle} /\ registered' = TRUE
  /\ UNCHANGED <<pc, arg, sdkInit, mutex, parts, net, sock, server, dirs, inits, gaveUp, twice>>

\* The lock is given up between the test and the end, for genaUnregisterClient.
UpnpUnRegisterClient(t, h) ==
  /\ Usual(t) /\ registered
  /\ Goto(t, "unregister") /\ arg' = [arg EXCEPT ![t] = <<"handle", h>>]
  /\ UNCHANGED <<sdkInit, mutex, parts, net, sock, server, client, inits, gaveUp, twice>>

UnRegisterEndMutant(t) ==
  /\ At(t, "unregister")
  /\ handles' = handles \ {arg[t][2]}
  /\ UNCHANGED registered
  /\ Goto(t, "idle")
  /\ UNCHANGED <<arg, sdkInit, mutex, parts, net, sock, server, dirs, inits, gaveUp, twice>>

\* FreeHandle, unless GetHandleInfo finds the handle invalid by now.
UnRegisterEnd(t) ==
  /\ At(t, "unregister")
  /\ IF arg[t][2] \in handles
     THEN handles' = handles \ {arg[t][2]} /\ registered' = FALSE
     ELSE UNCHANGED <<handles, registered>>
  /\ Goto(t, "idle")
  /\ UNCHANGED <<arg, sdkInit, mutex, parts, net, sock, server, dirs, inits, gaveUp, twice>>

\* UpnpAddVirtualDir puts a slash before a name that has none;
\* UpnpRemoveVirtualDir compares the name as it is.
Slashed(name) == <<"/", name>>
UpnpAddVirtualDir(t, name) ==
  /\ Usual(t)
  /\ Slashed(name) \notin ToSet(dirs)
  /\ dirs' = Append(dirs, Slashed(name))
  /\ UNCHANGED <<pc, arg, sdkInit, mutex, parts, net, sock, server, handles, registered,
                 inits, gaveUp, twice>>

UpnpRemoveVirtualDir(t, name) ==
  /\ Usual(t)
  /\ \E i \in 1 .. Len(dirs) :
       /\ dirs[i] = name /\ \A j \in 1 .. i - 1 : dirs[j] # name
       /\ dirs' = RemoveAt(dirs, i)
  /\ UNCHANGED <<pc, arg, sdkInit, mutex, parts, net, sock, server, handles, registered,
                 inits, gaveUp, twice>>

----------------------------------------------------------------------------
Arguments == { <<"UpnpInit", a>> : a \in {NoAddr, "host"} }
               \cup { <<"UpnpInit2", n>> : n \in IfNames \cup {NoAddr, TooLong} }

Next ==
  \/ \E t \in Threads :
       \/ \E a \in Arguments : UpnpInit(t, a)
       \/ InitLock(t) \/ InitPreamble(t) \/ InitAddress(t)
       \/ StartMiniServer(t) \/ AddMiniServer(t) \/ WaitStarted(t) \/ StartTakesTooLong(t)
       \/ UpnpFinish(t) \/ FinishUnRegister(t) \/ StopMiniServer(t) \/ SendShutDown(t)
       \/ FinishPools(t)
       \/ UpnpRegisterClient(t) \/ UnRegisterEnd(t)
       \/ \E h \in 1 .. NumHandle - 1 : UpnpUnRegisterClient(t, h)
       \/ \E d \in DirNames : UpnpAddVirtualDir(t, d) \/ UpnpRemoveVirtualDir(t, Slashed(d))
  \/ MServStarts \/ MServStops \/ DatagramLost

Spec == Init /\ [][Next]_vars

(***************************************************************************)
(* The threads run on, a wait for the mini server's thread ends, and of    *)
(* the datagrams sent again and again to the loopback address not all are  *)
(* lost.                                                                   *)
(***************************************************************************)
Fairness ==
  /\ \A t \in Threads :
       /\ SF_vars(InitLock(t)) /\ WF_vars(StartTakesTooLong(t))
       /\ WF_vars(InitPreamble(t) \/ InitAddress(t) \/ StartMiniServer(t) \/ AddMiniServer(t)
                    \/ WaitStarted(t) \/ FinishUnRegister(t) \/ StopMiniServer(t)
                    \/ SendShutDown(t) \/ FinishPools(t) \/ UnRegisterEnd(t))
  /\ WF_vars(MServStarts) /\ SF_vars(MServStops)
FairSpec == Spec /\ Fairness

----------------------------------------------------------------------------
(***************************************************************************)
(* Properties.                                                             *)
(***************************************************************************)
InitPcs   == {"init", "preamble", "address", "start", "add", "wait"}
FinishPcs == {"fin_unreg", "fin_stop", "fin_send", "fin_pools"}

\* The variables have the values their declarations in upnpapi.c, upnpapi.h and
\* miniserver.h allow: one thread holds gSDKInitMutex, and only inside UpnpInit
\* or the UpnpFinish it calls; handle 0 and handle NUM_HANDLE are never given;
\* no virtual directory is listed twice.
TypeOK ==
  /\ pc \in [Threads -> {"idle", "unregister"} \cup InitPcs \cup FinishPcs]
  /\ sdkInit \in {0, 1} /\ mutex \in Threads \cup {Nobody}
  /\ mutex # Nobody => pc[mutex] \in (InitPcs \ {"init"}) \cup FinishPcs
  /\ parts \subseteq Parts
  /\ sock \in [SockNames -> {"none", "open", "closed"}]
  /\ gMServState \in {"IDLE", "RUNNING", "STOPPING"}
  /\ mthread \in {"none", "ready", "run", "over"}
  /\ shutDown \in BOOLEAN /\ registered \in BOOLEAN
  /\ handles \subseteq 1 .. NumHandle - 1
  /\ dirs \in Seq({ Slashed(d) : d \in DirNames }) /\ inits \in 0 .. MaxInits
  /\ \A i, j \in 1 .. Len(dirs) : dirs[i] = dirs[j] => i = j

Quiet == mutex = Nobody /\ \A t \in Threads : pc[t] \in {"idle", "init", "unregister"}

\* When UpnpInit has returned success and no UpnpFinish is under way, everything
\* it promises is up: the pools, the timer, the mini server's thread, its stop
\* socket and an open socket for every address that was found.
ServingWhenUp ==
  Quiet /\ sdkInit = 1 =>
    /\ parts = Parts
    /\ gMServState = "RUNNING" /\ mthread = "run"
    /\ \A s \in SockNames : (sock[s] = "open") <=> (s \in Wanted \cup {"stop"})

\* After UpnpFinish, and after an UpnpInit that failed once the servers were to
\* start, nothing of the session is left: no socket, thread, handle, virtual
\* directory, and no pool or timer, except those that an earlier UpnpInit left
\* when it failed in its preamble or found no address.
FinishCleansUp ==
  Quiet /\ sdkInit = 0 =>
    /\ \A s \in SockNames : sock[s] # "open"
    /\ mthread = "none" /\ gMServState = "IDLE"
    /\ handles = {} /\ ~registered /\ dirs = <<>>
    /\ parts = {} \/ "init" \in gaveUp

\* No socket of the mini server is closed twice (a second close could hit a
\* descriptor that another thread has opened meanwhile), unless StartMiniServer
\* stopped waiting for a thread that comes later.
ClosedOnce == twice \cap SockNames # {} => "start" \in gaveUp

\* However many threads call UpnpInit at once, no mutex, pool or timer that is
\* up is initialised again, unless an UpnpInit failed and left it.
InitialisedOnce == twice \cap Parts # {} => "init" \in gaveUp

\* With an interface named to UpnpInit2, the address that is announced is one of
\* that interface, which is up, multicast and not a loopback one; the interfaces
\* are those of SIOCGIFCONF, which have an IPv4 address.
RightInterface ==
  \A t \in Threads :
    mutex = t /\ At(t, "start") /\ arg[t][1] = "UpnpInit2" =>
      /\ arg[t][2] \in {NoAddr, net.name}
      /\ \E l \in InterfaceLists : \E i \in ToSet(l.ifs) :
           Usable(i) /\ net.v4 = i.addr /\ net.name = i.name /\ net.index = i.index

\* UpnpSdkClientRegistered says that one handle is taken: a client that leaves
\* while another thread unregisters too never leaves the flag without a handle,
\* or a handle without the flag.
OneClient == IF registered THEN \E h \in 1 .. NumHandle - 1 : handles = {h} ELSE handles = {}

\* A session is there or not: between calls everything of it is up or nothing
\* is, and the client's flag agrees with the handle table at any time.
SessionsRight == TypeOK /\ ServingWhenUp /\ FinishCleansUp /\ OneClient

\* What must be done once is not done twice: initialising a part, closing a
\* socket, whatever threads call UpnpInit and UpnpFinish in which order.
DoneOnce == InitialisedOnce /\ ClosedOnce

\* UpnpInit, UpnpFinish and UpnpUnRegisterClient return, whatever fails and
\* however many ShutDown datagrams are lost, unless StartMiniServer gave up a
\* thread that comes later or StopMiniServer had no socket.
CallsReturn ==
  \A t \in Threads : (pc[t] # "idle") ~> (pc[t] = "idle" \/ gaveUp \cap {"start", "stop"} # {})
=============================================================================
