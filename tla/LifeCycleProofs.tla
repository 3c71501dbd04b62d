-------------------------- MODULE LifeCycleProofs --------------------------
(***************************************************************************)
(* SessionsRight, DoneOnce and RightInterface hold for every set of        *)
(* threads, interfaces and directories.  The inductive invariant says      *)
(* which thread is inside UpnpInit or UpnpFinish, and what each of their   *)
(* steps finds.                                                            *)
(***************************************************************************)
EXTENDS LifeCycle, ListLemmas
LOCAL INSTANCE SequencesExt

Starting == {"start", "add", "wait"}

\* gSDKInitMutex lets one thread at a time behind the lock of UpnpInit.  The
\* application's UpnpFinish does not take it, and is alone.
HolderInv ==
  \A t \in Threads :
    /\ pc[t] \in InitPcs \ {"init"} => mutex = t
    /\ pc[t] \in FinishPcs =>
         \/ mutex = t
         \/ mutex = Nobody /\ \A u \in Threads \ {t} : pc[u] = "idle"
    /\ pc[t] = "unregister" =>
         /\ sdkInit = 1 /\ mutex = Nobody
         /\ \A u \in Threads : pc[u] \in {"idle", "init", "unregister"}

NoneOpen     == \A s \in SockNames : sock[s] # "open"
SocketsFresh == \A s \in SockNames : sock[s] = IF s \in Wanted \cup {"stop"} THEN "open" ELSE "none"

\* What the steps of UpnpInit and UpnpFinish find.
PhaseInv ==
  \A t \in Threads :
    /\ pc[t] \in {"preamble", "address"} => sdkInit = 0
    /\ pc[t] \in Starting \cup FinishPcs => sdkInit = 1
    /\ pc[t] = "preamble" => parts = {} \/ "init" \in gaveUp
    /\ pc[t] \in {"address"} \cup Starting => parts = Parts
    /\ pc[t] \in {"preamble", "address", "start", "add"} => mthread = "none"
    /\ pc[t] \in {"add", "wait"} => SocketsFresh
    /\ pc[t] = "wait" => gMServState # "STOPPING" /\ mthread # "over"
    /\ pc[t] \in FinishPcs \ {"fin_unreg"} => ~registered
    /\ pc[t] = "fin_send" => gMServState # "RUNNING" /\ mthread \in {"run", "over"}

\* The mini server's thread, its state and its sockets.
ServerInv ==
  /\ mthread = "run" <=> gMServState # "IDLE"
  /\ shutDown => gMServState = "STOPPING"
  /\ mthread \in {"ready", "run"} => SocketsFresh \/ ("start" \in gaveUp /\ NoneOpen)
  /\ mthread \in {"none", "over"} => NoneOpen \/ \E t \in Threads : pc[t] \in {"add", "wait"}

\* There is a client, and there are directories, only in a session that is up;
\* the client has the first handle.
ClientInv ==
  /\ handles = IF registered THEN {1} ELSE {}
  /\ mutex # Nobody \/ sdkInit = 0 => ~registered /\ dirs = <<>>

Inv == /\ TypeOK /\ HolderInv /\ PhaseInv /\ ServerInv /\ ClientInv
       /\ ServingWhenUp /\ FinishCleansUp /\ DoneOnce

(* The sockets that are wanted depend on the addresses alone. *)
LEMMA WantedSame == ASSUME net' = net PROVE Wanted' = Wanted
BY DEF Wanted, AddressOf

(* When get_ssdp_sockets fails it leaves no socket open. *)
LEMMA SsdpFailsLeavesNone ==
    ASSUME NEW n \in 1 .. Len(SsdpSockets), SsdpFails(n)
    PROVE  sock' \in [SockNames -> {"none", "open", "closed"}] /\ NoneOpen'
<1>1. n \in 1 .. 5
  BY DEF SsdpSockets
<1>2. PICK left \in LeftBy[SsdpSockets[n]] :
        sock' = SocketsUpTo(n, ClosedOn(SsdpSockets[n]), left, "closed")
  BY DEF SsdpFails
<1>3. left \in {"none", "closed"}
  BY <1>1 DEF LeftBy, SsdpSockets, CreateSsdpSockReqV4, CreateSsdpSockReqV6, CreateSsdpSockV4,
              CreateSsdpSockV6, CreateSsdpSockV6UlaGua
<1>4. \A i \in 1 .. n - 1 : SsdpSockets[i] \in ClosedOn(SsdpSockets[n])
  <2>1. CASE n = 1
    BY <2>1
  <2>2. CASE n = 2
    BY <2>2 DEF SsdpSockets, ClosedOn
  <2>3. CASE n = 3
    BY <2>3 DEF SsdpSockets, ClosedOn
  <2>4. CASE n = 4
    BY <2>4 DEF SsdpSockets, ClosedOn
  <2>5. CASE n = 5
    BY <2>5 DEF SsdpSockets, ClosedOn
  <2>6. QED
    BY <1>1, <2>1, <2>2, <2>3, <2>4, <2>5
<1>5. QED
  BY <1>2, <1>3, <1>4 DEF SocketsUpTo, NoneOpen

(* When it succeeds there is an open one for every address. *)
LEMMA SocketsMade ==
    ASSUME sock' = SocketsUpTo(Len(SsdpSockets) + 1, {}, "none", "open"), net' = net
    PROVE  sock' \in [SockNames -> {"none", "open", "closed"}] /\ SocketsFresh'
<1>1. Len(SsdpSockets) = 5 /\ Wanted \subseteq { SsdpSockets[i] : i \in 1 .. 5 }
  BY DEF SsdpSockets, Wanted
<1>2. \A s \in SockNames \ {"stop"} :
        (\E i \in 1 .. 5 : SsdpSockets[i] = s /\ s \in Wanted) <=> s \in Wanted
  BY <1>1
<1>3. "stop" \notin Wanted
  BY DEF Wanted
<1>4. \A s \in SockNames : sock'[s] = IF s \in Wanted \cup {"stop"} THEN "open" ELSE "none"
  BY <1>1, <1>2, <1>3 DEF SocketsUpTo
<1>5. QED
  BY <1>1, <1>4, WantedSame DEF SocketsUpTo, SocketsFresh

(* A call of UpnpInit changes nothing but its own place. *)
LEMMA UpnpInitKeeps ==
    ASSUME Inv, NEW t \in Threads, NEW a \in Arguments, UpnpInit(t, a)
    PROVE  Inv'
<1> USE LifeCycleAssumption
         DEF Inv, TypeOK, HolderInv, PhaseInv, ServerInv, ClientInv, ServingWhenUp,
             FinishCleansUp, DoneOnce, InitialisedOnce, ClosedOnce, Quiet, InitPcs, FinishPcs,
             Starting, Goto, At, NoneOpen, SocketsFresh, server, client, UpnpInit
<1>1. net' = net => Wanted' = Wanted
  BY WantedSame
<1>2. TypeOK'
  BY <1>1
<1>3. HolderInv'
  BY <1>1
<1>4. PhaseInv'
  BY <1>1
<1>5. ServerInv'
  BY <1>1
<1>6. ClientInv'
  BY <1>1
<1>7. ServingWhenUp'
  BY <1>1
<1>8. FinishCleansUp'
  BY <1>1
<1>9. (InitialisedOnce /\ ClosedOnce)'
  BY <1>1
<1>10. QED
  BY <1>2, <1>3, <1>4, <1>5, <1>6, <1>7, <1>8, <1>9

(* The lock of UpnpInit lets one thread in, and only when no session is up. *)
LEMMA InitLockKeeps ==
    ASSUME Inv, NEW t \in Threads, InitLock(t)
    PROVE  Inv'
<1> USE LifeCycleAssumption
         DEF Inv, TypeOK, HolderInv, PhaseInv, ServerInv, ClientInv, ServingWhenUp,
             FinishCleansUp, DoneOnce, InitialisedOnce, ClosedOnce, Quiet, InitPcs, FinishPcs,
             Starting, Goto, At, NoneOpen, SocketsFresh, server, client, InitLock
<1>1. net' = net => Wanted' = Wanted
  BY WantedSame
<1>2. TypeOK'
  BY <1>1
<1>3. HolderInv'
  BY <1>1
<1>4. PhaseInv'
  BY <1>1
<1>5. ServerInv'
  BY <1>1
<1>6. ClientInv'
  BY <1>1
<1>7. ServingWhenUp'
  BY <1>1
<1>8. FinishCleansUp'
  BY <1>1
<1>9. (InitialisedOnce /\ ClosedOnce)'
  BY <1>1
<1>10. QED
  BY <1>2, <1>3, <1>4, <1>5, <1>6, <1>7, <1>8, <1>9

(* The preamble brings every part up, or fails and is remembered. *)
LEMMA InitPreambleKeeps ==
    ASSUME Inv, NEW t \in Threads, InitPreamble(t)
    PROVE  Inv'
<1> USE LifeCycleAssumption
         DEF Inv, TypeOK, HolderInv, PhaseInv, ServerInv, ClientInv, ServingWhenUp,
             FinishCleansUp, DoneOnce, InitialisedOnce, ClosedOnce, Quiet, InitPcs, FinishPcs,
             Starting, Goto, At, NoneOpen, SocketsFresh, server, client
<1>1. net' = net => Wanted' = Wanted
  BY WantedSame
<1>2. PICK n \in 0 .. Len(PreambleSteps) :
        LET done == { PreambleSteps[i] : i \in 1 .. n }
        IN  /\ At(t, "preamble")
            /\ parts' = parts \cup done
            /\ twice' = twice \cup ((parts \cap done) \ {"log"})
            /\ handles' = IF "mutexes" \in done THEN {} ELSE handles
            /\ IF n = Len(PreambleSteps) THEN Goto(t, "address") /\ UNCHANGED <<mutex, gaveUp>>
               ELSE Goto(t, "idle") /\ mutex' = Nobody /\ gaveUp' = gaveUp \cup {"init"}
            /\ UNCHANGED <<arg, sdkInit, net, sock, server, registered, dirs, inits>>
  BY Zenon DEF InitPreamble
<1> DEFINE done == { PreambleSteps[i] : i \in 1 .. n }
<1>3. done \subseteq Parts /\ (n = Len(PreambleSteps) => done = Parts)
  BY DEF PreambleSteps, Parts
<1> HIDE DEF done
<1>4. /\ parts' \subseteq Parts /\ (n = Len(PreambleSteps) => parts' = Parts)
      /\ twice' \cap SockNames = twice \cap SockNames
      /\ twice' \cap Parts # {} => "init" \in gaveUp
      /\ handles' = {} /\ registered' = registered /\ dirs' = dirs
  BY <1>2, <1>3, ZenonT(30) DEF done, Parts, SockNames
<1>5. /\ At(t, "preamble")
      /\ IF n = Len(PreambleSteps) THEN Goto(t, "address") /\ UNCHANGED <<mutex, gaveUp>>
         ELSE Goto(t, "idle") /\ mutex' = Nobody /\ gaveUp' = gaveUp \cup {"init"}
      /\ UNCHANGED <<arg, sdkInit, net, sock, server, inits>>
  BY <1>2
<1>6. TypeOK'
  BY <1>1, <1>4, <1>5
<1>7. HolderInv'
  BY <1>1, <1>4, <1>5
<1>8. PhaseInv'
  BY <1>1, <1>4, <1>5
<1>9. ServerInv'
  BY <1>1, <1>4, <1>5
<1>10. ClientInv'
  BY <1>1, <1>4, <1>5
<1>11. ServingWhenUp'
  BY <1>1, <1>4, <1>5
<1>12. FinishCleansUp'
  BY <1>1, <1>4, <1>5
<1>13. (InitialisedOnce /\ ClosedOnce)'
  BY <1>1, <1>4, <1>5
<1>14. QED
  BY <1>6, <1>7, <1>8, <1>9, <1>10, <1>11, <1>12, <1>13

(* Addresses change while there is no socket and no thread. *)
LEMMA InitAddressKeeps ==
    ASSUME Inv, NEW t \in Threads, InitAddress(t)
    PROVE  Inv'
<1> USE LifeCycleAssumption
         DEF Inv, TypeOK, HolderInv, PhaseInv, ServerInv, ClientInv, ServingWhenUp,
             FinishCleansUp, DoneOnce, InitialisedOnce, ClosedOnce, Quiet, InitPcs, FinishPcs,
             Starting, Goto, At, NoneOpen, SocketsFresh, server, client
<1>1. /\ At(t, "address")
      /\ \/ Goto(t, "start") /\ sdkInit' = 1 /\ UNCHANGED <<mutex, gaveUp>>
         \/ /\ Goto(t, "idle") /\ mutex' = Nobody /\ gaveUp' = gaveUp \cup {"init"}
            /\ UNCHANGED sdkInit
      /\ UNCHANGED <<arg, parts, sock, server, client, inits, twice>>
  BY Zenon DEF InitAddress
<1>2. TypeOK'
  BY <1>1
<1>3. HolderInv'
  BY <1>1
<1>4. PhaseInv'
  BY <1>1
<1>5. ServerInv'
  BY <1>1
<1>6. ClientInv'
  BY <1>1
<1>7. ServingWhenUp'
  BY <1>1
<1>8. FinishCleansUp'
  BY <1>1
<1>9. (InitialisedOnce /\ ClosedOnce)'
  BY <1>1
<1>10. QED
  BY <1>2, <1>3, <1>4, <1>5, <1>6, <1>7, <1>8, <1>9

(* The sockets are all made, or none of them stays open. *)
LEMMA StartMiniServerKeeps ==
    ASSUME Inv, NEW t \in Threads, StartMiniServer(t)
    PROVE  Inv'
<1> USE LifeCycleAssumption
         DEF Inv, TypeOK, HolderInv, PhaseInv, ServerInv, ClientInv, ServingWhenUp,
             FinishCleansUp, DoneOnce, InitialisedOnce, ClosedOnce, Quiet, InitPcs, FinishPcs,
             Starting, Goto, At, NoneOpen, SocketsFresh, server, client
<1>1. net' = net => Wanted' = Wanted
  BY WantedSame
<1>2. /\ At(t, "start") /\ UNCHANGED twice
      /\ UNCHANGED <<arg, sdkInit, mutex, parts, net, server, client, inits, gaveUp>>
      /\ \/ Goto(t, "fin_unreg") /\ UNCHANGED sock
         \/ /\ Goto(t, "fin_unreg")
            /\ \E n \in 1 .. Len(SsdpSockets) : SsdpFails(n)
         \/ /\ Goto(t, "add")
            /\ sock' = SocketsUpTo(Len(SsdpSockets) + 1, {}, "none", "open")
  BY Zenon DEF StartMiniServer, StartServersFails, StopsockFails, SsdpFails
<1>3. ASSUME NEW n \in 1 .. Len(SsdpSockets), SsdpFails(n)
      PROVE  sock' \in [SockNames -> {"none", "open", "closed"}] /\ NoneOpen'
  BY <1>3, SsdpFailsLeavesNone
<1>4. ASSUME sock' = SocketsUpTo(Len(SsdpSockets) + 1, {}, "none", "open"), net' = net
      PROVE  sock' \in [SockNames -> {"none", "open", "closed"}] /\ SocketsFresh'
  BY <1>4, SocketsMade, WantedSame
<1>5. /\ sock' \in [SockNames -> {"none", "open", "closed"}]
      /\ \/ Goto(t, "fin_unreg") /\ NoneOpen'
         \/ Goto(t, "add") /\ SocketsFresh'
  BY <1>2, <1>3, <1>4
<1> HIDE DEF NoneOpen, SocketsFresh
<1>6. TypeOK'
  BY <1>1, <1>2, <1>5
<1>7. HolderInv'
  BY <1>1, <1>2, <1>5
<1>8. PhaseInv'
  BY <1>1, <1>2, <1>5
<1>9. ServerInv'
  BY <1>1, <1>2, <1>5
<1>10. ClientInv'
  BY <1>1, <1>2, <1>5
<1>11. ServingWhenUp'
  BY <1>1, <1>2, <1>5 DEF NoneOpen, SocketsFresh
<1>12. FinishCleansUp'
  BY <1>1, <1>2, <1>5 DEF NoneOpen, SocketsFresh
<1>13. (InitialisedOnce /\ ClosedOnce)'
  BY <1>1, <1>2, <1>5
<1>14. QED
  BY <1>6, <1>7, <1>8, <1>9, <1>10, <1>11, <1>12, <1>13

(* The thread is asked for when its sockets are there. *)
LEMMA AddMiniServerKeeps ==
    ASSUME Inv, NEW t \in Threads, AddMiniServer(t)
    PROVE  Inv'
<1> USE LifeCycleAssumption
         DEF Inv, TypeOK, HolderInv, PhaseInv, ServerInv, ClientInv, ServingWhenUp,
             FinishCleansUp, DoneOnce, InitialisedOnce, ClosedOnce, Quiet, InitPcs, FinishPcs,
             Starting, Goto, At, NoneOpen, SocketsFresh, server, client, AddMiniServer
<1>1. net' = net => Wanted' = Wanted
  BY WantedSame
<1>2. TypeOK'
  BY <1>1
<1>3. HolderInv'
  BY <1>1
<1>4. PhaseInv'
  BY <1>1
<1>5. ServerInv'
  BY <1>1
<1>6. ClientInv'
  BY <1>1
<1>7. ServingWhenUp'
  BY <1>1
<1>8. FinishCleansUp'
  BY <1>1
<1>9. (InitialisedOnce /\ ClosedOnce)'
  BY <1>1
<1>10. QED
  BY <1>2, <1>3, <1>4, <1>5, <1>6, <1>7, <1>8, <1>9

(* UpnpInit returns success when the mini server runs. *)
LEMMA WaitStartedKeeps ==
    ASSUME Inv, NEW t \in Threads, WaitStarted(t)
    PROVE  Inv'
<1> USE LifeCycleAssumption
         DEF Inv, TypeOK, HolderInv, PhaseInv, ServerInv, ClientInv, ServingWhenUp,
             FinishCleansUp, DoneOnce, InitialisedOnce, ClosedOnce, Quiet, InitPcs, FinishPcs,
             Starting, Goto, At, NoneOpen, SocketsFresh, server, client, WaitStarted
<1>1. net' = net => Wanted' = Wanted
  BY WantedSame
<1>2. TypeOK'
  BY <1>1
<1>3. HolderInv'
  BY <1>1
<1>4. PhaseInv'
  BY <1>1
<1>5. ServerInv'
  BY <1>1
<1>6. ClientInv'
  BY <1>1
<1>7. ServingWhenUp'
  BY <1>1
<1>8. FinishCleansUp'
  BY <1>1
<1>9. (InitialisedOnce /\ ClosedOnce)'
  BY <1>1
<1>10. QED
  BY <1>2, <1>3, <1>4, <1>5, <1>6, <1>7, <1>8, <1>9

(* Giving up closes every socket once. *)
LEMMA StartTakesTooLongKeeps ==
    ASSUME Inv, NEW t \in Threads, StartTakesTooLong(t)
    PROVE  Inv'
<1> USE LifeCycleAssumption
         DEF Inv, TypeOK, HolderInv, PhaseInv, ServerInv, ClientInv, ServingWhenUp,
             FinishCleansUp, DoneOnce, InitialisedOnce, ClosedOnce, Quiet, InitPcs, FinishPcs,
             Starting, Goto, At, NoneOpen, SocketsFresh, server, client
<1>1. net' = net => Wanted' = Wanted
  BY WantedSame
<1>2. /\ At(t, "wait") /\ gMServState # "RUNNING"
      /\ UNCHANGED <<arg, sdkInit, mutex, parts, net, server, client, inits>>
      /\ Goto(t, "fin_unreg")
      /\ gaveUp' = IF mthread = "none" THEN gaveUp ELSE gaveUp \cup {"start"}
  BY DEF StartTakesTooLong, StartServersFails
<1>3. /\ sock' \in [SockNames -> {"none", "open", "closed"}] /\ NoneOpen' /\ twice' = twice
  BY DEF StartTakesTooLong, Close
<1> HIDE DEF NoneOpen, SocketsFresh
<1>4. TypeOK'
  BY <1>1, <1>2, <1>3
<1>5. HolderInv'
  BY <1>1, <1>2, <1>3
<1>6. PhaseInv'
  BY <1>1, <1>2, <1>3
<1>7. ServerInv'
  BY <1>1, <1>2, <1>3
<1>8. ClientInv'
  BY <1>1, <1>2, <1>3
<1>9. ServingWhenUp'
  BY <1>1, <1>2, <1>3
<1>10. FinishCleansUp'
  BY <1>1, <1>2, <1>3 DEF NoneOpen
<1>11. (InitialisedOnce /\ ClosedOnce)'
  BY <1>1, <1>2, <1>3
<1>12. QED
  BY <1>4, <1>5, <1>6, <1>7, <1>8, <1>9, <1>10, <1>11

(* UpnpFinish begins alone. *)
LEMMA UpnpFinishKeeps ==
    ASSUME Inv, NEW t \in Threads, UpnpFinish(t)
    PROVE  Inv'
<1> USE LifeCycleAssumption
         DEF Inv, TypeOK, HolderInv, PhaseInv, ServerInv, ClientInv, ServingWhenUp,
             FinishCleansUp, DoneOnce, InitialisedOnce, ClosedOnce, Quiet, InitPcs, FinishPcs,
             Starting, Goto, At, NoneOpen, SocketsFresh, server, client, UpnpFinish
<1>1. net' = net => Wanted' = Wanted
  BY WantedSame
<1>2. TypeOK'
  BY <1>1
<1>3. HolderInv'
  BY <1>1
<1>4. PhaseInv'
  BY <1>1
<1>5. ServerInv'
  BY <1>1
<1>6. ClientInv'
  BY <1>1
<1>7. ServingWhenUp'
  BY <1>1
<1>8. FinishCleansUp'
  BY <1>1
<1>9. (InitialisedOnce /\ ClosedOnce)'
  BY <1>1
<1>10. QED
  BY <1>2, <1>3, <1>4, <1>5, <1>6, <1>7, <1>8, <1>9

(* GetClientHandleInfo finds the client, if there is one. *)
LEMMA FinishUnRegisterKeeps ==
    ASSUME Inv, NEW t \in Threads, FinishUnRegister(t)
    PROVE  Inv'
<1> USE LifeCycleAssumption
         DEF Inv, TypeOK, HolderInv, PhaseInv, ServerInv, ClientInv, ServingWhenUp,
             FinishCleansUp, DoneOnce, InitialisedOnce, ClosedOnce, Quiet, InitPcs, FinishPcs,
             Starting, Goto, At, NoneOpen, SocketsFresh, server, client
<1>1. net' = net => Wanted' = Wanted
  BY WantedSame
<1>2. /\ At(t, "fin_unreg") /\ Goto(t, "fin_stop") /\ parts' = parts \ {"timer"}
      /\ UNCHANGED <<arg, sdkInit, mutex, net, sock, server, dirs, inits, gaveUp, twice>>
  BY DEF FinishUnRegister
<1>3. handles' = {} /\ registered' = FALSE
  <2>1. CASE registered
    <3>1. handles = {1} /\ ClientHandle = 1
      BY <2>1 DEF ClientHandle
    <3>2. QED
      BY <2>1, <3>1 DEF FinishUnRegister
  <2>2. CASE ~registered
    <3>1. handles = {} /\ registered = FALSE
      BY <2>2
    <3>2. QED
      BY <3>1 DEF FinishUnRegister
  <2>3. QED
    BY <2>1, <2>2
<1>4. TypeOK'
  <2>1. registered' \in BOOLEAN /\ shutDown' \in BOOLEAN
    BY <1>2, <1>3
  <2>2. handles' \subseteq 1 .. NumHandle - 1 /\ parts' \subseteq Parts
    BY <1>2, <1>3
  <2>3. QED
    BY <1>2, <2>1, <2>2
<1>5. HolderInv'
  BY <1>1, <1>2, <1>3
<1>6. PhaseInv'
  BY <1>1, <1>2, <1>3
<1>7. ServerInv'
  BY <1>1, <1>2, <1>3
<1>8. ClientInv'
  BY <1>1, <1>2, <1>3
<1>9. ServingWhenUp'
  BY <1>1, <1>2, <1>3
<1>10. FinishCleansUp'
  BY <1>1, <1>2, <1>3
<1>11. (InitialisedOnce /\ ClosedOnce)'
  BY <1>1, <1>2, <1>3
<1>12. QED
  BY <1>4, <1>5, <1>6, <1>7, <1>8, <1>9, <1>10, <1>11

(* Only a server that runs is told to stop. *)
LEMMA StopMiniServerKeeps ==
    ASSUME Inv, NEW t \in Threads, StopMiniServer(t)
    PROVE  Inv'
<1> USE LifeCycleAssumption
         DEF Inv, TypeOK, HolderInv, PhaseInv, ServerInv, ClientInv, ServingWhenUp,
             FinishCleansUp, DoneOnce, InitialisedOnce, ClosedOnce, Quiet, InitPcs, FinishPcs,
             Starting, Goto, At, NoneOpen, SocketsFresh, server, client, StopMiniServer
<1>1. net' = net => Wanted' = Wanted
  BY WantedSame
<1>2. TypeOK'
  BY <1>1
<1>3. HolderInv'
  BY <1>1
<1>4. PhaseInv'
  BY <1>1
<1>5. ServerInv'
  BY <1>1
<1>6. ClientInv'
  BY <1>1
<1>7. ServingWhenUp'
  BY <1>1
<1>8. FinishCleansUp'
  BY <1>1
<1>9. (InitialisedOnce /\ ClosedOnce)'
  BY <1>1
<1>10. QED
  BY <1>2, <1>3, <1>4, <1>5, <1>6, <1>7, <1>8, <1>9

(* A datagram is sent to a server that is to stop. *)
LEMMA SendShutDownKeeps ==
    ASSUME Inv, NEW t \in Threads, SendShutDown(t)
    PROVE  Inv'
<1> USE LifeCycleAssumption
         DEF Inv, TypeOK, HolderInv, PhaseInv, ServerInv, ClientInv, ServingWhenUp,
             FinishCleansUp, DoneOnce, InitialisedOnce, ClosedOnce, Quiet, InitPcs, FinishPcs,
             Starting, Goto, At, NoneOpen, SocketsFresh, server, client, SendShutDown
<1>1. net' = net => Wanted' = Wanted
  BY WantedSame
<1>2. TypeOK'
  <2>1. shutDown' \in BOOLEAN /\ registered' \in BOOLEAN
    OBVIOUS
  <2>2. QED
    BY <2>1
<1>3. HolderInv'
  BY <1>1
<1>4. PhaseInv'
  BY <1>1
<1>5. ServerInv'
  <2>1. shutDown' => gMServState' = "STOPPING"
    <3>1. CASE gMServState = "IDLE"
      BY <3>1
    <3>2. CASE gMServState # "IDLE"
      <4>1. mthread = "run" /\ gMServState # "RUNNING"
        BY <3>2
      <4>2. QED
        BY <4>1
    <3>3. QED
      BY <3>1, <3>2
  <2>2. QED
    BY <1>1, <2>1
<1>6. ClientInv'
  BY <1>1
<1>7. ServingWhenUp'
  BY <1>1
<1>8. FinishCleansUp'
  BY <1>1
<1>9. (InitialisedOnce /\ ClosedOnce)'
  BY <1>1
<1>10. QED
  BY <1>2, <1>3, <1>4, <1>5, <1>6, <1>7, <1>8, <1>9

(* The session ends when the server's thread is gone. *)
LEMMA FinishPoolsKeeps ==
    ASSUME Inv, NEW t \in Threads, FinishPools(t)
    PROVE  Inv'
<1> USE LifeCycleAssumption
         DEF Inv, TypeOK, HolderInv, PhaseInv, ServerInv, ClientInv, ServingWhenUp,
             FinishCleansUp, DoneOnce, InitialisedOnce, ClosedOnce, Quiet, InitPcs, FinishPcs,
             Starting, Goto, At, NoneOpen, SocketsFresh, server, client, FinishPools
<1>1. net' = net => Wanted' = Wanted
  BY WantedSame
<1>2. dirs' = <<>> /\ registered' = registered /\ registered = FALSE /\ handles' = {}
  BY DEF FinishPools, UpnpRemoveAllVirtualDirs
<1>3. dirs' \in Seq({ Slashed(d) : d \in DirNames }) /\ Len(dirs') = 0
  BY <1>2
<1>4. NoneOpen /\ gMServState = "IDLE"
  BY DEF FinishPools
<1>5. TypeOK'
  BY <1>1, <1>2, <1>3, <1>4
<1>6. HolderInv'
  BY <1>1, <1>2, <1>3, <1>4
<1>7. PhaseInv'
  BY <1>1, <1>2, <1>3, <1>4
<1>8. ServerInv'
  BY <1>1, <1>2, <1>3, <1>4
<1>9. ClientInv'
  BY <1>1, <1>2, <1>3, <1>4
<1>10. ServingWhenUp'
  BY <1>1, <1>2, <1>3, <1>4
<1>11. FinishCleansUp'
  BY <1>1, <1>2, <1>3, <1>4
<1>12. (InitialisedOnce /\ ClosedOnce)'
  BY <1>1, <1>2, <1>3, <1>4
<1>13. QED
  BY <1>5, <1>6, <1>7, <1>8, <1>9, <1>10, <1>11, <1>12

(* A client gets the first handle. *)
LEMMA UpnpRegisterClientKeeps ==
    ASSUME Inv, NEW t \in Threads, UpnpRegisterClient(t)
    PROVE  Inv'
<1> USE LifeCycleAssumption
         DEF Inv, TypeOK, HolderInv, PhaseInv, ServerInv, ClientInv, ServingWhenUp,
             FinishCleansUp, DoneOnce, InitialisedOnce, ClosedOnce, Quiet, InitPcs, FinishPcs,
             Starting, Goto, At, NoneOpen, SocketsFresh, server, client
<1>1. net' = net => Wanted' = Wanted
  BY WantedSame
<1>2. /\ registered = FALSE /\ handles = {} /\ registered' = TRUE
      /\ handles' = {GetFreeHandle}
      /\ sdkInit = 1 /\ mutex = Nobody
      /\ \A u \in Threads : pc[u] \in {"idle", "init", "unregister"}
  BY DEF UpnpRegisterClient, Usual
<1>3. GetFreeHandle = 1
  BY <1>2 DEF GetFreeHandle
<1>4. handles' = {1} /\ handles' \subseteq 1 .. NumHandle - 1
  BY <1>2, <1>3
<1>5. UNCHANGED <<pc, arg, sdkInit, mutex, parts, net, sock, server, dirs, inits, gaveUp, twice>>
  BY DEF UpnpRegisterClient
<1> HIDE DEF GetFreeHandle
<1>6. TypeOK'
  BY <1>1, <1>2, <1>4, <1>5
<1>7. HolderInv'
  BY <1>1, <1>2, <1>4, <1>5
<1>8. PhaseInv'
  BY <1>1, <1>2, <1>4, <1>5
<1>9. ServerInv'
  BY <1>1, <1>2, <1>4, <1>5
<1>10. ClientInv'
  BY <1>1, <1>2, <1>4, <1>5
<1>11. ServingWhenUp'
  BY <1>1, <1>2, <1>4, <1>5
<1>12. FinishCleansUp'
  BY <1>1, <1>2, <1>4, <1>5
<1>13. (InitialisedOnce /\ ClosedOnce)'
  BY <1>1, <1>2, <1>4, <1>5
<1>14. QED
  BY <1>6, <1>7, <1>8, <1>9, <1>10, <1>11, <1>12, <1>13

(* The handle and the flag go together, or stay. *)
LEMMA UnRegisterEndKeeps ==
    ASSUME Inv, NEW t \in Threads, UnRegisterEnd(t)
    PROVE  Inv'
<1> USE LifeCycleAssumption
         DEF Inv, TypeOK, HolderInv, PhaseInv, ServerInv, ClientInv, ServingWhenUp,
             FinishCleansUp, DoneOnce, InitialisedOnce, ClosedOnce, Quiet, InitPcs, FinishPcs,
             Starting, Goto, At, NoneOpen, SocketsFresh, server, client
<1>1. net' = net => Wanted' = Wanted
  BY WantedSame
<1>2. /\ At(t, "unregister") /\ Goto(t, "idle")
      /\ UNCHANGED <<arg, sdkInit, mutex, parts, net, sock, server, dirs, inits, gaveUp, twice>>
  BY DEF UnRegisterEnd
<1>3. \/ handles' = handles /\ registered' = registered
      \/ handles' = {} /\ registered' = FALSE
  BY DEF UnRegisterEnd
<1>4. TypeOK'
  <2>1. registered' \in BOOLEAN /\ shutDown' \in BOOLEAN
    BY <1>2, <1>3
  <2>2. handles' \subseteq 1 .. NumHandle - 1 /\ parts' \subseteq Parts
    BY <1>2, <1>3
  <2>3. QED
    BY <1>2, <2>1, <2>2
<1>5. HolderInv'
  BY <1>1, <1>2, <1>3
<1>6. PhaseInv'
  BY <1>1, <1>2, <1>3
<1>7. ServerInv'
  BY <1>1, <1>2, <1>3
<1>8. ClientInv'
  <2>1. CASE handles' = handles /\ registered' = registered
    BY <1>2, <2>1
  <2>2. CASE handles' = {} /\ registered' = FALSE
    BY <1>2, <2>2
  <2>3. QED
    BY <1>3, <2>1, <2>2
<1>9. ServingWhenUp'
  BY <1>1, <1>2, <1>3
<1>10. FinishCleansUp'
  BY <1>1, <1>2, <1>3
<1>11. (InitialisedOnce /\ ClosedOnce)'
  BY <1>1, <1>2, <1>3
<1>12. QED
  BY <1>4, <1>5, <1>6, <1>7, <1>8, <1>9, <1>10, <1>11

(* Unregistering begins in a session that is up. *)
LEMMA UpnpUnRegisterClientKeeps ==
    ASSUME Inv, NEW t \in Threads, NEW h \in 1 .. NumHandle - 1, UpnpUnRegisterClient(t, h)
    PROVE  Inv'
<1> USE LifeCycleAssumption
         DEF Inv, TypeOK, HolderInv, PhaseInv, ServerInv, ClientInv, ServingWhenUp,
             FinishCleansUp, DoneOnce, InitialisedOnce, ClosedOnce, Quiet, InitPcs, FinishPcs,
             Starting, Goto, At, NoneOpen, SocketsFresh, server, client
<1>1. net' = net => Wanted' = Wanted
  BY WantedSame
<1>2. /\ pc[t] = "idle" /\ sdkInit = 1 /\ mutex = Nobody
      /\ \A u \in Threads : pc[u] \in {"idle", "init", "unregister"}
      /\ pc' = [pc EXCEPT ![t] = "unregister"]
      /\ UNCHANGED <<sdkInit, mutex, parts, net, sock, server, client, inits, gaveUp, twice>>
  BY DEF UpnpUnRegisterClient, Usual
<1>3. \A u \in Threads : pc'[u] \in {"idle", "init", "unregister"}
  BY <1>2
<1>4. TypeOK'
  BY <1>1, <1>2, <1>3
<1>5. HolderInv'
  BY <1>1, <1>2, <1>3
<1>6. PhaseInv'
  BY <1>1, <1>2, <1>3
<1>7. ServerInv'
  BY <1>1, <1>2, <1>3
<1>8. ClientInv'
  BY <1>1, <1>2, <1>3
<1>9. ServingWhenUp'
  BY <1>1, <1>2, <1>3
<1>10. FinishCleansUp'
  BY <1>1, <1>2, <1>3
<1>11. (InitialisedOnce /\ ClosedOnce)'
  BY <1>1, <1>2, <1>3
<1>12. QED
  BY <1>4, <1>5, <1>6, <1>7, <1>8, <1>9, <1>10, <1>11

(* A directory is added when it is not there. *)
LEMMA UpnpAddVirtualDirKeeps ==
    ASSUME Inv, NEW t \in Threads, NEW d \in DirNames, UpnpAddVirtualDir(t, d)
    PROVE  Inv'
<1> USE LifeCycleAssumption
         DEF Inv, TypeOK, HolderInv, PhaseInv, ServerInv, ClientInv, ServingWhenUp,
             FinishCleansUp, DoneOnce, InitialisedOnce, ClosedOnce, Quiet, InitPcs, FinishPcs,
             Starting, Goto, At, NoneOpen, SocketsFresh, server, client
<1>1. net' = net => Wanted' = Wanted
  BY WantedSame
<1>2. /\ sdkInit = 1 /\ mutex = Nobody
      /\ UNCHANGED <<pc, arg, sdkInit, mutex, parts, net, sock, server, handles, registered,
                     inits, gaveUp, twice>>
  BY DEF UpnpAddVirtualDir, Usual
<1> DEFINE D == { Slashed(e) : e \in DirNames }
<1>3. Slashed(d) \in D /\ dirs' = Append(dirs, Slashed(d)) /\ dirs \in Seq(D)
  BY DEF UpnpAddVirtualDir
<1> HIDE DEF D
<1>4. \A i \in 1 .. Len(dirs) : dirs[i] # Slashed(d)
  <2>1. Slashed(d) \notin ToSet(dirs)
    BY DEF UpnpAddVirtualDir
  <2>2. QED
    BY <1>3, <2>1, ToSetPlaces
<1>5. dirs' \in Seq(D) /\ \A i, j \in 1 .. Len(dirs') : dirs'[i] = dirs'[j] => i = j
  BY <1>3, <1>4
<1>6. TypeOK'
  BY <1>2, <1>5 DEF D
<1>7. HolderInv'
  BY <1>1, <1>2
<1>8. PhaseInv'
  BY <1>1, <1>2
<1>9. ServerInv'
  BY <1>1, <1>2
<1>10. ClientInv'
  BY <1>1, <1>2
<1>11. ServingWhenUp'
  BY <1>1, <1>2
<1>12. FinishCleansUp'
  BY <1>1, <1>2
<1>13. (InitialisedOnce /\ ClosedOnce)'
  BY <1>1, <1>2
<1>14. QED
  BY <1>6, <1>7, <1>8, <1>9, <1>10, <1>11, <1>12, <1>13

(* Removing a directory keeps the others apart. *)
LEMMA UpnpRemoveVirtualDirKeeps ==
    ASSUME Inv, NEW t \in Threads, NEW d \in DirNames, UpnpRemoveVirtualDir(t, Slashed(d))
    PROVE  Inv'
<1> USE LifeCycleAssumption
         DEF Inv, TypeOK, HolderInv, PhaseInv, ServerInv, ClientInv, ServingWhenUp,
             FinishCleansUp, DoneOnce, InitialisedOnce, ClosedOnce, Quiet, InitPcs, FinishPcs,
             Starting, Goto, At, NoneOpen, SocketsFresh, server, client
<1>1. net' = net => Wanted' = Wanted
  BY WantedSame
<1>2. /\ sdkInit = 1 /\ mutex = Nobody
      /\ UNCHANGED <<pc, arg, sdkInit, mutex, parts, net, sock, server, handles, registered,
                     inits, gaveUp, twice>>
  BY DEF UpnpRemoveVirtualDir, Usual
<1> DEFINE D == { Slashed(e) : e \in DirNames }
<1>3. dirs \in Seq(D)
  OBVIOUS
<1> HIDE DEF D
<1>4. PICK i \in 1 .. Len(dirs) : dirs' = RemoveAt(dirs, i)
  BY Zenon DEF UpnpRemoveVirtualDir
<1>5. /\ RemoveAt(dirs, i) \in Seq(D) /\ Len(RemoveAt(dirs, i)) = Len(dirs) - 1
      /\ \A k \in 1 .. Len(dirs) - 1 :
           RemoveAt(dirs, i)[k] = IF k < i THEN dirs[k] ELSE dirs[k + 1]
  BY <1>3, RemoveAtElements
<1>6. dirs' \in Seq(D) /\ \A k, m \in 1 .. Len(dirs') : dirs'[k] = dirs'[m] => k = m
  BY <1>3, <1>4, <1>5
<1>7. TypeOK'
  BY <1>2, <1>6 DEF D
<1>8. HolderInv'
  BY <1>1, <1>2
<1>9. PhaseInv'
  BY <1>1, <1>2
<1>10. ServerInv'
  BY <1>1, <1>2
<1>11. ClientInv'
  BY <1>1, <1>2
<1>12. ServingWhenUp'
  BY <1>1, <1>2
<1>13. FinishCleansUp'
  BY <1>1, <1>2
<1>14. (InitialisedOnce /\ ClosedOnce)'
  BY <1>1, <1>2
<1>15. QED
  BY <1>7, <1>8, <1>9, <1>10, <1>11, <1>12, <1>13, <1>14

(* RunMiniServer starts. *)
LEMMA MServStartsKeeps ==
    ASSUME Inv, MServStarts
    PROVE  Inv'
<1> USE LifeCycleAssumption
         DEF Inv, TypeOK, HolderInv, PhaseInv, ServerInv, ClientInv, ServingWhenUp,
             FinishCleansUp, DoneOnce, InitialisedOnce, ClosedOnce, Quiet, InitPcs, FinishPcs,
             Starting, Goto, At, NoneOpen, SocketsFresh, server, client, MServStarts
<1>1. net' = net => Wanted' = Wanted
  BY WantedSame
<1>2. TypeOK'
  BY <1>1
<1>3. HolderInv'
  BY <1>1
<1>4. PhaseInv'
  BY <1>1
<1>5. ServerInv'
  BY <1>1
<1>6. ClientInv'
  BY <1>1
<1>7. ServingWhenUp'
  BY <1>1
<1>8. FinishCleansUp'
  BY <1>1
<1>9. (InitialisedOnce /\ ClosedOnce)'
  BY <1>1
<1>10. QED
  BY <1>2, <1>3, <1>4, <1>5, <1>6, <1>7, <1>8, <1>9

(* The mini server closes its sockets when it was told to stop. *)
LEMMA MServStopsKeeps ==
    ASSUME Inv, MServStops
    PROVE  Inv'
<1> USE LifeCycleAssumption
         DEF Inv, TypeOK, HolderInv, PhaseInv, ServerInv, ClientInv, ServingWhenUp,
             FinishCleansUp, DoneOnce, InitialisedOnce, ClosedOnce, Quiet, InitPcs, FinishPcs,
             Starting, Goto, At, NoneOpen, SocketsFresh, server, client
<1>1. net' = net => Wanted' = Wanted
  BY WantedSame
<1>2. /\ mthread = "run" /\ shutDown /\ shutDown' = FALSE /\ mthread' = "over"
      /\ gMServState' = "IDLE"
      /\ UNCHANGED <<pc, arg, sdkInit, mutex, parts, net, client, inits, gaveUp>>
  BY DEF MServStops
<1>3. gMServState = "STOPPING" /\ (SocketsFresh \/ "start" \in gaveUp)
  <2>1. gMServState = "STOPPING"
    BY <1>2, Zenon
  <2>2. QED
    BY <1>2, <2>1
<1>4. /\ sock' \in [SockNames -> {"none", "open", "closed"}] /\ NoneOpen'
      /\ twice' = twice \cup { s \in SockNames : sock[s] = "closed" }
  BY DEF MServStops, Close
<1>5. (twice' = twice \/ "start" \in gaveUp) /\ twice' \cap Parts = twice \cap Parts
  <2>1. SocketsFresh => { s \in SockNames : sock[s] = "closed" } = {}
    OBVIOUS
  <2>2. SockNames \cap Parts = {}
    BY DEF SockNames, Parts
  <2>3. QED
    BY <1>3, <1>4, <2>1, <2>2
<1> HIDE DEF NoneOpen, SocketsFresh
<1>6. TypeOK'
  <2>1. registered' \in BOOLEAN /\ shutDown' \in BOOLEAN
    BY <1>2, <1>4
  <2>2. handles' \subseteq 1 .. NumHandle - 1 /\ parts' \subseteq Parts
    BY <1>2, <1>4
  <2>3. QED
    BY <1>2, <1>4, <2>1, <2>2
<1>7. HolderInv'
  BY <1>1, <1>2, <1>3, <1>4, <1>5
<1>8. PhaseInv'
  BY <1>1, <1>2, <1>3, <1>4, <1>5
<1>9. ServerInv'
  BY <1>1, <1>2, <1>3, <1>4, <1>5
<1>10. ClientInv'
  BY <1>1, <1>2, <1>3, <1>4, <1>5
<1>11. ServingWhenUp'
  BY <1>1, <1>2, <1>3, <1>4, <1>5
<1>12. FinishCleansUp'
  BY <1>1, <1>2, <1>3, <1>4, <1>5
<1>13. (InitialisedOnce /\ ClosedOnce)'
  BY <1>1, <1>2, <1>3, <1>4, <1>5
<1>14. QED
  BY <1>6, <1>7, <1>8, <1>9, <1>10, <1>11, <1>12, <1>13

(* A datagram that is lost changes nothing else. *)
LEMMA DatagramLostKeeps ==
    ASSUME Inv, DatagramLost
    PROVE  Inv'
<1> USE LifeCycleAssumption
         DEF Inv, TypeOK, HolderInv, PhaseInv, ServerInv, ClientInv, ServingWhenUp,
             FinishCleansUp, DoneOnce, InitialisedOnce, ClosedOnce, Quiet, InitPcs, FinishPcs,
             Starting, Goto, At, NoneOpen, SocketsFresh, server, client, DatagramLost
<1>1. net' = net => Wanted' = Wanted
  BY WantedSame
<1>2. TypeOK'
  <2>1. shutDown' \in BOOLEAN /\ registered' \in BOOLEAN
    OBVIOUS
  <2>2. QED
    BY <2>1
<1>3. HolderInv'
  BY <1>1
<1>4. PhaseInv'
  BY <1>1
<1>5. ServerInv'
  BY <1>1
<1>6. ClientInv'
  BY <1>1
<1>7. ServingWhenUp'
  BY <1>1
<1>8. FinishCleansUp'
  BY <1>1
<1>9. (InitialisedOnce /\ ClosedOnce)'
  BY <1>1
<1>10. QED
  BY <1>2, <1>3, <1>4, <1>5, <1>6, <1>7, <1>8, <1>9

(* Nothing happens. *)
LEMMA StutterKeeps ==
    ASSUME Inv, UNCHANGED vars
    PROVE  Inv'
<1> USE LifeCycleAssumption
         DEF Inv, TypeOK, HolderInv, PhaseInv, ServerInv, ClientInv, ServingWhenUp,
             FinishCleansUp, DoneOnce, InitialisedOnce, ClosedOnce, Quiet, InitPcs, FinishPcs,
             Starting, Goto, At, NoneOpen, SocketsFresh, server, client, vars
<1>1. net' = net => Wanted' = Wanted
  BY WantedSame
<1>2. TypeOK'
  BY <1>1
<1>3. HolderInv'
  BY <1>1
<1>4. PhaseInv'
  BY <1>1
<1>5. ServerInv'
  BY <1>1
<1>6. ClientInv'
  BY <1>1
<1>7. ServingWhenUp'
  BY <1>1
<1>8. FinishCleansUp'
  BY <1>1
<1>9. (InitialisedOnce /\ ClosedOnce)'
  BY <1>1
<1>10. QED
  BY <1>2, <1>3, <1>4, <1>5, <1>6, <1>7, <1>8, <1>9

(* The invariant holds at the start. *)
LEMMA InitInv == ASSUME Init PROVE Inv
<1> USE LifeCycleAssumption
    DEF Init, InitPcs, FinishPcs, Starting, NoneOpen, SocketsFresh
<1>1. TypeOK
  <2>1. dirs \in Seq({ Slashed(d) : d \in DirNames }) /\ Len(dirs) = 0
    OBVIOUS
  <2>2. shutDown \in BOOLEAN /\ registered \in BOOLEAN
    OBVIOUS
  <2>3. QED
    BY <2>1, <2>2 DEF TypeOK
<1>2. HolderInv /\ PhaseInv
  BY DEF HolderInv, PhaseInv
<1>3. ServerInv /\ ClientInv
  BY DEF ServerInv, ClientInv
<1>4. ServingWhenUp /\ FinishCleansUp
  BY DEF ServingWhenUp, FinishCleansUp, Quiet
<1>5. DoneOnce
  BY DEF DoneOnce, InitialisedOnce, ClosedOnce
<1>6. QED
  BY <1>1, <1>2, <1>3, <1>4, <1>5 DEF Inv

(* Every step keeps it. *)
LEMMA NextInv == ASSUME Inv, [Next]_vars PROVE Inv'
<1>1. ASSUME NEW t \in Threads, NEW a \in Arguments, UpnpInit(t, a) PROVE Inv'
  BY <1>1, UpnpInitKeeps
<1>2. ASSUME NEW t \in Threads, InitLock(t) PROVE Inv'
  BY <1>2, InitLockKeeps
<1>3. ASSUME NEW t \in Threads, InitPreamble(t) PROVE Inv'
  BY <1>3, InitPreambleKeeps
<1>4. ASSUME NEW t \in Threads, InitAddress(t) PROVE Inv'
  BY <1>4, InitAddressKeeps
<1>5. ASSUME NEW t \in Threads, StartMiniServer(t) PROVE Inv'
  BY <1>5, StartMiniServerKeeps
<1>6. ASSUME NEW t \in Threads, AddMiniServer(t) PROVE Inv'
  BY <1>6, AddMiniServerKeeps
<1>7. ASSUME NEW t \in Threads, WaitStarted(t) PROVE Inv'
  BY <1>7, WaitStartedKeeps
<1>8. ASSUME NEW t \in Threads, StartTakesTooLong(t) PROVE Inv'
  BY <1>8, StartTakesTooLongKeeps
<1>9. ASSUME NEW t \in Threads, UpnpFinish(t) PROVE Inv'
  BY <1>9, UpnpFinishKeeps
<1>10. ASSUME NEW t \in Threads, FinishUnRegister(t) PROVE Inv'
  BY <1>10, FinishUnRegisterKeeps
<1>11. ASSUME NEW t \in Threads, StopMiniServer(t) PROVE Inv'
  BY <1>11, StopMiniServerKeeps
<1>12. ASSUME NEW t \in Threads, SendShutDown(t) PROVE Inv'
  BY <1>12, SendShutDownKeeps
<1>13. ASSUME NEW t \in Threads, FinishPools(t) PROVE Inv'
  BY <1>13, FinishPoolsKeeps
<1>14. ASSUME NEW t \in Threads, UpnpRegisterClient(t) PROVE Inv'
  BY <1>14, UpnpRegisterClientKeeps
<1>15. ASSUME NEW t \in Threads, UnRegisterEnd(t) PROVE Inv'
  BY <1>15, UnRegisterEndKeeps
<1>16. ASSUME NEW t \in Threads, NEW h \in 1 .. NumHandle - 1, UpnpUnRegisterClient(t, h) PROVE Inv'
  BY <1>16, UpnpUnRegisterClientKeeps
<1>17. ASSUME NEW t \in Threads, NEW d \in DirNames, UpnpAddVirtualDir(t, d) PROVE Inv'
  BY <1>17, UpnpAddVirtualDirKeeps
<1>18. ASSUME NEW t \in Threads, NEW d \in DirNames, UpnpRemoveVirtualDir(t, Slashed(d)) PROVE Inv'
  BY <1>18, UpnpRemoveVirtualDirKeeps
<1>19. CASE MServStarts
  BY <1>19, MServStartsKeeps
<1>20. CASE MServStops
  BY <1>20, MServStopsKeeps
<1>21. CASE DatagramLost
  BY <1>21, DatagramLostKeeps
<1>22. CASE UNCHANGED vars
  BY <1>22, StutterKeeps
<1>23. QED
    BY <1>1, <1>2, <1>3, <1>4, <1>5, <1>6, <1>7, <1>8, <1>9, <1>10, <1>11, <1>12,
     <1>13, <1>14, <1>15, <1>16, <1>17, <1>18, <1>19, <1>20, <1>21, <1>22 DEF Next

(* The inductive invariant holds of every behaviour. *)
LEMMA Invariance == Spec => []Inv
BY InitInv, NextInv, PTL DEF Spec

(* registered says that one handle is taken. *)
LEMMA OneHandle == ASSUME Inv PROVE OneClient
<1>1. 1 \in 1 .. NumHandle - 1
  BY LifeCycleAssumption
<1>2. QED
  BY <1>1 DEF Inv, ClientInv, OneClient

(***************************************************************************)
(* Whatever threads call UpnpInit, UpnpFinish and the registration calls,  *)
(* and whatever of them fails: between calls everything of a session is up *)
(* or nothing is, gSDKInitMutex is held inside UpnpInit alone, and         *)
(* UpnpSdkClientRegistered agrees with the handle table.                   *)
(***************************************************************************)
THEOREM SessionsStayRight == Spec => []SessionsRight
<1>1. Inv => SessionsRight
  BY OneHandle DEF Inv, SessionsRight
<1>2. QED
  BY <1>1, Invariance, PTL

(***************************************************************************)
(* No mutex, pool or timer that is up is initialised again unless an       *)
(* UpnpInit failed and left it, and no socket of the mini server is closed *)
(* twice unless StartMiniServer stopped waiting for its thread.            *)
(***************************************************************************)
THEOREM DoneOnlyOnce == Spec => []DoneOnce
<1>1. Inv => DoneOnce
  BY DEF Inv
<1>2. QED
  BY <1>1, Invariance, PTL
----------------------------------------------------------------------------
(***************************************************************************)
(* The interface that UpnpInit2 finds.                                     *)
(***************************************************************************)
IsNet(n) == n = [name |-> n.name, index |-> n.index, v4 |-> n.v4, v6 |-> n.v6, ula |-> n.ula]

\* The address in n is that of a usable interface of ifs.
FoundIn(n, ifs) ==
  \E i \in ToSet(ifs) : Usable(i) /\ n.v4 = i.addr /\ n.name = i.name /\ n.index = i.index

\* What UpnpGetIfInfo knows while it scans the interfaces.
ScanInv(s, ifname, ifs) ==
  /\ s = [found |-> s.found, valid |-> s.valid, net |-> s.net] /\ IsNet(s.net)
  /\ ifname # NoAddr => s.found = TRUE /\ s.net.name = ifname
  /\ s.valid \in BOOLEAN /\ s.found \in BOOLEAN
  /\ s.valid => FoundIn(s.net, ifs)

(* The scan satisfies its recursive equation. *)
LEMMA ScanUnfolds ==
    ASSUME NEW s, NEW ifs, Len(ifs) \in Nat
    PROVE  Scan(s, ifs) = [n \in 0 .. Len(ifs) |->
             IF n = 0 THEN s ELSE Scanned(Scan(s, ifs)[n - 1], ifs[n])]
<1> DEFINE Eq(f, m) == f = [n \in 0 .. m |-> IF n = 0 THEN s ELSE Scanned(f[n - 1], ifs[n])]
           S == {m \in Nat : \E f : Eq(f, m)}
<1>1. 0 \in S
  <2>1. Eq([n \in 0 .. 0 |-> s], 0)
    OBVIOUS
  <2>2. QED
    BY <2>1
<1>2. ASSUME NEW m \in Nat, m \in S PROVE m + 1 \in S
  <2>1. PICK f : Eq(f, m)
    BY <1>2
  <2> DEFINE g == [n \in 0 .. m + 1 |-> IF n <= m THEN f[n] ELSE Scanned(f[m], ifs[n])]
  <2>2. \A n \in 0 .. m : g[n] = f[n]
    OBVIOUS
  <2>3. \A n \in 0 .. m + 1 : g[n] = IF n = 0 THEN s ELSE Scanned(g[n - 1], ifs[n])
    <3>1. CASE m = 0
      BY <3>1, <2>1, <2>2
    <3>2. TAKE n \in 0 .. m + 1
    <3>3. CASE n = m + 1
      BY <3>3, <2>2
    <3>4. CASE n \in 1 .. m
      <4>1. n \in 0 .. m /\ n - 1 \in 0 .. m /\ n # 0
        BY <3>4
      <4>2. f[n] = Scanned(f[n - 1], ifs[n])
        BY <4>1, <2>1
      <4>3. QED
        BY <4>1, <4>2, <2>2
    <3>5. CASE n = 0
      BY <3>5, <2>1, <2>2
    <3>6. QED
      BY <3>3, <3>4, <3>5
  <2>4. Eq(g, m + 1)
    <3> HIDE DEF g
    <3> SUFFICES g = [n \in 0 .. m + 1 |-> g[n]]
      BY <2>3
    <3> QED
      BY DEF g
  <2>5. QED
    <3> HIDE DEF Eq, g
    <3> QED
      BY <2>4
<1>3. \E f : Eq(f, Len(ifs))
  <2> HIDE DEF Eq
  <2>1. Len(ifs) \in S
    <3> HIDE DEF S
    <3> QED
      BY <1>1, <1>2, SetInduction
  <2>2. QED
    BY <2>1
<1>4. Scan(s, ifs) = CHOOSE f : Eq(f, Len(ifs))
  BY DEF Scan
<1>5. Eq(Scan(s, ifs), Len(ifs))
  <2> HIDE DEF Eq
  <2> QED
    BY <1>3, <1>4
<1>6. QED
  BY <1>5

(* The reading of if_inet6 satisfies its recursive equation. *)
LEMMA ReadUnfolds ==
    ASSUME NEW n0, NEW inet6, Len(inet6) \in Nat
    PROVE  ReadInet6(n0, inet6) = [n \in 0 .. Len(inet6) |->
             IF n = 0 THEN n0 ELSE TakeInet6(ReadInet6(n0, inet6)[n - 1], inet6[n])]
<1> DEFINE Eq(f, m) == f = [n \in 0 .. m |-> IF n = 0 THEN n0 ELSE TakeInet6(f[n - 1], inet6[n])]
           S == {m \in Nat : \E f : Eq(f, m)}
<1>1. 0 \in S
  <2>1. Eq([n \in 0 .. 0 |-> n0], 0)
    OBVIOUS
  <2>2. QED
    BY <2>1
<1>2. ASSUME NEW m \in Nat, m \in S PROVE m + 1 \in S
  <2>1. PICK f : Eq(f, m)
    BY <1>2
  <2> DEFINE g == [n \in 0 .. m + 1 |-> IF n <= m THEN f[n] ELSE TakeInet6(f[m], inet6[n])]
  <2>2. \A n \in 0 .. m : g[n] = f[n]
    OBVIOUS
  <2>3. \A n \in 0 .. m + 1 : g[n] = IF n = 0 THEN n0 ELSE TakeInet6(g[n - 1], inet6[n])
    <3>1. CASE m = 0
      BY <3>1, <2>1, <2>2
    <3>2. TAKE n \in 0 .. m + 1
    <3>3. CASE n = m + 1
      BY <3>3, <2>2
    <3>4. CASE n \in 1 .. m
      <4>1. n \in 0 .. m /\ n - 1 \in 0 .. m /\ n # 0
        BY <3>4
      <4>2. f[n] = TakeInet6(f[n - 1], inet6[n])
        BY <4>1, <2>1
      <4>3. QED
        BY <4>1, <4>2, <2>2
    <3>5. CASE n = 0
      BY <3>5, <2>1, <2>2
    <3>6. QED
      BY <3>3, <3>4, <3>5
  <2>4. Eq(g, m + 1)
    <3> HIDE DEF g
    <3> SUFFICES g = [n \in 0 .. m + 1 |-> g[n]]
      BY <2>3
    <3> QED
      BY DEF g
  <2>5. QED
    <3> HIDE DEF Eq, g
    <3> QED
      BY <2>4
<1>3. \E f : Eq(f, Len(inet6))
  <2> HIDE DEF Eq
  <2>1. Len(inet6) \in S
    <3> HIDE DEF S
    <3> QED
      BY <1>1, <1>2, SetInduction
  <2>2. QED
    BY <2>1
<1>4. ReadInet6(n0, inet6) = CHOOSE f : Eq(f, Len(inet6))
  BY DEF ReadInet6
<1>5. Eq(ReadInet6(n0, inet6), Len(inet6))
  <2> HIDE DEF Eq
  <2> QED
    BY <1>3, <1>4
<1>6. QED
  BY <1>5

(* An interface that the scan takes is one that may be used. *)
LEMMA ScannedKeeps ==
    ASSUME NEW s, NEW ifname, NEW ifs, NEW i \in ToSet(ifs), i.family = "inet",
           ScanInv(s, ifname, ifs)
    PROVE  ScanInv(Scanned(s, i), ifname, ifs)
<1>1. CASE s.valid \/ ~Usable(i)
  BY <1>1 DEF Scanned
<1>2. CASE ~s.valid /\ Usable(i)
  <2> DEFINE named == IF s.found THEN s ELSE [s EXCEPT !.found = TRUE, !.net.name = i.name]
  <2>1. /\ named = [found |-> TRUE, valid |-> FALSE, net |-> named.net] /\ IsNet(named.net)
        /\ ifname # NoAddr => named.net.name = ifname
    BY <1>2 DEF ScanInv, IsNet
  <2>2. Scanned(s, i) =
          IF named.net.name # i.name THEN named
          ELSE [named EXCEPT !.valid = TRUE,
                             !.net = [@ EXCEPT !.v4 = i.addr, !.index = i.index]]
    BY <1>2 DEF Scanned, Consider
  <2> HIDE DEF named
  <2>3. CASE named.net.name # i.name
    <3>1. Scanned(s, i) = named
      BY <2>2, <2>3
    <3>2. named.found = TRUE /\ named.valid = FALSE
      BY <2>1
    <3>3. QED
      BY <2>1, <3>1, <3>2 DEF ScanInv
  <2>4. CASE named.net.name = i.name
    <3> DEFINE net2 == [named.net EXCEPT !.v4 = i.addr, !.index = i.index]
    <3>1. Scanned(s, i) = [found |-> TRUE, valid |-> TRUE, net |-> net2]
      <4>1. Scanned(s, i) = [named EXCEPT !.valid = TRUE, !.net = net2]
        BY <2>1, <2>2, <2>4
      <4>2. PICK n1 : named = [found |-> TRUE, valid |-> FALSE, net |-> n1]
        BY <2>1
      <4> HIDE DEF net2
      <4>3. QED
        BY <4>1, <4>2
    <3>2. /\ IsNet(net2) /\ net2.v4 = i.addr /\ net2.index = i.index
          /\ net2.name = i.name
      <4> DEFINE n1 == named.net
      <4>1. IsNet(n1) /\ n1.name = i.name
        BY <2>1, <2>4
      <4>2. net2 = [n1 EXCEPT !.v4 = i.addr, !.index = i.index]
        OBVIOUS
      <4> HIDE DEF n1, net2
      <4>3. net2 = [name |-> n1.name, index |-> i.index, v4 |-> i.addr, v6 |-> n1.v6,
                    ula |-> n1.ula]
        BY <4>1, <4>2 DEF IsNet
      <4>4. QED
        BY <4>1, <4>3 DEF IsNet
    <3>3. ifname # NoAddr => net2.name = ifname
      BY <2>1, <2>4, <3>2
    <3>4. FoundIn(net2, ifs)
      BY <1>2, <3>2 DEF FoundIn
    <3> HIDE DEF net2
    <3>5. QED
      BY <3>1, <3>2, <3>3, <3>4 DEF ScanInv
  <2>5. QED
    BY <2>3, <2>4
<1>3. QED
  BY <1>1, <1>2

(* After the scan a valid address is that of a usable interface. *)
LEMMA ScanFinds ==
    ASSUME NEW s, NEW ifname, NEW ifs, Len(ifs) \in Nat, \A i \in ToSet(ifs) : i.family = "inet",
           ScanInv(s, ifname, ifs)
    PROVE  ScanInv(ScanInterfaces(s, ifs), ifname, ifs)
<1> DEFINE S == {n \in Nat : n <= Len(ifs) => ScanInv(Scan(s, ifs)[n], ifname, ifs)}
<1>1. 0 \in S
  BY ScanUnfolds
<1>2. ASSUME NEW n \in Nat, n \in S PROVE n + 1 \in S
  <2> SUFFICES ASSUME n + 1 <= Len(ifs) PROVE ScanInv(Scan(s, ifs)[n + 1], ifname, ifs)
    OBVIOUS
  <2>1. Scan(s, ifs)[n + 1] = Scanned(Scan(s, ifs)[n], ifs[n + 1])
    BY ScanUnfolds
  <2>2. ifs[n + 1] \in ToSet(ifs)
    BY DEF ToSet
  <2>3. QED
    BY <1>2, <2>1, <2>2, ScannedKeeps
<1>3. Len(ifs) \in S
  <2> HIDE DEF S
  <2> QED
    BY <1>1, <1>2, SetInduction
<1>4. QED
  BY <1>3 DEF ScanInterfaces

(* The lines of if_inet6 change the IPv6 addresses alone. *)
LEMMA ReadKeeps ==
    ASSUME NEW n0, NEW inet6, Len(inet6) \in Nat, IsNet(n0)
    PROVE  LET n == ReadInet6(n0, inet6)[Len(inet6)]
           IN  IsNet(n) /\ n.name = n0.name /\ n.index = n0.index /\ n.v4 = n0.v4
<1> DEFINE Same(n) == IsNet(n) /\ n.name = n0.name /\ n.index = n0.index /\ n.v4 = n0.v4
           S == {k \in Nat : k <= Len(inet6) => Same(ReadInet6(n0, inet6)[k])}
<1>1. 0 \in S
  BY ReadUnfolds
<1>2. ASSUME NEW k \in Nat, k \in S PROVE k + 1 \in S
  <2> SUFFICES ASSUME k + 1 <= Len(inet6) PROVE Same(ReadInet6(n0, inet6)[k + 1])
    OBVIOUS
  <2>1. ReadInet6(n0, inet6)[k + 1] = TakeInet6(ReadInet6(n0, inet6)[k], inet6[k + 1])
    BY ReadUnfolds
  <2>2. ASSUME NEW n, NEW l, Same(n) PROVE Same(TakeInet6(n, l))
    <3>1. TakeInet6(n, l) \in {n, [n EXCEPT !.ula = l.addr], [n EXCEPT !.v6 = l.addr]}
      BY DEF TakeInet6
    <3>2. QED
      BY <2>2, <3>1 DEF IsNet
  <2>3. QED
    BY <1>2, <2>1, <2>2
<1>3. Len(inet6) \in S
  <2> HIDE DEF S
  <2> QED
    BY <1>1, <1>2, SetInduction
<1>4. QED
  BY <1>3

(* UpnpGetIfInfo succeeds with the interface that was asked for. *)
LEMMA GetIfInfoFinds ==
    ASSUME NEW ifname, NEW l \in InterfaceLists, NEW n0, IsNet(n0)
    PROVE  LET r == UpnpGetIfInfo(ifname, l.ifs, l.inet6, n0)
           IN  /\ IsNet(r.net)
               /\ r.ret = "SUCCESS" => ifname \in {NoAddr, r.net.name} /\ FoundIn(r.net, l.ifs)
<1> DEFINE asked == ifname # NoAddr
           start == [found |-> asked, valid |-> FALSE,
                     net   |-> IF asked THEN [n0 EXCEPT !.name = ifname] ELSE n0]
           s     == ScanInterfaces(start, l.ifs)
           read  == ReadInet6(s.net, l.inet6)[Len(l.inet6)]
           r     == UpnpGetIfInfo(ifname, l.ifs, l.inet6, n0)
<1>1. ScanInv(start, ifname, l.ifs)
  BY DEF ScanInv, IsNet
<1>2. r = IF ifname = TooLong THEN [ret |-> "INVALID_INTERFACE", net |-> n0]
          ELSE IF ~s.found \/ ~s.valid THEN [ret |-> "INVALID_INTERFACE", net |-> s.net]
          ELSE [ret |-> "SUCCESS", net |-> read]
  BY DEF UpnpGetIfInfo
<1> HIDE DEF start
<1>3. ScanInv(s, ifname, l.ifs)
  BY <1>1, ScanFinds, InterfacesAssumption
<1> HIDE DEF s
<1>4. IsNet(read) /\ read.name = s.net.name /\ read.index = s.net.index /\ read.v4 = s.net.v4
  BY <1>3, ReadKeeps, InterfacesAssumption DEF ScanInv
<1>5. s.valid => FoundIn(read, l.ifs)
  BY <1>3, <1>4 DEF ScanInv, FoundIn
<1>6. s.valid => ifname \in {NoAddr, read.name}
  BY <1>3, <1>4 DEF ScanInv
<1> HIDE DEF read, r
<1>7. IsNet(r.net)
  BY <1>2, <1>3, <1>4 DEF ScanInv
<1>8. r.ret = "SUCCESS" => ifname \in {NoAddr, r.net.name} /\ FoundIn(r.net, l.ifs)
  BY <1>2, <1>5, <1>6
<1>9. QED
  BY <1>7, <1>8 DEF r
\* net is the record that the gIF_* variables are, and with an interface named
\* it is the one of a usable interface when the mini server is to start.
InterfaceInv ==
  /\ IsNet(net)
  /\ \A t \in Threads : At(t, "start") /\ arg[t][1] = "UpnpInit2" =>
       /\ arg[t][2] \in {NoAddr, net.name}
       /\ \E l \in InterfaceLists : FoundIn(net, l.ifs)

(* No other step than InitAddress changes what was found. *)
LEMMA OthersKeepNet ==
    ASSUME Inv, [Next]_vars, \A t \in Threads : ~InitAddress(t)
    PROVE  net' = net /\ \A u \in Threads : pc'[u] = "start" => pc[u] = "start" /\ arg'[u] = arg[u]
<1> USE DEF Inv, TypeOK, Goto, At
<1>1. ASSUME NEW t \in Threads, NEW a \in Arguments, UpnpInit(t, a)
      PROVE  net' = net /\ \A u \in Threads : pc'[u] = "start" => pc[u] = "start" /\ arg'[u] = arg[u]
  <2>1. net' = net /\ pc' = [pc EXCEPT ![t] = "init"] /\ arg' = [arg EXCEPT ![t] = a]
    BY <1>1 DEF UpnpInit
  <2>2. \A u \in Threads \ {t} : arg'[u] = arg[u]
    BY <2>1
  <2>3. \A u \in Threads : pc'[u] = "start" => u # t /\ pc[u] = "start"
    BY <2>1
  <2>4. QED
    BY <2>1, <2>2, <2>3
<1>2. ASSUME NEW t \in Threads,
             InitLock(t) \/ InitPreamble(t) \/ StartMiniServer(t) \/ AddMiniServer(t)
               \/ WaitStarted(t) \/ StartTakesTooLong(t) \/ UpnpFinish(t) \/ FinishUnRegister(t)
               \/ StopMiniServer(t) \/ SendShutDown(t) \/ FinishPools(t)
               \/ UpnpRegisterClient(t) \/ UnRegisterEnd(t)
      PROVE  /\ net' = net /\ arg' = arg
             /\ \/ pc' = pc
                \/ \E p \in {"idle", "preamble", "address", "fin_unreg", "fin_stop", "fin_send",
                             "fin_pools", "add", "wait"} : pc' = [pc EXCEPT ![t] = p]
  <2>1. CASE InitLock(t)
    BY <2>1 DEF InitLock
  <2>2. CASE InitPreamble(t)
    BY <2>2, Zenon DEF InitPreamble
  <2>3. CASE StartMiniServer(t)
    BY <2>3 DEF StartMiniServer, StartServersFails
  <2>4. CASE AddMiniServer(t)
    BY <2>4 DEF AddMiniServer
  <2>5. CASE WaitStarted(t)
    BY <2>5 DEF WaitStarted
  <2>6. CASE StartTakesTooLong(t)
    BY <2>6 DEF StartTakesTooLong, StartServersFails
  <2>7. CASE UpnpFinish(t)
    BY <2>7 DEF UpnpFinish
  <2>8. CASE FinishUnRegister(t)
    BY <2>8 DEF FinishUnRegister
  <2>9. CASE StopMiniServer(t)
    BY <2>9 DEF StopMiniServer
  <2>10. CASE SendShutDown(t)
    BY <2>10 DEF SendShutDown
  <2>11. CASE FinishPools(t)
    BY <2>11 DEF FinishPools
  <2>12. CASE UpnpRegisterClient(t)
    BY <2>12 DEF UpnpRegisterClient
  <2>13. CASE UnRegisterEnd(t)
    BY <2>13 DEF UnRegisterEnd
  <2>14. QED
    BY <1>2, <2>1, <2>2, <2>3, <2>4, <2>5, <2>6, <2>7, <2>8, <2>9, <2>10, <2>11, <2>12, <2>13
<1>3. ASSUME NEW t \in Threads, NEW h \in 1 .. NumHandle - 1, UpnpUnRegisterClient(t, h)
      PROVE  net' = net /\ \A u \in Threads : pc'[u] = "start" => pc[u] = "start" /\ arg'[u] = arg[u]
  <2>1. /\ net' = net /\ pc' = [pc EXCEPT ![t] = "unregister"]
        /\ arg' = [arg EXCEPT ![t] = <<"handle", h>>]
    BY <1>3 DEF UpnpUnRegisterClient
  <2>2. \A u \in Threads \ {t} : arg'[u] = arg[u]
    BY <2>1
  <2>3. \A u \in Threads : pc'[u] = "start" => u # t /\ pc[u] = "start"
    BY <2>1
  <2>4. QED
    BY <2>1, <2>2, <2>3
<1>4. ASSUME NEW t \in Threads, NEW d \in DirNames,
             UpnpAddVirtualDir(t, d) \/ UpnpRemoveVirtualDir(t, Slashed(d))
      PROVE  net' = net /\ arg' = arg /\ pc' = pc
  BY <1>4 DEF UpnpAddVirtualDir, UpnpRemoveVirtualDir
<1>5. ASSUME MServStarts \/ MServStops \/ DatagramLost
      PROVE  net' = net /\ arg' = arg /\ pc' = pc
  BY <1>5 DEF MServStarts, MServStops, DatagramLost
<1>6. ASSUME UNCHANGED vars PROVE net' = net /\ arg' = arg /\ pc' = pc
  BY <1>6 DEF vars
<1>7. QED
  BY <1>1, <1>2, <1>3, <1>4, <1>5, <1>6 DEF Next

(* InitAddress goes on to the mini server only with the right interface. *)
LEMMA InitAddressFinds ==
    ASSUME Inv, InterfaceInv, NEW t \in Threads, InitAddress(t)
    PROVE  InterfaceInv'
<1>1. PICK l \in InterfaceLists, sockets \in BOOLEAN :
        LET a == Addresses(arg[t], l)
            works == a.ret = "SUCCESS" /\ (sockets \/ (arg[t][1] = "UpnpInit" /\ arg[t][2] # NoAddr))
        IN  /\ At(t, "address")
            /\ net' = IF sockets THEN a.net
                      ELSE IF arg[t][1] = "UpnpInit" THEN [net EXCEPT !.v4 = arg[t][2]]
                      ELSE IF arg[t][2] \in {NoAddr, TooLong} THEN net
                      ELSE [net EXCEPT !.name = arg[t][2]]
            /\ IF works THEN Goto(t, "start") /\ sdkInit' = 1 /\ UNCHANGED <<mutex, gaveUp>>
               ELSE /\ Goto(t, "idle") /\ mutex' = Nobody /\ gaveUp' = gaveUp \cup {"init"}
                    /\ UNCHANGED sdkInit
            /\ arg' = arg
  BY Zenon DEF InitAddress
<1> DEFINE a == Addresses(arg[t], l)
<1>2. IsNet(a.net)
  <2>1. CASE arg[t][1] = "UpnpInit2"
    BY <2>1, GetIfInfoFinds DEF Addresses, InterfaceInv
  <2>2. CASE arg[t][1] # "UpnpInit2"
    BY <2>2 DEF Addresses, InterfaceInv, IsNet
  <2>3. QED
    BY <2>1, <2>2
<1>3. arg[t][1] = "UpnpInit2" /\ a.ret = "SUCCESS" =>
        arg[t][2] \in {NoAddr, a.net.name} /\ FoundIn(a.net, l.ifs)
  BY GetIfInfoFinds DEF Addresses, InterfaceInv
<1> HIDE DEF a
<1>4. IsNet(net')
  <2>1. \A x : IsNet([net EXCEPT !.v4 = x]) /\ IsNet([net EXCEPT !.name = x])
    BY DEF InterfaceInv, IsNet
  <2>2. QED
    BY <1>1, <1>2, <2>1 DEF InterfaceInv, a
<1>5. \A u \in Threads : pc'[u] = "start" => u = t
  <2>1. \A u \in Threads \ {t} : pc'[u] = pc[u]
    BY <1>1 DEF Goto, Inv, TypeOK
  <2>2. \A u \in Threads \ {t} : pc[u] # "start"
    BY <1>1 DEF At, Inv, HolderInv, InitPcs
  <2>3. QED
    BY <2>1, <2>2
<1>6. pc'[t] = "start" /\ arg[t][1] = "UpnpInit2" => a.ret = "SUCCESS" /\ net' = a.net
  <2>1. Goto(t, "idle") => pc'[t] # "start"
    BY DEF Goto, Inv, TypeOK
  <2>2. QED
    BY <1>1, <2>1 DEF a
<1>7. QED
  <2>1. ASSUME NEW u \in Threads, pc'[u] = "start", arg[u][1] = "UpnpInit2"
        PROVE  arg[u][2] \in {NoAddr, net'.name} /\ \E k \in InterfaceLists : FoundIn(net', k.ifs)
    BY <1>3, <1>5, <1>6, <2>1
  <2>2. arg' = arg
    BY <1>1
  <2>3. QED
    BY <1>4, <2>1, <2>2 DEF InterfaceInv, At

(* What was found stays, until the next InitAddress. *)
LEMMA InterfaceStep == ASSUME Inv, InterfaceInv, [Next]_vars PROVE InterfaceInv'
<1>1. CASE \E t \in Threads : InitAddress(t)
  BY <1>1, InitAddressFinds
<1>2. CASE \A t \in Threads : ~InitAddress(t)
  BY <1>2, OthersKeepNet DEF InterfaceInv, At
<1>3. QED
  BY <1>1, <1>2

(***************************************************************************)
(* Whatever interfaces the system reports, in whatever order and in        *)
(* whatever state, the address with which UpnpInit2 starts the mini server *)
(* is that of the interface it was asked for, or of one it chose itself,   *)
(* which is up, multicast and not a loopback one.                          *)
(***************************************************************************)
THEOREM InterfaceIsRight == Spec => []RightInterface
<1>1. Init => InterfaceInv
  BY DEF Init, InterfaceInv, IsNet, NoNet, At
<1>2. InterfaceInv => RightInterface
  BY DEF InterfaceInv, RightInterface, FoundIn
<1>3. QED
  BY <1>1, <1>2, InterfaceStep, Invariance, PTL DEF Spec
=============================================================================
