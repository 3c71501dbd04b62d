----------------------------- MODULE SsdpProofs -----------------------------
(***************************************************************************)
(* Proofs about Ssdp, for any threads, searches, targets and datagrams.    *)
(***************************************************************************)
EXTENDS Ssdp, ListLemmas

LOCAL INSTANCE SequencesExt   \* ToSet, RemoveAt

(***************************************************************************)
(* The inductive invariant.                                                *)
(***************************************************************************)
(* What a thread works on is what its position needs. *)
ItemInv ==
    \A t \in Threads :
        /\ pc[t] \in {"search", "send", "timeout"} => item[t] \in used
        /\ pc[t] = "reply" => item[t] \in Datagrams /\ callback[t] # 0

(* The list is the present client's, and only a client has one. *)
ListInv ==
    /\ client = 0 => searchList = <<>>
    /\ Listed \subseteq used /\ \A s \in Listed : owner[s] = client

(* A search that a thread is about to add to the list, or to report, is    *)
(* neither listed nor reported, and no other thread is about to do either; *)
(* no search is listed that was reported.                                  *)
Busy(t) == pc[t] \in {"search", "timeout"}
BusyInv ==
    /\ told \subseteq used /\ \A s \in Listed : s \notin told
    /\ \A t \in Threads : Busy(t) =>
         /\ item[t] \notin Listed /\ item[t] \notin told
         /\ \A u \in Threads : Busy(u) /\ item[u] = item[t] => u = t
    /\ \A t \in Threads : pc[t] = "timeout" => callback[t] = owner[item[t]]

Inv == TypeOK /\ SearchIsTimed /\ ItemInv /\ ListInv /\ BusyInv

-----------------------------------------------------------------------------
(* What deleting a node of the list does. *)
LEMMA UnlinkRight ==
    ASSUME TypeOK, SearchIsTimed, NEW s, Unlink(s)
    PROVE  /\ searchList' \in Seq(Searches) /\ Listed' = Listed \ {s}
           /\ \A i, k \in 1 .. Len(searchList') : searchList'[i] = searchList'[k] => i = k
<1>1. searchList \in Seq(Searches) /\ Distinct(searchList)
  BY DEF TypeOK, SearchIsTimed, Distinct
<1>2. PICK i \in 1 .. Len(searchList) : searchList[i] = s /\ searchList' = RemoveAt(searchList, i)
  BY DEF Unlink
<1>3. searchList' \in Seq(Searches)
  BY <1>1, <1>2, RemoveAtElements
<1>4. ToSet(RemoveAt(searchList, i)) = ToSet(searchList) \ {searchList[i]}
      /\ Distinct(RemoveAt(searchList, i))
  BY <1>1, RemoveAtMembers
<1>5. QED
  BY <1>2, <1>3, <1>4 DEF Listed, Distinct

(* What ListAddTail of a search that is not listed does. *)
LEMMA AppendRight ==
    ASSUME TypeOK, SearchIsTimed, NEW s \in Searches, s \notin Listed
    PROVE  /\ Append(searchList, s) \in Seq(Searches)
           /\ ToSet(Append(searchList, s)) = Listed \cup {s}
           /\ \A i, k \in 1 .. Len(Append(searchList, s)) :
                Append(searchList, s)[i] = Append(searchList, s)[k] => i = k
<1> DEFINE n == Append(searchList, s)
<1>1. searchList \in Seq(Searches) /\ Len(searchList) \in Nat
  BY DEF TypeOK
<1>2. /\ n \in Seq(Searches) /\ Len(n) = Len(searchList) + 1 /\ n[Len(searchList) + 1] = s
      /\ \A k \in 1 .. Len(searchList) : n[k] = searchList[k]
  BY <1>1
<1> HIDE DEF n
<1>3. \A x : x \in ToSet(n) <=> \E k \in 1 .. Len(n) : x = n[k]
  BY <1>2, ToSetPlaces
<1>4. \A x : x \in ToSet(searchList) <=> \E k \in 1 .. Len(searchList) : x = searchList[k]
  BY <1>1, ToSetPlaces
<1>5. \A k \in 1 .. Len(n) : k \in 1 .. Len(searchList) \/ k = Len(searchList) + 1
  BY <1>1, <1>2
<1>6. \A k \in 1 .. Len(searchList) + 1 : k \in 1 .. Len(n)
  BY <1>2
<1>7. Len(searchList) + 1 \in 1 .. Len(n) /\ \A k \in 1 .. Len(searchList) : k \in 1 .. Len(n)
  BY <1>1, <1>2
<1>8. ToSet(n) = Listed \cup {s}
  <2>1. ASSUME NEW x \in ToSet(n) PROVE x \in Listed \cup {s}
    BY <1>2, <1>3, <1>4, <1>5 DEF Listed
  <2>2. ASSUME NEW x \in Listed \cup {s} PROVE x \in ToSet(n)
    BY <1>2, <1>3, <1>4, <1>7 DEF Listed
  <2>3. QED
    BY <2>1, <2>2
<1>9. ASSUME NEW i \in 1 .. Len(n), NEW k \in 1 .. Len(n), n[i] = n[k] PROVE i = k
  <2>1. \A m \in 1 .. Len(searchList) : searchList[m] # s
    BY <1>4 DEF Listed
  <2>2. QED
    BY <1>2, <1>5, <1>9, <2>1 DEF SearchIsTimed
<1>10. QED
  BY <1>2, <1>8, <1>9 DEF n

(* What is there at first satisfies the invariant. *)
LEMMA InitInv == Init => Inv
<1> SUFFICES ASSUME Init PROVE Inv
  OBVIOUS
<1>1. TypeOK
  <2>1. reqSocket \in BOOLEAN
    BY DEF Init
  <2>2. QED
    BY <2>1, SsdpAssumption DEF Init, TypeOK
<1>2. Listed = {}
  BY DEF Init, Listed, ToSet
<1>3. SearchIsTimed
  BY <1>2 DEF Init, SearchIsTimed
<1>4. ItemInv /\ ListInv /\ BusyInv
  BY <1>2 DEF Init, ItemInv, ListInv, BusyInv, Busy
<1>5. QED
  BY <1>1, <1>3, <1>4 DEF Inv

(* What Goto keeps. *)
ThreadTypes ==
    /\ pc \in [Threads -> {"idle", "unregister", "search", "send", "timeout",
                           "advertisement", "reply"}]
    /\ item \in [Threads -> Searches \cup Datagrams \cup {Nothing}]
    /\ callback \in [Threads -> 0..registrations]

(* A thread goes to a new position. *)
LEMMA GotoType ==
    ASSUME TypeOK, NEW t \in Threads, NEW x \in Searches \cup Datagrams \cup {Nothing},
           NEW where \in {"idle", "unregister", "search", "send", "timeout",
                          "advertisement", "reply"},
           NEW f \in 0 .. registrations, Goto(t, where, x, f), registrations' = registrations
    PROVE  ThreadTypes'
BY DEF TypeOK, Goto, ThreadTypes

(* Every step keeps the types. *)
LEMMA TypeStep ==
    ASSUME Inv, Next
    PROVE  TypeOK'
<1> USE SsdpAssumption DEF Inv, TypeOK, listVars, timerVars, netVars, threadVars
<1>1. ASSUME NEW t \in Threads, UpnpRegisterClient(t) PROVE TypeOK'
  <2>1. \A x \in 0 .. registrations : x \in 0 .. registrations'
    BY <1>1 DEF UpnpRegisterClient
  <2>2. \A x \in 1 .. registrations : x \in 1 .. registrations'
    BY <1>1 DEF UpnpRegisterClient
  <2>3. owner' \in [Searches -> 0 .. registrations'] /\ callback' \in [Threads -> 0 .. registrations']
    BY <1>1, <2>1 DEF UpnpRegisterClient
  <2>4. results' \subseteq [search : Searches, callback : 1 .. registrations']
    BY <1>1, <2>2 DEF UpnpRegisterClient
  <2>5. QED
    BY <1>1, <2>3, <2>4 DEF UpnpRegisterClient
<1>2. ASSUME NEW t \in Threads, UpnpUnRegisterClient(t) PROVE TypeOK'
  BY <1>2 DEF UpnpUnRegisterClient, Goto
<1>3. ASSUME NEW t \in Threads, UnRegisterEnd(t) PROVE TypeOK'
  BY <1>3 DEF UnRegisterEnd, Done, Goto
<1>4. ASSUME NEW t \in Threads, NEW s \in Searches, UpnpSearchAsync(t, s) PROVE TypeOK'
  <2>1. ThreadTypes'
    BY <1>4, GotoType DEF UpnpSearchAsync, ThreadTypes
  <2>2. QED
    BY <1>4, <2>1 DEF UpnpSearchAsync, ThreadTypes
<1>5. ASSUME NEW t \in Threads, NEW ok \in BOOLEAN, SearchAdd(t, ok) PROVE TypeOK'
  <2>1. item[t] \in Searches /\ item[t] \notin Listed
    BY <1>5 DEF SearchAdd, ItemInv, BusyInv, Busy
  <2>2. searchList' \in Seq(Searches)
    BY <1>5, <2>1, AppendRight DEF SearchAdd
  <2>3. QED
    BY <1>5, <2>1, <2>2 DEF SearchAdd, Goto
<1>6. ASSUME NEW t \in Threads, SearchTooLate(t) PROVE TypeOK'
  BY <1>6 DEF SearchTooLate, Done, Goto
<1>7. ASSUME NEW t \in Threads, NEW ok \in BOOLEAN, SearchSend(t, ok) PROVE TypeOK'
  <2>1. reqSocket' \in BOOLEAN
    BY <1>7, Zenon DEF SearchSend
  <2>2. QED
    BY <1>7, <2>1 DEF SearchSend, Done, Goto
<1>8. ASSUME NEW s \in Searches, NEW ok \in BOOLEAN, SearchTimeOut(s, ok) PROVE TypeOK'
  BY <1>8 DEF SearchTimeOut
<1>9. ASSUME NEW t \in Threads, NEW s \in Searches, SearchExpired(t, s) PROVE TypeOK'
  <2>1. searchList' \in Seq(Searches)
    BY <1>9, UnlinkRight DEF SearchExpired
  <2>2. ThreadTypes'
    <3>1. client \in 0 .. registrations /\ "timeout" \in {"idle", "unregister", "search", "send",
                 "timeout", "advertisement", "reply"} /\ s \in Searches \cup Datagrams \cup {Nothing}
      OBVIOUS
    <3>2. CASE Goto(t, "timeout", s, client)
      BY <1>9, <3>1, <3>2, GotoType DEF SearchExpired
    <3>3. CASE UNCHANGED threadVars
      BY <1>9, <3>3 DEF SearchExpired, ThreadTypes
    <3>4. QED
      BY <1>9, <3>2, <3>3 DEF SearchExpired
  <2>3. QED
    BY <1>9, <2>1, <2>2 DEF SearchExpired, ThreadTypes
<1>10. ASSUME NEW t \in Threads, TimeoutCallback(t) PROVE TypeOK'
  BY <1>10 DEF TimeoutCallback, Done, Goto, ItemInv
<1>11. ASSUME NEW d \in Datagrams, ReadFromSSDPSocket(d) PROVE TypeOK'
  BY <1>11 DEF ReadFromSSDPSocket
<1>12. ASSUME NEW t \in Threads, NEW d \in Datagrams, HandleDatagram(t, d) PROVE TypeOK'
  <2>1. ThreadTypes'
    <3>1. client \in 0 .. registrations
      OBVIOUS
    <3>2. CASE Goto(t, "advertisement", Nothing, client) \/ Goto(t, "reply", d, client)
      BY <1>12, <3>1, <3>2, GotoType DEF HandleDatagram
    <3>3. CASE UNCHANGED threadVars
      BY <1>12, <3>3 DEF HandleDatagram, ThreadTypes
    <3>4. QED
      BY <1>12, <3>2, <3>3 DEF HandleDatagram
  <2>2. QED
    BY <1>12, <2>1 DEF HandleDatagram, ThreadTypes
<1>13. ASSUME NEW t \in Threads, MatchReply(t) PROVE TypeOK'
  <2>1. callback[t] \in 1 .. registrations
    BY <1>13 DEF MatchReply, ItemInv
  <2>2. Listed \subseteq Searches
    BY DEF ListInv
  <2>3. PICK taken \in SUBSET Listed :
          results' = results \cup [search : taken, callback : {callback[t]}]
    BY <1>13 DEF MatchReply
  <2>4. results' \subseteq [search : Searches, callback : 1 .. registrations]
    BY <2>1, <2>2, <2>3
  <2>5. QED
    BY <1>13, <2>4 DEF MatchReply, Done, Goto
<1>14. ASSUME NEW t \in Threads, AdvertisementCallback(t) PROVE TypeOK'
  BY <1>14 DEF AdvertisementCallback, Done, Goto
<1>15. ASSUME NEW r \in results, ResultCallback(r) PROVE TypeOK'
  BY <1>15 DEF ResultCallback
<1> HIDE DEF Inv, TypeOK, listVars, timerVars, netVars, threadVars
<1>16. QED
  BY <1>1, <1>2, <1>3, <1>4, <1>5, <1>6, <1>7, <1>8, <1>9, <1>10, <1>11, <1>12, <1>13, <1>14, <1>15
     DEF Next, ThreadStep

(* The ways a step can change the list, besides emptying it with the       *)
(* registration of the client: SearchByTarget and searchExpired.           *)
Added(t) == \E ok \in BOOLEAN : SearchAdd(t, ok)
Expired(t, s) == SearchExpired(t, s) /\ client # 0 /\ s \in Listed

(* The list after each of these. *)
LEMMA ListSteps ==
    ASSUME Inv
    PROVE  /\ UNCHANGED searchList => Listed' = Listed
           /\ searchList' = <<>> => Listed' = {}
           /\ \A t \in Threads : Added(t) =>
                /\ Listed' = Listed \cup {item[t]} /\ item[t] \in Searches
                /\ \A i, k \in 1 .. Len(searchList') : searchList'[i] = searchList'[k] => i = k
           /\ \A t \in Threads, s \in Searches : Expired(t, s) =>
                /\ Listed' = Listed \ {s}
                /\ \A i, k \in 1 .. Len(searchList') : searchList'[i] = searchList'[k] => i = k
<1>1. UNCHANGED searchList => Listed' = Listed
  BY DEF Listed
<1>2. searchList' = <<>> => Listed' = {}
  BY DEF Listed, ToSet
<1>3. ASSUME NEW t \in Threads, Added(t)
      PROVE  /\ Listed' = Listed \cup {item[t]} /\ item[t] \in Searches
             /\ \A i, k \in 1 .. Len(searchList') : searchList'[i] = searchList'[k] => i = k
  <2>1. pc[t] = "search" /\ searchList' = Append(searchList, item[t])
    BY <1>3 DEF Added, SearchAdd
  <2>2. item[t] \in Searches /\ item[t] \notin Listed /\ TypeOK /\ SearchIsTimed
    BY <2>1 DEF Inv, TypeOK, ItemInv, BusyInv, Busy
  <2>3. QED
    BY <2>1, <2>2, AppendRight DEF Listed
<1>4. ASSUME NEW t \in Threads, NEW s \in Searches, Expired(t, s)
      PROVE  /\ Listed' = Listed \ {s}
             /\ \A i, k \in 1 .. Len(searchList') : searchList'[i] = searchList'[k] => i = k
  BY <1>4, UnlinkRight DEF Inv, Expired, SearchExpired
<1>5. QED
  BY <1>1, <1>2, <1>3, <1>4

(* Every step keeps every listed search timed, and listed once. *)
LEMMA TimedStep ==
    ASSUME Inv, Next
    PROVE  SearchIsTimed'
<1> USE DEF Inv, listVars, timerVars, netVars, threadVars
<1>1. ASSUME UNCHANGED searchList,
             timeoutEvents \cup expiries \cup untimed
               \subseteq timeoutEvents' \cup expiries' \cup untimed'
      PROVE  SearchIsTimed'
  BY <1>1, ListSteps DEF SearchIsTimed
<1>2. ASSUME searchList' = <<>> PROVE SearchIsTimed'
  BY <1>2, ListSteps DEF SearchIsTimed
<1>3. ASSUME NEW t \in Threads, Added(t) PROVE SearchIsTimed'
  <2>1. timeoutEvents \cup expiries \cup untimed \cup {item[t]}
          \subseteq timeoutEvents' \cup expiries' \cup untimed'
    BY <1>3 DEF Added, SearchAdd
  <2>2. QED
    BY <1>3, <2>1, ListSteps DEF SearchIsTimed
<1>4. ASSUME NEW t \in Threads, NEW s \in Searches, SearchExpired(t, s) PROVE SearchIsTimed'
  <2>1. timeoutEvents' = timeoutEvents /\ expiries' = expiries \ {s} /\ untimed' = untimed
    BY <1>4 DEF SearchExpired
  <2>2. CASE client # 0 /\ s \in Listed
    BY <1>4, <2>1, <2>2, ListSteps DEF SearchIsTimed, Expired
  <2>3. CASE ~(client # 0 /\ s \in Listed)
    <3>1. searchList' = searchList /\ Listed' = Listed
      BY <1>4, <2>3, ListSteps DEF SearchExpired
    <3>2. s \notin Listed
      BY <2>3, ListSteps DEF ListInv, Listed, ToSet
    <3>3. QED
      BY <2>1, <3>1, <3>2 DEF SearchIsTimed
  <2>4. QED
    BY <2>2, <2>3
<1>5. ASSUME NEW s \in Searches, NEW ok \in BOOLEAN, SearchTimeOut(s, ok) PROVE SearchIsTimed'
  BY <1>1, <1>5 DEF SearchTimeOut
<1>6. ASSUME NEW t \in Threads, UpnpRegisterClient(t) \/ UnRegisterEnd(t) PROVE SearchIsTimed'
  BY <1>2, <1>6 DEF UpnpRegisterClient, UnRegisterEnd
<1>7. ASSUME NEW t \in Threads,
             \/ UpnpUnRegisterClient(t) \/ SearchTooLate(t) \/ TimeoutCallback(t)
             \/ MatchReply(t) \/ AdvertisementCallback(t)
             \/ (\E ok \in BOOLEAN : SearchSend(t, ok))
             \/ (\E s \in Searches : UpnpSearchAsync(t, s))
             \/ (\E d \in Datagrams : HandleDatagram(t, d))
      PROVE  SearchIsTimed'
  BY <1>1, <1>7 DEF UpnpUnRegisterClient, SearchTooLate, TimeoutCallback, MatchReply,
     AdvertisementCallback, SearchSend, UpnpSearchAsync, HandleDatagram
<1>8. CASE (\E d \in Datagrams : ReadFromSSDPSocket(d)) \/ \E r \in results : ResultCallback(r)
  BY <1>1, <1>8 DEF ReadFromSSDPSocket, ResultCallback
<1> HIDE DEF Inv, listVars, timerVars, netVars, threadVars
<1>9. QED
  BY <1>3, <1>4, <1>5, <1>6, <1>7, <1>8 DEF Next, ThreadStep, Added

(* Every step leaves each thread with what its position needs. *)
LEMMA ItemStep ==
    ASSUME Inv, Next
    PROVE  ItemInv'
<1> USE SsdpAssumption DEF Inv, TypeOK, ItemInv, listVars, timerVars, netVars, threadVars
<1>1. ASSUME NEW t \in Threads,
             UnRegisterEnd(t) \/ SearchTooLate(t) \/ TimeoutCallback(t) \/ MatchReply(t)
             \/ AdvertisementCallback(t) \/ \E ok \in BOOLEAN : SearchSend(t, ok)
      PROVE  ItemInv'
  <2>1. used' = used /\ Done(t)
    BY <1>1 DEF UnRegisterEnd, SearchTooLate, TimeoutCallback, MatchReply,
                AdvertisementCallback, SearchSend
  <2>2. QED
    BY <2>1 DEF Done, Goto
<1>2. ASSUME NEW t \in Threads, Added(t) PROVE ItemInv'
  BY <1>2 DEF Added, SearchAdd, Goto
<1>3. ASSUME NEW t \in Threads, UpnpRegisterClient(t) \/ UpnpUnRegisterClient(t) PROVE ItemInv'
  BY <1>3 DEF UpnpRegisterClient, UpnpUnRegisterClient, Goto
<1>4. ASSUME NEW t \in Threads, NEW s \in Searches, UpnpSearchAsync(t, s) PROVE ItemInv'
  <2>1. UNCHANGED threadVars \/ Goto(t, "search", s, 0)
    BY <1>4 DEF UpnpSearchAsync
  <2>2. used' = used \cup {s}
    BY <1>4 DEF UpnpSearchAsync
  <2>3. QED
    BY <2>1, <2>2 DEF Goto
<1>5. ASSUME NEW t \in Threads, NEW s \in Searches, SearchExpired(t, s) PROVE ItemInv'
  <2>1. UNCHANGED threadVars \/ (Goto(t, "timeout", s, client) /\ s \in used)
    BY <1>5 DEF SearchExpired, ListInv
  <2>2. used' = used
    BY <1>5 DEF SearchExpired
  <2>3. QED
    BY <2>1, <2>2 DEF Goto
<1>6. ASSUME NEW t \in Threads, NEW d \in Datagrams, HandleDatagram(t, d) PROVE ItemInv'
  <2>1. used' = used
    BY <1>6 DEF HandleDatagram
  <2>2. \/ UNCHANGED threadVars
        \/ client # 0 /\ (Goto(t, "advertisement", Nothing, client) \/ Goto(t, "reply", d, client))
    BY <1>6 DEF HandleDatagram
  <2>3. CASE UNCHANGED threadVars
    BY <2>1, <2>3
  <2>4. CASE client # 0 /\ Goto(t, "advertisement", Nothing, client)
    BY <2>1, <2>4 DEF Goto
  <2>5. CASE client # 0 /\ Goto(t, "reply", d, client)
    BY <2>1, <2>5 DEF Goto
  <2>6. QED
    BY <2>2, <2>3, <2>4, <2>5
<1>7. CASE \E s \in Searches, ok \in BOOLEAN : SearchTimeOut(s, ok)
  BY <1>7 DEF SearchTimeOut
<1>8. CASE (\E d \in Datagrams : ReadFromSSDPSocket(d)) \/ \E r \in results : ResultCallback(r)
  BY <1>8 DEF ReadFromSSDPSocket, ResultCallback
<1> HIDE DEF Inv, TypeOK, ItemInv, listVars, timerVars, netVars, threadVars
<1>9. QED
  BY <1>1, <1>2, <1>3, <1>4, <1>5, <1>6, <1>7, <1>8 DEF Next, ThreadStep, Added

(* Every step leaves the list to the client in whose registration it was   *)
(* made.                                                                   *)
LEMMA ListStep ==
    ASSUME Inv, Next
    PROVE  ListInv'
<1> USE DEF Inv, TypeOK, listVars, timerVars, netVars, threadVars
<1>1. ASSUME UNCHANGED <<client, searchList, owner>>, used \subseteq used' PROVE ListInv'
  BY <1>1, ListSteps DEF ListInv
<1>2. ASSUME searchList' = <<>> PROVE ListInv'
  BY <1>2, ListSteps DEF ListInv
<1>3. ASSUME NEW t \in Threads, Added(t) PROVE ListInv'
  <2>1. /\ client' = client /\ client # 0 /\ used' = used /\ item[t] \in used
        /\ owner' = [owner EXCEPT ![item[t]] = client]
    BY <1>3 DEF Added, SearchAdd, ItemInv
  <2>2. QED
    BY <1>3, <2>1, ListSteps DEF ListInv
<1>4. ASSUME NEW t \in Threads, NEW s \in Searches, SearchExpired(t, s) PROVE ListInv'
  <2>1. UNCHANGED <<client, owner, used>>
    BY <1>4 DEF SearchExpired
  <2>2. CASE client # 0 /\ s \in Listed
    BY <1>4, <2>1, <2>2, ListSteps DEF ListInv, Expired
  <2>3. CASE ~(client # 0 /\ s \in Listed)
    BY <1>1, <1>4, <2>1, <2>3 DEF SearchExpired
  <2>4. QED
    BY <2>2, <2>3
<1>5. CASE \E s \in Searches, ok \in BOOLEAN : SearchTimeOut(s, ok)
  BY <1>1, <1>5 DEF SearchTimeOut
<1>6. ASSUME NEW t \in Threads, UpnpRegisterClient(t) \/ UnRegisterEnd(t) PROVE ListInv'
  BY <1>2, <1>6 DEF UpnpRegisterClient, UnRegisterEnd
<1>7. ASSUME NEW t \in Threads,
             \/ UpnpUnRegisterClient(t) \/ SearchTooLate(t) \/ TimeoutCallback(t)
             \/ MatchReply(t) \/ AdvertisementCallback(t)
             \/ (\E ok \in BOOLEAN : SearchSend(t, ok))
             \/ (\E s \in Searches : UpnpSearchAsync(t, s))
             \/ (\E d \in Datagrams : HandleDatagram(t, d))
      PROVE  ListInv'
  BY <1>1, <1>7 DEF UpnpUnRegisterClient, SearchTooLate, TimeoutCallback, MatchReply,
     AdvertisementCallback, SearchSend, UpnpSearchAsync, HandleDatagram
<1>8. CASE (\E d \in Datagrams : ReadFromSSDPSocket(d)) \/ \E r \in results : ResultCallback(r)
  BY <1>1, <1>8 DEF ReadFromSSDPSocket, ResultCallback
<1> HIDE DEF Inv, TypeOK, listVars, timerVars, netVars, threadVars
<1>9. QED
  BY <1>3, <1>4, <1>5, <1>6, <1>7, <1>8 DEF Next, ThreadStep, Added

(* Every step keeps what threads are about to add or to report apart.      *)
LEMMA BusyStep ==
    ASSUME Inv, Next
    PROVE  BusyInv'
<1> USE SsdpAssumption DEF Inv, TypeOK, Busy, listVars, timerVars, netVars, threadVars
<1>1. ASSUME Listed' \subseteq Listed, UNCHANGED <<told, owner>>, used \subseteq used',
             \A t \in Threads : Busy(t)' => pc'[t] = pc[t] /\ item'[t] = item[t]
                                            /\ callback'[t] = callback[t]
      PROVE  BusyInv'
  BY <1>1 DEF BusyInv
<1>2. ASSUME NEW t \in Threads, Added(t) PROVE BusyInv'
  <2>1. /\ used' = used /\ told' = told /\ owner' = [owner EXCEPT ![item[t]] = client]
        /\ pc[t] = "search" /\ Goto(t, "send", item[t], 0)
    BY <1>2 DEF Added, SearchAdd
  <2>2. Listed' = Listed \cup {item[t]} /\ item[t] \in Searches
    BY <1>2, ListSteps
  <2>3. QED
    BY <2>1, <2>2 DEF BusyInv, Goto
<1>3. ASSUME NEW t \in Threads, NEW s \in Searches, UpnpSearchAsync(t, s) PROVE BusyInv'
  <2>1. /\ used' = used \cup {s} /\ told' = told /\ owner' = owner /\ Listed' = Listed
        /\ s \notin used /\ (UNCHANGED threadVars \/ Goto(t, "search", s, 0))
    BY <1>3, ListSteps DEF UpnpSearchAsync
  <2>2. CASE UNCHANGED threadVars
    BY <1>1, <2>1, <2>2
  <2>3. CASE Goto(t, "search", s, 0)
    <3>1. s \notin Listed /\ s \notin told
      BY <2>1 DEF ListInv, BusyInv
    <3>2. \A u \in Threads : Busy(u) => item[u] # s
      BY <2>1 DEF ItemInv
    <3>3. QED
      BY <2>1, <2>3, <3>1, <3>2 DEF BusyInv, Goto
  <2>4. QED
    BY <2>1, <2>2, <2>3
<1>4. ASSUME NEW t \in Threads, NEW s \in Searches, SearchExpired(t, s) PROVE BusyInv'
  <2>1. used' = used /\ told' = told /\ owner' = owner
    BY <1>4 DEF SearchExpired
  <2>2. CASE client # 0 /\ s \in Listed
    <3>1. Listed' = Listed \ {s} /\ Goto(t, "timeout", s, client)
      BY <1>4, <2>2, ListSteps DEF SearchExpired, Expired
    <3>2. s \notin told /\ owner[s] = client /\ \A u \in Threads : Busy(u) => item[u] # s
      BY <2>2, ListSteps DEF BusyInv, ListInv
    <3>3. QED
      BY <2>1, <3>1, <3>2 DEF BusyInv, Goto
  <2>3. CASE ~(client # 0 /\ s \in Listed)
    BY <1>1, <1>4, <2>1, <2>3, ListSteps DEF SearchExpired
  <2>4. QED
    BY <2>2, <2>3
<1>5. ASSUME NEW t \in Threads, TimeoutCallback(t) PROVE BusyInv'
  <2>1. /\ pc[t] = "timeout" /\ told' = told \cup {item[t]} /\ used' = used /\ owner' = owner
        /\ Listed' = Listed /\ Goto(t, "idle", Nothing, 0)
    BY <1>5, ListSteps DEF TimeoutCallback, Done
  <2>2. QED
    BY <2>1 DEF BusyInv, ItemInv, Goto
<1>6. ASSUME NEW t \in Threads, UnRegisterEnd(t) \/ UpnpRegisterClient(t) PROVE BusyInv'
  <2>1. /\ UNCHANGED <<used, told, owner>> /\ Listed' \subseteq Listed
        /\ UNCHANGED threadVars \/ Goto(t, "idle", Nothing, 0)
    BY <1>6, ListSteps DEF UnRegisterEnd, UpnpRegisterClient, Done
  <2>2. QED
    BY <1>1, <2>1 DEF Goto
<1>7. ASSUME NEW t \in Threads,
             \/ UpnpUnRegisterClient(t) \/ SearchTooLate(t)
             \/ MatchReply(t) \/ AdvertisementCallback(t)
             \/ (\E ok \in BOOLEAN : SearchSend(t, ok))
             \/ (\E d \in Datagrams : HandleDatagram(t, d))
      PROVE  BusyInv'
  <2>1. UNCHANGED <<used, told, owner>> /\ Listed' = Listed
    BY <1>7, ListSteps DEF UpnpUnRegisterClient, SearchTooLate, MatchReply,
       AdvertisementCallback, SearchSend, HandleDatagram
  <2>2. UNCHANGED threadVars \/ \E w \in {"idle", "unregister", "advertisement", "reply"} :
                                  \E x, f : Goto(t, w, x, f)
    BY <1>7, ListSteps DEF UpnpUnRegisterClient, SearchTooLate, MatchReply,
       AdvertisementCallback, SearchSend, HandleDatagram, Done
  <2>3. QED
    BY <1>1, <2>1, <2>2 DEF Goto
<1>8. CASE \/ \E s \in Searches, ok \in BOOLEAN : SearchTimeOut(s, ok)
           \/ \E d \in Datagrams : ReadFromSSDPSocket(d)
           \/ \E r \in results : ResultCallback(r)
  BY <1>1, <1>8, ListSteps DEF SearchTimeOut, ReadFromSSDPSocket, ResultCallback
<1> HIDE DEF Inv, TypeOK, Busy, listVars, timerVars, netVars, threadVars
<1>9. QED
  BY <1>2, <1>3, <1>4, <1>5, <1>6, <1>7, <1>8 DEF Next, ThreadStep, Added

(* The invariant is inductive. *)
LEMMA InvStep == Inv /\ [Next]_vars => Inv'
<1> SUFFICES ASSUME Inv, [Next]_vars PROVE Inv'
  OBVIOUS
<1>1. CASE Next
  BY <1>1, TypeStep, TimedStep, ItemStep, ListStep, BusyStep DEF Inv
<1>2. CASE UNCHANGED vars
  BY <1>2 DEF Inv, TypeOK, SearchIsTimed, ItemInv, ListInv, BusyInv, Busy, Listed, vars,
     listVars, timerVars, netVars, threadVars
<1>3. QED
  BY <1>1, <1>2

(* The invariant holds in every state of every behaviour. *)
LEMMA InvHolds == Spec => []Inv
<1>1. QED
  BY InitInv, InvStep, PTL DEF Spec

(* For any threads, searches and datagrams the search list holds searches, *)
(* each once, and each of them has its timer event or its searchExpired    *)
(* job on the way, unless that event or job could not be had (untimed),    *)
(* although SearchByTarget, searchExpired and UpnpUnRegisterClient change  *)
(* the list from different threads and outlive each other.                 *)
THEOREM SearchesStayListed == Spec => []SearchesListed
<1>1. Inv => SearchesListed
  BY DEF Inv, SearchesListed
<1>2. QED
  BY <1>1, InvHolds, PTL

(* The time-out of a search is reported once, and to the registration in   *)
(* whose list SearchByTarget put it, although its timer event outlives     *)
(* UpnpUnRegisterClient and a new client can have registered when          *)
(* searchExpired runs.                                                     *)
THEOREM TimeoutsAreRight == Spec => TimeoutIsRight
<1>1. Inv => \A t \in Threads : TimeoutCallback(t) =>
                item[t] \notin told /\ callback[t] = owner[item[t]]
  BY DEF Inv, BusyInv, Busy, TimeoutCallback
<1>2. QED
  BY <1>1, InvHolds, PTL DEF TimeoutIsRight

=============================================================================
