-------------------------------- MODULE Ssdp --------------------------------
(***************************************************************************)
(* Discovery by the control point: searches and their list, the timer      *)
(* events that end them, and the datagrams that devices send               *)
(* (ssdp_ctrlpt.c, the reader of ssdp_server.c, and UpnpSearchAsync).      *)
(*                                                                         *)
(* A critical section under HandleLock is one step, and so is everything a *)
(* thread does between two of them.  A datagram, a result to report and a  *)
(* time-out each pass through a job of a thread pool, so they can overtake *)
(* each other.  What the network loses, delays or duplicates is a datagram *)
(* that does not come, comes late or comes again.                          *)
(*                                                                         *)
(* The client is known by the number of its registration, which stands for *)
(* the callback and the cookie of its Handle_Info.                         *)
(*                                                                         *)
(* A definition named ...Mutant is a deliberately wrong variant of the one *)
(* that follows it; it is used only to show that a property can fail.      *)
(***************************************************************************)
EXTENDS Naturals, Sequences, FiniteSets

LOCAL INSTANCE SequencesExt   \* ToSet, IsPrefix, RemoveAt

CONSTANTS
    Threads,        \* the application's threads and those of the pools
    Searches,       \* calls of UpnpSearchAsync, each with its cookie
    Target,         \* the target of each: [type, name], a name being a sequence
    OhmSearchType,  \* the name that begins the names of wanted devices
    Datagrams,      \* what can arrive, see Datagram
    Nothing,
    MaxRegistrations, MaxDatagrams,   \* bounds: how many of them there are
    TimerCanFail,   \* TimerThreadSchedule may fail
    PoolCanRefuse,  \* ThreadPoolAdd may fail
    SelectCanFail   \* select may fail in SearchByTarget

(* What the handlers look at in a message: whether it parses and passes    *)
(* valid_ssdp_msg (for a reply: with status 200), the NTS header of a      *)
(* request, the NT or ST header, and whether LOCATION is there.            *)
Datagram(name) ==
    [is_request : BOOLEAN, valid : BOOLEAN, nts : {"alive", "byebye", "other"},
     name : name, location : BOOLEAN]

ASSUME SsdpAssumption ==
    /\ \A s \in Searches : Target[s].type \in {"all", "device", "error"}
    /\ Datagrams \subseteq Datagram({d.name : d \in Datagrams})
    /\ Nothing \notin Searches \cup Datagrams
    /\ MaxRegistrations \in Nat /\ MaxDatagrams \in Nat
    /\ {TimerCanFail, PoolCanRefuse, SelectCanFail} \subseteq BOOLEAN

VARIABLES
    client,         \* the current registration, or 0: HandleTable[1]
    registrations,  \* how many there have been
    searchList,     \* SsdpSearchList of the client
    timeoutEvents,  \* searches whose timer event is pending
    expiries,       \* searches whose searchExpired waits in the send pool
    reqSocket,      \* gSsdpReqSocket4 is open
    inbox,          \* datagrams waiting in the receive pool
    results,        \* send_search_result jobs waiting in the receive pool
    pc, item, callback, \* each thread's position, what it works on, the callback it copied
    used, owner,    \* searches asked for; in whose list each one was put
    untimed,        \* searches whose timer event or job could not be had
    told,           \* searches whose time-out was reported
    datagrams       \* how many have arrived

listVars   == <<client, registrations, searchList, owner>>
timerVars  == <<timeoutEvents, expiries, untimed>>
netVars    == <<reqSocket, inbox, results, datagrams>>
threadVars == <<pc, item, callback>>
vars == <<listVars, timerVars, netVars, threadVars, used, told>>

Listed == ToSet(searchList)

(* Thread t is at position where, with x to work on and callback f. *)
Goto(t, where, x, f) ==
    /\ pc' = [pc EXCEPT ![t] = where]
    /\ item' = [item EXCEPT ![t] = x]
    /\ callback' = [callback EXCEPT ![t] = f]

Done(t) == Goto(t, "idle", Nothing, 0)

-----------------------------------------------------------------------------
(* Registration, as far as searches are concerned                          *)

UpnpRegisterClient(t) ==
    /\ pc[t] = "idle" /\ client = 0 /\ registrations < MaxRegistrations
    /\ registrations' = registrations + 1
    /\ client' = registrations + 1
    /\ searchList' = <<>>
    /\ UNCHANGED <<owner, timerVars, netVars, threadVars, used, told>>

(* UpnpUnRegisterClient begins; genaUnregisterClient works without the lock. *)
UpnpUnRegisterClient(t) ==
    /\ pc[t] = "idle" /\ client # 0
    /\ Goto(t, "unregister", Nothing, 0)
    /\ UNCHANGED <<listVars, timerVars, netVars, used, told>>

(* The searches and the handle are freed; their timer events stay. *)
UnRegisterEnd(t) ==
    /\ pc[t] = "unregister"
    /\ client' = 0 /\ searchList' = <<>>
    /\ Done(t)
    /\ UNCHANGED <<registrations, owner, timerVars, netVars, used, told>>

-----------------------------------------------------------------------------
(* UpnpSearchAsync and SearchByTarget                                      *)

(* ssdp_request_type1: ":all", a device type, or neither. *)
RequestType(s) == Target[s].type

(* The handle is checked, then the target. *)
UpnpSearchAsync(t, s) ==
    /\ pc[t] = "idle" /\ client # 0 /\ s \notin used
    /\ used' = used \cup {s}
    /\ IF RequestType(s) = "error" THEN UNCHANGED threadVars
       ELSE Goto(t, "search", s, 0)
    /\ UNCHANGED <<listVars, timerVars, netVars, told>>

(* Mutant: the search is put in the list and its time-out is forgotten. *)
SearchAddMutant(t, scheduled) ==
    /\ pc[t] = "search" /\ client # 0
    /\ scheduled \/ TimerCanFail
    /\ searchList' = Append(searchList, item[t])
    /\ owner' = [owner EXCEPT ![item[t]] = client]
    /\ UNCHANGED <<timeoutEvents, untimed>>
    /\ Goto(t, "send", item[t], 0)
    /\ UNCHANGED <<client, registrations, expiries, netVars, used, told>>

(* A timer event is scheduled, with success or not, and the search is      *)
(* added to the list with the event's id.                                  *)
SearchAdd(t, scheduled) ==
    /\ pc[t] = "search" /\ client # 0
    /\ scheduled \/ TimerCanFail
    /\ searchList' = Append(searchList, item[t])
    /\ owner' = [owner EXCEPT ![item[t]] = client]
    /\ IF scheduled
       THEN timeoutEvents' = timeoutEvents \cup {item[t]} /\ UNCHANGED untimed
       ELSE untimed' = untimed \cup {item[t]} /\ UNCHANGED timeoutEvents
    /\ Goto(t, "send", item[t], 0)
    /\ UNCHANGED <<client, registrations, expiries, netVars, used, told>>

(* The client is gone. *)
SearchTooLate(t) ==
    /\ pc[t] = "search" /\ client = 0
    /\ Done(t)
    /\ UNCHANGED <<listVars, timerVars, netVars, used, told>>

(* The M-SEARCH requests are sent, or select fails, as it does when the    *)
(* socket was closed: the socket is closed and the search stays listed.    *)
SearchSend(t, selected) ==
    /\ pc[t] = "send"
    /\ selected => reqSocket
    /\ ~selected => SelectCanFail \/ ~reqSocket
    /\ reqSocket' = selected
    /\ Done(t)
    /\ UNCHANGED <<listVars, timerVars, inbox, results, datagrams, used, told>>

-----------------------------------------------------------------------------
(* The end of a search                                                     *)

(* The timer gives searchExpired to the send pool, or the pool refuses it  *)
(* and nothing will end the search.                                        *)
SearchTimeOut(s, added) ==
    /\ s \in timeoutEvents
    /\ added \/ PoolCanRefuse
    /\ timeoutEvents' = timeoutEvents \ {s}
    /\ expiries' = IF added THEN expiries \cup {s} ELSE expiries
    /\ untimed' = IF added THEN untimed ELSE untimed \cup {s}
    /\ UNCHANGED <<listVars, netVars, threadVars, used, told>>

(* ListDelNode of the first node that holds search s. *)
Unlink(s) ==
    \E i \in 1..Len(searchList) :
        /\ searchList[i] = s /\ \A k \in 1..(i - 1) : searchList[k] # s
        /\ searchList' = RemoveAt(searchList, i)

(* Mutant: the time-out is reported whether or not the search was found. *)
SearchExpiredMutant(t, s) ==
    /\ pc[t] = "idle" /\ s \in expiries /\ client # 0
    /\ expiries' = expiries \ {s}
    /\ IF s \in Listed THEN Unlink(s) ELSE UNCHANGED searchList
    /\ Goto(t, "timeout", s, client)
    /\ UNCHANGED <<client, registrations, owner, timeoutEvents, untimed, netVars,
                   used, told>>

(* Mutant: the search is removed and its time-out is not reported. *)
SearchExpiredSilentMutant(t, s) ==
    /\ pc[t] = "idle" /\ s \in expiries
    /\ expiries' = expiries \ {s}
    /\ IF s \in Listed THEN Unlink(s) ELSE UNCHANGED searchList
    /\ UNCHANGED <<client, registrations, owner, timeoutEvents, untimed, netVars,
                   threadVars, used, told>>

(* searchExpired: the search with that event's id, if it is in the list of *)
(* the present client, is removed and will be reported.                    *)
SearchExpired(t, s) ==
    /\ pc[t] = "idle" /\ s \in expiries
    /\ expiries' = expiries \ {s}
    /\ IF client # 0 /\ s \in Listed
       THEN /\ Unlink(s)
            /\ Goto(t, "timeout", s, client)
       ELSE UNCHANGED <<searchList, threadVars>>
    /\ UNCHANGED <<client, registrations, owner, timeoutEvents, untimed, netVars,
                   used, told>>

(* UPNP_DISCOVERY_SEARCH_TIMEOUT *)
TimeoutCallback(t) ==
    /\ pc[t] = "timeout"
    /\ told' = told \cup {item[t]}
    /\ Done(t)
    /\ UNCHANGED <<listVars, timerVars, netVars, used>>

-----------------------------------------------------------------------------
(* Datagrams                                                               *)

(* readFromSSDPSocket.  A datagram that the pool refuses is as good as     *)
(* lost.  Replies come to the socket that sent the search.                 *)
ReadFromSSDPSocket(d) ==
    /\ datagrams < MaxDatagrams /\ (d.is_request \/ reqSocket)
    /\ datagrams' = datagrams + 1
    /\ inbox' = inbox \cup {d}
    /\ UNCHANGED <<listVars, timerVars, reqSocket, results, threadVars, used, told>>

(* start_event_handler: the message parses and is a valid SSDP message. *)
StartEventHandler(d) == d.valid

(* The name in NT or ST is one the control point wants. *)
Wanted(d) == IsPrefix(OhmSearchType, d.name)

(* What ssdp_handle_ctrlpt_msg asks of a request and of a reply before it  *)
(* does anything with it.                                                  *)
GoodAdvertisement(d) ==
    /\ d.is_request /\ StartEventHandler(d) /\ Wanted(d)
    /\ d.nts = "byebye" \/ (d.nts = "alive" /\ d.location)

GoodReply(d) == ~d.is_request /\ StartEventHandler(d) /\ d.location /\ Wanted(d)

(* ssdp_event_handler_thread: the callback is copied under the lock. *)
HandleDatagram(t, d) ==
    /\ pc[t] = "idle" /\ d \in inbox
    /\ inbox' = inbox \ {d}
    /\ \/ client # 0 /\ GoodAdvertisement(d) /\ Goto(t, "advertisement", Nothing, client)
       \/ client # 0 /\ GoodReply(d) /\ Goto(t, "reply", d, client)
       \/ /\ client = 0 \/ (~GoodAdvertisement(d) /\ ~GoodReply(d))
          /\ UNCHANGED threadVars
    /\ UNCHANGED <<listVars, timerVars, reqSocket, results, datagrams, used, told>>

(* The target of search s and the ST of reply d agree as far as the        *)
(* shorter of them goes.                                                   *)
Matches(s, d) ==
    \/ RequestType(s) = "all"
    \/ /\ RequestType(s) = "device"
       /\ IsPrefix(Target[s].name, d.name) \/ IsPrefix(d.name, Target[s].name)

(* Each search of the list that matches gets a job, which the pool may     *)
(* refuse, with the callback copied before.                                *)
MatchReply(t) ==
    /\ pc[t] = "reply"
    /\ LET matched == {s \in Listed : Matches(s, item[t])} IN
         \E taken \in (IF PoolCanRefuse THEN SUBSET matched ELSE {matched}) :
           results' = results \cup [search : taken, callback : {callback[t]}]
    /\ Done(t)
    /\ UNCHANGED <<listVars, timerVars, reqSocket, inbox, datagrams, used, told>>

(* UPNP_DISCOVERY_ADVERTISEMENT_ALIVE or _BYEBYE *)
AdvertisementCallback(t) ==
    /\ pc[t] = "advertisement"
    /\ Done(t)
    /\ UNCHANGED <<listVars, timerVars, netVars, used, told>>

(* send_search_result: UPNP_DISCOVERY_SEARCH_RESULT *)
ResultCallback(r) ==
    /\ r \in results
    /\ results' = results \ {r}
    /\ UNCHANGED <<listVars, timerVars, reqSocket, inbox, datagrams, threadVars, used, told>>

-----------------------------------------------------------------------------
Init ==
    /\ client = 0 /\ registrations = 0 /\ searchList = <<>>
    /\ owner = [s \in Searches |-> 0]
    /\ timeoutEvents = {} /\ expiries = {} /\ untimed = {}
    /\ reqSocket = TRUE /\ inbox = {} /\ results = {} /\ datagrams = 0
    /\ pc = [t \in Threads |-> "idle"] /\ item = [t \in Threads |-> Nothing]
    /\ callback = [t \in Threads |-> 0]
    /\ used = {} /\ told = {}

(* What a thread does once it has begun. *)
ThreadStep(t) ==
    \/ UnRegisterEnd(t) \/ SearchTooLate(t) \/ TimeoutCallback(t)
    \/ MatchReply(t) \/ AdvertisementCallback(t)
    \/ \E ok \in BOOLEAN : SearchAdd(t, ok) \/ SearchSend(t, ok)

Next ==
    \/ \E t \in Threads :
         \/ ThreadStep(t)
         \/ UpnpRegisterClient(t) \/ UpnpUnRegisterClient(t)
         \/ \E s \in Searches : UpnpSearchAsync(t, s) \/ SearchExpired(t, s)
         \/ \E d \in Datagrams : HandleDatagram(t, d)
    \/ \E s \in Searches, added \in BOOLEAN : SearchTimeOut(s, added)
    \/ \E d \in Datagrams : ReadFromSSDPSocket(d)
    \/ \E r \in results : ResultCallback(r)

Spec == Init /\ [][Next]_vars

(* Threads go on, the timer fires and the pools run their jobs.  Fairness  *)
(* is strong for searchExpired, which waits for a thread to be idle.       *)
FairSpec ==
    /\ Spec
    /\ \A t \in Threads : WF_vars(ThreadStep(t))
    /\ \A s \in Searches :
         /\ WF_vars(\E added \in BOOLEAN : SearchTimeOut(s, added))
         /\ SF_vars(\E t \in Threads : SearchExpired(t, s))

-----------------------------------------------------------------------------
(* Every variable has its type. *)
TypeOK ==
    /\ registrations \in 0..MaxRegistrations /\ client \in {0, registrations}
    /\ searchList \in Seq(Searches) /\ owner \in [Searches -> 0..registrations]
    /\ timeoutEvents \subseteq Searches /\ expiries \subseteq Searches
    /\ untimed \subseteq Searches /\ used \subseteq Searches /\ told \subseteq Searches
    /\ reqSocket \in BOOLEAN /\ inbox \subseteq Datagrams /\ datagrams \in 0..MaxDatagrams
    /\ results \subseteq [search : Searches, callback : 1..registrations]
    /\ pc \in [Threads -> {"idle", "unregister", "search", "send", "timeout",
                           "advertisement", "reply"}]
    /\ item \in [Threads -> Searches \cup Datagrams \cup {Nothing}]
    /\ callback \in [Threads -> 0..registrations]

(* A search is in the list once, and as long as it is there its end is on  *)
(* the way, as a pending timer event or a queued searchExpired, unless     *)
(* TimerThreadSchedule or the pool failed.                                 *)
SearchIsTimed ==
    /\ Listed \subseteq timeoutEvents \cup expiries \cup untimed
    /\ \A i, k \in 1..Len(searchList) : searchList[i] = searchList[k] => i = k

(* The search list is kept: it holds searches, each once, and each of them *)
(* has an end, although ssdp_handle_ctrlpt_msg, searchExpired and the      *)
(* unregistration change it from different threads.                        *)
SearchesListed == TypeOK /\ SearchIsTimed

(* A time-out is reported once for a search, and to the registration in    *)
(* whose list it was, although timer events outlive UpnpUnRegisterClient   *)
(* and a new client can register before they fire.                         *)
TimeoutIsRight ==
    [][\A t \in Threads : TimeoutCallback(t) =>
          item[t] \notin told /\ callback[t] = owner[item[t]]]_vars

(* "Received by a control point when the search timeout expires" (upnp.h,  *)
(* of UPNP_DISCOVERY_SEARCH_TIMEOUT): a search that could be timed is told *)
(* its time-out, unless its client unregisters.                            *)
SearchEnds ==
    \A s \in Searches :
        s \in Listed \ untimed ~> s \in told \cup untimed \/ client # owner[s]

=============================================================================
