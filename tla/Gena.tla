-------------------------------- MODULE Gena --------------------------------
(***************************************************************************)
(* The control point's side of eventing: the registration of the client,   *)
(* its table of subscriptions (client_table.c), and the operations that    *)
(* subscribe, renew, automatically renew, unsubscribe and unregister       *)
(* (gena_ctrlpt.c), called directly or as jobs of the send pool            *)
(* (upnpapi.c).  The actions of soap_ctrlpt.c are jobs of the same pool    *)
(* and have no subscription.  Events are not received in this build:       *)
(* nothing registers genaCallback with the mini server, which opens no TCP *)
(* socket, so gena_process_notification_event is never called.             *)
(*                                                                         *)
(* A critical section under HandleLock is one step.  Two locks are held    *)
(* from one step to another: SubscribeLock, during the SUBSCRIBE request,  *)
(* and HandleReadLock, by a genaSubscribe that found a bad handle.  Every  *)
(* HTTP request ends in a step of its own, so anything can happen between  *)
(* a request and what the code does with its answer.                       *)
(*                                                                         *)
(* There is at most one client (UpnpSdkClientRegistered); its handle is    *)
(* always 1, the first free entry of HandleTable, in every registration.   *)
(*                                                                         *)
(* A definition named ...Mutant is a deliberately wrong variant of the one *)
(* that follows it; it is used only to show that a property can fail.      *)
(***************************************************************************)
EXTENDS Naturals, Sequences, FiniteSets

LOCAL INSTANCE SequencesExt   \* ToSet, RemoveAt

CONSTANTS
    Threads,        \* the application's threads and those of the pools
    Subs,           \* subscriptions, each with the SIDs of client and device
    TimerIds,       \* ids of timer events; one is reused when nobody knows it
    NoThread, NoSub, NoTimer,
    Ops,            \* the operations the application uses
    MaxCalls,       \* bound: the number of calls it makes
    Timeouts,       \* what devices grant, of "timed" and "infinite"
    TimerCanFail,   \* ScheduleGenaAutoRenew may fail
    PoolCanRefuse   \* ThreadPoolAdd may fail

ASSUME GenaAssumption ==
    /\ NoThread \notin Threads /\ NoSub \notin Subs
    /\ TimerIds \subseteq Nat /\ NoTimer \notin TimerIds
    /\ Ops \subseteq {"subscribe", "renew", "unsubscribe", "unregister", "action"}
    /\ MaxCalls \in Nat /\ Timeouts \subseteq {"timed", "infinite"}
    /\ {TimerCanFail, PoolCanRefuse} \subseteq BOOLEAN

VARIABLES
    registered,     \* HandleTable[1] # NULL, and UpnpSdkClientRegistered
    subList,        \* ClientSubList, the head first
    renewEventId,   \* of each subscription
    freed,          \* subscriptions whose memory was freed in the list
    timers,         \* timers[id]: whose renewal the pending timer event id is for
    readers,        \* threads that keep HandleReadLock
    subscribeLock,  \* the thread that keeps SubscribeLock, or NoThread
    jobs,           \* asynchronous calls in the send pool's queue
    owed,           \* asynchronous calls that the pool took, not yet called back
    pc, tsub,       \* each thread's position and subscription
    how,            \* "sync", "auto", or the asynchronous call it runs
    used, known,    \* subscriptions asked for; those whose SID a caller has
    infinite,       \* subscriptions last granted without a timeout
    dropped,        \* those whose due renewal the pool did not take (history)
    device,         \* what each device thinks of a subscription
    calls

clientVars == <<registered, subList, renewEventId, freed, infinite, dropped,
                known>>
lockVars   == <<readers, subscribeLock>>
asyncVars  == <<jobs, owed>>
threadVars == <<pc, tsub, how>>
vars == <<clientVars, timers, lockVars, asyncVars, threadVars, used, device, calls>>

Linked == ToSet(subList)

(* HandleLock, the write lock, can be taken. *)
HandleLock == readers = {}

(* The list can be traversed.  What a traversal of freed memory does is    *)
(* undefined; the model stops there.                                       *)
Sound == freed \cap Linked = {}

Goto(t, where) == pc' = [pc EXCEPT ![t] = where]

AsyncOps == {"subscribe", "renew", "unsubscribe", "action"}

(* The asynchronous calls that the application makes. *)
AsyncCalls == { job \in [op : AsyncOps \cap Ops, sub : Subs \cup {NoSub}] :
                  job.op = "action" <=> job.sub = NoSub }

(* A thread begins operation op on subscription s. *)
Begin(t, op, s, kind) ==
    /\ Goto(t, op)
    /\ tsub' = [tsub EXCEPT ![t] = s]
    /\ how' = [how EXCEPT ![t] = kind]

(* Mutant: an asynchronous call that failed is not reported. *)
FinishMutant(t, failed) ==
    IF how[t] \in AsyncOps /\ ~failed THEN Goto(t, "callback") /\ UNCHANGED <<tsub, how>>
    ELSE Begin(t, "idle", NoSub, "none")

(* The operation is over.  An asynchronous one, and an automatic renewal   *)
(* that failed, tell the client by a callback.                             *)
Finish(t, failed) ==
    IF how[t] \in AsyncOps THEN Goto(t, "callback") /\ UNCHANGED <<tsub, how>>
    ELSE IF how[t] = "auto" /\ failed
    THEN Goto(t, "autoFailed") /\ UNCHANGED <<tsub, how>>
    ELSE Begin(t, "idle", NoSub, "none")

-----------------------------------------------------------------------------
(* Calls.  The Upnp* functions check the handle under HandleReadLock.      *)

(* UpnpRegisterClient *)
Register(t) ==
    /\ pc[t] = "idle" /\ HandleLock /\ ~registered
    /\ calls < MaxCalls /\ calls' = calls + 1
    /\ registered' = TRUE
    /\ subList' = <<>>
    /\ UNCHANGED <<renewEventId, freed, infinite, dropped, known, timers, lockVars,
                   asyncVars, threadVars, used, device>>

(* The application can name subscription s in a call of op. *)
MayName(op, s) == IF op = "subscribe" THEN s \notin used ELSE s \in known

(* A call that works in the caller's own thread. *)
Call(t, op, s) ==
    /\ pc[t] = "idle" /\ registered /\ op \in Ops /\ MayName(op, s)
    /\ calls < MaxCalls /\ calls' = calls + 1
    /\ used' = used \cup {s}
    /\ Begin(t, op, s, "sync")
    /\ UNCHANGED <<clientVars, timers, lockVars, asyncVars, device>>

UpnpSubscribe(t, s)         == Call(t, "subscribe", s)
UpnpRenewSubscription(t, s) == Call(t, "renew", s)
UpnpUnSubscribe(t, s)       == Call(t, "unsubscribe", s)

(* A call that hands a job to the send pool and returns UPNP_E_SUCCESS     *)
(* whether or not ThreadPoolAdd took the job.  (The same call is not made  *)
(* again before its callback: a bound.)                                    *)
CallAsync(t, op, s, added) ==
    /\ pc[t] = "idle" /\ registered /\ op \in Ops /\ MayName(op, s)
    /\ calls < MaxCalls /\ calls' = calls + 1
    /\ added \/ PoolCanRefuse
    /\ [op |-> op, sub |-> s] \notin owed
    /\ IF added THEN /\ owed' = owed \cup {[op |-> op, sub |-> s]}
                     /\ jobs' = jobs \cup {[op |-> op, sub |-> s]}
       ELSE UNCHANGED asyncVars
    /\ used' = used \cup {s}
    /\ UNCHANGED <<clientVars, timers, lockVars, threadVars, device>>

UpnpSubscribeAsync(t, s, added)         == CallAsync(t, "subscribe", s, added)
UpnpRenewSubscriptionAsync(t, s, added) == CallAsync(t, "renew", s, added)
UpnpUnSubscribeAsync(t, s, added)       == CallAsync(t, "unsubscribe", s, added)

(* The same for an action, which belongs to no subscription. *)
UpnpSendActionAsync(t, added) ==
    /\ pc[t] = "idle" /\ registered /\ "action" \in Ops
    /\ calls < MaxCalls /\ calls' = calls + 1
    /\ added \/ PoolCanRefuse
    /\ [op |-> "action", sub |-> NoSub] \notin owed
    /\ IF added THEN /\ owed' = owed \cup {[op |-> "action", sub |-> NoSub]}
                     /\ jobs' = jobs \cup {[op |-> "action", sub |-> NoSub]}
       ELSE UNCHANGED asyncVars
    /\ UNCHANGED <<clientVars, timers, lockVars, threadVars, used, device>>

(* UpnpThreadDistribution begins one of them. *)
TakeJob(t, job) ==
    /\ pc[t] = "idle" /\ job \in jobs
    /\ jobs' = jobs \ {job}
    /\ Begin(t, job.op, job.sub, job.op)
    /\ UNCHANGED <<clientVars, timers, lockVars, owed, used, device, calls>>

(* A timer event is due; GenaAutoRenewSubscription begins. *)
AutoRenew(t, id) ==
    /\ pc[t] = "idle" /\ timers[id] # NoSub
    /\ timers' = [timers EXCEPT ![id] = NoSub]
    /\ Begin(t, "renew", timers[id], "auto")
    /\ UNCHANGED <<clientVars, lockVars, asyncVars, used, device, calls>>

(* A timer event is due and TimerThreadWorker cannot give it to the pool:  *)
(* it frees the event's argument, and the event is forgotten.              *)
AutoRenewDropped(id) ==
    /\ PoolCanRefuse /\ timers[id] # NoSub
    /\ timers' = [timers EXCEPT ![id] = NoSub]
    /\ dropped' = dropped \cup {timers[id]}
    /\ UNCHANGED <<registered, subList, renewEventId, freed, infinite, known, lockVars,
                   asyncVars, threadVars, used, device, calls>>

(* UpnpUnRegisterClient *)
UnRegister(t) ==
    /\ pc[t] = "idle" /\ HandleLock /\ registered
    /\ calls < MaxCalls /\ calls' = calls + 1
    /\ Begin(t, "unregister", NoSub, "sync")
    /\ UNCHANGED <<clientVars, timers, lockVars, asyncVars, used, device>>

-----------------------------------------------------------------------------
(* Timers and the subscription list, under HandleLock                      *)

(* TimerThreadRemove with an id that may be stale or NoTimer. *)
TimersWithout(id) == [i \in TimerIds |-> IF i = id THEN NoSub ELSE timers[i]]

(* TimerThreadSchedule gives ids in turn and never one twice.  An id that  *)
(* no pending event and no subscription has is as good as a new one.       *)
Unused(id) == timers[id] = NoSub /\ \A s \in Subs : renewEventId[s] # id
NewTimerId(id) == Unused(id) /\ \A i \in TimerIds : i < id => ~Unused(i)

(* RemoveClientSubClientSID: the subscription is unlinked and freed, and   *)
(* free_client_subscription removes its timer event.                       *)
RemoveSub(s) ==
    IF s \notin Linked THEN UNCHANGED <<subList, timers, renewEventId>>
    ELSE /\ \E i \in 1..Len(subList) :
              /\ subList[i] = s /\ \A k \in 1..(i - 1) : subList[k] # s
              /\ subList' = RemoveAt(subList, i)
         /\ timers' = TimersWithout(renewEventId[s])
         /\ renewEventId' = [renewEventId EXCEPT ![s] = NoTimer]

(* ScheduleGenaAutoRenew succeeds: nothing to do without a timeout, else a *)
(* timer event whose id replaces the one the subscription has.             *)
ScheduleGenaAutoRenew(s, timeout) ==
    IF timeout = "infinite"
    THEN infinite' = infinite \cup {s} /\ UNCHANGED <<timers, renewEventId, dropped>>
    ELSE \E id \in TimerIds :
           /\ NewTimerId(id)
           /\ timers' = [timers EXCEPT ![id] = s]
           /\ renewEventId' = [renewEventId EXCEPT ![s] = id]
           /\ infinite' = infinite \ {s} /\ dropped' = dropped \ {s}

-----------------------------------------------------------------------------
(* genaSubscribe                                                           *)

(* The handle is checked under HandleReadLock.  When it is bad the lock is *)
(* kept and SubscribeLock is awaited.                                      *)
SubscribeCheck(t) ==
    /\ pc[t] = "subscribe"
    /\ Goto(t, IF registered THEN "subscribeLock" ELSE "badHandle")
    /\ readers' = IF registered THEN readers ELSE readers \cup {t}
    /\ UNCHANGED <<clientVars, timers, subscribeLock, asyncVars, tsub, how, used,
                   device, calls>>

SubscribeBadHandle(t) ==
    /\ pc[t] = "badHandle" /\ subscribeLock = NoThread
    /\ readers' = readers \ {t}
    /\ Finish(t, TRUE)
    /\ UNCHANGED <<clientVars, timers, subscribeLock, asyncVars, used, device, calls>>

(* SubscribeLock is taken and the request sent; the device may grant it. *)
SubscribeRequest(t) ==
    /\ pc[t] = "subscribeLock" /\ subscribeLock = NoThread
    /\ subscribeLock' = t
    /\ \/ device' = [device EXCEPT ![tsub[t]] = "active"]
       \/ UNCHANGED device
    /\ Goto(t, "subscribing")
    /\ UNCHANGED <<clientVars, timers, readers, asyncVars, tsub, how, used, calls>>

(* Mutant: SubscribeLock is kept. *)
SubscribeFailsMutant(t) ==
    /\ pc[t] = "subscribing" /\ HandleLock
    /\ Finish(t, TRUE)
    /\ UNCHANGED <<clientVars, timers, lockVars, asyncVars, used, device, calls>>

(* No answer, an error, or the handle has become bad. *)
SubscribeFails(t) ==
    /\ pc[t] = "subscribing" /\ HandleLock
    /\ subscribeLock' = NoThread
    /\ Finish(t, TRUE)
    /\ UNCHANGED <<clientVars, timers, readers, asyncVars, used, device, calls>>

(* The subscription becomes the head of the list.  When its renewal cannot *)
(* be scheduled its memory is freed where it is.                           *)
SubscribeLinks(t, timeout, scheduled) ==
    /\ pc[t] = "subscribing" /\ HandleLock /\ registered
    /\ device[tsub[t]] # "none"
    /\ scheduled \/ (TimerCanFail /\ timeout = "timed")
    /\ subList' = <<tsub[t]>> \o subList
    /\ \/ /\ scheduled
          /\ ScheduleGenaAutoRenew(tsub[t], timeout)
          /\ known' = known \cup {tsub[t]}
          /\ UNCHANGED freed
       \/ /\ ~scheduled
          /\ freed' = freed \cup {tsub[t]}
          /\ UNCHANGED <<timers, renewEventId, infinite, dropped, known>>
    /\ subscribeLock' = NoThread
    /\ Finish(t, ~scheduled)
    /\ UNCHANGED <<registered, readers, asyncVars, used, device, calls>>

-----------------------------------------------------------------------------
(* genaRenewSubscription                                                   *)

(* A bad handle or SID ends it; else the pending timer event is removed    *)
(* and the request is sent.                                                *)
RenewBegin(t) ==
    /\ pc[t] = "renew" /\ HandleLock /\ Sound
    /\ \/ /\ ~registered \/ tsub[t] \notin Linked
          /\ Finish(t, FALSE)
          /\ UNCHANGED <<timers, renewEventId>>
       \/ /\ registered /\ tsub[t] \in Linked
          /\ timers' = TimersWithout(renewEventId[tsub[t]])
          /\ renewEventId' = [renewEventId EXCEPT ![tsub[t]] = NoTimer]
          /\ Goto(t, "renewing") /\ UNCHANGED <<tsub, how>>
    /\ UNCHANGED <<registered, subList, freed, infinite, dropped, known, lockVars, asyncVars,
                   used, device, calls>>

(* Mutant: a subscription that could not be renewed stays in the list. *)
RenewFailsMutant(t) ==
    /\ pc[t] = "renewing" /\ HandleLock /\ Sound /\ registered
    /\ Finish(t, TRUE)
    /\ UNCHANGED <<clientVars, timers, lockVars, asyncVars, used, device, calls>>

(* No answer or an error: the subscription is given up.                    *)
RenewFails(t) ==
    /\ pc[t] = "renewing" /\ HandleLock /\ Sound /\ registered
    /\ RemoveSub(tsub[t])
    /\ Finish(t, TRUE)
    /\ UNCHANGED <<registered, freed, infinite, dropped, known, lockVars, asyncVars,
                   used, device, calls>>

(* Meanwhile the handle has become bad, or the subscription is gone.       *)
RenewTooLate(t) ==
    /\ pc[t] = "renewing" /\ HandleLock /\ Sound
    /\ ~registered \/ tsub[t] \notin Linked
    /\ Finish(t, FALSE)
    /\ UNCHANGED <<clientVars, timers, lockVars, asyncVars, used, device, calls>>

(* The device has renewed it; the next renewal is scheduled, or cannot be  *)
(* and the subscription is given up.                                       *)
RenewSucceeds(t, timeout, scheduled) ==
    /\ pc[t] = "renewing" /\ HandleLock /\ Sound
    /\ registered /\ tsub[t] \in Linked /\ device[tsub[t]] = "active"
    /\ scheduled \/ (TimerCanFail /\ timeout = "timed")
    /\ \/ scheduled /\ ScheduleGenaAutoRenew(tsub[t], timeout) /\ UNCHANGED subList
       \/ ~scheduled /\ RemoveSub(tsub[t]) /\ UNCHANGED <<infinite, dropped>>
    /\ Finish(t, ~scheduled)
    /\ UNCHANGED <<registered, freed, known, lockVars, asyncVars, used, device, calls>>

(* GenaAutoRenewSubscription after a failure: the client is told, if there *)
(* still is one.                                                           *)
AutoRenewFailed(t) ==
    /\ pc[t] = "autoFailed"
    /\ IF registered THEN Goto(t, "callback") /\ UNCHANGED <<tsub, how>>
       ELSE Begin(t, "idle", NoSub, "none")
    /\ UNCHANGED <<clientVars, timers, lockVars, asyncVars, used, device, calls>>

(* The client's callback runs, with no lock held. *)
Callback(t) ==
    /\ pc[t] = "callback"
    /\ owed' = owed \ {[op |-> how[t], sub |-> tsub[t]]}
    /\ Begin(t, "idle", NoSub, "none")
    /\ UNCHANGED <<clientVars, timers, lockVars, jobs, used, device, calls>>

-----------------------------------------------------------------------------
(* genaUnSubscribe and genaUnregisterClient                                *)

(* An UNSUBSCRIBE request, which may be lost. *)
Unsubscribed(s) ==
    \/ device' = [device EXCEPT ![s] = IF @ = "active" THEN "ended" ELSE @]
    \/ UNCHANGED device

UnSubscribeBegin(t) ==
    /\ pc[t] = "unsubscribe" /\ HandleLock /\ Sound
    /\ \/ (~registered \/ tsub[t] \notin Linked) /\ Finish(t, FALSE)
       \/ registered /\ tsub[t] \in Linked
          /\ Goto(t, "unsubscribing") /\ UNCHANGED <<tsub, how>>
    /\ UNCHANGED <<clientVars, timers, lockVars, asyncVars, used, device, calls>>

(* Answered or not, the subscription is removed if the handle still is     *)
(* good.                                                                   *)
UnSubscribeEnd(t) ==
    /\ pc[t] = "unsubscribing" /\ HandleLock /\ Sound
    /\ Unsubscribed(tsub[t])
    /\ IF registered THEN RemoveSub(tsub[t]) ELSE UNCHANGED <<subList, renewEventId, timers>>
    /\ Finish(t, FALSE)
    /\ UNCHANGED <<registered, freed, infinite, dropped, known, lockVars, asyncVars,
                   used, calls>>

(* genaUnregisterClient takes the subscriptions out one by one. *)
UnRegisterLoop(t) ==
    /\ pc[t] = "unregister" /\ HandleLock /\ Sound
    /\ \/ /\ ~registered
          /\ Finish(t, FALSE)
          /\ UNCHANGED <<subList, renewEventId, timers>>
       \/ /\ registered /\ subList = <<>>
          /\ Goto(t, "unregisterEnd")
          /\ UNCHANGED <<subList, renewEventId, timers, tsub, how>>
       \/ /\ registered /\ subList # <<>>
          /\ RemoveSub(Head(subList))
          /\ Begin(t, "unregistering", Head(subList), "sync")
    /\ UNCHANGED <<registered, freed, infinite, dropped, known, lockVars, asyncVars,
                   used, device, calls>>

UnRegisterNext(t) ==
    /\ pc[t] = "unregistering"
    /\ Unsubscribed(tsub[t])
    /\ Begin(t, "unregister", NoSub, "sync")
    /\ UNCHANGED <<clientVars, timers, lockVars, asyncVars, used, calls>>

(* UpnpUnRegisterClient takes HandleLock again and frees the handle, with  *)
(* whatever is in its list by now.                                         *)
UnRegisterEnd(t) ==
    /\ pc[t] = "unregisterEnd" /\ HandleLock
    /\ registered' = FALSE
    /\ subList' = <<>>
    /\ Finish(t, FALSE)
    /\ UNCHANGED <<renewEventId, freed, infinite, dropped, known, timers, lockVars,
                   asyncVars, used, device, calls>>

-----------------------------------------------------------------------------
(* SoapSendAction                                                          *)

(* soap_request_and_response: a bad URL, an error or an answer ends it,    *)
(* but a device that does not allow POST is asked again.                   *)
SoapSendAction(t) ==
    /\ pc[t] = "action"
    /\ Finish(t, FALSE) \/ (Goto(t, "mpost") /\ UNCHANGED <<tsub, how>>)
    /\ UNCHANGED <<clientVars, timers, lockVars, asyncVars, used, device, calls>>

(* add_man_header, and the second request, whatever is answered to it.     *)
SoapSendMPost(t) ==
    /\ pc[t] = "mpost"
    /\ Finish(t, FALSE)
    /\ UNCHANGED <<clientVars, timers, lockVars, asyncVars, used, device, calls>>

-----------------------------------------------------------------------------
Init ==
    /\ registered = FALSE /\ subList = <<>>
    /\ renewEventId = [s \in Subs |-> NoTimer]
    /\ timers = [id \in TimerIds |-> NoSub]
    /\ freed = {} /\ known = {} /\ used = {} /\ infinite = {} /\ dropped = {}
    /\ readers = {} /\ subscribeLock = NoThread
    /\ jobs = {} /\ owed = {}
    /\ pc = [t \in Threads |-> "idle"] /\ tsub = [t \in Threads |-> NoSub]
    /\ how = [t \in Threads |-> "none"]
    /\ device = [s \in Subs |-> "none"] /\ calls = 0

(* What a thread does once it has begun. *)
ThreadStep(t) ==
    \/ SubscribeCheck(t) \/ SubscribeBadHandle(t) \/ SubscribeRequest(t) \/ SubscribeFails(t)
    \/ RenewBegin(t) \/ RenewFails(t) \/ RenewTooLate(t)
    \/ \E timeout \in Timeouts, scheduled \in BOOLEAN :
         SubscribeLinks(t, timeout, scheduled) \/ RenewSucceeds(t, timeout, scheduled)
    \/ AutoRenewFailed(t) \/ Callback(t)
    \/ UnSubscribeBegin(t) \/ UnSubscribeEnd(t)
    \/ UnRegisterLoop(t) \/ UnRegisterNext(t) \/ UnRegisterEnd(t)
    \/ SoapSendAction(t) \/ SoapSendMPost(t)

Next == \E t \in Threads :
    \/ ThreadStep(t)
    \/ Register(t)
    \/ \E s \in Subs :
         \/ UpnpSubscribe(t, s) \/ UpnpRenewSubscription(t, s) \/ UpnpUnSubscribe(t, s)
         \/ \E added \in BOOLEAN : \/ UpnpSubscribeAsync(t, s, added)
                                   \/ UpnpRenewSubscriptionAsync(t, s, added)
                                   \/ UpnpUnSubscribeAsync(t, s, added)
    \/ \E added \in BOOLEAN : UpnpSendActionAsync(t, added)
    \/ "unregister" \in Ops /\ UnRegister(t)
    \/ \E job \in jobs : TakeJob(t, job)
    \/ \E id \in TimerIds : AutoRenew(t, id) \/ AutoRenewDropped(id)

Spec == Init /\ [][Next]_vars

(* A thread goes on once it has begun, HTTP requests end (they have a      *)
(* timeout), the pool runs its jobs and the timer fires the events of      *)
(* every subscription.  Fairness is strong only where a free thread is     *)
(* needed: a thread that has begun waits for SubscribeLock at most, which  *)
(* only the subscribe calls contend for, and MaxCalls bounds them.         *)
FairSpec ==
    /\ Spec
    /\ \A t \in Threads : WF_vars(ThreadStep(t))
    /\ SF_vars(\E t \in Threads : \E job \in jobs : TakeJob(t, job))
    /\ \A s \in Subs :
         SF_vars(\E t \in Threads, id \in TimerIds : timers[id] = s /\ AutoRenew(t, id))

-----------------------------------------------------------------------------
(* Every variable has its type. *)
TypeOK ==
    /\ registered \in BOOLEAN /\ subList \in Seq(Subs)
    /\ renewEventId \in [Subs -> TimerIds \cup {NoTimer}]
    /\ timers \in [TimerIds -> Subs \cup {NoSub}]
    /\ freed \subseteq Subs /\ known \subseteq Subs /\ used \subseteq Subs
    /\ infinite \subseteq Subs /\ dropped \subseteq Subs
    /\ readers \subseteq Threads /\ subscribeLock \in Threads \cup {NoThread}
    /\ jobs \subseteq owed /\ owed \subseteq AsyncCalls
    /\ pc \in [Threads -> {"idle", "subscribe", "badHandle", "subscribeLock",
                           "subscribing", "renew", "renewing", "autoFailed",
                           "callback", "unsubscribe", "unsubscribing",
                           "unregister", "unregistering", "unregisterEnd",
                           "action", "mpost"}]
    /\ tsub \in [Threads -> Subs \cup {NoSub}]
    /\ how \in [Threads -> {"none", "sync", "auto"} \cup AsyncOps]
    /\ device \in [Subs -> {"none", "active", "ended"}] /\ calls \in 0..MaxCalls

(* SubscribeLock and HandleReadLock are kept exactly by the threads at the *)
(* places of genaSubscribe that do.                                        *)
LocksKept ==
    /\ \A t \in Threads : subscribeLock = t <=> pc[t] = "subscribing"
    /\ readers = {t \in Threads : pc[t] = "badHandle"}

(* A subscription with a timeout never expires unnoticed: as long as it is *)
(* in the list, a timer event for its renewal is pending or a thread is    *)
(* renewing it, whatever renewals, failures and removals overlap.  Only a  *)
(* pool that did not take the job of a renewal that was due can lose it.   *)
RenewalPending ==
    \A s \in Linked \ (infinite \cup freed \cup dropped) :
        \/ \E id \in TimerIds : timers[id] = s
        \/ \E t \in Threads : tsub[t] = s /\ pc[t] \in {"renew", "renewing"}

(* "The subscription is no longer valid." (upnp.h, of                      *)
(* UPNP_EVENT_AUTORENEWAL_FAILED): when the client is told that a renewal  *)
(* failed the subscription is in the list no more, not even because of     *)
(* another renewal that succeeded.                                         *)
FailedRenewalEnds ==
    \A t \in Threads :
        how[t] = "auto" /\ pc[t] \in {"autoFailed", "callback"} => tsub[t] \notin Linked

(* The client's list of subscriptions is kept: its entries and the timer   *)
(* events they name exist, each is about to be renewed, and none whose     *)
(* renewal was reported as failed stays in it.                             *)
SubscriptionsKept == TypeOK /\ RenewalPending /\ FailedRenewalEnds

(* What can hold everything up for ever: genaSubscribe with a bad handle   *)
(* waits for SubscribeLock with the read lock, and the thread that has     *)
(* SubscribeLock for the write lock; or the list has a freed subscription, *)
(* and what a thread does that reads it is undefined.                      *)
Stuck ==
    \/ \E t, u \in Threads : pc[t] = "badHandle" /\ pc[u] = "subscribing"
    \/ ~Sound

(* Every call returns, although requests are made with SubscribeLock held  *)
(* and clients unregister meanwhile: nothing but Stuck holds one up.       *)
CallsReturn ==
    <>[]Stuck \/ \A t \in Threads : pc[t] # "idle" ~> pc[t] = "idle"

(* AUTO_RENEW_TIME "is the time, in seconds, before a subscription expires *)
(* that the SDK automatically resubscribes" (config.h): one with a timeout *)
(* that stays in the list is renewed again and again.  So it is as long as *)
(* the pool takes the renewals.                                            *)
RenewalGoesOn ==
    <>[]Stuck \/ \A s \in Subs :
        s \in Linked \ (infinite \cup dropped) ~>
            \/ s \notin Linked \/ s \in infinite \cup dropped
            \/ \E t \in Threads : tsub[t] = s /\ pc[t] = "renewing"

(* An asynchronous call that the send pool took is followed by its         *)
(* callback, whether the operation succeeds, fails or finds no client.     *)
AsyncAnswered ==
    <>[]Stuck \/ \A job \in AsyncCalls : job \in jobs ~> job \notin owed

-----------------------------------------------------------------------------
(* What the repository says of the code and the code does not do           *)

(* "The UPnP Library generates no more callbacks after this function       *)
(* returns." (upnp.h, of UpnpUnRegisterClient)                             *)
NoCallbackAfterUnregister ==
    [][\A t \in Threads : Callback(t) => registered]_vars

=============================================================================
