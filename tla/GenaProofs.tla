----------------------------- MODULE GenaProofs -----------------------------
(***************************************************************************)
(* Proofs about Gena, for any threads, subscriptions, timer ids and        *)
(* number of calls.                                                        *)
(***************************************************************************)
EXTENDS Gena, ListLemmas

LOCAL INSTANCE SequencesExt   \* ToSet, RemoveAt

(***************************************************************************)
(* The inductive invariant.                                                *)
(***************************************************************************)
(* How a thread came to its position, and that it has a subscription where *)
(* it needs one.                                                           *)
PlaceInv ==
    \A t \in Threads :
        /\ pc[t] = "idle" <=> how[t] = "none"
        /\ how[t] = "auto" => pc[t] \in {"renew", "renewing", "autoFailed", "callback"}
        /\ pc[t] = "autoFailed" => how[t] = "auto"
        /\ \/ tsub[t] \in Subs
           \/ pc[t] \in {"idle", "callback", "action", "mpost", "unregister", "unregisterEnd"}

(* An asynchronous call that a thread works on is owed a callback, is no   *)
(* longer in the queue, and no other thread works on it.                   *)
Job(t) == [op |-> how[t], sub |-> tsub[t]]
JobInv ==
    \A t \in Threads : how[t] \in AsyncOps =>
        /\ Job(t) \in owed \ jobs
        /\ \A u \in Threads : how[u] = how[t] /\ tsub[u] = tsub[t] => u = t

(* A subscription is in the list once, and only a client has a list. *)
LinkInv == Distinct(subList) /\ (~registered => subList = <<>>)

(* The timer event that a subscription names is its own, or is over. *)
IdInv ==
    \A s \in Subs, id \in TimerIds : renewEventId[s] = id => timers[id] \in {s, NoSub}

(* A subscription that is still asked for, or was never, is nowhere yet:   *)
(* it is not in the list, no SID of it is known, no timer event and no     *)
(* automatic renewal is for it.  Only one call asks for it.                *)
IsNew(s) ==
    /\ s \notin Linked /\ s \notin known
    /\ \A id \in TimerIds : timers[id] # s
    /\ \A t \in Threads : how[t] = "auto" => tsub[t] # s
Subscribes(t) == pc[t] \in {"subscribe", "badHandle", "subscribeLock", "subscribing"}
FreshInv ==
    /\ \A s \in Subs : s \notin used => IsNew(s)
    /\ \A s \in Subs : [op |-> "subscribe", sub |-> s] \in jobs =>
         IsNew(s) /\ s \in used /\ \A t \in Threads : Subscribes(t) => tsub[t] # s
    /\ \A t \in Threads : Subscribes(t) =>
         /\ IsNew(tsub[t]) /\ tsub[t] \in used
         /\ \A u \in Threads : Subscribes(u) /\ tsub[u] = tsub[t] => u = t

Inv == /\ TypeOK /\ LocksKept /\ PlaceInv /\ JobInv /\ LinkInv /\ IdInv /\ FreshInv
       /\ RenewalPending /\ FailedRenewalEnds

-----------------------------------------------------------------------------
(* A thread t moves to position w, with subscription s and in the way h. *)
Moves(t, w, s, h) ==
    /\ pc' = [pc EXCEPT ![t] = w]
    /\ tsub' = [tsub EXCEPT ![t] = s]
    /\ how' = [how EXCEPT ![t] = h]

ThreadTypes ==
    /\ pc \in [Threads -> {"idle", "subscribe", "badHandle", "subscribeLock",
                           "subscribing", "renew", "renewing", "autoFailed",
                           "callback", "unsubscribe", "unsubscribing",
                           "unregister", "unregistering", "unregisterEnd",
                           "action", "mpost"}]
    /\ tsub \in [Threads -> Subs \cup {NoSub}]
    /\ how \in [Threads -> {"none", "sync", "auto"} \cup AsyncOps]

(* How an operation that is over leaves its thread. *)
Leaves(t, failed) ==
    \/ how[t] \in AsyncOps /\ Moves(t, "callback", tsub[t], how[t])
    \/ how[t] = "auto" /\ failed /\ Moves(t, "autoFailed", tsub[t], "auto")
    \/ how[t] \notin AsyncOps /\ Moves(t, "idle", NoSub, "none")

(* Finish moves the thread out of its operation. *)
LEMMA FinishMoves ==
    ASSUME ThreadTypes, NEW t \in Threads, NEW failed \in BOOLEAN, Finish(t, failed)
    PROVE  Leaves(t, failed)
<1>1. CASE how[t] \in AsyncOps
  BY <1>1 DEF Finish, Leaves, Moves, Goto, ThreadTypes
<1>2. CASE how[t] \notin AsyncOps /\ how[t] = "auto" /\ failed
  BY <1>2 DEF Finish, Leaves, Moves, Goto, ThreadTypes
<1>3. CASE how[t] \notin AsyncOps /\ ~(how[t] = "auto" /\ failed)
  BY <1>3 DEF Finish, Leaves, Moves, Goto, Begin
<1>4. QED
  BY <1>1, <1>2, <1>3

(* Begin and Goto move the thread too. *)
LEMMA BeginMoves ==
    ASSUME ThreadTypes, NEW t \in Threads
    PROVE  /\ \A w, s, h : Begin(t, w, s, h) => Moves(t, w, s, h)
           /\ \A w : Goto(t, w) /\ UNCHANGED <<tsub, how>> => Moves(t, w, tsub[t], how[t])
           /\ UNCHANGED threadVars => Moves(t, pc[t], tsub[t], how[t])
BY DEF Begin, Moves, Goto, ThreadTypes, threadVars

(* Where a step takes its thread. *)
Move(t, w, s, h) ==
    \/ w = pc[t] /\ s = tsub[t] /\ h = how[t]
    \/ pc[t] = "idle" /\ w \in {"subscribe", "renew", "unsubscribe"} /\ s \in Subs /\ h = "sync"
    \/ pc[t] = "idle" /\ [op |-> w, sub |-> s] \in jobs /\ h = w
    \/ pc[t] = "idle" /\ w = "renew" /\ s \in Subs /\ h = "auto"
    \/ pc[t] \in {"idle", "unregistering"} /\ w = "unregister" /\ s = NoSub /\ h = "sync"
    \/ pc[t] = "unregister" /\ w = "unregistering" /\ s \in Subs /\ h = "sync"
    \/ /\ s = tsub[t] /\ h = how[t]
       /\ \/ pc[t] = "subscribe" /\ w \in {"subscribeLock", "badHandle"}
          \/ pc[t] = "subscribeLock" /\ w = "subscribing"
          \/ pc[t] = "renew" /\ w = "renewing"
          \/ pc[t] = "autoFailed" /\ w = "callback"
          \/ pc[t] = "unsubscribe" /\ w = "unsubscribing"
          \/ pc[t] = "unregister" /\ w = "unregisterEnd"
          \/ pc[t] = "action" /\ w = "mpost"
    \/ pc[t] \notin {"idle", "autoFailed"} /\ w = "callback" /\ s = tsub[t] /\ h = how[t]
       /\ how[t] \in AsyncOps
    \/ pc[t] = "renewing" /\ w = "autoFailed" /\ s = tsub[t] /\ how[t] = "auto" /\ h = "auto"
    \/ pc[t] # "idle" /\ w = "idle" /\ s = NoSub /\ h = "none"

(* Every step moves one thread, along the code. *)
LEMMA StepMoves ==
    ASSUME Inv, Next
    PROVE  \E t \in Threads : \E w, s, h : Moves(t, w, s, h) /\ Move(t, w, s, h)
<1> DEFINE Moved == \E t \in Threads : \E w, s, h : Moves(t, w, s, h) /\ Move(t, w, s, h)
<1> ThreadTypes
  BY DEF Inv, TypeOK, ThreadTypes
<1>1. ASSUME NEW t \in Threads, SubscribeCheck(t) PROVE Moved
  BY <1>1, FinishMoves, BeginMoves DEF SubscribeCheck, Moved, Leaves, Move
<1>2. ASSUME NEW t \in Threads, SubscribeBadHandle(t) PROVE Moved
  <2>1. how[t] # "auto"
    BY <1>2 DEF SubscribeBadHandle, Inv, PlaceInv
  <2>2. Finish(t, TRUE) \/ Finish(t, FALSE)
    BY <1>2 DEF SubscribeBadHandle
  <2>3. QED
    BY <1>2, <2>1, <2>2, FinishMoves DEF SubscribeBadHandle, Moved, Leaves, Move
<1>3. ASSUME NEW t \in Threads, SubscribeRequest(t) PROVE Moved
  BY <1>3, FinishMoves, BeginMoves DEF SubscribeRequest, Moved, Leaves, Move
<1>4. ASSUME NEW t \in Threads, SubscribeFails(t) PROVE Moved
  <2>1. how[t] # "auto"
    BY <1>4 DEF SubscribeFails, Inv, PlaceInv
  <2>2. Finish(t, TRUE) \/ Finish(t, FALSE)
    BY <1>4 DEF SubscribeFails
  <2>3. QED
    BY <1>4, <2>1, <2>2, FinishMoves DEF SubscribeFails, Moved, Leaves, Move
<1>5. ASSUME NEW t \in Threads, RenewBegin(t) PROVE Moved
  BY <1>5, FinishMoves, BeginMoves DEF RenewBegin, Moved, Leaves, Move
<1>6. ASSUME NEW t \in Threads, RenewFails(t) PROVE Moved
  BY <1>6, FinishMoves, BeginMoves DEF RenewFails, Moved, Leaves, Move
<1>7. ASSUME NEW t \in Threads, RenewTooLate(t) PROVE Moved
  BY <1>7, FinishMoves, BeginMoves DEF RenewTooLate, Moved, Leaves, Move
<1>8. ASSUME NEW t \in Threads, AutoRenewFailed(t) PROVE Moved
  BY <1>8, FinishMoves, BeginMoves DEF AutoRenewFailed, Moved, Leaves, Move
<1>9. ASSUME NEW t \in Threads, Callback(t) PROVE Moved
  BY <1>9, FinishMoves, BeginMoves DEF Callback, Moved, Leaves, Move
<1>10. ASSUME NEW t \in Threads, UnSubscribeBegin(t) PROVE Moved
  BY <1>10, FinishMoves, BeginMoves DEF UnSubscribeBegin, Moved, Leaves, Move
<1>11. ASSUME NEW t \in Threads, UnSubscribeEnd(t) PROVE Moved
  BY <1>11, FinishMoves, BeginMoves DEF UnSubscribeEnd, Moved, Leaves, Move
<1>12. ASSUME NEW t \in Threads, UnRegisterLoop(t) PROVE Moved
  <2>1. subList # <<>> => Head(subList) \in Subs
    BY TailElements DEF Inv, TypeOK
  <2>2. QED
    BY <1>12, <2>1, FinishMoves, BeginMoves DEF UnRegisterLoop, Moved, Leaves, Move
<1>13. ASSUME NEW t \in Threads, UnRegisterNext(t) PROVE Moved
  BY <1>13, FinishMoves, BeginMoves DEF UnRegisterNext, Moved, Leaves, Move
<1>14. ASSUME NEW t \in Threads, UnRegisterEnd(t) PROVE Moved
  BY <1>14, FinishMoves, BeginMoves DEF UnRegisterEnd, Moved, Leaves, Move
<1>15. ASSUME NEW t \in Threads, SoapSendAction(t) PROVE Moved
  BY <1>15, FinishMoves, BeginMoves DEF SoapSendAction, Moved, Leaves, Move
<1>16. ASSUME NEW t \in Threads, SoapSendMPost(t) PROVE Moved
  BY <1>16, FinishMoves, BeginMoves DEF SoapSendMPost, Moved, Leaves, Move
<1>17. ASSUME NEW t \in Threads, Register(t) PROVE Moved
  BY <1>17, FinishMoves, BeginMoves DEF Register, Moved, Leaves, Move
<1>18. ASSUME NEW t \in Threads, UnRegister(t) PROVE Moved
  BY <1>18, FinishMoves, BeginMoves DEF UnRegister, Moved, Leaves, Move
<1>19. ASSUME NEW t \in Threads, NEW timeout \in Timeouts, NEW ok \in BOOLEAN, SubscribeLinks(t, timeout, ok)
      PROVE  Moved
  <2>1. how[t] # "auto"
    BY <1>19 DEF SubscribeLinks, Inv, PlaceInv
  <2>2. Finish(t, TRUE) \/ Finish(t, FALSE)
    BY <1>19 DEF SubscribeLinks
  <2>3. QED
    BY <1>19, <2>1, <2>2, FinishMoves DEF SubscribeLinks, Moved, Leaves, Move
<1>20. ASSUME NEW t \in Threads, NEW timeout \in Timeouts, NEW ok \in BOOLEAN, RenewSucceeds(t, timeout, ok)
      PROVE  Moved
  BY <1>20, FinishMoves, BeginMoves DEF RenewSucceeds, Moved, Leaves, Move
<1>21. ASSUME NEW t \in Threads, NEW s \in Subs, NEW op \in {"subscribe", "renew", "unsubscribe"},
              Call(t, op, s)
      PROVE  Moved
  BY <1>21, FinishMoves, BeginMoves DEF Call, Moved, Leaves, Move
<1>22. ASSUME NEW t \in Threads, NEW s \in Subs, NEW op \in {"subscribe", "renew", "unsubscribe"},
              NEW ok \in BOOLEAN, CallAsync(t, op, s, ok)
      PROVE  Moved
  BY <1>22, FinishMoves, BeginMoves DEF CallAsync, Moved, Leaves, Move
<1>23. ASSUME NEW t \in Threads, NEW ok \in BOOLEAN, UpnpSendActionAsync(t, ok) PROVE Moved
  BY <1>23, FinishMoves, BeginMoves DEF UpnpSendActionAsync, Moved, Leaves, Move
<1>24. ASSUME NEW t \in Threads, NEW job \in jobs, TakeJob(t, job) PROVE Moved
  <2>1. job = [op |-> job.op, sub |-> job.sub]
    BY DEF Inv, TypeOK, AsyncCalls
  <2>2. Moves(t, job.op, job.sub, job.op) /\ pc[t] = "idle"
    BY <1>24, BeginMoves DEF TakeJob
  <2>3. QED
    BY <2>1, <2>2 DEF Moved, Move
<1>25. ASSUME NEW t \in Threads, NEW id \in TimerIds, AutoRenew(t, id) PROVE Moved
  <2>1. timers[id] \in Subs
    BY <1>25 DEF AutoRenew, Inv, TypeOK
  <2>2. QED
    BY <1>25, <2>1, BeginMoves DEF AutoRenew, Moved, Move
<1>26. ASSUME NEW t \in Threads, NEW id \in TimerIds, AutoRenewDropped(id) PROVE Moved
  BY <1>26, BeginMoves DEF AutoRenewDropped, Moved, Move
<1>27. QED
  BY <1>1, <1>2, <1>3, <1>4, <1>5, <1>6, <1>7, <1>8, <1>9, <1>10, <1>11, <1>12, <1>13,
     <1>14, <1>15, <1>16, <1>17, <1>18, <1>19, <1>20, <1>21, <1>22, <1>23,
     <1>24, <1>25, <1>26
     DEF Next, ThreadStep, UpnpSubscribe, UpnpRenewSubscription, UpnpUnSubscribe,
         UpnpSubscribeAsync, UpnpRenewSubscriptionAsync, UpnpUnSubscribeAsync

(* Every step leaves every thread with a way to its position. *)
LEMMA PlaceStep ==
    ASSUME Inv, Next
    PROVE  PlaceInv' /\ ThreadTypes'
<1>1. PICK t \in Threads : \E w, s, h : Moves(t, w, s, h) /\ Move(t, w, s, h)
  BY StepMoves
<1>2. PICK w, s, h : Moves(t, w, s, h) /\ Move(t, w, s, h)
  BY <1>1
<1>3. ThreadTypes /\ PlaceInv /\ NoSub \notin Subs
  BY GenaAssumption DEF Inv, TypeOK, ThreadTypes
<1>4. [op |-> w, sub |-> s] \in jobs =>
        /\ w \in AsyncOps /\ s \in Subs \cup {NoSub} /\ (w = "action" <=> s = NoSub)
  BY DEF Inv, TypeOK, AsyncCalls
<1>5. /\ w = "idle" <=> h = "none"
      /\ h = "auto" => w \in {"renew", "renewing", "autoFailed", "callback"}
      /\ w = "autoFailed" => h = "auto"
      /\ \/ s \in Subs
         \/ w \in {"idle", "callback", "action", "mpost", "unregister", "unregisterEnd"}
  BY <1>2, <1>3, <1>4 DEF Move, PlaceInv, ThreadTypes, AsyncOps
<1>6. /\ w \in {"idle", "subscribe", "badHandle", "subscribeLock",
                "subscribing", "renew", "renewing", "autoFailed",
                "callback", "unsubscribe", "unsubscribing",
                "unregister", "unregistering", "unregisterEnd",
                "action", "mpost"}
      /\ s \in Subs \cup {NoSub}
      /\ h \in {"none", "sync", "auto"} \cup AsyncOps
  BY <1>2, <1>3, <1>4 DEF Move, ThreadTypes, AsyncOps
<1>7. ThreadTypes'
  BY <1>2, <1>3, <1>6 DEF Moves, ThreadTypes
<1>8. PlaceInv'
  BY <1>2, <1>3, <1>5 DEF Moves, PlaceInv, ThreadTypes
<1>9. QED
  BY <1>7, <1>8

(* Finish leaves the operation. *)
LEMMA FinishPc ==
    ASSUME NEW t, NEW failed, Finish(t, failed)
    PROVE  \E w \in {"callback", "autoFailed", "idle"} : pc' = [pc EXCEPT ![t] = w]
BY DEF Finish, Goto, Begin

(* Every step keeps SubscribeLock and HandleReadLock with the threads that *)
(* are where the code keeps them.                                          *)
LEMMA LocksStep ==
    ASSUME Inv, Next
    PROVE  LocksKept'
<1> ThreadTypes /\ LocksKept /\ PlaceInv /\ NoThread \notin Threads
  BY GenaAssumption DEF Inv, TypeOK, ThreadTypes
<1> USE DEF ThreadTypes, lockVars
<1>0. ASSUME NEW t \in Threads, NEW w, pc' = [pc EXCEPT ![t] = w], UNCHANGED lockVars,
             w \notin {"subscribing", "badHandle"},
             pc[t] \notin {"subscribing", "badHandle"}
      PROVE  LocksKept'
  BY <1>0 DEF LocksKept
<1>1. ASSUME NEW t \in Threads, SubscribeCheck(t) PROVE LocksKept'
  <2>1. \/ pc' = [pc EXCEPT ![t] = "badHandle"] /\ readers' = readers \cup {t}
        \/ pc' = [pc EXCEPT ![t] = "subscribeLock"] /\ readers' = readers
    BY <1>1 DEF SubscribeCheck, Goto
  <2>2. QED
    BY <1>1, <2>1 DEF SubscribeCheck, LocksKept
<1>2. ASSUME NEW t \in Threads, SubscribeBadHandle(t) PROVE LocksKept'
  <2>1. PICK w \in {"callback", "autoFailed", "idle"} : pc' = [pc EXCEPT ![t] = w]
    BY <1>2, FinishPc DEF SubscribeBadHandle
  <2>2. QED
    BY <1>2, <2>1 DEF SubscribeBadHandle, LocksKept
<1>3. ASSUME NEW t \in Threads, SubscribeRequest(t) PROVE LocksKept'
  BY <1>3, FinishPc DEF SubscribeRequest, Goto, Begin, LocksKept
<1>4. ASSUME NEW t \in Threads, SubscribeFails(t) PROVE LocksKept'
  <2>1. PICK w \in {"callback", "autoFailed", "idle"} : pc' = [pc EXCEPT ![t] = w]
    BY <1>4, FinishPc DEF SubscribeFails
  <2>2. QED
    BY <1>4, <2>1 DEF SubscribeFails, LocksKept
<1>5. ASSUME NEW t \in Threads, RenewBegin(t) PROVE LocksKept'
  BY <1>5, <1>0, FinishPc DEF RenewBegin, Goto, Begin
<1>6. ASSUME NEW t \in Threads, RenewFails(t) PROVE LocksKept'
  BY <1>6, <1>0, FinishPc DEF RenewFails, Goto, Begin
<1>7. ASSUME NEW t \in Threads, RenewTooLate(t) PROVE LocksKept'
  BY <1>7, <1>0, FinishPc DEF RenewTooLate, Goto, Begin
<1>8. ASSUME NEW t \in Threads, AutoRenewFailed(t) PROVE LocksKept'
  BY <1>8, <1>0, FinishPc DEF AutoRenewFailed, Goto, Begin
<1>9. ASSUME NEW t \in Threads, Callback(t) PROVE LocksKept'
  BY <1>9, <1>0, FinishPc DEF Callback, Goto, Begin
<1>10. ASSUME NEW t \in Threads, UnSubscribeBegin(t) PROVE LocksKept'
  BY <1>10, <1>0, FinishPc DEF UnSubscribeBegin, Goto, Begin
<1>11. ASSUME NEW t \in Threads, UnSubscribeEnd(t) PROVE LocksKept'
  BY <1>11, <1>0, FinishPc DEF UnSubscribeEnd, Goto, Begin
<1>12. ASSUME NEW t \in Threads, UnRegisterLoop(t) PROVE LocksKept'
  <2>1. PICK w \in {"callback", "autoFailed", "idle", "unregisterEnd", "unregistering"} :
          pc' = [pc EXCEPT ![t] = w]
    BY <1>12, FinishPc DEF UnRegisterLoop, Goto, Begin
  <2>2. QED
    BY <1>12, <2>1, <1>0 DEF UnRegisterLoop
<1>13. ASSUME NEW t \in Threads, UnRegisterNext(t) PROVE LocksKept'
  <2>1. pc' = [pc EXCEPT ![t] = "unregister"]
    BY <1>13 DEF UnRegisterNext, Goto, Begin
  <2>2. QED
    BY <1>13, <2>1 DEF UnRegisterNext, LocksKept
<1>14. ASSUME NEW t \in Threads, UnRegisterEnd(t) PROVE LocksKept'
  BY <1>14, <1>0, FinishPc DEF UnRegisterEnd, Goto, Begin
<1>15. ASSUME NEW t \in Threads, SoapSendAction(t) PROVE LocksKept'
  BY <1>15, <1>0, FinishPc DEF SoapSendAction, Goto, Begin
<1>16. ASSUME NEW t \in Threads, SoapSendMPost(t) PROVE LocksKept'
  BY <1>16, <1>0, FinishPc DEF SoapSendMPost, Goto, Begin
<1>17. ASSUME NEW t \in Threads, Register(t) PROVE LocksKept'
  BY <1>17 DEF Register, threadVars, LocksKept
<1>18. ASSUME NEW t \in Threads, UnRegister(t) PROVE LocksKept'
  BY <1>18, <1>0, FinishPc DEF UnRegister, Goto, Begin
<1>19. ASSUME NEW t \in Threads, NEW timeout \in Timeouts, NEW ok \in BOOLEAN, SubscribeLinks(t, timeout, ok)
      PROVE  LocksKept'
  <2>1. PICK w \in {"callback", "autoFailed", "idle"} : pc' = [pc EXCEPT ![t] = w]
    BY <1>19, FinishPc DEF SubscribeLinks
  <2>2. QED
    BY <1>19, <2>1 DEF SubscribeLinks, LocksKept
<1>20. ASSUME NEW t \in Threads, NEW timeout \in Timeouts, NEW ok \in BOOLEAN, RenewSucceeds(t, timeout, ok)
      PROVE  LocksKept'
  BY <1>20, <1>0, FinishPc DEF RenewSucceeds, Goto, Begin
<1>21. ASSUME NEW t \in Threads, NEW s \in Subs, NEW op \in {"subscribe", "renew", "unsubscribe"},
              Call(t, op, s)
      PROVE  LocksKept'
  BY <1>21, <1>0, FinishPc DEF Call, Goto, Begin
<1>22. ASSUME NEW t \in Threads, NEW s \in Subs, NEW op \in {"subscribe", "renew", "unsubscribe"},
              NEW ok \in BOOLEAN, CallAsync(t, op, s, ok)
      PROVE  LocksKept'
  BY <1>22 DEF CallAsync, threadVars, LocksKept
<1>23. ASSUME NEW t \in Threads, NEW ok \in BOOLEAN, UpnpSendActionAsync(t, ok) PROVE LocksKept'
  BY <1>23 DEF UpnpSendActionAsync, threadVars, LocksKept
<1>24. ASSUME NEW t \in Threads, NEW job \in jobs, TakeJob(t, job) PROVE LocksKept'
  <2>1. job.op \in AsyncOps
    BY DEF Inv, TypeOK, AsyncCalls
  <2>2. QED
    BY <1>24, <2>1, <1>0 DEF TakeJob, Goto, Begin, AsyncOps
<1>25. ASSUME NEW t \in Threads, NEW id \in TimerIds, AutoRenew(t, id) PROVE LocksKept'
  BY <1>25, <1>0, FinishPc DEF AutoRenew, Goto, Begin
<1>26. ASSUME NEW t \in Threads, NEW id \in TimerIds, AutoRenewDropped(id) PROVE LocksKept'
  BY <1>26 DEF AutoRenewDropped, threadVars, LocksKept
<1> HIDE DEF ThreadTypes, lockVars
<1>27. QED
  BY <1>1, <1>2, <1>3, <1>4, <1>5, <1>6, <1>7, <1>8, <1>9, <1>10, <1>11, <1>12, <1>13,
     <1>14, <1>15, <1>16, <1>17, <1>18, <1>19, <1>20, <1>21, <1>22, <1>23,
     <1>24, <1>25, <1>26
     DEF Next, ThreadStep, UpnpSubscribe, UpnpRenewSubscription, UpnpUnSubscribe,
         UpnpSubscribeAsync, UpnpRenewSubscriptionAsync, UpnpUnSubscribeAsync

-----------------------------------------------------------------------------
(* What a step does to the list and to the timer events: nothing, the list *)
(* goes with its client, timer events of s are over or the pool did not    *)
(* take one, subscription s goes, its next renewal is scheduled, or it     *)
(* becomes the head of the list.                                           *)
Kept ==
    UNCHANGED <<registered, subList, renewEventId, freed, infinite, dropped, known, timers>>
Emptied == /\ subList' = <<>> /\ registered' \in BOOLEAN
           /\ UNCHANGED <<renewEventId, freed, infinite, dropped, known, timers>>
Loses(s) ==
    /\ timers' \in [TimerIds -> Subs \cup {NoSub}]
    /\ renewEventId' \in [Subs -> TimerIds \cup {NoTimer}]
    /\ \A id \in TimerIds : timers'[id] = timers[id] \/ (timers'[id] = NoSub /\ timers[id] = s)
    /\ \A r \in Subs : renewEventId'[r] \in {renewEventId[r], NoTimer}
    /\ UNCHANGED <<registered, freed, infinite, known>>
Clears(s) == Loses(s) /\ UNCHANGED <<subList, dropped>>
Drops(s) == Loses(s) /\ UNCHANGED subList /\ dropped' = dropped \cup {s}
Removes(s) == /\ Loses(s) /\ registered /\ UNCHANGED dropped
              /\ subList' \in Seq(Subs) /\ Distinct(subList') /\ Linked' = Linked \ {s}
Timed(s) ==
    /\ timers' \in [TimerIds -> Subs \cup {NoSub}]
    /\ renewEventId' \in [Subs -> TimerIds \cup {NoTimer}] /\ infinite' \subseteq Subs
    /\ dropped' \subseteq Subs
    /\ \A id \in TimerIds : timers'[id] = timers[id] \/ (timers'[id] = s /\ timers[id] = NoSub)
    /\ \A r \in Subs, id \in TimerIds : renewEventId'[r] = id => timers'[id] \in {r, NoSub}
    /\ s \in infinite' \/ \E id \in TimerIds : timers'[id] = s
    /\ \A r \in Subs : 
         r # s => (r \in infinite' <=> r \in infinite) /\ (r \in dropped' <=> r \in dropped)
Schedules(s) == Timed(s) /\ s \in Linked /\ UNCHANGED <<registered, subList, freed, known>>
Links(s) ==
    /\ registered /\ registered' = registered /\ subList' = <<s>> \o subList /\ s \in Subs
    /\ \/ Timed(s) /\ known' = known \cup {s} /\ UNCHANGED freed
       \/ freed' = freed \cup {s} /\ UNCHANGED <<timers, renewEventId, infinite, dropped, known>>

(* TimerThreadRemove of the id that s names removes only an event of s. *)
LEMMA LosesRight ==
    ASSUME Inv, NEW s \in Subs, timers' = TimersWithout(renewEventId[s]),
           renewEventId' = [renewEventId EXCEPT ![s] = NoTimer],
           UNCHANGED <<registered, freed, infinite, known>>
    PROVE  Loses(s)
<1>1. /\ timers \in [TimerIds -> Subs \cup {NoSub}]
      /\ renewEventId \in [Subs -> TimerIds \cup {NoTimer}]
  BY DEF Inv, TypeOK
<1>2. ASSUME NEW id \in TimerIds
      PROVE  timers'[id] = timers[id] \/ (timers'[id] = NoSub /\ timers[id] = s)
  BY <1>1, <1>2 DEF Inv, IdInv, TimersWithout
<1>3. timers' \in [TimerIds -> Subs \cup {NoSub}]
  BY <1>1 DEF TimersWithout
<1>4. QED
  BY <1>1, <1>2, <1>3 DEF Loses

(* RemoveClientSubClientSID takes the subscription out of the list. *)
LEMMA RemovesRight ==
    ASSUME Inv, NEW s \in Subs, RemoveSub(s), registered,
           UNCHANGED <<registered, freed, infinite, dropped, known>>
    PROVE  Removes(s)
<1>1. /\ timers \in [TimerIds -> Subs \cup {NoSub}]
      /\ renewEventId \in [Subs -> TimerIds \cup {NoTimer}]
      /\ subList \in Seq(Subs) /\ Distinct(subList)
  BY DEF Inv, TypeOK, LinkInv
<1>2. CASE s \notin Linked
  BY <1>1, <1>2 DEF RemoveSub, Removes, Loses, Linked
<1>3. CASE s \in Linked
  <2>1. PICK i \in 1 .. Len(subList) : subList[i] = s /\ subList' = RemoveAt(subList, i)
    BY <1>3 DEF RemoveSub
  <2>2. /\ ToSet(RemoveAt(subList, i)) = ToSet(subList) \ {subList[i]}
        /\ Distinct(RemoveAt(subList, i)) /\ RemoveAt(subList, i) \in Seq(Subs)
    BY <1>1, RemoveAtMembers, RemoveAtElements
  <2>3. Loses(s)
    BY <1>3, LosesRight DEF RemoveSub
  <2>4. QED
    BY <2>1, <2>2, <2>3 DEF Removes, Linked
<1>4. QED
  BY <1>2, <1>3

(* ScheduleGenaAutoRenew gives a subscription a timer event of its own. *)
LEMMA TimedRight ==
    ASSUME Inv, NEW s \in Subs, NEW timeout, ScheduleGenaAutoRenew(s, timeout)
    PROVE  Timed(s)
<1>1. /\ timers \in [TimerIds -> Subs \cup {NoSub}] /\ infinite \subseteq Subs
      /\ dropped \subseteq Subs
      /\ renewEventId \in [Subs -> TimerIds \cup {NoTimer}] /\ IdInv /\ NoTimer \notin TimerIds
  BY GenaAssumption DEF Inv, TypeOK
<1>2. CASE timeout = "infinite"
  BY <1>1, <1>2 DEF ScheduleGenaAutoRenew, Timed, IdInv
<1>3. CASE timeout # "infinite"
  <2>1. PICK id \in TimerIds :
          /\ timers[id] = NoSub /\ \A r \in Subs : renewEventId[r] # id
          /\ timers' = [timers EXCEPT ![id] = s]
          /\ renewEventId' = [renewEventId EXCEPT ![s] = id] /\ infinite' = infinite \ {s}
          /\ dropped' = dropped \ {s}
    BY <1>3 DEF ScheduleGenaAutoRenew, NewTimerId, Unused
  <2>2. \A r \in Subs, i \in TimerIds : renewEventId'[r] = i => timers'[i] \in {r, NoSub}
    BY <1>1, <2>1 DEF IdInv
  <2>3. QED
    BY <1>1, <2>1, <2>2 DEF Timed
<1>4. QED
  BY <1>2, <1>3

(* All threads but t stay where they are. *)
Others(t) ==
    \A u \in Threads : u # t => pc'[u] = pc[u] /\ tsub'[u] = tsub[u] /\ how'[u] = how[u]

(* What the step of thread t does.  A thread leaves its renewal only when  *)
(* the subscription is gone or its next renewal is scheduled, and goes on  *)
(* with an automatic renewal only when it failed.                          *)
Effect(t) ==
    \/ /\ Kept \/ Emptied
       /\ pc[t] \in {"renew", "renewing"} => tsub[t] \notin Linked
       /\ how'[t] = "auto" => how[t] = "auto" /\ pc[t] = "autoFailed" /\ tsub'[t] = tsub[t]
    \/ /\ pc'[t] \in {"renew", "renewing"} /\ tsub'[t] \in Subs /\ Clears(tsub'[t])
       /\ \/ pc[t] = "idle" /\ \E id \in TimerIds : timers[id] = tsub'[t]
          \/ pc[t] = "renew" /\ tsub'[t] = tsub[t] /\ how'[t] = how[t]
    \/ \E s \in Subs :
         /\ Removes(s) /\ (pc[t] \in {"renew", "renewing"} => s = tsub[t])
         /\ how'[t] = "auto" => how[t] = "auto" /\ s = tsub[t] /\ tsub'[t] = s
    \/ /\ \E s \in Subs : Drops(s)
       /\ pc'[t] = pc[t] /\ tsub'[t] = tsub[t] /\ how'[t] = how[t]
    \/ Schedules(tsub[t]) /\ pc[t] = "renewing" /\ how'[t] # "auto"
    \/ /\ Links(tsub[t]) /\ pc[t] = "subscribing" /\ how'[t] # "auto"
       /\ pc'[t] \in {"callback", "autoFailed", "idle"}

(* Where Begin and Goto leave a thread. *)
LEMMA BeginTo ==
    ASSUME ThreadTypes, NEW t \in Threads
    PROVE  /\ \A w, s, h : Begin(t, w, s, h) =>
                Others(t) /\ pc'[t] = w /\ tsub'[t] = s /\ how'[t] = h
           /\ \A w : Goto(t, w) /\ UNCHANGED <<tsub, how>> =>
                Others(t) /\ pc'[t] = w /\ tsub'[t] = tsub[t] /\ how'[t] = how[t]
BY DEF Begin, Goto, ThreadTypes, Others

(* Where Finish leaves a thread. *)
LEMMA FinishTo ==
    ASSUME ThreadTypes, NEW t \in Threads, NEW failed \in BOOLEAN, Finish(t, failed)
    PROVE  /\ Others(t)
           /\ how'[t] = "auto" => failed /\ how[t] = "auto" /\ tsub'[t] = tsub[t]
           /\ how'[t] = "none" \/ (how'[t] = how[t] /\ tsub'[t] = tsub[t])
           /\ pc'[t] \in {"callback", "autoFailed", "idle"}
<1>1. Leaves(t, failed)
  BY FinishMoves
<1>2. QED
  BY <1>1 DEF Leaves, Moves, ThreadTypes, Others, AsyncOps

(* What each step does to the list, the timer events and its thread. *)
LEMMA StepEffects ==
    ASSUME Inv, Next
    PROVE  \E t \in Threads : Others(t) /\ Effect(t)
<1> DEFINE Moved == \E t \in Threads : Others(t) /\ Effect(t)
<1> ThreadTypes /\ PlaceInv
  BY DEF Inv, TypeOK, ThreadTypes
<1>0. ~registered => Linked = {}
  BY DEF Inv, LinkInv, Linked, ToSet
<1>1. ASSUME NEW t \in Threads, SubscribeCheck(t) PROVE Moved
  <2>1. how[t] # "auto"
    BY <1>1 DEF SubscribeCheck, PlaceInv
  <2>2. Others(t) /\ how'[t] # "auto"
    BY <1>1, <2>1, BeginTo DEF SubscribeCheck
  <2>3. QED
    BY <1>1, <2>2 DEF SubscribeCheck, clientVars, Moved, Effect, Kept
<1>2. ASSUME NEW t \in Threads, SubscribeBadHandle(t) PROVE Moved
  <2>1. Kept /\ (pc[t] \in {"renew", "renewing"} => tsub[t] \notin Linked)
    BY <1>2, <1>0 DEF SubscribeBadHandle, clientVars, Kept
  <2>2. Others(t) /\ how'[t] # "auto"
    BY <1>2, FinishTo, BeginTo DEF SubscribeBadHandle, PlaceInv
  <2>3. QED
    BY <2>1, <2>2 DEF Moved, Effect
<1>3. ASSUME NEW t \in Threads, SubscribeRequest(t) PROVE Moved
  <2>1. how[t] # "auto"
    BY <1>3 DEF SubscribeRequest, PlaceInv
  <2>2. Others(t) /\ how'[t] # "auto"
    BY <1>3, <2>1, BeginTo DEF SubscribeRequest
  <2>3. QED
    BY <1>3, <2>2 DEF SubscribeRequest, clientVars, Moved, Effect, Kept
<1>4. ASSUME NEW t \in Threads, SubscribeFails(t) PROVE Moved
  <2>1. Kept /\ (pc[t] \in {"renew", "renewing"} => tsub[t] \notin Linked)
    BY <1>4, <1>0 DEF SubscribeFails, clientVars, Kept
  <2>2. Others(t) /\ how'[t] # "auto"
    BY <1>4, FinishTo, BeginTo DEF SubscribeFails, PlaceInv
  <2>3. QED
    BY <2>1, <2>2 DEF Moved, Effect
<1>5. ASSUME NEW t \in Threads, RenewBegin(t) PROVE Moved
  <2>1. CASE ~registered \/ tsub[t] \notin Linked
    <3>1. Finish(t, FALSE) /\ Kept /\ tsub[t] \notin Linked
      BY <1>5, <2>1, <1>0 DEF RenewBegin, Kept
    <3>2. Others(t) /\ how'[t] # "auto"
      BY <3>1, FinishTo
    <3>3. QED
      BY <3>1, <3>2 DEF Moved, Effect
  <2>2. CASE registered /\ tsub[t] \in Linked
    <3>1. tsub[t] \in Subs
      BY <1>5 DEF RenewBegin, PlaceInv
    <3>2. Clears(tsub[t])
      BY <1>5, <2>2, <3>1, LosesRight DEF RenewBegin, Clears
    <3>3. Others(t) /\ pc'[t] = "renewing" /\ tsub'[t] = tsub[t] /\ how'[t] = how[t]
      BY <1>5, <2>2, BeginTo DEF RenewBegin
    <3>4. QED
      BY <3>1, <3>2, <3>3, <1>5 DEF Moved, Effect, RenewBegin
  <2>3. QED
    BY <2>1, <2>2
<1>6. ASSUME NEW t \in Threads, RenewFails(t) PROVE Moved
  <2>1. tsub[t] \in Subs
    BY <1>6 DEF RenewFails, PlaceInv
  <2>2. Removes(tsub[t])
    BY <1>6, <2>1, RemovesRight DEF RenewFails
  <2>3. Others(t) /\ (how'[t] = "auto" => how[t] = "auto" /\ tsub'[t] = tsub[t])
    BY <1>6, FinishTo DEF RenewFails
  <2>4. QED
    BY <2>1, <2>2, <2>3 DEF Moved, Effect
<1>7. ASSUME NEW t \in Threads, RenewTooLate(t) PROVE Moved
  <2>1. Kept /\ (pc[t] \in {"renew", "renewing"} => tsub[t] \notin Linked)
    BY <1>7, <1>0 DEF RenewTooLate, clientVars, Kept
  <2>2. Others(t) /\ how'[t] # "auto"
    BY <1>7, FinishTo, BeginTo DEF RenewTooLate, PlaceInv
  <2>3. QED
    BY <2>1, <2>2 DEF Moved, Effect
<1>8. ASSUME NEW t \in Threads, AutoRenewFailed(t) PROVE Moved
  BY <1>8, BeginTo, FinishTo DEF AutoRenewFailed, clientVars, Moved, Effect, Kept
<1>9. ASSUME NEW t \in Threads, Callback(t) PROVE Moved
  BY <1>9, BeginTo, FinishTo DEF Callback, clientVars, Moved, Effect, Kept
<1>10. ASSUME NEW t \in Threads, UnSubscribeBegin(t) PROVE Moved
  <2>1. Kept /\ (pc[t] \in {"renew", "renewing"} => tsub[t] \notin Linked)
    BY <1>10, <1>0 DEF UnSubscribeBegin, clientVars, Kept
  <2>2. Others(t) /\ how'[t] # "auto"
    BY <1>10, FinishTo, BeginTo DEF UnSubscribeBegin, PlaceInv
  <2>3. QED
    BY <2>1, <2>2 DEF Moved, Effect
<1>11. ASSUME NEW t \in Threads, UnSubscribeEnd(t) PROVE Moved
  <2>1. tsub[t] \in Subs /\ how[t] # "auto"
    BY <1>11 DEF UnSubscribeEnd, PlaceInv
  <2>2. Others(t) /\ how'[t] # "auto"
    BY <1>11, <2>1, FinishTo DEF UnSubscribeEnd
  <2>3. CASE registered
    <3>1. Removes(tsub[t])
      BY <1>11, <2>1, <2>3, RemovesRight DEF UnSubscribeEnd
    <3>2. QED
      BY <2>1, <2>2, <3>1 DEF Moved, Effect
  <2>4. CASE ~registered
    <3>1. Kept
      BY <1>11, <2>4 DEF UnSubscribeEnd, Kept
    <3>2. QED
      BY <1>11, <2>2, <3>1 DEF UnSubscribeEnd, Moved, Effect
  <2>5. QED
    BY <2>3, <2>4
<1>12. ASSUME NEW t \in Threads, UnRegisterLoop(t) PROVE Moved
  <2>1. how[t] # "auto"
    BY <1>12 DEF UnRegisterLoop, PlaceInv
  <2>2. CASE Finish(t, FALSE) /\ UNCHANGED <<subList, renewEventId, timers>>
    <3>1. Others(t) /\ how'[t] # "auto"
      BY <2>2, FinishTo
    <3>2. QED
      BY <1>12, <2>2, <3>1 DEF UnRegisterLoop, Moved, Effect, Kept
  <2>3. CASE Goto(t, "unregisterEnd") /\ UNCHANGED <<subList, renewEventId, timers, tsub, how>>
    <3>1. Others(t) /\ how'[t] # "auto"
      BY <2>1, <2>3, BeginTo
    <3>2. QED
      BY <1>12, <2>3, <3>1 DEF UnRegisterLoop, Moved, Effect, Kept
  <2>4. CASE /\ registered /\ subList # <<>> /\ RemoveSub(Head(subList))
             /\ Begin(t, "unregistering", Head(subList), "sync")
    <3>1. Head(subList) \in Subs
      BY <2>4, TailElements DEF Inv, TypeOK
    <3>2. Removes(Head(subList))
      BY <1>12, <2>4, <3>1, RemovesRight DEF UnRegisterLoop
    <3>3. Others(t) /\ how'[t] # "auto"
      BY <2>4, BeginTo
    <3>4. QED
      BY <1>12, <3>1, <3>2, <3>3 DEF UnRegisterLoop, Moved, Effect
  <2>5. QED
    BY <1>12, <2>2, <2>3, <2>4 DEF UnRegisterLoop
<1>13. ASSUME NEW t \in Threads, UnRegisterNext(t) PROVE Moved
  BY <1>13, BeginTo, FinishTo DEF UnRegisterNext, clientVars, Moved, Effect, Kept
<1>14. ASSUME NEW t \in Threads, UnRegisterEnd(t) PROVE Moved
  <2>1. Emptied /\ pc[t] \notin {"renew", "renewing"}
    BY <1>14 DEF UnRegisterEnd, Emptied
  <2>2. Others(t) /\ how'[t] # "auto"
    BY <1>14, FinishTo DEF UnRegisterEnd, PlaceInv
  <2>3. QED
    BY <2>1, <2>2 DEF Moved, Effect
<1>15. ASSUME NEW t \in Threads, SoapSendAction(t) PROVE Moved
  <2>1. Kept /\ (pc[t] \in {"renew", "renewing"} => tsub[t] \notin Linked)
    BY <1>15, <1>0 DEF SoapSendAction, clientVars, Kept
  <2>2. Others(t) /\ how'[t] # "auto"
    BY <1>15, FinishTo, BeginTo DEF SoapSendAction, PlaceInv
  <2>3. QED
    BY <2>1, <2>2 DEF Moved, Effect
<1>16. ASSUME NEW t \in Threads, SoapSendMPost(t) PROVE Moved
  <2>1. Kept /\ (pc[t] \in {"renew", "renewing"} => tsub[t] \notin Linked)
    BY <1>16, <1>0 DEF SoapSendMPost, clientVars, Kept
  <2>2. Others(t) /\ how'[t] # "auto"
    BY <1>16, FinishTo, BeginTo DEF SoapSendMPost, PlaceInv
  <2>3. QED
    BY <2>1, <2>2 DEF Moved, Effect
<1>17. ASSUME NEW t \in Threads, Register(t) PROVE Moved
  <2>1. Emptied /\ how[t] # "auto" /\ pc[t] = "idle"
    BY <1>17 DEF Register, Emptied, PlaceInv
  <2>2. Others(t) /\ how'[t] = how[t]
    BY <1>17 DEF Register, threadVars, Others
  <2>3. QED
    BY <2>1, <2>2 DEF Moved, Effect
<1>18. ASSUME NEW t \in Threads, UnRegister(t) PROVE Moved
  BY <1>18, BeginTo, FinishTo DEF UnRegister, clientVars, Moved, Effect, Kept
<1>19. ASSUME NEW t \in Threads, NEW timeout \in Timeouts, NEW ok \in BOOLEAN, SubscribeLinks(t, timeout, ok)
      PROVE  Moved
  <2>1. tsub[t] \in Subs /\ how[t] # "auto"
    BY <1>19 DEF SubscribeLinks, PlaceInv
  <2>2. Links(tsub[t])
    BY <1>19, <2>1, TimedRight DEF SubscribeLinks, Links
  <2>3. Others(t) /\ how'[t] # "auto" /\ pc'[t] \in {"callback", "autoFailed", "idle"}
    BY <1>19, <2>1, FinishTo DEF SubscribeLinks
  <2>4. QED
    BY <1>19, <2>1, <2>2, <2>3 DEF Moved, Effect, SubscribeLinks
<1>20. ASSUME NEW t \in Threads, NEW timeout \in Timeouts, NEW ok \in BOOLEAN, RenewSucceeds(t, timeout, ok)
      PROVE  Moved
  <2>1. tsub[t] \in Subs
    BY <1>20 DEF RenewSucceeds, PlaceInv
  <2>2. CASE ~ok
    <3>1. Removes(tsub[t])
      BY <1>20, <2>1, <2>2, RemovesRight DEF RenewSucceeds
    <3>2. Others(t) /\ (how'[t] = "auto" => how[t] = "auto" /\ tsub'[t] = tsub[t])
      BY <1>20, <2>2, FinishTo DEF RenewSucceeds
    <3>3. QED
      BY <2>1, <3>1, <3>2 DEF Moved, Effect
  <2>3. CASE ok
    <3>1. Timed(tsub[t])
      BY <1>20, <2>1, <2>3, TimedRight DEF RenewSucceeds
    <3>2. Schedules(tsub[t])
      BY <1>20, <2>3, <3>1 DEF RenewSucceeds, Schedules
    <3>3. Others(t) /\ how'[t] # "auto"
      <4>1. Finish(t, FALSE)
        BY <1>20, <2>3, Zenon DEF RenewSucceeds
      <4>2. QED
        BY <4>1, FinishTo
    <3>4. QED
      BY <1>20, <2>1, <3>2, <3>3 DEF Moved, Effect, RenewSucceeds
  <2>4. QED
    BY <2>2, <2>3
<1>21. ASSUME NEW t \in Threads, NEW s \in Subs, NEW op \in {"subscribe", "renew", "unsubscribe"},
              Call(t, op, s)
      PROVE  Moved
  BY <1>21, BeginTo, FinishTo DEF Call, clientVars, Moved, Effect, Kept
<1>22. ASSUME NEW t \in Threads, NEW s \in Subs, NEW op \in {"subscribe", "renew", "unsubscribe"},
              NEW ok \in BOOLEAN, CallAsync(t, op, s, ok)
      PROVE  Moved
  <2>1. Kept /\ how[t] # "auto" /\ pc[t] = "idle"
    BY <1>22 DEF CallAsync, clientVars, Kept, PlaceInv
  <2>2. Others(t) /\ how'[t] = how[t]
    BY <1>22 DEF CallAsync, threadVars, Others
  <2>3. QED
    BY <2>1, <2>2 DEF Moved, Effect
<1>23. ASSUME NEW t \in Threads, NEW ok \in BOOLEAN, UpnpSendActionAsync(t, ok) PROVE Moved
  <2>1. Kept /\ how[t] # "auto" /\ pc[t] = "idle"
    BY <1>23 DEF UpnpSendActionAsync, clientVars, Kept, PlaceInv
  <2>2. Others(t) /\ how'[t] = how[t]
    BY <1>23 DEF UpnpSendActionAsync, threadVars, Others
  <2>3. QED
    BY <2>1, <2>2 DEF Moved, Effect
<1>24. ASSUME NEW t \in Threads, NEW job \in jobs, TakeJob(t, job) PROVE Moved
  <2>1. job.op # "auto"
    BY DEF Inv, TypeOK, AsyncCalls, AsyncOps
  <2>2. Others(t) /\ how'[t] # "auto"
    BY <1>24, <2>1, BeginTo DEF TakeJob
  <2>3. QED
    BY <1>24, <2>2 DEF TakeJob, clientVars, Moved, Effect, Kept
<1>25. ASSUME NEW t \in Threads, NEW id \in TimerIds, AutoRenew(t, id) PROVE Moved
  <2>1. timers[id] \in Subs /\ timers \in [TimerIds -> Subs \cup {NoSub}]
        /\ renewEventId \in [Subs -> TimerIds \cup {NoTimer}]
    BY <1>25 DEF AutoRenew, Inv, TypeOK
  <2>2. Clears(timers[id])
    BY <1>25, <2>1 DEF AutoRenew, Clears, Loses, clientVars
  <2>3. Others(t) /\ pc'[t] = "renew" /\ tsub'[t] = timers[id] /\ how'[t] = "auto" /\ pc[t] = "idle"
    BY <1>25, BeginTo DEF AutoRenew
  <2>4. QED
    BY <2>1, <2>2, <2>3 DEF Moved, Effect
<1>26. ASSUME NEW t \in Threads, NEW id \in TimerIds, AutoRenewDropped(id) PROVE Moved
  <2>1. timers[id] \in Subs /\ timers \in [TimerIds -> Subs \cup {NoSub}]
        /\ renewEventId \in [Subs -> TimerIds \cup {NoTimer}]
    BY <1>26 DEF AutoRenewDropped, Inv, TypeOK
  <2>2. Drops(timers[id])
    BY <1>26, <2>1 DEF AutoRenewDropped, Drops, Loses
  <2>3. Others(t) /\ pc'[t] = pc[t] /\ tsub'[t] = tsub[t] /\ how'[t] = how[t]
    BY <1>26 DEF AutoRenewDropped, threadVars, Others
  <2>4. QED
    BY <2>1, <2>2, <2>3 DEF Moved, Effect
<1>27. QED
  BY <1>1, <1>2, <1>3, <1>4, <1>5, <1>6, <1>7, <1>8, <1>9, <1>10, <1>11, <1>12, <1>13,
     <1>14, <1>15, <1>16, <1>17, <1>18, <1>19, <1>20, <1>21, <1>22, <1>23,
     <1>24, <1>25, <1>26
     DEF Next, ThreadStep, UpnpSubscribe, UpnpRenewSubscription, UpnpUnSubscribe,
         UpnpSubscribeAsync, UpnpRenewSubscriptionAsync, UpnpUnSubscribeAsync

(* Every step keeps the list free of repetitions, and empty without a      *)
(* client, and timer events apart.                                         *)
LEMMA LinkStep ==
    ASSUME Inv, Next
    PROVE  LinkInv' /\ IdInv' /\ subList' \in Seq(Subs)
<1>1. PICK t \in Threads : Others(t) /\ Effect(t)
  BY StepEffects
<1>2. LinkInv /\ IdInv /\ subList \in Seq(Subs) /\ NoTimer \notin TimerIds
  BY GenaAssumption DEF Inv, TypeOK
<1>3. CASE Kept
  BY <1>2, <1>3 DEF Kept, LinkInv, IdInv
<1>4. CASE Emptied
  BY <1>2, <1>4 DEF Emptied, LinkInv, IdInv, Distinct
<1>5. ASSUME NEW s, Loses(s) PROVE IdInv'
  <2>1. ASSUME NEW r \in Subs, NEW id \in TimerIds, renewEventId'[r] = id
        PROVE  timers'[id] \in {r, NoSub}
    BY <1>2, <1>5, <2>1 DEF Loses, IdInv
  <2>2. QED
    BY <2>1 DEF IdInv
<1>6. ASSUME NEW s, Clears(s) PROVE LinkInv' /\ IdInv' /\ subList' \in Seq(Subs)
  BY <1>2, <1>5, <1>6 DEF Clears, Loses, LinkInv
<1>7. ASSUME NEW s, Drops(s) PROVE LinkInv' /\ IdInv' /\ subList' \in Seq(Subs)
  BY <1>2, <1>5, <1>7 DEF Drops, Loses, LinkInv
<1>8. ASSUME NEW s, Removes(s) PROVE LinkInv' /\ IdInv' /\ subList' \in Seq(Subs)
  BY <1>5, <1>8 DEF Removes, Loses, LinkInv
<1>9. ASSUME NEW s, Schedules(s) PROVE LinkInv' /\ IdInv' /\ subList' \in Seq(Subs)
  BY <1>2, <1>9 DEF Schedules, Timed, LinkInv, IdInv
<1>10. CASE Links(tsub[t]) /\ pc[t] = "subscribing"
  <2>1. tsub[t] \in Subs /\ tsub[t] \notin Linked
    BY <1>10 DEF Links, Inv, FreshInv, Subscribes, IsNew
  <2>2. subList' \in Seq(Subs) /\ Distinct(subList')
    BY <1>2, <1>10, <2>1, ConsMembers DEF Links, LinkInv, Linked
  <2>3. IdInv'
    BY <1>2, <1>10 DEF Links, Timed, IdInv
  <2>4. QED
    BY <1>10, <2>2, <2>3 DEF LinkInv, Links
<1>11. QED
  BY <1>1, <1>3, <1>4, <1>6, <1>8, <1>9, <1>10, <1>7 DEF Effect

(* What is queued is owed. *)
JobTypes == jobs \subseteq owed /\ owed \subseteq AsyncCalls

(* Every step keeps the asynchronous calls apart. *)
LEMMA JobStep ==
    ASSUME Inv, Next
    PROVE  JobTypes' /\ JobInv'
<1> ThreadTypes /\ JobInv /\ JobTypes
  BY DEF Inv, TypeOK, ThreadTypes, JobTypes
<1>0. ASSUME NEW t \in Threads, Others(t), UNCHANGED <<jobs, owed>>,
             how'[t] \in {"none", "sync", "auto"}
             \/ (how'[t] = how[t] /\ tsub'[t] = tsub[t])
      PROVE  JobTypes' /\ JobInv'
  <2>1. JobTypes'
    BY <1>0 DEF JobTypes
  <2>2. ASSUME NEW v \in Threads, how'[v] \in AsyncOps
        PROVE  how'[v] = how[v] /\ tsub'[v] = tsub[v]
    BY <1>0, <2>2 DEF Others, AsyncOps
  <2>3. QED
    BY <1>0, <2>1, <2>2 DEF JobInv, Job
<1>1. ASSUME NEW t \in Threads, SubscribeCheck(t) PROVE JobTypes' /\ JobInv'
  BY <1>1, <1>0, FinishTo, BeginTo DEF SubscribeCheck, asyncVars
<1>2. ASSUME NEW t \in Threads, SubscribeBadHandle(t) PROVE JobTypes' /\ JobInv'
  BY <1>2, <1>0, FinishTo, BeginTo DEF SubscribeBadHandle, asyncVars
<1>3. ASSUME NEW t \in Threads, SubscribeRequest(t) PROVE JobTypes' /\ JobInv'
  BY <1>3, <1>0, FinishTo, BeginTo DEF SubscribeRequest, asyncVars
<1>4. ASSUME NEW t \in Threads, SubscribeFails(t) PROVE JobTypes' /\ JobInv'
  BY <1>4, <1>0, FinishTo, BeginTo DEF SubscribeFails, asyncVars
<1>5. ASSUME NEW t \in Threads, RenewBegin(t) PROVE JobTypes' /\ JobInv'
  BY <1>5, <1>0, FinishTo, BeginTo DEF RenewBegin, asyncVars
<1>6. ASSUME NEW t \in Threads, RenewFails(t) PROVE JobTypes' /\ JobInv'
  BY <1>6, <1>0, FinishTo, BeginTo DEF RenewFails, asyncVars
<1>7. ASSUME NEW t \in Threads, RenewTooLate(t) PROVE JobTypes' /\ JobInv'
  BY <1>7, <1>0, FinishTo, BeginTo DEF RenewTooLate, asyncVars
<1>8. ASSUME NEW t \in Threads, AutoRenewFailed(t) PROVE JobTypes' /\ JobInv'
  BY <1>8, <1>0, FinishTo, BeginTo DEF AutoRenewFailed, asyncVars
<1>9. ASSUME NEW t \in Threads, Callback(t) PROVE JobTypes' /\ JobInv'
  <2>1. Others(t) /\ how'[t] = "none" /\ jobs' = jobs /\ owed' = owed \ {Job(t)}
    BY <1>9, BeginTo DEF Callback, Job
  <2>2. Job(t) \notin jobs
    <3>1. Job(t) \in jobs => how[t] \in AsyncOps
      BY DEF JobTypes, AsyncCalls, Job
    <3>2. QED
      BY <3>1 DEF JobInv
  <2>3. JobTypes'
    BY <2>1, <2>2 DEF JobTypes
  <2>4. ASSUME NEW v \in Threads, how'[v] \in AsyncOps
        PROVE  /\ Job(v)' \in owed' \ jobs'
               /\ \A u \in Threads : how'[u] = how'[v] /\ tsub'[u] = tsub'[v] => u = v
    <3>1. v # t /\ Job(v)' = Job(v) /\ how[v] \in AsyncOps
      BY <2>1, <2>4 DEF Others, Job, AsyncOps
    <3>2. Job(v) # Job(t)
      BY <3>1 DEF JobInv, Job
    <3>3. \A u \in Threads : how'[u] = how'[v] => u # t
      BY <2>1, <2>4 DEF AsyncOps
    <3>4. QED
      BY <2>1, <3>1, <3>2, <3>3 DEF JobInv, Others
  <2>5. QED
    BY <2>3, <2>4 DEF JobInv
<1>10. ASSUME NEW t \in Threads, UnSubscribeBegin(t) PROVE JobTypes' /\ JobInv'
  BY <1>10, <1>0, FinishTo, BeginTo DEF UnSubscribeBegin, asyncVars
<1>11. ASSUME NEW t \in Threads, UnSubscribeEnd(t) PROVE JobTypes' /\ JobInv'
  BY <1>11, <1>0, FinishTo, BeginTo DEF UnSubscribeEnd, asyncVars
<1>12. ASSUME NEW t \in Threads, UnRegisterLoop(t) PROVE JobTypes' /\ JobInv'
  <2>1. CASE Finish(t, FALSE)
    BY <1>12, <2>1, <1>0, FinishTo DEF UnRegisterLoop, asyncVars
  <2>2. CASE Goto(t, "unregisterEnd") /\ UNCHANGED <<tsub, how>>
    BY <1>12, <2>2, <1>0, BeginTo DEF UnRegisterLoop, asyncVars
  <2>3. CASE Begin(t, "unregistering", Head(subList), "sync")
    BY <1>12, <2>3, <1>0, BeginTo DEF UnRegisterLoop, asyncVars
  <2>4. QED
    BY <1>12, <2>1, <2>2, <2>3 DEF UnRegisterLoop
<1>13. ASSUME NEW t \in Threads, UnRegisterNext(t) PROVE JobTypes' /\ JobInv'
  BY <1>13, <1>0, FinishTo, BeginTo DEF UnRegisterNext, asyncVars
<1>14. ASSUME NEW t \in Threads, UnRegisterEnd(t) PROVE JobTypes' /\ JobInv'
  BY <1>14, <1>0, FinishTo, BeginTo DEF UnRegisterEnd, asyncVars
<1>15. ASSUME NEW t \in Threads, SoapSendAction(t) PROVE JobTypes' /\ JobInv'
  BY <1>15, <1>0, FinishTo, BeginTo DEF SoapSendAction, asyncVars
<1>16. ASSUME NEW t \in Threads, SoapSendMPost(t) PROVE JobTypes' /\ JobInv'
  BY <1>16, <1>0, FinishTo, BeginTo DEF SoapSendMPost, asyncVars
<1>17. ASSUME NEW t \in Threads, Register(t) PROVE JobTypes' /\ JobInv'
  BY <1>17, <1>0 DEF Register, threadVars, asyncVars, Others
<1>18. ASSUME NEW t \in Threads, UnRegister(t) PROVE JobTypes' /\ JobInv'
  BY <1>18, <1>0, FinishTo, BeginTo DEF UnRegister, asyncVars
<1>19. ASSUME NEW t \in Threads, NEW timeout \in Timeouts, NEW ok \in BOOLEAN, SubscribeLinks(t, timeout, ok)
      PROVE  JobTypes' /\ JobInv'
  BY <1>19, <1>0, FinishTo, BeginTo DEF SubscribeLinks, asyncVars
<1>20. ASSUME NEW t \in Threads, NEW timeout \in Timeouts, NEW ok \in BOOLEAN, RenewSucceeds(t, timeout, ok)
      PROVE  JobTypes' /\ JobInv'
  BY <1>20, <1>0, FinishTo, BeginTo DEF RenewSucceeds, asyncVars
<1>21. ASSUME NEW t \in Threads, NEW s \in Subs, NEW op \in {"subscribe", "renew", "unsubscribe"},
              Call(t, op, s)
      PROVE  JobTypes' /\ JobInv'
  BY <1>21, <1>0, FinishTo, BeginTo DEF Call, asyncVars
<1>22. ASSUME NEW t \in Threads, NEW s \in Subs, NEW op \in {"subscribe", "renew", "unsubscribe"},
              NEW ok \in BOOLEAN, CallAsync(t, op, s, ok)
      PROVE  JobTypes' /\ JobInv'
  <2> DEFINE job == [op |-> op, sub |-> s]
  <2>1. job \in AsyncCalls /\ job \notin owed
    BY <1>22, GenaAssumption DEF CallAsync, AsyncCalls, AsyncOps
  <2>2. /\ owed' \in {owed, owed \cup {job}}
        /\ jobs' \subseteq jobs \cup ({job} \cap owed') /\ UNCHANGED threadVars
    BY <1>22 DEF CallAsync, asyncVars
  <2>3. JobTypes'
    BY <2>1, <2>2 DEF JobTypes
  <2>4. JobInv'
    <3>1. \A u \in Threads : how[u] \in AsyncOps => Job(u) # job
      BY <2>1 DEF JobInv
    <3>2. QED
      BY <2>2, <3>1 DEF JobInv, Job, threadVars
  <2>5. QED
    BY <2>3, <2>4
<1>23. ASSUME NEW t \in Threads, NEW ok \in BOOLEAN, UpnpSendActionAsync(t, ok)
      PROVE  JobTypes' /\ JobInv'
  <2> DEFINE job == [op |-> "action", sub |-> NoSub]
  <2>1. job \in AsyncCalls /\ job \notin owed
    BY <1>23, GenaAssumption DEF UpnpSendActionAsync, AsyncCalls, AsyncOps
  <2>2. /\ owed' \in {owed, owed \cup {job}}
        /\ jobs' \subseteq jobs \cup ({job} \cap owed') /\ UNCHANGED threadVars
    BY <1>23 DEF UpnpSendActionAsync, asyncVars
  <2>3. JobTypes'
    BY <2>1, <2>2 DEF JobTypes
  <2>4. JobInv'
    <3>1. \A u \in Threads : how[u] \in AsyncOps => Job(u) # job
      BY <2>1 DEF JobInv
    <3>2. QED
      BY <2>2, <3>1 DEF JobInv, Job, threadVars
  <2>5. QED
    BY <2>3, <2>4
<1>24. ASSUME NEW t \in Threads, NEW job \in jobs, TakeJob(t, job) PROVE JobTypes' /\ JobInv'
  <2>1. job \in owed /\ job = [op |-> job.op, sub |-> job.sub] /\ job.op \in AsyncOps
    BY DEF JobTypes, AsyncCalls
  <2>2. Others(t) /\ how'[t] = job.op /\ tsub'[t] = job.sub /\ jobs' = jobs \ {job} /\ owed' = owed
    BY <1>24, BeginTo DEF TakeJob
  <2>3. JobTypes'
    BY <2>2 DEF JobTypes
  <2>4. \A u \in Threads : how[u] \in AsyncOps => Job(u) # job
    BY DEF JobInv
  <2>5. ASSUME NEW v \in Threads, how'[v] \in AsyncOps
        PROVE  /\ Job(v)' \in owed' \ jobs'
               /\ \A u \in Threads : how'[u] = how'[v] /\ tsub'[u] = tsub'[v] => u = v
    BY <2>1, <2>2, <2>4, <2>5 DEF JobInv, Job, Others
  <2>6. QED
    BY <2>3, <2>5 DEF JobInv
<1>25. ASSUME NEW t \in Threads, NEW id \in TimerIds, AutoRenew(t, id)
      PROVE  JobTypes' /\ JobInv'
  BY <1>25, <1>0, FinishTo, BeginTo DEF AutoRenew, asyncVars
<1>26. ASSUME NEW t \in Threads, NEW id \in TimerIds, AutoRenewDropped(id) PROVE JobTypes' /\ JobInv'
  BY <1>26, <1>0 DEF AutoRenewDropped, threadVars, asyncVars, Others
<1>27. QED
  BY <1>1, <1>2, <1>3, <1>4, <1>5, <1>6, <1>7, <1>8, <1>9, <1>10, <1>11, <1>12, <1>13,
     <1>14, <1>15, <1>16, <1>17, <1>18, <1>19, <1>20, <1>21, <1>22, <1>23,
     <1>24, <1>25, <1>26
     DEF Next, ThreadStep, UpnpSubscribe, UpnpRenewSubscription, UpnpUnSubscribe,
         UpnpSubscribeAsync, UpnpRenewSubscriptionAsync, UpnpUnSubscribeAsync

(* The types that the list, the timer events and the threads leave. *)
RestTypes ==
    /\ used \subseteq Subs /\ subscribeLock \in Threads \cup {NoThread}
    /\ device \in [Subs -> {"none", "active", "ended"}] /\ calls \in 0 .. MaxCalls

(* Every step keeps these. *)
LEMMA RestStep ==
    ASSUME Inv, Next
    PROVE  RestTypes'
<1> RestTypes /\ MaxCalls \in Nat
  BY GenaAssumption DEF Inv, TypeOK, RestTypes
<1> USE DEF RestTypes
<1>1. ASSUME NEW t \in Threads, SubscribeCheck(t) PROVE RestTypes'
  BY <1>1 DEF SubscribeCheck, lockVars
<1>2. ASSUME NEW t \in Threads, SubscribeBadHandle(t) PROVE RestTypes'
  BY <1>2 DEF SubscribeBadHandle, lockVars
<1>3. ASSUME NEW t \in Threads, SubscribeRequest(t) PROVE RestTypes'
  BY <1>3 DEF SubscribeRequest, lockVars
<1>4. ASSUME NEW t \in Threads, SubscribeFails(t) PROVE RestTypes'
  BY <1>4 DEF SubscribeFails, lockVars
<1>5. ASSUME NEW t \in Threads, RenewBegin(t) PROVE RestTypes'
  BY <1>5 DEF RenewBegin, lockVars
<1>6. ASSUME NEW t \in Threads, RenewFails(t) PROVE RestTypes'
  BY <1>6 DEF RenewFails, lockVars
<1>7. ASSUME NEW t \in Threads, RenewTooLate(t) PROVE RestTypes'
  BY <1>7 DEF RenewTooLate, lockVars
<1>8. ASSUME NEW t \in Threads, AutoRenewFailed(t) PROVE RestTypes'
  BY <1>8 DEF AutoRenewFailed, lockVars
<1>9. ASSUME NEW t \in Threads, Callback(t) PROVE RestTypes'
  BY <1>9 DEF Callback, lockVars
<1>10. ASSUME NEW t \in Threads, UnSubscribeBegin(t) PROVE RestTypes'
  BY <1>10 DEF UnSubscribeBegin, lockVars
<1>11. ASSUME NEW t \in Threads, UnSubscribeEnd(t) PROVE RestTypes'
  BY <1>11 DEF UnSubscribeEnd, Unsubscribed, lockVars
<1>12. ASSUME NEW t \in Threads, UnRegisterLoop(t) PROVE RestTypes'
  BY <1>12 DEF UnRegisterLoop, lockVars
<1>13. ASSUME NEW t \in Threads, UnRegisterNext(t) PROVE RestTypes'
  BY <1>13 DEF UnRegisterNext, Unsubscribed, lockVars
<1>14. ASSUME NEW t \in Threads, UnRegisterEnd(t) PROVE RestTypes'
  BY <1>14 DEF UnRegisterEnd, lockVars
<1>15. ASSUME NEW t \in Threads, SoapSendAction(t) PROVE RestTypes'
  BY <1>15 DEF SoapSendAction, lockVars
<1>16. ASSUME NEW t \in Threads, SoapSendMPost(t) PROVE RestTypes'
  BY <1>16 DEF SoapSendMPost, lockVars
<1>17. ASSUME NEW t \in Threads, Register(t) PROVE RestTypes'
  BY <1>17 DEF Register, lockVars
<1>18. ASSUME NEW t \in Threads, UnRegister(t) PROVE RestTypes'
  BY <1>18 DEF UnRegister, lockVars
<1>19. ASSUME NEW t \in Threads, NEW timeout \in Timeouts, NEW ok \in BOOLEAN, SubscribeLinks(t, timeout, ok)
      PROVE  RestTypes'
  BY <1>19 DEF SubscribeLinks, lockVars
<1>20. ASSUME NEW t \in Threads, NEW timeout \in Timeouts, NEW ok \in BOOLEAN, RenewSucceeds(t, timeout, ok)
      PROVE  RestTypes'
  BY <1>20 DEF RenewSucceeds, lockVars
<1>21. ASSUME NEW t \in Threads, NEW s \in Subs, NEW op \in {"subscribe", "renew", "unsubscribe"},
              Call(t, op, s)
      PROVE  RestTypes'
  BY <1>21 DEF Call, lockVars
<1>22. ASSUME NEW t \in Threads, NEW s \in Subs, NEW op \in {"subscribe", "renew", "unsubscribe"},
              NEW ok \in BOOLEAN, CallAsync(t, op, s, ok)
      PROVE  RestTypes'
  BY <1>22 DEF CallAsync, lockVars
<1>23. ASSUME NEW t \in Threads, NEW ok \in BOOLEAN, UpnpSendActionAsync(t, ok) PROVE RestTypes'
  BY <1>23 DEF UpnpSendActionAsync, lockVars
<1>24. ASSUME NEW t \in Threads, NEW job \in jobs, TakeJob(t, job) PROVE RestTypes'
  BY <1>24 DEF TakeJob, lockVars
<1>25. ASSUME NEW t \in Threads, NEW id \in TimerIds, AutoRenew(t, id) PROVE RestTypes'
  BY <1>25 DEF AutoRenew, lockVars
<1>26. ASSUME NEW t \in Threads, NEW id \in TimerIds, AutoRenewDropped(id) PROVE RestTypes'
  BY <1>26 DEF AutoRenewDropped, lockVars
<1>27. QED
  BY <1>1, <1>2, <1>3, <1>4, <1>5, <1>6, <1>7, <1>8, <1>9, <1>10, <1>11, <1>12, <1>13,
     <1>14, <1>15, <1>16, <1>17, <1>18, <1>19, <1>20, <1>21, <1>22, <1>23,
     <1>24, <1>25, <1>26
     DEF Next, ThreadStep, UpnpSubscribe, UpnpRenewSubscription, UpnpUnSubscribe,
         UpnpSubscribeAsync, UpnpRenewSubscriptionAsync, UpnpUnSubscribeAsync

(* Every step keeps the types. *)
LEMMA TypeStep ==
    ASSUME Inv, Next
    PROVE  TypeOK'
<1>1. PICK t \in Threads : Others(t) /\ Effect(t)
  BY StepEffects
<1>2. /\ registered \in BOOLEAN /\ freed \subseteq Subs /\ known \subseteq Subs
      /\ renewEventId \in [Subs -> TimerIds \cup {NoTimer}] /\ infinite \subseteq Subs
      /\ dropped \subseteq Subs /\ timers \in [TimerIds -> Subs \cup {NoSub}]
  BY DEF Inv, TypeOK
<1>3. registered' \in BOOLEAN
  <2>1. registered' = registered \/ registered' \in BOOLEAN
    BY <1>1 DEF Effect, Kept, Emptied, Clears, Drops, Removes, Loses, Schedules, Links
  <2>2. QED
    BY <1>2, <2>1, Zenon
<1>4. /\ freed' \subseteq Subs /\ known' \subseteq Subs /\ infinite' \subseteq Subs
      /\ dropped' \subseteq Subs
      /\ renewEventId' \in [Subs -> TimerIds \cup {NoTimer}]
      /\ timers' \in [TimerIds -> Subs \cup {NoSub}]
  BY <1>1, <1>2 DEF Effect, Kept, Emptied, Clears, Drops, Removes, Loses, Schedules,
                      Timed, Links
<1>5. readers' \subseteq Threads
  BY LocksStep DEF LocksKept
<1>6. QED
  BY <1>3, <1>4, <1>5, LinkStep, PlaceStep, JobStep, RestStep
     DEF TypeOK, ThreadTypes, JobTypes, RestTypes

(* How the set of linked subscriptions changes. *)
LEMMA LinkedSteps ==
    ASSUME Inv
    PROVE  /\ UNCHANGED subList => Linked' = Linked
           /\ subList' = <<>> => Linked' = {}
           /\ \A s \in Subs : subList' = <<s>> \o subList => Linked' = Linked \cup {s}
           /\ Linked \subseteq Subs
<1>1. subList \in Seq(Subs)
  BY DEF Inv, TypeOK
<1>2. Linked \subseteq Subs
  BY <1>1, ToSetPlaces DEF Linked
<1>3. UNCHANGED subList => Linked' = Linked
  BY DEF Linked
<1>4. subList' = <<>> => Linked' = {}
  BY DEF Linked, ToSet
<1>5. ASSUME NEW s \in Subs, subList' = <<s>> \o subList PROVE Linked' = Linked \cup {s}
  BY <1>1, <1>5, ConsMembers DEF Linked
<1>6. QED
  BY <1>2, <1>3, <1>4, <1>5

(* Every step leaves a renewal pending for every subscription that needs one. *)
LEMMA PendingStep ==
    ASSUME Inv, Next
    PROVE  RenewalPending'
<1>1. PICK t \in Threads : Others(t) /\ Effect(t)
  BY StepEffects
<1>2. RenewalPending /\ Linked \subseteq Subs /\ NoSub \notin Subs
  BY LinkedSteps, GenaAssumption DEF Inv
<1>3. SUFFICES ASSUME NEW s \in Linked', s \notin infinite', s \notin freed', s \notin dropped'
               PROVE  \/ \E id \in TimerIds : timers'[id] = s
                      \/ \E u \in Threads : tsub'[u] = s /\ pc'[u] \in {"renew", "renewing"}
  BY DEF RenewalPending
<1>4. ASSUME s \in Linked, s \notin infinite, s \notin freed, s \notin dropped,
             \A id \in TimerIds : timers[id] = s => timers'[id] = s,
             pc[t] \in {"renew", "renewing"} => tsub[t] # s
      PROVE  \/ \E id \in TimerIds : timers'[id] = s
             \/ \E u \in Threads : tsub'[u] = s /\ pc'[u] \in {"renew", "renewing"}
  BY <1>1, <1>2, <1>4 DEF RenewalPending, Others
<1>5. CASE (Kept \/ Emptied) /\ (pc[t] \in {"renew", "renewing"} => tsub[t] \notin Linked)
  BY <1>3, <1>4, <1>5, LinkedSteps DEF Kept, Emptied
<1>6. CASE /\ pc'[t] \in {"renew", "renewing"} /\ Clears(tsub'[t])
           /\ pc[t] = "idle" \/ (pc[t] = "renew" /\ tsub'[t] = tsub[t])
  <2>1. CASE tsub'[t] = s
    BY <1>6, <2>1
  <2>2. CASE tsub'[t] # s
    BY <1>2, <1>3, <1>4, <1>6, <2>2, LinkedSteps DEF Clears, Loses
  <2>3. QED
    BY <2>1, <2>2
<1>7. ASSUME NEW r \in Subs, Removes(r), pc[t] \in {"renew", "renewing"} => r = tsub[t]
      PROVE  \/ \E id \in TimerIds : timers'[id] = s
             \/ \E u \in Threads : tsub'[u] = s /\ pc'[u] \in {"renew", "renewing"}
  BY <1>2, <1>3, <1>4, <1>7 DEF Removes, Loses
<1>8. ASSUME NEW r \in Subs, Drops(r), pc'[t] = pc[t], tsub'[t] = tsub[t]
      PROVE  \/ \E id \in TimerIds : timers'[id] = s
             \/ \E u \in Threads : tsub'[u] = s /\ pc'[u] \in {"renew", "renewing"}
  <2>1. r # s /\ s \in Linked \ (infinite \cup freed \cup dropped)
    BY <1>3, <1>8, LinkedSteps DEF Drops, Loses
  <2>2. \A id \in TimerIds : timers[id] = s => timers'[id] = s
    BY <1>2, <1>8, <2>1 DEF Drops, Loses
  <2>3. QED
    BY <1>1, <1>2, <1>8, <2>1, <2>2 DEF RenewalPending, Others
<1>9. CASE Schedules(tsub[t]) /\ pc[t] = "renewing"
  <2>1. s \in Linked /\ s \notin freed
    BY <1>3, <1>9, LinkedSteps DEF Schedules
  <2>2. CASE tsub[t] = s
    BY <1>3, <1>9, <2>2 DEF Schedules, Timed
  <2>3. CASE tsub[t] # s
    <3>1. s \notin infinite /\ s \notin dropped
          /\ \A id \in TimerIds : timers[id] = s => timers'[id] = s
      BY <1>2, <1>3, <1>9, <2>1, <2>3 DEF Schedules, Timed
    <3>2. QED
      BY <1>4, <2>1, <2>3, <3>1
  <2>4. QED
    BY <2>2, <2>3
<1>10. CASE Links(tsub[t]) /\ pc[t] = "subscribing"
  <2>1. tsub[t] \in Subs /\ Linked' = Linked \cup {tsub[t]}
    BY <1>10, LinkedSteps DEF Links
  <2>2. CASE tsub[t] = s
    BY <1>3, <1>10, <2>2 DEF Links, Timed
  <2>3. CASE tsub[t] # s
    <3>1. s \in Linked /\ s \notin freed
      BY <1>3, <1>10, <2>1, <2>3 DEF Links
    <3>2. s \notin infinite /\ s \notin dropped
          /\ \A id \in TimerIds : timers[id] = s => timers'[id] = s
      BY <1>2, <1>3, <1>10, <2>3, <3>1 DEF Links, Timed
    <3>3. QED
      BY <1>4, <1>10, <3>1, <3>2
  <2>4. QED
    BY <2>2, <2>3
<1>11. QED
  BY <1>1, <1>5, <1>6, <1>7, <1>9, <1>10, <1>8 DEF Effect

(* Every step keeps a subscription whose renewal failed out of the list. *)
LEMMA FailedStep ==
    ASSUME Inv, Next
    PROVE  FailedRenewalEnds'
<1>1. PICK t \in Threads : Others(t) /\ Effect(t)
  BY StepEffects
<1>2. FailedRenewalEnds
  BY DEF Inv
<1>3. SUFFICES ASSUME NEW u \in Threads, how'[u] = "auto", pc'[u] \in {"autoFailed", "callback"}
               PROVE  tsub'[u] \notin Linked'
  BY DEF FailedRenewalEnds
<1>4. CASE u # t
  <2>1. how[u] = "auto" /\ tsub'[u] = tsub[u] /\ tsub[u] \notin Linked
    BY <1>1, <1>2, <1>3, <1>4 DEF Others, FailedRenewalEnds
  <2>2. CASE Links(tsub[t]) /\ pc[t] = "subscribing"
    <3>1. tsub[u] # tsub[t]
      BY <2>1, <2>2 DEF Inv, FreshInv, Subscribes, IsNew
    <3>2. Linked' = Linked \cup {tsub[t]}
      BY <2>2, LinkedSteps DEF Links
    <3>3. QED
      BY <2>1, <3>1, <3>2
  <2>3. CASE ~(Links(tsub[t]) /\ pc[t] = "subscribing")
    <3>1. Linked' \subseteq Linked
      BY <1>1, <2>3, LinkedSteps DEF Effect, Kept, Emptied, Clears, Drops, Removes,
                                     Schedules
    <3>2. QED
      BY <2>1, <3>1
  <2>4. QED
    BY <2>2, <2>3
<1>5. CASE u = t
  <2>1. \/ (Kept \/ Emptied) /\ how[t] = "auto" /\ pc[t] = "autoFailed" /\ tsub'[t] = tsub[t]
        \/ Removes(tsub'[t])
        \/ (\E s \in Subs : Drops(s)) /\ pc'[t] = pc[t] /\ tsub'[t] = tsub[t] /\ how'[t] = how[t]
    BY <1>1, <1>3, <1>5 DEF Effect
  <2>2. CASE (Kept \/ Emptied) /\ how[t] = "auto" /\ pc[t] = "autoFailed" /\ tsub'[t] = tsub[t]
    BY <1>2, <1>5, <2>2, LinkedSteps DEF Kept, Emptied, FailedRenewalEnds
  <2>3. CASE Removes(tsub'[t])
    BY <1>5, <2>3 DEF Removes
  <2>4. CASE /\ \E s \in Subs : Drops(s)
             /\ pc'[t] = pc[t] /\ tsub'[t] = tsub[t] /\ how'[t] = how[t]
    BY <1>2, <1>3, <1>5, <2>4, LinkedSteps DEF Drops, FailedRenewalEnds
  <2>5. QED
    BY <2>1, <2>2, <2>3, <2>4
<1>6. QED
  BY <1>4, <1>5

(* A subscription stays new until the call that asks for it links it. *)
LEMMA NewStays ==
    ASSUME Inv, Next, NEW s \in Subs, IsNew(s)
    PROVE  \/ IsNew(s)'
           \/ \E u \in Threads : pc[u] = "subscribing" /\ tsub[u] = s /\ ~ Subscribes(u)'
<1>1. PICK t \in Threads : Others(t) /\ Effect(t)
  BY StepEffects
<1>2. NoSub \notin Subs
  BY GenaAssumption
<1>3. ASSUME Linked' \subseteq Linked, known' = known,
             \A id \in TimerIds : timers'[id] = timers[id] \/ timers'[id] = NoSub,
             how'[t] = "auto" => tsub'[t] # s
      PROVE  IsNew(s)'
  BY <1>1, <1>2, <1>3 DEF IsNew, Others
<1>4. CASE /\ Kept \/ Emptied
           /\ how'[t] = "auto" => how[t] = "auto" /\ tsub'[t] = tsub[t]
  BY <1>3, <1>4, LinkedSteps DEF Kept, Emptied, IsNew
<1>5. CASE /\ Clears(tsub'[t])
           /\ \/ \E id \in TimerIds : timers[id] = tsub'[t]
              \/ tsub'[t] = tsub[t] /\ how'[t] = how[t]
  BY <1>3, <1>5, LinkedSteps DEF Clears, Loses, IsNew
<1>6. ASSUME NEW r \in Subs, Removes(r),
             how'[t] = "auto" => how[t] = "auto" /\ tsub[t] = r /\ tsub'[t] = r
      PROVE  IsNew(s)'
  BY <1>3, <1>6 DEF Removes, Loses, IsNew
<1>7. ASSUME NEW r \in Subs, Drops(r), tsub'[t] = tsub[t], how'[t] = how[t]
      PROVE  IsNew(s)'
  BY <1>3, <1>7, LinkedSteps DEF Drops, Loses, IsNew
<1>8. CASE Schedules(tsub[t]) /\ how'[t] # "auto"
  <2>1. tsub[t] # s
    BY <1>8 DEF Schedules, IsNew
  <2>2. QED
    BY <1>1, <1>8, <2>1, LinkedSteps DEF Schedules, Timed, IsNew, Others
<1>9. CASE Links(tsub[t]) /\ pc[t] = "subscribing" /\ how'[t] # "auto"
           /\ pc'[t] \in {"callback", "autoFailed", "idle"}
  <2>1. CASE tsub[t] = s
    BY <1>9, <2>1 DEF Subscribes
  <2>2. CASE tsub[t] # s
    <3>1. Linked' = Linked \cup {tsub[t]}
      BY <1>9, LinkedSteps DEF Links
    <3>2. QED
      BY <1>1, <1>9, <2>2, <3>1 DEF Links, Timed, IsNew, Others
  <2>3. QED
    BY <2>1, <2>2
<1>10. QED
  BY <1>1, <1>4, <1>5, <1>6, <1>8, <1>9, <1>7 DEF Effect

(* Every step leaves what is asked for new, and asked for once. *)
LEMMA FreshStep ==
    ASSUME Inv, Next
    PROVE  FreshInv'
<1> ThreadTypes /\ FreshInv
  BY DEF Inv, TypeOK, ThreadTypes
<1>1. /\ \A s \in Subs : s \notin used => IsNew(s)'
      /\ \A s \in Subs : [op |-> "subscribe", sub |-> s] \in jobs => IsNew(s)'
      /\ \A s \in Subs, t \in Threads :
           Subscribes(t) /\ Subscribes(t)' /\ tsub[t] = s => IsNew(s)'
      /\ \A t \in Threads : Subscribes(t) => tsub[t] \in Subs
  <2>1. \A u \in Threads : pc[u] = "subscribing" => Subscribes(u) /\ tsub[u] \in used
    BY DEF Subscribes, FreshInv
  <2>2. ASSUME NEW s \in Subs, s \notin used PROVE IsNew(s)'
    BY <2>1, <2>2, NewStays DEF FreshInv
  <2>3. ASSUME NEW s \in Subs, [op |-> "subscribe", sub |-> s] \in jobs PROVE IsNew(s)'
    BY <2>1, <2>3, NewStays DEF FreshInv
  <2>4. ASSUME NEW s \in Subs, NEW t \in Threads, Subscribes(t), Subscribes(t)', tsub[t] = s
        PROVE  IsNew(s)'
    <3>1. IsNew(s)
      BY <2>4 DEF FreshInv
    <3>2. \A u \in Threads : Subscribes(u) /\ tsub[u] = s => u = t
      BY <2>4 DEF FreshInv
    <3>3. QED
      BY <2>1, <2>4, <3>1, <3>2, NewStays
  <2>5. \A t \in Threads : Subscribes(t) => tsub[t] \in Subs
    BY DEF Inv, PlaceInv, Subscribes
  <2>6. QED
    BY <2>2, <2>3, <2>4, <2>5
<1>2. ASSUME NEW t \in Threads, Others(t), used' = used, jobs' = jobs,
             Subscribes(t)' => Subscribes(t) /\ tsub'[t] = tsub[t]
      PROVE  FreshInv'
  <2>1. \A u \in Threads : Subscribes(u)' => Subscribes(u) /\ tsub'[u] = tsub[u]
    BY <1>2 DEF Subscribes, Others
  <2>2. QED
    BY <1>1, <1>2, <2>1 DEF FreshInv
<1>3. ASSUME NEW t \in Threads, SubscribeCheck(t) PROVE FreshInv'
  <2>1. Others(t) /\ pc'[t] \in {"subscribeLock", "badHandle"} /\ tsub'[t] = tsub[t]
        /\ pc[t] = "subscribe" /\ used' = used /\ jobs' = jobs
    BY <1>3, BeginTo DEF SubscribeCheck, asyncVars
  <2>2. QED
    BY <1>2, <2>1 DEF Subscribes
<1>4. ASSUME NEW t \in Threads, SubscribeBadHandle(t) PROVE FreshInv'
  BY <1>4, <1>2, FinishTo, BeginTo DEF SubscribeBadHandle, asyncVars, Subscribes
<1>5. ASSUME NEW t \in Threads, SubscribeRequest(t) PROVE FreshInv'
  BY <1>5, <1>2, FinishTo, BeginTo DEF SubscribeRequest, asyncVars, Subscribes
<1>6. ASSUME NEW t \in Threads, SubscribeFails(t) PROVE FreshInv'
  BY <1>6, <1>2, FinishTo, BeginTo DEF SubscribeFails, asyncVars, Subscribes
<1>7. ASSUME NEW t \in Threads, RenewBegin(t) PROVE FreshInv'
  <2>1. CASE Finish(t, FALSE)
    BY <1>7, <2>1, <1>2, FinishTo DEF RenewBegin, asyncVars, Subscribes
  <2>2. CASE Goto(t, "renewing") /\ UNCHANGED <<tsub, how>>
    BY <1>7, <2>2, <1>2, BeginTo DEF RenewBegin, asyncVars, Subscribes
  <2>3. QED
    BY <1>7, <2>1, <2>2 DEF RenewBegin
<1>8. ASSUME NEW t \in Threads, RenewFails(t) PROVE FreshInv'
  BY <1>8, <1>2, FinishTo, BeginTo DEF RenewFails, asyncVars, Subscribes
<1>9. ASSUME NEW t \in Threads, RenewTooLate(t) PROVE FreshInv'
  BY <1>9, <1>2, FinishTo, BeginTo DEF RenewTooLate, asyncVars, Subscribes
<1>10. ASSUME NEW t \in Threads, AutoRenewFailed(t) PROVE FreshInv'
  BY <1>10, <1>2, FinishTo, BeginTo DEF AutoRenewFailed, asyncVars, Subscribes
<1>11. ASSUME NEW t \in Threads, Callback(t) PROVE FreshInv'
  BY <1>11, <1>2, FinishTo, BeginTo DEF Callback, asyncVars, Subscribes
<1>12. ASSUME NEW t \in Threads, UnSubscribeBegin(t) PROVE FreshInv'
  <2>1. CASE Finish(t, FALSE)
    BY <1>12, <2>1, <1>2, FinishTo DEF UnSubscribeBegin, asyncVars, Subscribes
  <2>2. CASE Goto(t, "unsubscribing") /\ UNCHANGED <<tsub, how>>
    BY <1>12, <2>2, <1>2, BeginTo DEF UnSubscribeBegin, asyncVars, Subscribes
  <2>3. QED
    BY <1>12, <2>1, <2>2 DEF UnSubscribeBegin
<1>13. ASSUME NEW t \in Threads, UnSubscribeEnd(t) PROVE FreshInv'
  BY <1>13, <1>2, FinishTo, BeginTo DEF UnSubscribeEnd, asyncVars, Subscribes
<1>14. ASSUME NEW t \in Threads, UnRegisterLoop(t) PROVE FreshInv'
  <2>1. CASE Finish(t, FALSE)
    BY <1>14, <2>1, <1>2, FinishTo DEF UnRegisterLoop, asyncVars, Subscribes
  <2>2. CASE Goto(t, "unregisterEnd") /\ UNCHANGED <<tsub, how>>
    BY <1>14, <2>2, <1>2, BeginTo DEF UnRegisterLoop, asyncVars, Subscribes
  <2>3. CASE Begin(t, "unregistering", Head(subList), "sync")
    BY <1>14, <2>3, <1>2, BeginTo DEF UnRegisterLoop, asyncVars, Subscribes
  <2>4. QED
    BY <1>14, <2>1, <2>2, <2>3 DEF UnRegisterLoop
<1>15. ASSUME NEW t \in Threads, UnRegisterNext(t) PROVE FreshInv'
  BY <1>15, <1>2, FinishTo, BeginTo DEF UnRegisterNext, asyncVars, Subscribes
<1>16. ASSUME NEW t \in Threads, UnRegisterEnd(t) PROVE FreshInv'
  BY <1>16, <1>2, FinishTo, BeginTo DEF UnRegisterEnd, asyncVars, Subscribes
<1>17. ASSUME NEW t \in Threads, SoapSendAction(t) PROVE FreshInv'
  <2>1. CASE Finish(t, FALSE)
    BY <1>17, <2>1, <1>2, FinishTo DEF SoapSendAction, asyncVars, Subscribes
  <2>2. CASE Goto(t, "mpost") /\ UNCHANGED <<tsub, how>>
    BY <1>17, <2>2, <1>2, BeginTo DEF SoapSendAction, asyncVars, Subscribes
  <2>3. QED
    BY <1>17, <2>1, <2>2 DEF SoapSendAction
<1>18. ASSUME NEW t \in Threads, SoapSendMPost(t) PROVE FreshInv'
  BY <1>18, <1>2, FinishTo, BeginTo DEF SoapSendMPost, asyncVars, Subscribes
<1>19. ASSUME NEW t \in Threads, Register(t) PROVE FreshInv'
  BY <1>19, <1>2 DEF Register, asyncVars, threadVars, Others, Subscribes
<1>20. ASSUME NEW t \in Threads, UnRegister(t) PROVE FreshInv'
  BY <1>20, <1>2, FinishTo, BeginTo DEF UnRegister, asyncVars, Subscribes
<1>21. ASSUME NEW t \in Threads, NEW timeout \in Timeouts, NEW ok \in BOOLEAN, SubscribeLinks(t, timeout, ok)
      PROVE  FreshInv'
  BY <1>21, <1>2, FinishTo, BeginTo DEF SubscribeLinks, asyncVars, Subscribes
<1>22. ASSUME NEW t \in Threads, NEW timeout \in Timeouts, NEW ok \in BOOLEAN, RenewSucceeds(t, timeout, ok)
      PROVE  FreshInv'
  BY <1>22, <1>2, FinishTo, BeginTo DEF RenewSucceeds, asyncVars, Subscribes
<1>23. ASSUME NEW t \in Threads, NEW s \in Subs, NEW op \in {"subscribe", "renew", "unsubscribe"},
              Call(t, op, s)
      PROVE  FreshInv'
  <2>1. Others(t) /\ pc'[t] = op /\ tsub'[t] = s /\ used' = used \cup {s} /\ jobs' = jobs
    BY <1>23, BeginTo DEF Call, asyncVars
  <2>2. CASE op = "subscribe"
    <3>1. s \notin used
      BY <1>23, <2>2 DEF Call, MayName
    <3>2. \A u \in Threads : Subscribes(u) => tsub[u] # s
      BY <3>1 DEF FreshInv
    <3>3. [op |-> "subscribe", sub |-> s] \notin jobs
      BY <3>1 DEF FreshInv
    <3>4. IsNew(s)'
      BY <1>1, <3>1
    <3>5. \A u \in Threads : Subscribes(u)' => (u = t \/ (Subscribes(u) /\ tsub'[u] = tsub[u]))
      BY <2>1 DEF Subscribes, Others
    <3>6. QED
      BY <1>1, <2>1, <3>2, <3>3, <3>4, <3>5 DEF FreshInv
  <2>3. CASE op # "subscribe"
    <3>1. \A u \in Threads : Subscribes(u)' => Subscribes(u) /\ tsub'[u] = tsub[u]
      BY <2>1, <2>3 DEF Subscribes, Others
    <3>2. QED
      BY <1>1, <2>1, <3>1 DEF FreshInv
  <2>4. QED
    BY <2>2, <2>3
<1>24. ASSUME NEW t \in Threads, NEW s \in Subs, NEW op \in {"subscribe", "renew", "unsubscribe"},
              NEW ok \in BOOLEAN, CallAsync(t, op, s, ok)
      PROVE  FreshInv'
  <2>1. /\ used' = used \cup {s} /\ jobs' \subseteq jobs \cup {[op |-> op, sub |-> s]}
        /\ UNCHANGED <<pc, tsub>>
    BY <1>24 DEF CallAsync, threadVars, asyncVars
  <2>2. \A u \in Threads : (Subscribes(u)' <=> Subscribes(u)) /\ tsub'[u] = tsub[u]
    BY <2>1 DEF Subscribes
  <2>3. op = "subscribe" => s \notin used
    BY <1>24 DEF CallAsync, MayName
  <2>4. op = "subscribe" => IsNew(s)' /\ \A u \in Threads : Subscribes(u) => tsub[u] # s
    BY <1>1, <2>3 DEF FreshInv
  <2>5. \A r \in Subs : [op |-> "subscribe", sub |-> r] \in jobs' =>
          [op |-> "subscribe", sub |-> r] \in jobs \/ (op = "subscribe" /\ r = s)
    BY <2>1
  <2>6. QED
    BY <1>1, <2>1, <2>2, <2>4, <2>5 DEF FreshInv
<1>25. ASSUME NEW t \in Threads, NEW ok \in BOOLEAN, UpnpSendActionAsync(t, ok) PROVE FreshInv'
  <2>1. /\ used' = used /\ jobs' \subseteq jobs \cup {[op |-> "action", sub |-> NoSub]}
        /\ UNCHANGED <<pc, tsub>>
    BY <1>25 DEF UpnpSendActionAsync, threadVars, asyncVars
  <2>2. \A u \in Threads : (Subscribes(u)' <=> Subscribes(u)) /\ tsub'[u] = tsub[u]
    BY <2>1 DEF Subscribes
  <2>3. \A r \in Subs : [op |-> "subscribe", sub |-> r] \in jobs' =>
          [op |-> "subscribe", sub |-> r] \in jobs
    BY <2>1
  <2>4. QED
    BY <1>1, <2>1, <2>2, <2>3 DEF FreshInv
<1>26. ASSUME NEW t \in Threads, NEW job \in jobs, TakeJob(t, job) PROVE FreshInv'
  <2>1. job = [op |-> job.op, sub |-> job.sub] /\ job.op \in AsyncOps
        /\ (job.op = "subscribe" => job.sub \in Subs)
    BY DEF Inv, TypeOK, AsyncCalls
  <2>2. Others(t) /\ pc'[t] = job.op /\ tsub'[t] = job.sub /\ used' = used /\ jobs' = jobs \ {job}
    BY <1>26, BeginTo DEF TakeJob
  <2>3. CASE job.op = "subscribe"
    <3> DEFINE s == job.sub
    <3>1. s \in Subs /\ [op |-> "subscribe", sub |-> s] = job
      BY <2>1, <2>3
    <3>2. IsNew(s)' /\ s \in used /\ \A u \in Threads : Subscribes(u) => tsub[u] # s
      BY <1>1, <3>1 DEF FreshInv
    <3>3. \A r \in Subs : [op |-> "subscribe", sub |-> r] \in jobs' => r # s
      BY <2>2, <3>1
    <3>4. \A u \in Threads : Subscribes(u)' => (u = t \/ (Subscribes(u) /\ tsub'[u] = tsub[u]))
      BY <2>2 DEF Subscribes, Others
    <3> HIDE DEF s
    <3>5. tsub'[t] = s
      BY <2>2 DEF s
    <3>6. QED
      BY <1>1, <2>2, <3>2, <3>3, <3>4, <3>5 DEF FreshInv
  <2>4. CASE job.op # "subscribe"
    <3>1. \A u \in Threads : Subscribes(u)' => Subscribes(u) /\ tsub'[u] = tsub[u]
      BY <2>1, <2>2, <2>4 DEF Subscribes, Others, AsyncOps
    <3>2. QED
      BY <1>1, <2>2, <3>1 DEF FreshInv
  <2>5. QED
    BY <2>3, <2>4
<1>27. ASSUME NEW t \in Threads, NEW id \in TimerIds, AutoRenew(t, id) PROVE FreshInv'
  BY <1>27, <1>2, FinishTo, BeginTo DEF AutoRenew, asyncVars, Subscribes
<1>28. ASSUME NEW t \in Threads, NEW id \in TimerIds, AutoRenewDropped(id) PROVE FreshInv'
  BY <1>28, <1>2 DEF AutoRenewDropped, asyncVars, threadVars, Others, Subscribes
<1>29. QED
  BY <1>3, <1>4, <1>5, <1>6, <1>7, <1>8, <1>9, <1>10, <1>11, <1>12, <1>13, <1>14, <1>15,
     <1>16, <1>17, <1>18, <1>19, <1>20, <1>21, <1>22, <1>23, <1>24, <1>25,
     <1>26, <1>27, <1>28
     DEF Next, ThreadStep, UpnpSubscribe, UpnpRenewSubscription, UpnpUnSubscribe,
         UpnpSubscribeAsync, UpnpRenewSubscriptionAsync, UpnpUnSubscribeAsync

(* The library as it starts satisfies the invariant. *)
LEMMA InitInv == Init => Inv
<1> SUFFICES ASSUME Init PROVE Inv
  OBVIOUS
<1>1. Linked = {}
  BY DEF Init, Linked, ToSet
<1>2. TypeOK
  <2>1. registered \in BOOLEAN
    BY DEF Init
  <2>2. QED
    BY <2>1, GenaAssumption DEF Init, TypeOK
<1>3. LocksKept /\ PlaceInv
  BY GenaAssumption DEF Init, LocksKept, PlaceInv
<1>4. JobInv /\ LinkInv /\ IdInv
  BY GenaAssumption DEF Init, JobInv, AsyncOps, LinkInv, Distinct, IdInv
<1>5. FreshInv
  BY <1>1, GenaAssumption DEF Init, FreshInv, IsNew, Subscribes
<1>6. RenewalPending /\ FailedRenewalEnds
  BY <1>1 DEF Init, RenewalPending, FailedRenewalEnds
<1>7. QED
  BY <1>2, <1>3, <1>4, <1>5, <1>6 DEF Inv

(* The invariant is inductive. *)
LEMMA InvStep == Inv /\ [Next]_vars => Inv'
<1> SUFFICES ASSUME Inv, [Next]_vars PROVE Inv'
  OBVIOUS
<1>1. CASE Next
  BY <1>1, TypeStep, LocksStep, PlaceStep, JobStep, LinkStep, FreshStep, PendingStep, FailedStep
     DEF Inv
<1>2. CASE UNCHANGED vars
  <2> USE <1>2 DEF Inv, vars, clientVars, lockVars, asyncVars, threadVars
  <2>1. TypeOK' /\ LocksKept' /\ PlaceInv'
    BY DEF TypeOK, LocksKept, PlaceInv
  <2>2. JobInv' /\ LinkInv' /\ IdInv'
    BY DEF JobInv, Job, LinkInv, IdInv
  <2>3. FreshInv' /\ RenewalPending' /\ FailedRenewalEnds'
    BY DEF FreshInv, IsNew, Subscribes, RenewalPending, FailedRenewalEnds, Linked
  <2>4. QED
    BY <2>1, <2>2, <2>3
<1>3. QED
  BY <1>1, <1>2

(* The invariant holds in every state of every behaviour. *)
LEMMA InvHolds == Spec => []Inv
<1>1. QED
  BY InitInv, InvStep, PTL DEF Spec

(* SubscribeLock is held exactly during a SUBSCRIBE request,               *)
(* HandleReadLock exactly by the threads of genaSubscribe that found a bad *)
(* handle: no path keeps either lock, and no two threads ever hold         *)
(* SubscribeLock.                                                          *)
THEOREM LocksAreKept == Spec => []LocksKept
<1>1. Inv => LocksKept
  BY DEF Inv
<1>2. QED
  BY <1>1, InvHolds, PTL

(* For any threads, subscriptions and timer ids: every subscription in the *)
(* client's list that has a timeout is about to be renewed, unless the     *)
(* pool did not take its renewal when it was due, and one whose renewal    *)
(* was reported as failed is in the list no more, whatever renewals,       *)
(* removals, failures and unregistrations overlap.                         *)
THEOREM SubscriptionsStayKept == Spec => []SubscriptionsKept
<1>1. Inv => SubscriptionsKept
  BY DEF Inv, SubscriptionsKept
<1>2. QED
  BY <1>1, InvHolds, PTL

=============================================================================
