---------------------------- MODULE UtilityProofs ----------------------------
(***************************************************************************)
(* Proofs about what the library's parts are built on: TimerThread, for    *)
(* any callers, events, delays and time; LinkedList, for any items, any    *)
(* memory and any limit of the free list; Membuffer, for any texts; and    *)
(* StrIntMap, for any table that is sorted as the code's tables are.       *)
(*                                                                         *)
(* Of the list, the argument follows two sequences of nodes, the list and  *)
(* the free list.  A node that is added comes from the free list or from   *)
(* malloc and enters the first; one that is deleted leaves it for the      *)
(* other or for free.                                                      *)
(***************************************************************************)
EXTENDS TimerThread, Structures, StrIntMap, ListLemmas

LOCAL INSTANCE SequencesExt   \* InsertAt, RemoveAt, Reverse, ToSet

(***************************************************************************)
(* The timer thread: its inductive invariant.                              *)
(***************************************************************************)
(* Who has the mutex: the worker between its waits, or TimerThreadInit,    *)
(* before which there is no worker and nothing is queued.                  *)
MutexInv ==
    /\ mutex = Timer <=> tpc \in {"top", "adding"}
    /\ tpc = "none" => mutex \in Callers /\ eventQ = <<>>
    /\ \A c \in Callers : cpc[c] = "init" => c = InitCaller /\ tpc = "none"

(* The event whose job is handed over is the head of the queue and is due. *)
AddingInv == tpc = "adding" => Due

(* The event that TimerThreadSchedule was given is new, and nobody else's. *)
CallInv ==
    \A c \in Callers :
        /\ cpc[c] = "schedule" <=> cevent[c] # NoEvent
        /\ cevent[c] # NoEvent =>
             /\ fate[cevent[c]] = "new"
             /\ \A d \in Callers : cevent[d] = cevent[c] => d = c

(* Two events that got an id got different ones. *)
HasId(e) == fate[e] \notin {"new", "refused"}
IdInv ==
    \A e \in Events : HasId(e) =>
        /\ eventId[e] < lastEventId
        /\ \A f \in Events : HasId(f) /\ eventId[e] = eventId[f] => e = f

(* The worker and a caller of TimerThreadShutdown never sleep on the       *)
(* condition at the same time, so the signal that means the worker         *)
(* reaches it.                                                             *)
SleepInv ==
    /\ Timer \in sleepers => tpc = "wait" /\ ~shutdown
    /\ \A c \in Callers : c \in sleepers => cpc[c] = "sdWait"
    /\ \A c \in Callers : cpc[c] = "sdWait" => shutdown \/ tpc = "ended"

(* Once TimerThreadShutdown has begun nothing is queued any more, if no    *)
(* caller comes late.                                                      *)
EndInv ==
    /\ (\E c \in Callers : cpc[c] = "sdWait") =>
         eventQ = <<>> /\ \A d \in Callers : cpc[d] \in {"idle", "sdWait"}
    /\ destroyed => tpc = "ended" /\ eventQ = <<>>

Inv == /\ TypeOK /\ MutexInv /\ AddingInv /\ CallInv /\ IdInv /\ SleepInv
       /\ QueueSorted /\ QueueHoldsTheQueued /\ NoOversleep

-----------------------------------------------------------------------------
(* The queue has a place for every time. *)
LEMMA PositionRight ==
    ASSUME TypeOK, NEW t \in Nat
    PROVE  /\ Position(t) \in 1 .. Len(eventQ) + 1
           /\ Position(t) <= Len(eventQ) => eventTime[eventQ[Position(t)]] >= t
           /\ \A k \in 1 .. Position(t) - 1 : eventTime[eventQ[k]] < t
<1> DEFINE P == {k \in 1 .. Len(eventQ) : eventTime[eventQ[k]] >= t}
<1>1. Len(eventQ) \in Nat /\ \A k \in 1 .. Len(eventQ) : eventTime[eventQ[k]] \in Nat
  BY TimerAssumption DEF TypeOK
<1>2. PICK i \in 1 .. Len(eventQ) + 1 :
        (i <= Len(eventQ) => i \in P) /\ \A k \in 1 .. i - 1 : k \notin P
  BY <1>1, FirstPlace, ZenonT(30)
<1>3. /\ i <= Len(eventQ) => eventTime[eventQ[i]] >= t
      /\ \A k \in 1 .. i - 1 : eventTime[eventQ[k]] < t
  BY <1>1, <1>2
<1>4. QED
  BY <1>3 DEF Position

(* pthread_cond_signal wakes only threads that sleep. *)
LEMMA SignalType ==
    ASSUME Signal
    PROVE  sleepers' \subseteq sleepers
BY DEF Signal

(* TimerThreadSchedule's caller, back from it. *)
LEMMA ScheduleReturnsType ==
    ASSUME TypeOK, NEW c \in Callers, ScheduleReturns(c)
    PROVE  /\ cpc' \in [Callers -> {"idle", "init", "schedule", "sdWait"}]
           /\ cevent' \in [Callers -> Events \cup {NoEvent}] /\ ctime' \in [Callers -> 0..MaxTime]
BY TimerAssumption DEF ScheduleReturns, Goto, TypeOK

(* The structure as TimerThreadInit fills it satisfies the invariant. *)
LEMMA InitInv == Init => Inv /\ EndInv
<1> SUFFICES ASSUME Init PROVE Inv /\ EndInv
  OBVIOUS
<1> USE TimerAssumption DEF Init
<1>1. TypeOK
  <2>1. shutdown \in BOOLEAN /\ destroyed \in BOOLEAN
    BY Zenon
  <2>2. QED
    BY <2>1 DEF TypeOK, Never, NoEvent
<1>2. MutexInv /\ AddingInv /\ CallInv /\ IdInv
  BY DEF MutexInv, AddingInv, CallInv, IdInv, HasId, NoEvent
<1>3. SleepInv /\ QueueSorted /\ NoOversleep
  BY DEF SleepInv, QueueSorted, NoOversleep
<1>4. QueueHoldsTheQueued
  BY DEF QueueHoldsTheQueued, ToSet
<1>5. EndInv
  BY DEF EndInv
<1>6. QED
  BY <1>1, <1>2, <1>3, <1>4, <1>5 DEF Inv

(* Every step keeps the types. *)
LEMMA TypeStep ==
    ASSUME Inv, Next
    PROVE  TypeOK'
<1> USE TimerAssumption DEF Inv, TypeOK
<1>1. CASE TimerLocks
  BY <1>1 DEF TimerLocks, callVars, eventVars
<1>2. CASE TimerStops
  BY <1>2, SignalType DEF TimerStops, callVars, eventVars
<1>3. CASE TimerAdds
  BY <1>3 DEF TimerAdds, timerVars, callVars, eventVars
<1>4. CASE TimerWaits
  <2>1. eventQ # <<>> => eventTime[Head(eventQ)] \in 0 .. MaxTime
    BY TailElements
  <2>2. deadline' \in 0 .. Never
    BY <1>4, <2>1 DEF TimerWaits, Never
  <2>3. QED
    BY <1>4, <2>2 DEF TimerWaits, callVars, eventVars
<1>5. CASE TimerTimeOut
  BY <1>5 DEF TimerTimeOut, workerVars, callVars, eventVars
<1>6. ASSUME NEW ok \in BOOLEAN, TimerAdded(ok) PROVE TypeOK'
  <2>1. eventQ # <<>>
    BY <1>6 DEF TimerAdded, AddingInv, Due
  <2>2. eventQ' \in Seq(Events)
    BY <1>6, <2>1, TailElements DEF TimerAdded
  <2>3. QED
    BY <1>6, <2>2 DEF TimerAdded, callVars
<1>7. ASSUME NEW c \in Callers, NEW ok \in BOOLEAN, InitReturns(c, ok) PROVE TypeOK'
  <2>1. destroyed' \in BOOLEAN
    BY <1>7, Zenon DEF InitReturns
  <2>2. QED
    BY <1>7, <2>1 DEF InitReturns, Goto, eventVars
<1>8. ASSUME NEW c \in Callers, NEW created \in BOOLEAN, ScheduleFails(c, created) PROVE TypeOK'
  <2>1. lastEventId' \in Nat
    BY <1>8 DEF ScheduleFails
  <2>2. QED
    BY <1>8, <2>1, ScheduleReturnsType DEF ScheduleFails, workerVars
<1>9. ASSUME NEW c \in Callers, ScheduleQueues(c) PROVE TypeOK'
  <2>1. cevent[c] \in Events /\ ctime[c] \in Nat
    BY <1>9 DEF ScheduleQueues, CallInv
  <2>2. Position(ctime[c]) \in 1 .. Len(eventQ) + 1
    BY <2>1, PositionRight
  <2>3. eventQ' \in Seq(Events)
    BY <1>9, <2>1, <2>2, InsertAtElements DEF ScheduleQueues
  <2>4. /\ eventTime' \in [Events -> 0..MaxTime] /\ eventId' \in [Events -> Nat]
        /\ fate' \in [Events -> {"new", "refused", "queued", "pool", "removed", "freed"}]
        /\ lastEventId' \in Nat
    BY <1>9, <2>1 DEF ScheduleQueues
  <2>5. QED
    BY <1>9, <2>3, <2>4, SignalType, ScheduleReturnsType DEF ScheduleQueues, workerVars
<1>10. ASSUME NEW c \in Callers, ShutdownResumes(c) PROVE TypeOK'
  <2>1. destroyed' \in BOOLEAN
    BY <1>10, Zenon DEF ShutdownResumes
  <2>2. QED
    BY <1>10, <2>1 DEF ShutdownResumes, Goto, workerVars, eventVars
<1>11. ASSUME NEW c \in Callers, NEW e \in Events, RemoveEvent(c, e) PROVE TypeOK'
  <2>1. PICK i \in 1 .. Len(eventQ) :
          eventQ' = RemoveAt(eventQ, i) /\ fate' = [fate EXCEPT ![eventQ[i]] = "removed"]
    BY <1>11 DEF RemoveEvent
  <2>2. eventQ' \in Seq(Events)
    BY <2>1, RemoveAtElements
  <2>3. QED
    BY <1>11, <2>1, <2>2 DEF RemoveEvent, workerVars, callVars
<1>12. ASSUME NEW c \in Callers, NEW e \in Events, NEW delay \in Delays, Schedule(c, e, delay)
       PROVE  TypeOK'
  BY <1>12 DEF Schedule, Goto, timerVars, workerVars, eventVars
<1>13. ASSUME NEW c \in Callers, Shutdown(c) PROVE TypeOK'
  BY <1>13 DEF Shutdown, Goto, workerVars
<1>14. CASE Tick
  BY <1>14 DEF Tick, timerVars, workerVars, callVars, eventVars
<1> HIDE DEF Inv, TypeOK
<1>15. QED
  BY <1>1, <1>2, <1>3, <1>4, <1>5, <1>6, <1>7, <1>8, <1>9, <1>10, <1>11, <1>12, <1>13, <1>14
     DEF Next, TimerStep, CallerStep

(* Every step keeps the mutex where it belongs, and nothing but time       *)
(* passes while a job is handed over.                                      *)
LEMMA MutexStep ==
    ASSUME Inv, Next
    PROVE  MutexInv' /\ AddingInv'
<1> USE TimerAssumption DEF Inv, TypeOK, MutexInv, AddingInv
<1>0. /\ Free => mutex = NoThread /\ tpc \notin {"top", "adding", "none"}
      /\ mutex \in Callers => mutex # Timer /\ mutex # NoThread
  BY DEF Free
<1>1. CASE TimerLocks
  BY <1>0, <1>1 DEF TimerLocks, callVars
<1>2. CASE TimerStops
  BY <1>2 DEF TimerStops, callVars
<1>3. CASE TimerAdds
  BY <1>3 DEF TimerAdds, Due, timerVars, callVars, eventVars
<1>4. CASE TimerWaits
  BY <1>4 DEF TimerWaits, callVars
<1>5. CASE TimerTimeOut
  BY <1>5 DEF TimerTimeOut, Due, workerVars, callVars, eventVars
<1>6. ASSUME NEW ok \in BOOLEAN, TimerAdded(ok) PROVE MutexInv' /\ AddingInv'
  BY <1>6 DEF TimerAdded, callVars
<1>7. ASSUME NEW c \in Callers, NEW ok \in BOOLEAN, InitReturns(c, ok)
      PROVE  MutexInv' /\ AddingInv'
  <2>1. tpc = "none" /\ tpc' \in {"start", "ended"} /\ mutex' = NoThread
    BY <1>7 DEF InitReturns
  <2>2. \A d \in Callers : cpc'[d] # "init"
    BY <1>7 DEF InitReturns, Goto
  <2>3. QED
    BY <2>1, <2>2
<1>8. ASSUME NEW c \in Callers, NEW created \in BOOLEAN, ScheduleFails(c, created)
      PROVE  MutexInv' /\ AddingInv'
  BY <1>0, <1>8 DEF ScheduleFails, ScheduleReturns, Goto, workerVars
<1>9. ASSUME NEW c \in Callers, ScheduleQueues(c) PROVE MutexInv' /\ AddingInv'
  BY <1>0, <1>9 DEF ScheduleQueues, ScheduleReturns, Goto, workerVars
<1>10. ASSUME NEW c \in Callers, ShutdownResumes(c) PROVE MutexInv' /\ AddingInv'
  BY <1>0, <1>10 DEF ShutdownResumes, Goto, workerVars
<1>11. ASSUME NEW c \in Callers, NEW e \in Events, RemoveEvent(c, e)
       PROVE  MutexInv' /\ AddingInv'
  BY <1>0, <1>11 DEF RemoveEvent, workerVars, callVars
<1>12. ASSUME NEW c \in Callers, NEW e \in Events, NEW delay \in Delays, Schedule(c, e, delay)
       PROVE  MutexInv' /\ AddingInv'
  BY <1>12 DEF Schedule, Goto, Due, timerVars, workerVars, eventVars
<1>13. ASSUME NEW c \in Callers, Shutdown(c) PROVE MutexInv' /\ AddingInv'
  BY <1>0, <1>13 DEF Shutdown, Goto, workerVars
<1>14. CASE Tick
  <2>1. eventQ # <<>> => eventTime[Head(eventQ)] \in 0 .. MaxTime
    BY TailElements
  <2>2. QED
    BY <1>14, <2>1 DEF Tick, Due, timerVars, workerVars, callVars, eventVars
<1> HIDE DEF Inv, TypeOK, MutexInv, AddingInv
<1>15. QED
  BY <1>1, <1>2, <1>3, <1>4, <1>5, <1>6, <1>7, <1>8, <1>9, <1>10, <1>11, <1>12, <1>13, <1>14
     DEF Next, TimerStep, CallerStep

(* What is queued, handed over, removed or freed was not new. *)
LEMMA QueuedAreEvents ==
    ASSUME Inv, NEW i \in 1 .. Len(eventQ)
    PROVE  eventQ[i] \in Events /\ fate[eventQ[i]] = "queued"
<1>1. eventQ[i] \in Events
  BY DEF Inv, TypeOK
<1>2. eventQ[i] \in ToSet(eventQ)
  BY ToSetPlaces DEF Inv, TypeOK
<1>3. QED
  BY <1>1, <1>2 DEF Inv, QueueHoldsTheQueued

(* Every step keeps the events of TimerThreadSchedule apart. *)
LEMMA CallStep ==
    ASSUME Inv, Next
    PROVE  CallInv'
<1> USE TimerAssumption DEF Inv, TypeOK, NoEvent
<1>1. ASSUME UNCHANGED <<cevent, fate>>,
             \A c \in Callers : cpc'[c] = "schedule" <=> cpc[c] = "schedule"
      PROVE  CallInv'
  BY <1>1 DEF CallInv
<1>2. CASE TimerLocks \/ TimerStops \/ TimerAdds \/ TimerWaits \/ TimerTimeOut \/ Tick
  BY <1>1, <1>2 DEF TimerLocks, TimerStops, TimerAdds, TimerWaits, TimerTimeOut, Tick,
                    callVars, eventVars
<1>3. ASSUME NEW e \in Events, NEW v, fate[e] = "queued", fate' = [fate EXCEPT ![e] = v],
             UNCHANGED callVars
      PROVE  CallInv'
  <2>1. \A c \in Callers : cevent[c] # NoEvent => fate[cevent[c]] = "new" /\ cevent[c] # e
    BY <1>3 DEF CallInv
  <2>2. QED
    BY <1>3, <2>1 DEF CallInv, callVars
<1>4. ASSUME NEW ok \in BOOLEAN, TimerAdded(ok) PROVE CallInv'
  <2>1. eventQ # <<>>
    BY <1>4 DEF TimerAdded, AddingInv, Due
  <2>2. Head(eventQ) \in Events /\ fate[Head(eventQ)] = "queued"
    BY <2>1, QueuedAreEvents, TailElements
  <2>3. QED
    BY <1>3, <1>4, <2>2 DEF TimerAdded
<1>5. ASSUME NEW c \in Callers, NEW ok \in BOOLEAN, InitReturns(c, ok) PROVE CallInv'
  BY <1>1, <1>5 DEF InitReturns, Goto, eventVars
<1>6. ASSUME NEW c \in Callers, NEW v, cpc[c] = "schedule", ScheduleReturns(c),
             fate' = [fate EXCEPT ![cevent[c]] = v]
      PROVE  CallInv'
  <2>1. cevent[c] \in Events
    BY <1>6 DEF CallInv
  <2>2. \A d \in Callers : d # c => cpc'[d] = cpc[d] /\ cevent'[d] = cevent[d]
                                 /\ cevent[d] # cevent[c]
    BY <1>6, <2>1 DEF ScheduleReturns, Goto, CallInv
  <2>3. cpc'[c] = "idle" /\ cevent'[c] = NoEvent
    BY <1>6 DEF ScheduleReturns, Goto
  <2>4. \A e \in Events : e # cevent[c] => fate'[e] = fate[e]
    BY <1>6, <2>1
  <2>5. QED
    BY <2>2, <2>3, <2>4 DEF CallInv
<1>7. ASSUME NEW c \in Callers, NEW created \in BOOLEAN, ScheduleFails(c, created)
      PROVE  CallInv'
  BY <1>6, <1>7 DEF ScheduleFails
<1>8. ASSUME NEW c \in Callers, ScheduleQueues(c) PROVE CallInv'
  BY <1>6, <1>8 DEF ScheduleQueues
<1>9. ASSUME NEW c \in Callers, ShutdownResumes(c) PROVE CallInv'
  BY <1>1, <1>9 DEF ShutdownResumes, Goto, eventVars
<1>10. ASSUME NEW c \in Callers, NEW e \in Events, RemoveEvent(c, e) PROVE CallInv'
  <2>1. PICK i \in 1 .. Len(eventQ) : fate' = [fate EXCEPT ![eventQ[i]] = "removed"]
    BY <1>10 DEF RemoveEvent
  <2>2. QED
    BY <1>3, <1>10, <2>1, QueuedAreEvents DEF RemoveEvent
<1>11. ASSUME NEW c \in Callers, NEW e \in Events, NEW delay \in Delays, Schedule(c, e, delay)
       PROVE  CallInv'
  BY <1>11 DEF Schedule, MayCall, Goto, eventVars, CallInv
<1>12. ASSUME NEW c \in Callers, Shutdown(c) PROVE CallInv'
  <2>1. \A e \in Events : fate[e] = "new" => fate'[e] = "new"
    BY <1>12 DEF Shutdown, QueueHoldsTheQueued
  <2>2. QED
    BY <1>12, <2>1 DEF Shutdown, MayCall, Goto, CallInv
<1> HIDE DEF Inv, TypeOK
<1>13. QED
  BY <1>2, <1>4, <1>5, <1>7, <1>8, <1>9, <1>10, <1>11, <1>12 DEF Next, TimerStep, CallerStep

(* The steps that touch the queue, and what each of them does to it. *)
Hands(q) == /\ tpc = "adding" /\ eventQ # <<>> /\ eventQ' = Tail(eventQ)
            /\ q \in {"pool", "freed"} /\ fate' = [fate EXCEPT ![Head(eventQ)] = q]
            /\ UNCHANGED <<eventTime, eventId, lastEventId>>
Queues(c) == /\ cpc[c] = "schedule" /\ ScheduleQueues(c)
             /\ cevent[c] \in Events /\ fate[cevent[c]] = "new" /\ ctime[c] \in 0 .. MaxTime
Takes(i) == /\ eventQ' = RemoveAt(eventQ, i)
            /\ fate' = [fate EXCEPT ![eventQ[i]] = "removed"]
            /\ UNCHANGED <<eventTime, eventId, lastEventId>>
Frees == /\ eventQ' = <<>> /\ UNCHANGED <<eventTime, eventId, lastEventId>>
         /\ fate' = [e \in Events |-> IF e \in ToSet(eventQ) THEN "freed" ELSE fate[e]]
Refuses(e) == /\ fate[e] = "new" /\ fate' = [fate EXCEPT ![e] = "refused"]
              /\ lastEventId' \in {lastEventId, lastEventId + 1}
              /\ UNCHANGED <<eventQ, eventTime, eventId>>

(* A step of the timer does one of these to the queue. *)
LEMMA QueueSteps ==
    ASSUME Inv, Next
    PROVE  \/ UNCHANGED <<eventQ, lastEventId, eventVars>>
           \/ \E q \in {"pool", "freed"} : Hands(q)
           \/ \E c \in Callers : Queues(c)
           \/ \E i \in 1 .. Len(eventQ) : Takes(i)
           \/ Frees
           \/ \E e \in Events : Refuses(e)
<1> USE DEF Inv
<1>1. CASE TimerLocks \/ TimerStops \/ TimerAdds \/ TimerWaits \/ TimerTimeOut \/ Tick
  BY <1>1 DEF TimerLocks, TimerStops, TimerAdds, TimerWaits, TimerTimeOut, Tick,
              timerVars, eventVars
<1>2. ASSUME NEW ok \in BOOLEAN, TimerAdded(ok) PROVE \E q \in {"pool", "freed"} : Hands(q)
  BY <1>2 DEF TimerAdded, AddingInv, Due, Hands
<1>3. ASSUME NEW c \in Callers, NEW ok \in BOOLEAN, InitReturns(c, ok)
      PROVE  UNCHANGED <<eventQ, lastEventId, eventVars>>
  BY <1>3 DEF InitReturns
<1>4. ASSUME NEW c \in Callers, NEW created \in BOOLEAN, ScheduleFails(c, created)
      PROVE  \E e \in Events : Refuses(e)
  <2>1. cevent[c] \in Events /\ fate[cevent[c]] = "new"
    BY <1>4 DEF ScheduleFails, CallInv, TypeOK
  <2>2. Refuses(cevent[c])
    BY <1>4, <2>1 DEF ScheduleFails, Refuses
  <2>3. QED
    BY <2>1, <2>2
<1>5. ASSUME NEW c \in Callers, ScheduleQueues(c) PROVE Queues(c)
  BY <1>5 DEF ScheduleQueues, Queues, CallInv, TypeOK
<1>6. ASSUME NEW c \in Callers, ShutdownResumes(c) \/ \E e \in Events, delay \in Delays : Schedule(c, e, delay)
      PROVE  UNCHANGED <<eventQ, lastEventId, eventVars>>
  BY <1>6 DEF ShutdownResumes, Schedule, timerVars
<1>7. ASSUME NEW c \in Callers, NEW e \in Events, RemoveEvent(c, e)
      PROVE  \E i \in 1 .. Len(eventQ) : Takes(i)
  BY <1>7 DEF RemoveEvent, Takes
<1>8. ASSUME NEW c \in Callers, Shutdown(c) PROVE Frees
  BY <1>8 DEF Shutdown, Frees
<1> HIDE DEF Inv
<1>9. QED
  BY <1>1, <1>2, <1>3, <1>4, <1>5, <1>6, <1>7, <1>8 DEF Next, TimerStep, CallerStep

(* Every step keeps the queue to the events that are to fire. *)
LEMMA HoldsStep ==
    ASSUME Inv, Next
    PROVE  QueueHoldsTheQueued'
<1> DEFINE H == \A e \in Events : fate[e] = "queued" <=> e \in ToSet(eventQ)
<1>0. (H /\ Distinct(eventQ) <=> QueueHoldsTheQueued) /\ eventQ \in Seq(Events) /\ H /\ Distinct(eventQ)
  BY DEF Inv, TypeOK, QueueHoldsTheQueued, Distinct
<1>a. (H /\ Distinct(eventQ))' => QueueHoldsTheQueued'
  BY DEF QueueHoldsTheQueued, Distinct
<1>b. fate \in [Events -> {"new", "refused", "queued", "pool", "removed", "freed"}]
  BY DEF Inv, TypeOK
<1>1. CASE UNCHANGED <<eventQ, lastEventId, eventVars>>
  BY <1>0, <1>1, <1>a DEF eventVars
<1>2. ASSUME NEW q \in {"pool", "freed"}, Hands(q) PROVE QueueHoldsTheQueued'
  <2>1. ToSet(eventQ') = ToSet(eventQ) \ {Head(eventQ)} /\ Distinct(eventQ')
    BY <1>0, <1>2, TailMembers DEF Hands
  <2>2. H'
    BY <1>0, <1>2, <1>b, <2>1 DEF Hands
  <2>3. QED
    BY <1>a, <2>1, <2>2 DEF Distinct
<1>3. ASSUME NEW c \in Callers, Queues(c) PROVE QueueHoldsTheQueued'
  <2>0. Position(ctime[c]) \in 1 .. Len(eventQ) + 1
    <3>1. TypeOK /\ ctime[c] \in Nat
      BY <1>3, TimerAssumption DEF Queues, Inv
    <3>2. QED
      BY <3>1, PositionRight
  <2>1. /\ ToSet(eventQ') = ToSet(eventQ) \cup {cevent[c]}
        /\ cevent[c] \notin ToSet(eventQ) => Distinct(eventQ')
    BY <1>0, <1>3, <2>0, InsertAtMembers DEF Queues, ScheduleQueues
  <2>2. cevent[c] \notin ToSet(eventQ)
    BY <1>0, <1>3 DEF Queues
  <2>3. H'
    BY <1>0, <1>3, <1>b, <2>1 DEF Queues, ScheduleQueues
  <2>4. QED
    BY <1>a, <2>1, <2>2, <2>3 DEF Distinct
<1>4. ASSUME NEW i \in 1 .. Len(eventQ), Takes(i) PROVE QueueHoldsTheQueued'
  <2>1. ToSet(eventQ') = ToSet(eventQ) \ {eventQ[i]} /\ Distinct(eventQ')
    BY <1>0, <1>4, RemoveAtMembers DEF Takes
  <2>2. H'
    BY <1>0, <1>4, <1>b, <2>1 DEF Takes
  <2>3. QED
    BY <1>a, <2>1, <2>2 DEF Distinct
<1>5. CASE Frees
  <2>1. ToSet(eventQ') = {} /\ Distinct(eventQ')
    BY <1>5 DEF Frees, ToSet, Distinct
  <2>2. H'
    BY <1>0, <1>5, <1>b, <2>1 DEF Frees
  <2>3. QED
    BY <1>a, <2>1, <2>2 DEF Distinct
<1>6. ASSUME NEW e \in Events, Refuses(e) PROVE QueueHoldsTheQueued'
  BY <1>0, <1>6, <1>a, <1>b DEF Refuses, Distinct
<1>7. QED
  BY <1>1, <1>2, <1>3, <1>4, <1>5, <1>6, QueueSteps

(* Every step keeps the ids apart. *)
LEMMA IdStep ==
    ASSUME Inv, Next
    PROVE  IdInv'
<1> USE DEF Inv, TypeOK, IdInv, HasId
<1>1. CASE UNCHANGED <<eventQ, lastEventId, eventVars>>
  BY <1>1 DEF eventVars
<1>2. ASSUME NEW e \in Events, HasId(e), NEW v, fate' = [fate EXCEPT ![e] = v],
             UNCHANGED <<eventId, lastEventId>>
      PROVE  IdInv'
  BY <1>2
<1>3. ASSUME NEW q \in {"pool", "freed"}, Hands(q) PROVE IdInv'
  <2>1. Head(eventQ) \in Events /\ fate[Head(eventQ)] = "queued"
    BY <1>3, QueuedAreEvents, TailElements DEF Hands
  <2>2. QED
    BY <1>2, <1>3, <2>1 DEF Hands
<1>4. ASSUME NEW c \in Callers, Queues(c) PROVE IdInv'
  BY <1>4 DEF Queues, ScheduleQueues
<1>5. ASSUME NEW i \in 1 .. Len(eventQ), Takes(i) PROVE IdInv'
  BY <1>2, <1>5, QueuedAreEvents DEF Takes
<1>6. CASE Frees
  <2>1. \A e \in Events : HasId(e)' <=> HasId(e)
    BY <1>6 DEF Frees, QueueHoldsTheQueued
  <2>2. QED
    BY <1>6, <2>1 DEF Frees
<1>7. ASSUME NEW e \in Events, Refuses(e) PROVE IdInv'
  BY <1>7 DEF Refuses
<1> HIDE DEF Inv, TypeOK, IdInv, HasId
<1>8. QED
  BY <1>1, <1>3, <1>4, <1>5, <1>6, <1>7, QueueSteps

(* Every step keeps the queue in the order of time. *)
LEMMA SortedStep ==
    ASSUME Inv, Next
    PROVE  QueueSorted'
<1>0. /\ eventQ \in Seq(Events) /\ eventTime \in [Events -> Nat] /\ Len(eventQ) \in Nat
      /\ \A k \in 1 .. Len(eventQ) : eventQ[k] \in Events /\ eventTime[eventQ[k]] \in Nat
      /\ QueueSorted
  BY TimerAssumption DEF Inv, TypeOK
<1>1. CASE UNCHANGED <<eventQ, lastEventId, eventVars>>
  BY <1>0, <1>1 DEF eventVars, QueueSorted
<1>2. ASSUME NEW q \in {"pool", "freed"}, Hands(q) PROVE QueueSorted'
  <2>1. Len(eventQ') = Len(eventQ) - 1 /\ \A k \in 1 .. Len(eventQ) - 1 : eventQ'[k] = eventQ[k + 1]
    BY <1>0, <1>2, TailElements DEF Hands
  <2>2. QED
    BY <1>0, <1>2, <2>1 DEF Hands, QueueSorted
<1>3. ASSUME NEW c \in Callers, Queues(c) PROVE QueueSorted'
  <2> DEFINE p == Position(ctime[c])
             t == ctime[c]
             n == cevent[c]
  <2>0. TypeOK /\ t \in Nat /\ n \in Events
    BY <1>3, TimerAssumption DEF Queues, Inv
  <2>1. /\ p \in 1 .. Len(eventQ) + 1
        /\ p <= Len(eventQ) => eventTime[eventQ[p]] >= t
        /\ \A k \in 1 .. p - 1 : eventTime[eventQ[k]] < t
    BY <2>0, PositionRight
  <2> HIDE DEF p
  <2>2. eventQ' = InsertAt(eventQ, p, n) /\ eventTime' = [eventTime EXCEPT ![n] = t]
    BY <1>3 DEF Queues, ScheduleQueues, p
  <2>3. /\ Len(eventQ') = Len(eventQ) + 1
        /\ \A k \in 1 .. Len(eventQ) + 1 :
             eventQ'[k] = IF k < p THEN eventQ[k] ELSE IF k = p THEN cevent[c] ELSE eventQ[k - 1]
    <3>1. eventQ \in Seq(Events) /\ p \in 1 .. Len(eventQ) + 1 /\ cevent[c] \in Events
      BY <1>0, <2>0, <2>1
    <3>2. eventQ' = InsertAt(eventQ, p, cevent[c])
      BY <2>2
    <3>3. Len(InsertAt(eventQ, p, cevent[c])) = Len(eventQ) + 1
      BY <3>1, InsertAtElements
    <3>4. \A k \in 1 .. Len(eventQ) + 1 :
            InsertAt(eventQ, p, cevent[c])[k] =
              IF k < p THEN eventQ[k] ELSE IF k = p THEN cevent[c] ELSE eventQ[k - 1]
      BY <3>1, InsertAtElements
    <3>5. QED
      BY <3>2, <3>3, <3>4
  <2>4. \A k \in 1 .. Len(eventQ) : eventTime'[eventQ[k]] = eventTime[eventQ[k]]
    <3>1. \A k \in 1 .. Len(eventQ) : eventQ[k] # n
      BY <1>3, QueuedAreEvents DEF Queues
    <3>2. QED
      BY <1>0, <2>0, <2>2, <3>1
  <2>5. eventTime'[n] = t
    BY <1>0, <2>0, <2>2
  <2> DEFINE f == [k \in 1 .. Len(eventQ) |-> eventTime[eventQ[k]]]
             g == [k \in 1 .. Len(eventQ) + 1 |-> eventTime'[eventQ'[k]]]
  <2>6. \A k \in 1 .. Len(eventQ) + 1 :
          g[k] = IF k < p THEN f[k] ELSE IF k = p THEN t ELSE f[k - 1]
    <3>1. SUFFICES ASSUME NEW k \in 1 .. Len(eventQ) + 1
                   PROVE  g[k] = IF k < p THEN f[k] ELSE IF k = p THEN t ELSE f[k - 1]
      OBVIOUS
    <3>2. CASE k < p
      BY <1>0, <2>1, <2>3, <2>4, <3>2
    <3>3. CASE k = p
      BY <1>0, <2>1, <2>3, <2>5, <3>3
    <3>4. CASE k > p
      <4>1. k - 1 \in 1 .. Len(eventQ) /\ ~(k < p) /\ k # p
        BY <1>0, <2>1, <3>4
      <4>2. eventQ'[k] = eventQ[k - 1] /\ eventTime'[eventQ[k - 1]] = eventTime[eventQ[k - 1]]
        BY <2>3, <2>4, <4>1
      <4>3. QED
        BY <4>1, <4>2
    <3>5. QED
      BY <1>0, <2>1, <3>2, <3>3, <3>4
  <2>7. f \in [1 .. Len(eventQ) -> Nat] /\ \A i, k \in 1 .. Len(eventQ) : i < k => f[i] <= f[k]
    BY <1>0 DEF QueueSorted
  <2>8. g \in [1 .. Len(eventQ) + 1 -> Nat]
    <3>1. ASSUME NEW k \in 1 .. Len(eventQ) + 1 PROVE g[k] \in Nat
      <4>1. k < p \/ k = p \/ (k > p /\ k - 1 \in 1 .. Len(eventQ))
        BY <1>0, <2>1
      <4>2. k < p => k \in 1 .. Len(eventQ)
        BY <1>0, <2>1
      <4>3. \A m \in 1 .. Len(eventQ) : f[m] \in Nat
        BY <2>7
      <4> HIDE DEF f, g
      <4>4. QED
        BY <2>0, <2>1, <2>6, <4>1, <4>2, <4>3
    <3>2. QED
      BY <3>1
  <2>9. (p <= Len(eventQ) => f[p] >= t) /\ \A k \in 1 .. p - 1 : f[k] < t
    BY <1>0, <2>1
  <2> HIDE DEF f, g, t
  <2>10. \A i, k \in 1 .. Len(eventQ) + 1 : i < k => g[i] <= g[k]
    BY <1>0, <2>0, <2>1, <2>6, <2>7, <2>8, <2>9, InsertKeepsOrder
  <2>11. QED
    BY <2>3, <2>10 DEF QueueSorted, g
<1>4. ASSUME NEW i \in 1 .. Len(eventQ), Takes(i) PROVE QueueSorted'
  <2>1. /\ Len(eventQ') = Len(eventQ) - 1
        /\ \A k \in 1 .. Len(eventQ) - 1 : eventQ'[k] = IF k < i THEN eventQ[k] ELSE eventQ[k + 1]
    BY <1>0, <1>4, RemoveAtElements DEF Takes
  <2> DEFINE f == [k \in 1 .. Len(eventQ) |-> eventTime[eventQ[k]]]
             g == [k \in 1 .. Len(eventQ) - 1 |-> eventTime[eventQ'[k]]]
  <2>2. f \in [1 .. Len(eventQ) -> Nat] /\ \A m, k \in 1 .. Len(eventQ) : m < k => f[m] <= f[k]
    BY <1>0 DEF QueueSorted
  <2>3. \A k \in 1 .. Len(eventQ) - 1 : g[k] = IF k < i THEN f[k] ELSE f[k + 1]
    <3>1. \A k \in 1 .. Len(eventQ) - 1 : k \in 1 .. Len(eventQ) /\ k + 1 \in 1 .. Len(eventQ)
      BY <1>0
    <3>2. QED
      BY <2>1, <3>1
  <2> HIDE DEF f, g
  <2>4. \A m, k \in 1 .. Len(eventQ) - 1 : m < k => g[m] <= g[k]
    BY <1>0, <2>2, <2>3, RemoveKeepsOrder
  <2>5. QED
    BY <1>4, <2>1, <2>4 DEF QueueSorted, Takes, g
<1>5. CASE Frees
  BY <1>5 DEF Frees, QueueSorted
<1>6. ASSUME NEW e \in Events, Refuses(e) PROVE QueueSorted'
  BY <1>0, <1>6 DEF Refuses, QueueSorted
<1>7. QED
  BY <1>1, <1>2, <1>3, <1>4, <1>5, <1>6, QueueSteps

(* Every step keeps the worker and TimerThreadShutdown apart. *)
LEMMA SleepStep ==
    ASSUME Inv, Next
    PROVE  SleepInv'
<1> USE TimerAssumption DEF Inv, TypeOK, SleepInv
<1>0. Free => tpc \notin {"top", "adding", "none"}
  BY DEF Free, MutexInv
<1>1. CASE TimerLocks
  BY <1>1 DEF TimerLocks, callVars
<1>2. CASE TimerStops
  BY <1>2, SignalType DEF TimerStops, callVars
<1>3. CASE TimerAdds
  BY <1>3 DEF TimerAdds, timerVars, callVars
<1>4. CASE TimerWaits
  BY <1>4 DEF TimerWaits, callVars
<1>5. CASE TimerTimeOut
  BY <1>5 DEF TimerTimeOut, workerVars, callVars
<1>6. ASSUME NEW ok \in BOOLEAN, TimerAdded(ok) PROVE SleepInv'
  BY <1>6 DEF TimerAdded, callVars
<1>7. ASSUME NEW c \in Callers, NEW ok \in BOOLEAN, InitReturns(c, ok) PROVE SleepInv'
  BY <1>7 DEF InitReturns, Goto, MutexInv
<1>8. ASSUME NEW c \in Callers, NEW created \in BOOLEAN, ScheduleFails(c, created) PROVE SleepInv'
  BY <1>8 DEF ScheduleFails, ScheduleReturns, Goto, workerVars
<1>9. ASSUME NEW c \in Callers, ScheduleQueues(c) PROVE SleepInv'
  BY <1>9, SignalType DEF ScheduleQueues, ScheduleReturns, Goto, workerVars
<1>10. ASSUME NEW c \in Callers, ShutdownResumes(c) PROVE SleepInv'
  BY <1>10 DEF ShutdownResumes, Goto, workerVars
<1>11. ASSUME NEW c \in Callers, NEW e \in Events, RemoveEvent(c, e) PROVE SleepInv'
  BY <1>11 DEF RemoveEvent, workerVars, callVars
<1>12. ASSUME NEW c \in Callers, NEW e \in Events, NEW delay \in Delays, Schedule(c, e, delay)
       PROVE  SleepInv'
  BY <1>12 DEF Schedule, MayCall, Goto, timerVars, workerVars
<1>13. ASSUME NEW c \in Callers, Shutdown(c) PROVE SleepInv'
  BY <1>13 DEF Shutdown, Goto, workerVars
<1>14. CASE Tick
  BY <1>14 DEF Tick, timerVars, workerVars, callVars
<1> HIDE DEF Inv, TypeOK, SleepInv
<1>15. QED
  BY <1>1, <1>2, <1>3, <1>4, <1>5, <1>6, <1>7, <1>8, <1>9, <1>10, <1>11, <1>12, <1>13, <1>14
     DEF Next, TimerStep, CallerStep

(* Every step lets the worker sleep no longer than until the first event:  *)
(* the signal of TimerThreadSchedule wakes it, and not somebody else.      *)
LEMMA OversleepStep ==
    ASSUME Inv, Next
    PROVE  NoOversleep'
<1>0. /\ eventQ \in Seq(Events) /\ Len(eventQ) \in Nat /\ eventTime \in [Events -> Nat]
      /\ deadline \in Nat /\ QueueSorted /\ NoOversleep
      /\ \A k \in 1 .. Len(eventQ) : eventQ[k] \in Events /\ eventTime[eventQ[k]] \in Nat
      /\ eventQ # <<>> => Head(eventQ) = eventQ[1] /\ Len(eventQ) >= 1
  BY TimerAssumption, TailElements DEF Inv, TypeOK, Never
<1>1. ASSUME UNCHANGED <<eventQ, eventTime, deadline>>, Timer \in sleepers' => Timer \in sleepers
      PROVE  NoOversleep'
  BY <1>0, <1>1 DEF NoOversleep
<1>2. CASE TimerLocks \/ TimerStops \/ TimerAdds \/ TimerTimeOut \/ Tick
  BY <1>1, <1>2, SignalType DEF TimerLocks, TimerStops, TimerAdds, TimerTimeOut, Tick,
                    timerVars, workerVars, eventVars
<1>3. CASE TimerWaits
  BY <1>0, <1>3 DEF TimerWaits, eventVars, NoOversleep
<1>4. ASSUME NEW ok \in BOOLEAN, TimerAdded(ok) PROVE NoOversleep'
  BY <1>4 DEF TimerAdded, Inv, SleepInv, NoOversleep
<1>5. ASSUME NEW c \in Callers,
             \/ \E ok \in BOOLEAN : InitReturns(c, ok) \/ ScheduleFails(c, ok)
             \/ \E e \in Events, delay \in Delays : Schedule(c, e, delay)
      PROVE  NoOversleep'
  BY <1>1, <1>5 DEF InitReturns, ScheduleFails, Schedule, timerVars, workerVars, eventVars
<1>6. ASSUME NEW c \in Callers, ShutdownResumes(c) PROVE NoOversleep'
  BY <1>1, <1>6, TimerAssumption DEF ShutdownResumes, workerVars, eventVars
<1>7. ASSUME NEW c \in Callers, ScheduleQueues(c) PROVE NoOversleep'
  <2>1. Timer \in sleepers => sleepers = {Timer}
    BY DEF Inv, SleepInv, TypeOK
  <2>2. Timer \notin sleepers'
    BY <1>7, <2>1 DEF ScheduleQueues, Signal
  <2>3. QED
    BY <2>2 DEF NoOversleep
<1>8. ASSUME NEW c \in Callers, NEW e \in Events, RemoveEvent(c, e) PROVE NoOversleep'
  <2>1. PICK i \in 1 .. Len(eventQ) : eventQ' = RemoveAt(eventQ, i)
    BY <1>8 DEF RemoveEvent
  <2>2. /\ eventQ' \in Seq(Events) /\ Len(eventQ') = Len(eventQ) - 1
        /\ \A k \in 1 .. Len(eventQ) - 1 : eventQ'[k] = IF k < i THEN eventQ[k] ELSE eventQ[k + 1]
    BY <1>0, <2>1, RemoveAtElements
  <2>3. eventQ' # <<>> => Head(eventQ') = eventQ'[1] /\ Len(eventQ) - 1 >= 1
    BY <2>2, TailElements
  <2>4. eventQ' # <<>> => eventTime[eventQ[1]] <= eventTime[Head(eventQ')] /\ eventQ # <<>>
    BY <1>0, <2>2, <2>3 DEF QueueSorted
  <2>5. UNCHANGED <<sleepers, deadline, eventTime>>
    BY <1>8 DEF RemoveEvent, workerVars
  <2>6. eventQ' # <<>> => Head(eventQ') \in Events
    BY <2>2, TailElements
  <2>7. QED
    BY <1>0, <2>4, <2>5, <2>6 DEF NoOversleep
<1>9. ASSUME NEW c \in Callers, Shutdown(c) PROVE NoOversleep'
  BY <1>9 DEF Shutdown, NoOversleep
<1>10. QED
  BY <1>2, <1>3, <1>4, <1>5, <1>6, <1>7, <1>8, <1>9 DEF Next, TimerStep, CallerStep

(* Every step keeps the timer at rest once TimerThreadShutdown has begun,  *)
(* if no caller comes late.                                                *)
LEMMA EndStep ==
    ASSUME Inv, EndInv, LateCalls = FALSE, Next
    PROVE  EndInv'
<1> USE TimerAssumption DEF Inv, TypeOK, EndInv
<1>1. CASE TimerLocks
  BY <1>1 DEF TimerLocks, callVars, Free
<1>2. CASE TimerStops
  BY <1>2 DEF TimerStops, callVars
<1>3. CASE TimerAdds
  BY <1>3 DEF TimerAdds, timerVars, callVars
<1>4. CASE TimerWaits
  BY <1>4 DEF TimerWaits, callVars
<1>5. CASE TimerTimeOut
  BY <1>5 DEF TimerTimeOut, workerVars, callVars
<1>6. ASSUME NEW ok \in BOOLEAN, TimerAdded(ok) PROVE EndInv'
  BY <1>6 DEF TimerAdded, callVars, AddingInv, Due
<1>7. ASSUME NEW c \in Callers, NEW ok \in BOOLEAN, InitReturns(c, ok) PROVE EndInv'
  <2>1. eventQ = <<>>
    BY <1>7 DEF InitReturns, MutexInv
  <2>2. destroyed' => tpc' = "ended"
    BY <1>7, Zenon DEF InitReturns
  <2>3. QED
    BY <1>7, <2>1, <2>2 DEF InitReturns, Goto
<1>8. ASSUME NEW c \in Callers, NEW created \in BOOLEAN, ScheduleFails(c, created) PROVE EndInv'
  BY <1>8 DEF ScheduleFails, ScheduleReturns, Goto, workerVars
<1>9. ASSUME NEW c \in Callers, ScheduleQueues(c) PROVE EndInv'
  <2>1. \A d \in Callers : cpc[d] # "sdWait"
    BY <1>9 DEF ScheduleQueues
  <2>2. ~destroyed'
    BY <1>9 DEF ScheduleQueues, Free
  <2>3. \A d \in Callers : cpc'[d] # "sdWait"
    BY <1>9, <2>1 DEF ScheduleQueues, ScheduleReturns, Goto
  <2>4. QED
    BY <2>2, <2>3
<1>10. ASSUME NEW c \in Callers, ShutdownResumes(c) PROVE EndInv'
  <2>1. eventQ = <<>> /\ eventQ' = <<>> /\ \A d \in Callers : cpc[d] \in {"idle", "sdWait"}
    BY <1>10 DEF ShutdownResumes
  <2>2. \A d \in Callers : cpc'[d] \in {"idle", "sdWait"}
    BY <1>10, <2>1 DEF ShutdownResumes, Goto
  <2>3. shutdown \/ tpc = "ended"
    BY <1>10 DEF ShutdownResumes, SleepInv
  <2>4. destroyed' => tpc' = "ended"
    BY <1>10, <2>3 DEF ShutdownResumes, workerVars, Free
  <2>5. QED
    BY <2>1, <2>2, <2>4
<1>11. ASSUME NEW c \in Callers, NEW e \in Events, RemoveEvent(c, e) PROVE EndInv'
  BY <1>11 DEF RemoveEvent, MayCall, Free, workerVars, callVars
<1>12. ASSUME NEW c \in Callers, NEW e \in Events, NEW delay \in Delays, Schedule(c, e, delay)
       PROVE  EndInv'
  BY <1>12 DEF Schedule, MayCall, Goto, timerVars, workerVars
<1>13. ASSUME NEW c \in Callers, Shutdown(c) PROVE EndInv'
  BY <1>13 DEF Shutdown, MayCall, Goto, workerVars
<1>14. CASE Tick
  BY <1>14 DEF Tick, timerVars, workerVars, callVars
<1> HIDE DEF Inv, TypeOK, EndInv
<1>15. QED
  BY <1>1, <1>2, <1>3, <1>4, <1>5, <1>6, <1>7, <1>8, <1>9, <1>10, <1>11, <1>12, <1>13, <1>14
     DEF Next, TimerStep, CallerStep

(* Every step keeps the head of the queue due while its job is handed over. *)
LEMMA AddingStep ==
    ASSUME Inv, Next
    PROVE  AddingInv'
<1> USE TimerAssumption DEF Inv, AddingInv
<1>0. tpc = "adding" => mutex = Timer
  BY DEF MutexInv
<1>1. CASE TimerStep
  BY <1>1 DEF TimerStep, TimerLocks, TimerStops, TimerAdds, TimerAdded, TimerWaits, TimerTimeOut,
              Due, timerVars, workerVars, eventVars
<1>2. ASSUME NEW c \in Callers, CallerStep(c) PROVE AddingInv'
  BY <1>0, <1>2 DEF CallerStep, InitReturns, ScheduleFails, ScheduleQueues, ShutdownResumes, Free,
              workerVars
<1>3. ASSUME NEW c \in Callers, NEW e \in Events,
             RemoveEvent(c, e) \/ (\E delay \in Delays : Schedule(c, e, delay))
      PROVE  AddingInv'
  BY <1>0, <1>3 DEF RemoveEvent, Schedule, Free, Due, timerVars, workerVars, eventVars
<1>4. ASSUME NEW c \in Callers, Shutdown(c) PROVE AddingInv'
  BY <1>0, <1>4 DEF Shutdown, Free, workerVars
<1>5. CASE Tick
  BY <1>5 DEF Tick, Due, timerVars, workerVars, eventVars, TypeOK
<1> HIDE DEF Inv, AddingInv
<1>6. QED
  BY <1>1, <1>2, <1>3, <1>4, <1>5 DEF Next

(* The invariant is inductive. *)
LEMMA InvStep == Inv /\ [Next]_vars => Inv'
<1> SUFFICES ASSUME Inv, [Next]_vars PROVE Inv'
  OBVIOUS
<1>1. CASE Next
  BY <1>1, TypeStep, MutexStep, AddingStep, CallStep, IdStep, SleepStep, SortedStep, HoldsStep,
     OversleepStep DEF Inv
<1>2. CASE UNCHANGED vars
  BY <1>2 DEF Inv, TypeOK, MutexInv, AddingInv, CallInv, IdInv, HasId, SleepInv, QueueSorted,
     QueueHoldsTheQueued, NoOversleep, Due, vars, timerVars, workerVars, callVars, eventVars
<1>3. QED
  BY <1>1, <1>2

(* What is in the queue when the timer is destroyed: nothing. *)
LEMMA EndInvStep ==
    ASSUME LateCalls = FALSE
    PROVE  Inv /\ EndInv /\ [Next]_vars => EndInv'
<1> SUFFICES ASSUME Inv, EndInv, [Next]_vars PROVE EndInv'
  OBVIOUS
<1>1. CASE UNCHANGED vars
  BY <1>1 DEF EndInv, vars, timerVars, workerVars, callVars
<1>2. QED
  BY <1>1, EndStep

(* The invariant holds in every state of every behaviour. *)
LEMMA InvHolds == Spec => []Inv
<1>1. Init => Inv
  BY InitInv
<1>2. QED
  BY <1>1, InvStep, PTL DEF Spec

(* Every variable of the timer has its type in every reachable state, for  *)
(* any callers, events, delays and time.                                   *)
THEOREM TimerTypes == Spec => []TypeOK
<1>1. Inv => TypeOK
  BY DEF Inv
<1>2. QED
  BY <1>1, InvHolds, PTL

(* TimerThreadWorker never sleeps past the first event of its queue: the   *)
(* pthread_cond_signal of TimerThreadSchedule always reaches the worker,   *)
(* although TimerThreadShutdown waits on the same condition.               *)
THEOREM NeverOversleeps == Spec => []NoOversleep
<1>1. Inv => NoOversleep
  BY DEF Inv
<1>2. QED
  BY <1>1, InvHolds, PTL

(* The queue stays ordered by time and holds exactly the events still to   *)
(* fire, each once, even when callers enter during TimerThreadShutdown.    *)
THEOREM QueueStaysSorted == Spec => [](QueueSorted /\ QueueHoldsTheQueued)
<1>1. Inv => QueueSorted /\ QueueHoldsTheQueued
  BY DEF Inv
<1>2. QED
  BY <1>1, InvHolds, PTL

(* If no caller enters the timer after TimerThreadShutdown has begun, the  *)
(* queue is right, and it is empty and the worker has ended when           *)
(* TimerThreadShutdown returns.                                            *)
THEOREM QueueStaysRight ==
    ASSUME LateCalls = FALSE
    PROVE  Spec => []QueueRight
<1>1. Init => EndInv
  BY InitInv
<1>2. Spec => []EndInv
  BY <1>1, InvHolds, EndInvStep, PTL DEF Spec
<1>3. Inv /\ EndInv => QueueRight
  <2> SUFFICES ASSUME Inv, EndInv PROVE QueueRight
    OBVIOUS
  <2>1. eventQ = <<>> => ToSet(eventQ) = {}
    BY DEF ToSet
  <2>2. eventQ = <<>> => \A e \in Events : fate[e] # "queued"
    BY <2>1 DEF Inv, QueueHoldsTheQueued
  <2>3. ShutdownLeavesNothing
    BY <2>2 DEF EndInv, ShutdownLeavesNothing
  <2>4. QED
    BY <2>3 DEF QueueRight, Inv
<1>4. QED
  BY <1>2, <1>3, InvHolds, PTL

(* The invariant makes every step hand over the right event. *)
LEMMA HandsOver ==
    ASSUME Inv, [Next]_vars
    PROVE  FiresOnTime
<1> SUFFICES ASSUME NEW e \in Events, fate[e] # "pool", fate'[e] = "pool"
             PROVE  /\ fate[e] = "queued" /\ now >= eventTime[e]
                    /\ \A f \in Events : fate[f] = "queued" => eventTime[e] <= eventTime[f]
  BY DEF FiresOnTime
<1>1. \E ok \in BOOLEAN : TimerAdded(ok)
  <2>1. fate' # fate /\ fate \in [Events -> {"new", "refused", "queued", "pool", "removed", "freed"}]
    BY DEF Inv, TypeOK
  <2>2. ~ UNCHANGED vars
    BY <2>1 DEF vars, eventVars
  <2>3. ASSUME NEW c \in Callers PROVE ~ CallerStep(c) /\ ~ Shutdown(c)
    BY <2>1 DEF CallerStep, InitReturns, ScheduleFails, ScheduleQueues, ShutdownResumes, Shutdown,
                eventVars
  <2>4. ASSUME NEW c \in Callers, NEW f \in Events
        PROVE  ~ RemoveEvent(c, f) /\ ~ \E delay \in Delays : Schedule(c, f, delay)
    BY <2>1 DEF RemoveEvent, Schedule, eventVars
  <2>5. ~ Tick /\ ~ TimerLocks /\ ~ TimerStops /\ ~ TimerAdds /\ ~ TimerWaits /\ ~ TimerTimeOut
    BY <2>1 DEF Tick, TimerLocks, TimerStops, TimerAdds, TimerWaits, TimerTimeOut, eventVars
  <2>6. QED
    BY <2>2, <2>3, <2>4, <2>5 DEF Next, TimerStep
<1>2. tpc = "adding" /\ Due /\ e = Head(eventQ)
  BY <1>1 DEF TimerAdded, Inv, AddingInv, TypeOK
<1>3. /\ eventQ \in Seq(Events) /\ eventQ # <<>> /\ Len(eventQ) \in Nat /\ Len(eventQ) >= 1
      /\ e = eventQ[1] /\ QueueSorted /\ eventTime \in [Events -> Nat]
  BY <1>2, TimerAssumption, TailElements DEF Due, Inv, TypeOK
<1>4. now >= eventTime[e]
  BY <1>2 DEF Due
<1>5. ASSUME NEW f \in Events, fate[f] = "queued" PROVE eventTime[e] <= eventTime[f]
  <2>1. PICK k \in 1 .. Len(eventQ) : f = eventQ[k]
    BY <1>3, <1>5, ToSetPlaces DEF Inv, QueueHoldsTheQueued
  <2>2. QED
    BY <1>3, <2>1 DEF QueueSorted
<1>6. fate[e] = "queued"
  BY <1>3, ToSetPlaces DEF Inv, QueueHoldsTheQueued
<1>7. QED
  BY <1>4, <1>5, <1>6

(* The invariant makes every removal take the event it was asked for. *)
LEMMA TakesTheNamed ==
    ASSUME Inv
    PROVE  RemoveTakesTheNamedEvent
<1> SUFFICES ASSUME NEW c \in Callers, NEW e \in Events, RemoveEvent(c, e)
             PROVE  fate'[e] = "removed"
  BY DEF RemoveTakesTheNamedEvent
<1>1. PICK i \in 1 .. Len(eventQ) : /\ eventId[eventQ[i]] = eventId[e]
                                    /\ fate' = [fate EXCEPT ![eventQ[i]] = "removed"]
  BY DEF RemoveEvent
<1>2. eventQ[i] \in Events /\ HasId(eventQ[i])
  <2>1. eventQ[i] \in Events
    BY DEF Inv, TypeOK
  <2>2. eventQ \in Seq(Events)
    BY DEF Inv, TypeOK
  <2>3. fate[eventQ[i]] = "queued"
    BY <2>1, <2>2, ToSetPlaces DEF Inv, QueueHoldsTheQueued
  <2>4. QED
    BY <2>1, <2>3 DEF HasId
<1>3. HasId(e)
  BY DEF RemoveEvent, HasId
<1>4. eventQ[i] = e
  BY <1>1, <1>2, <1>3 DEF Inv, IdInv
<1>5. QED
  BY <1>1, <1>4 DEF Inv, TypeOK

(* Whatever callers do between, every step of TimerThreadWorker hands over *)
(* an event that is due and the earliest of the queue, and every           *)
(* TimerThreadRemove takes the event whose id it was given.                *)
THEOREM EventsAreHandled == Spec => EventsHandled
<1>1. Inv /\ [Next]_vars => FiresOnTime /\ RemoveTakesTheNamedEvent
  BY HandsOver, TakesTheNamed
<1>2. QED
  BY <1>1, InvHolds, PTL DEF Spec, EventsHandled

-----------------------------------------------------------------------------
(***************************************************************************)
(* The list.                                                               *)
(***************************************************************************)
(* A list that is used from ListInit on. *)
ListSpecification == ListInit /\ [][ListStep]_listVars

(* Place k of a list: the sentinels come before its first and after its    *)
(* last node.                                                              *)
Spot(s, k) == IF k \in 1 .. Len(s) THEN s[k] ELSE IF k < 1 THEN HeadNode ELSE TailNode
Spots(s)   == {s[k] : k \in 1 .. Len(s)}
Once(s)    == \A i, k \in 1 .. Len(s) : s[i] = s[k] => i = k

(* The links f lead through s forward, and g backward. *)
Both(f, g, s) == \A k \in 0 .. Len(s) : f[Spot(s, k)] = Spot(s, k + 1) /\ g[Spot(s, k + 1)] = Spot(s, k)

ListTypes ==
  /\ prev \in [AllNodes -> Links] /\ nxt \in [AllNodes -> Links]
  /\ item \in [Nodes -> Items \cup {NilNode}]

(* The list is s, the free list is r, and they share what is owned. *)
Shape(s, r) ==
  /\ Once(s) /\ Both(nxt, prev, s) /\ LeadsTo(r, prev, freeHead, NilNode)
  /\ owned = Spots(s) \cup Spots(r) /\ Spots(s) \cap Spots(r) = {}
  /\ size = Len(s) /\ freeLen = Len(r) /\ freeLen < MaxFree
  /\ \A k \in 1 .. Len(s) : item[s[k]] \in Items

ListInv == ListTypes /\ \E s, r \in Seq(Nodes) : Shape(s, r)

-----------------------------------------------------------------------------
(* Sequences.                                                              *)

(* The nodes of a list are nodes, each at its place. *)
LEMMA SpotsIn ==
    ASSUME NEW s \in Seq(Nodes)
    PROVE  Spots(s) \subseteq Nodes /\ \A k \in 1 .. Len(s) : s[k] \in Spots(s)
BY DEF Spots

(* The places of a list are different nodes. *)
LEMMA SpotFacts ==
    ASSUME NEW s \in Seq(Nodes)
    PROVE  /\ \A k \in 0 .. Len(s) + 1 : Spot(s, k) \in AllNodes
           /\ \A k \in 1 .. Len(s) : Spot(s, k) = s[k] /\ s[k] \in Nodes
           /\ Spot(s, 0) = HeadNode /\ Spot(s, Len(s) + 1) = TailNode
           /\ Once(s) => \A i, k \in 0 .. Len(s) + 1 : Spot(s, i) = Spot(s, k) => i = k
<1>1. Len(s) \in Nat /\ \A k \in 1 .. Len(s) : s[k] \in Nodes
  OBVIOUS
<1>2. \A k \in 1 .. Len(s) : Spot(s, k) = s[k] /\ s[k] \in Nodes
  BY <1>1 DEF Spot
<1>3. Spot(s, 0) = HeadNode /\ Spot(s, Len(s) + 1) = TailNode
  BY <1>1 DEF Spot
<1>4. \A k \in 0 .. Len(s) + 1 : k \in 1 .. Len(s) \/ k = 0 \/ k = Len(s) + 1
  BY <1>1
<1>5. \A k \in 0 .. Len(s) + 1 : Spot(s, k) \in AllNodes
  BY <1>2, <1>3, <1>4 DEF AllNodes
<1>6. ASSUME Once(s), NEW i \in 0 .. Len(s) + 1, NEW k \in 0 .. Len(s) + 1, Spot(s, i) = Spot(s, k)
      PROVE  i = k
  <2>1. CASE i \in 1 .. Len(s) /\ k \in 1 .. Len(s)
    BY <1>2, <1>6, <2>1 DEF Once
  <2>2. CASE ~(i \in 1 .. Len(s) /\ k \in 1 .. Len(s))
    BY <1>2, <1>3, <1>4, <1>6, <2>2, LinkedListAssumption
  <2>3. QED
    BY <2>1, <2>2
<1>7. QED
  BY <1>2, <1>3, <1>5, <1>6

(* The links after n was put between places j and j + 1. *)
LinksInserted(f, g, f2, g2, s, j, n) ==
  \A m \in AllNodes :
    /\ f2[m] = IF m = Spot(s, j) THEN n ELSE IF m = n THEN Spot(s, j + 1) ELSE f[m]
    /\ g2[m] = IF m = Spot(s, j + 1) THEN n ELSE IF m = n THEN Spot(s, j) ELSE g[m]

(* Then they lead through the longer list. *)
LEMMA BothInsert ==
    ASSUME NEW s \in Seq(Nodes), NEW j \in 0 .. Len(s), NEW n \in Nodes \ Spots(s), Once(s),
           NEW f, NEW g, NEW f2, NEW g2, Both(f, g, s), LinksInserted(f, g, f2, g2, s, j, n)
    PROVE  /\ InsertAt(s, j + 1, n) \in Seq(Nodes) /\ Once(InsertAt(s, j + 1, n))
           /\ Both(f2, g2, InsertAt(s, j + 1, n))
           /\ Spots(InsertAt(s, j + 1, n)) = Spots(s) \cup {n}
           /\ Len(InsertAt(s, j + 1, n)) = Len(s) + 1
<1> DEFINE z == InsertAt(s, j + 1, n)
<1>1. /\ z \in Seq(Nodes) /\ Len(z) = Len(s) + 1
      /\ \A k \in 1 .. Len(s) + 1 : z[k] = IF k < j + 1 THEN s[k] ELSE IF k = j + 1 THEN n ELSE s[k - 1]
  <2> DEFINE p == j + 1
  <2>1. p \in 1 .. Len(s) + 1 /\ n \in Nodes
    OBVIOUS
  <2> HIDE DEF p
  <2>2. InsertAt(s, p, n) \in Seq(Nodes)
    BY <2>1, InsertAtElements
  <2>3. Len(InsertAt(s, p, n)) = Len(s) + 1
    BY <2>1, InsertAtElements
  <2>4. \A k \in 1 .. Len(s) + 1 :
          InsertAt(s, p, n)[k] = IF k < p THEN s[k] ELSE IF k = p THEN n ELSE s[k - 1]
    BY <2>1, InsertAtElements, SMTT(30)
  <2>5. QED
    BY <2>2, <2>3, <2>4 DEF p
<1> HIDE DEF z
<1>2. Len(s) \in Nat /\ j \in Nat /\ j <= Len(s)
  OBVIOUS
<1>3. \A k \in 0 .. Len(s) + 2 :
        Spot(z, k) = IF k <= j THEN Spot(s, k) ELSE IF k = j + 1 THEN n ELSE Spot(s, k - 1)
  BY <1>1, <1>2 DEF Spot
<1>4. /\ \A k \in 0 .. Len(s) + 1 : Spot(s, k) \in AllNodes /\ Spot(s, k) # n
      /\ \A i, k \in 0 .. Len(s) + 1 : Spot(s, i) = Spot(s, k) => i = k
      /\ n \in AllNodes
  <2>1. \A k \in 1 .. Len(s) : Spot(s, k) # n
    BY SpotFacts DEF Spots
  <2>2. HeadNode # n /\ TailNode # n
    BY LinkedListAssumption
  <2>3. \A k \in 0 .. Len(s) + 1 : k \in 1 .. Len(s) \/ k = 0 \/ k = Len(s) + 1
    BY <1>2
  <2>4. \A k \in 0 .. Len(s) + 1 : Spot(s, k) # n
    BY <2>1, <2>2, <2>3, SpotFacts
  <2>5. QED
    BY <2>4, SpotFacts DEF AllNodes
<1>5. \A k \in 0 .. Len(s) : f[Spot(s, k)] = Spot(s, k + 1) /\ g[Spot(s, k + 1)] = Spot(s, k)
  BY DEF Both
<1>6. ASSUME NEW k \in 0 .. Len(s) + 1
      PROVE  f2[Spot(z, k)] = Spot(z, k + 1) /\ g2[Spot(z, k + 1)] = Spot(z, k)
  <2>1. CASE k < j
    <3>1. /\ Spot(z, k) = Spot(s, k) /\ Spot(z, k + 1) = Spot(s, k + 1)
          /\ k \in 0 .. Len(s) /\ k \in 0 .. Len(s) + 1 /\ k + 1 \in 0 .. Len(s) + 1
          /\ j + 1 \in 0 .. Len(s) + 1 /\ j \in 0 .. Len(s) + 1
      BY <1>2, <1>3, <2>1
    <3>2. Spot(s, k) # Spot(s, j) /\ Spot(s, k + 1) # Spot(s, j + 1)
      BY <1>2, <1>4, <2>1, <3>1
    <3>3. QED
      BY <1>4, <1>5, <3>1, <3>2 DEF LinksInserted
  <2>2. CASE k = j
    <3>1. Spot(z, k) = Spot(s, j) /\ Spot(z, k + 1) = n /\ j \in 0 .. Len(s) + 1 /\ j + 1 \in 0 .. Len(s) + 1
      BY <1>2, <1>3, <2>2
    <3>2. QED
      BY <1>4, <3>1 DEF LinksInserted
  <2>3. CASE k = j + 1
    <3>1. Spot(z, k) = n /\ Spot(z, k + 1) = Spot(s, j + 1) /\ j \in 0 .. Len(s) + 1 /\ j + 1 \in 0 .. Len(s) + 1
      BY <1>2, <1>3, <2>3
    <3>2. QED
      BY <1>4, <3>1 DEF LinksInserted
  <2>4. CASE k > j + 1
    <3>1. /\ Spot(z, k) = Spot(s, k - 1) /\ Spot(z, k + 1) = Spot(s, k)
          /\ k - 1 \in 0 .. Len(s) /\ k \in 0 .. Len(s) + 1 /\ k - 1 \in 0 .. Len(s) + 1
          /\ j + 1 \in 0 .. Len(s) + 1 /\ j \in 0 .. Len(s) + 1 /\ k - 1 + 1 = k
      BY <1>2, <1>3, <2>4
    <3>2. Spot(s, k - 1) # Spot(s, j) /\ Spot(s, k) # Spot(s, j + 1)
      BY <1>2, <1>4, <2>4, <3>1
    <3>3. f[Spot(s, k - 1)] = Spot(s, k) /\ g[Spot(s, k)] = Spot(s, k - 1)
      BY <1>5, <3>1
    <3>4. QED
      BY <1>4, <3>1, <3>2, <3>3 DEF LinksInserted
  <2>5. QED
    BY <1>2, <2>1, <2>2, <2>3, <2>4
<1>7. Both(f2, g2, z)
  BY <1>1, <1>6 DEF Both
<1>8. Once(z)
  <2> SUFFICES ASSUME NEW i \in 1 .. Len(z), NEW k \in 1 .. Len(z), z[i] = z[k] PROVE i = k
    BY DEF Once
  <2>1. i \in 0 .. Len(z) + 1 /\ k \in 0 .. Len(z) + 1 /\ Spot(z, i) = Spot(z, k)
    BY <1>1, <1>2 DEF Spot
  <2>2. \A l, m \in 0 .. Len(s) + 1 : Spot(s, l) = Spot(s, m) => l = m
    BY <1>4
  <2>3. \A m \in 0 .. Len(s) + 1 : Spot(s, m) # n
    BY <1>4
  <2>4. i \in 0 .. Len(s) + 2 /\ k \in 0 .. Len(s) + 2
    BY <1>1, <1>2, <2>1
  <2>5. \A m \in {i, k} :
          \/ m <= j /\ m \in 0 .. Len(s) + 1 /\ Spot(z, m) = Spot(s, m)
          \/ m = j + 1 /\ Spot(z, m) = n
          \/ m > j + 1 /\ m - 1 \in 0 .. Len(s) + 1 /\ Spot(z, m) = Spot(s, m - 1)
    BY <1>2, <1>3, <2>4
  <2>6. CASE i = j + 1
    BY <2>1, <2>3, <2>5, <2>6
  <2>7. CASE i <= j
    BY <1>2, <2>1, <2>2, <2>3, <2>5, <2>7
  <2>8. CASE i > j + 1
    <3>1. i - 1 \in 0 .. Len(s) + 1 /\ Spot(z, i) = Spot(s, i - 1)
      BY <1>2, <2>5, <2>8
    <3>2. CASE k <= j
      <4>1. k \in 0 .. Len(s) + 1 /\ Spot(z, k) = Spot(s, k)
        BY <1>2, <2>5, <3>2
      <4>2. i - 1 = k
        BY <2>1, <2>2, <3>1, <4>1
      <4>3. QED
        BY <1>2, <2>8, <3>2, <4>2
    <3>3. CASE k > j + 1
      <4>1. k - 1 \in 0 .. Len(s) + 1 /\ Spot(z, k) = Spot(s, k - 1)
        BY <1>2, <2>5, <3>3
      <4>2. i - 1 = k - 1
        BY <2>1, <2>2, <3>1, <4>1
      <4>3. QED
        BY <2>1, <4>2
    <3>4. CASE k = j + 1
      <4>1. Spot(z, k) = n
        BY <1>3, <2>4, <3>4
      <4>2. QED
        BY <2>1, <2>3, <3>1, <4>1
    <3>5. QED
      BY <1>2, <2>1, <3>2, <3>3, <3>4
  <2>9. QED
    BY <1>2, <2>1, <2>6, <2>7, <2>8
<1>9. Spots(z) = Spots(s) \cup {n}
  <2>1. ASSUME NEW k \in 1 .. Len(z) PROVE z[k] \in Spots(s) \cup {n}
    <3>1. \/ z[k] = n
          \/ k \in 1 .. Len(s) /\ z[k] = s[k]
          \/ k - 1 \in 1 .. Len(s) /\ z[k] = s[k - 1]
      BY <1>1, <1>2
    <3>2. QED
      BY <3>1, SpotsIn
  <2>2. ASSUME NEW k \in 1 .. Len(s) PROVE s[k] \in Spots(z)
    <3>1. CASE k < j + 1
      <4>1. k \in 1 .. Len(z) /\ z[k] = s[k]
        BY <1>1, <1>2, <3>1
      <4>2. QED
        BY <4>1 DEF Spots
    <3>2. CASE k >= j + 1
      <4>1. k + 1 \in 1 .. Len(z) /\ z[k + 1] = s[k]
        BY <1>1, <1>2, <3>2
      <4>2. QED
        BY <4>1 DEF Spots
    <3>3. QED
      BY <1>2, <3>1, <3>2
  <2>3. n \in Spots(z)
    <3>1. j + 1 \in 1 .. Len(z) /\ z[j + 1] = n
      BY <1>1, <1>2
    <3>2. QED
      BY <3>1 DEF Spots
  <2>4. QED
    BY <2>1, <2>2, <2>3 DEF Spots
<1>10. QED
  BY <1>1, <1>7, <1>8, <1>9 DEF z

(* The links after place p was taken out; what the node of it has does not *)
(* matter any more.                                                        *)
LinksRemoved(f, g, f2, g2, s, p) ==
  \A m \in AllNodes \ {Spot(s, p)} :
    /\ f2[m] = IF m = Spot(s, p - 1) THEN Spot(s, p + 1) ELSE f[m]
    /\ g2[m] = IF m = Spot(s, p + 1) THEN Spot(s, p - 1) ELSE g[m]

(* Then they lead through the shorter list. *)
LEMMA BothRemove ==
    ASSUME NEW s \in Seq(Nodes), NEW p \in 1 .. Len(s), Once(s),
           NEW f, NEW g, NEW f2, NEW g2, Both(f, g, s), LinksRemoved(f, g, f2, g2, s, p)
    PROVE  /\ RemoveAt(s, p) \in Seq(Nodes) /\ Once(RemoveAt(s, p))
           /\ Both(f2, g2, RemoveAt(s, p))
           /\ Spots(RemoveAt(s, p)) = Spots(s) \ {s[p]}
           /\ Len(RemoveAt(s, p)) = Len(s) - 1
<1> DEFINE z == RemoveAt(s, p)
<1>1. /\ z \in Seq(Nodes) /\ Len(z) = Len(s) - 1
      /\ \A k \in 1 .. Len(s) - 1 : z[k] = IF k < p THEN s[k] ELSE s[k + 1]
  BY RemoveAtElements
<1> HIDE DEF z
<1>2. Len(s) \in Nat /\ p \in Nat /\ 1 <= p /\ p <= Len(s)
  OBVIOUS
<1>3. \A k \in 0 .. Len(s) : Spot(z, k) = IF k < p THEN Spot(s, k) ELSE Spot(s, k + 1)
  BY <1>1, <1>2 DEF Spot
<1>4. /\ \A k \in 0 .. Len(s) + 1 : Spot(s, k) \in AllNodes
      /\ \A i, k \in 0 .. Len(s) + 1 : Spot(s, i) = Spot(s, k) => i = k
      /\ Spot(s, p) = s[p]
  BY SpotFacts
<1>5. \A k \in 0 .. Len(s) : f[Spot(s, k)] = Spot(s, k + 1) /\ g[Spot(s, k + 1)] = Spot(s, k)
  BY DEF Both
<1>6. ASSUME NEW k \in 0 .. Len(s) - 1
      PROVE  f2[Spot(z, k)] = Spot(z, k + 1) /\ g2[Spot(z, k + 1)] = Spot(z, k)
  <2>1. CASE k < p - 1
    <3>1. /\ Spot(z, k) = Spot(s, k) /\ Spot(z, k + 1) = Spot(s, k + 1)
          /\ k \in 0 .. Len(s) /\ k \in 0 .. Len(s) + 1 /\ k + 1 \in 0 .. Len(s) + 1
          /\ p \in 0 .. Len(s) + 1 /\ p - 1 \in 0 .. Len(s) + 1 /\ p + 1 \in 0 .. Len(s) + 1
      BY <1>2, <1>3, <2>1
    <3>2. /\ Spot(s, k) # Spot(s, p) /\ Spot(s, k + 1) # Spot(s, p)
          /\ Spot(s, k) # Spot(s, p - 1) /\ Spot(s, k + 1) # Spot(s, p + 1)
      BY <1>2, <1>4, <2>1, <3>1
    <3>3. QED
      BY <1>4, <1>5, <3>1, <3>2 DEF LinksRemoved
  <2>2. CASE k = p - 1
    <3>1. /\ Spot(z, k) = Spot(s, p - 1) /\ Spot(z, k + 1) = Spot(s, p + 1)
          /\ p \in 0 .. Len(s) + 1 /\ p - 1 \in 0 .. Len(s) + 1 /\ p + 1 \in 0 .. Len(s) + 1
      BY <1>2, <1>3, <2>2
    <3>2. Spot(s, p - 1) # Spot(s, p) /\ Spot(s, p + 1) # Spot(s, p)
      BY <1>2, <1>4, <3>1
    <3>3. QED
      BY <1>4, <3>1, <3>2 DEF LinksRemoved
  <2>3. CASE k > p - 1
    <3>1. /\ Spot(z, k) = Spot(s, k + 1) /\ Spot(z, k + 1) = Spot(s, k + 2)
          /\ k + 1 \in 0 .. Len(s) /\ k + 1 \in 0 .. Len(s) + 1 /\ k + 2 \in 0 .. Len(s) + 1
          /\ p \in 0 .. Len(s) + 1 /\ p - 1 \in 0 .. Len(s) + 1 /\ p + 1 \in 0 .. Len(s) + 1
          /\ k + 1 + 1 = k + 2
      BY <1>2, <1>3, <2>3
    <3>2. /\ Spot(s, k + 1) # Spot(s, p) /\ Spot(s, k + 2) # Spot(s, p)
          /\ Spot(s, k + 1) # Spot(s, p - 1) /\ Spot(s, k + 2) # Spot(s, p + 1)
      BY <1>2, <1>4, <2>3, <3>1
    <3>3. f[Spot(s, k + 1)] = Spot(s, k + 2) /\ g[Spot(s, k + 2)] = Spot(s, k + 1)
      BY <1>5, <3>1
    <3>4. QED
      BY <1>4, <3>1, <3>2, <3>3 DEF LinksRemoved
  <2>4. QED
    BY <1>2, <2>1, <2>2, <2>3
<1>7. Both(f2, g2, z)
  BY <1>1, <1>6 DEF Both
<1>8. Once(z)
  <2> SUFFICES ASSUME NEW i \in 1 .. Len(z), NEW k \in 1 .. Len(z), z[i] = z[k] PROVE i = k
    BY DEF Once
  <2>1. i \in 0 .. Len(s) /\ k \in 0 .. Len(s) /\ Spot(z, i) = Spot(z, k)
    BY <1>1, <1>2 DEF Spot
  <2>2. \A m \in {i, k} :
          \/ m < p /\ m \in 0 .. Len(s) + 1 /\ Spot(z, m) = Spot(s, m)
          \/ m >= p /\ m + 1 \in 0 .. Len(s) + 1 /\ Spot(z, m) = Spot(s, m + 1)
    BY <1>2, <1>3, <2>1
  <2>3. CASE i < p
    BY <1>2, <1>4, <2>1, <2>2, <2>3
  <2>4. CASE i >= p
    <3>1. i + 1 \in 0 .. Len(s) + 1 /\ Spot(z, i) = Spot(s, i + 1)
      BY <1>2, <2>2, <2>4
    <3>2. CASE k < p
      <4>1. k \in 0 .. Len(s) + 1 /\ Spot(z, k) = Spot(s, k)
        BY <1>2, <2>2, <3>2
      <4>2. i + 1 = k
        BY <1>4, <2>1, <3>1, <4>1
      <4>3. QED
        BY <1>2, <2>1, <2>4, <3>2, <4>2
    <3>3. CASE k >= p
      <4>1. k + 1 \in 0 .. Len(s) + 1 /\ Spot(z, k) = Spot(s, k + 1)
        BY <1>2, <2>2, <3>3
      <4>2. i + 1 = k + 1
        BY <1>4, <2>1, <3>1, <4>1
      <4>3. QED
        BY <2>1, <4>2
    <3>4. QED
      BY <1>2, <2>1, <3>2, <3>3
  <2>5. QED
    BY <1>2, <2>1, <2>3, <2>4
<1>9. Spots(z) = Spots(s) \ {s[p]}
  <2>1. ASSUME NEW k \in 1 .. Len(z) PROVE z[k] \in Spots(s) \ {s[p]}
    <3>1. PICK m \in 1 .. Len(s) : z[k] = s[m] /\ m # p
      BY <1>1, <1>2
    <3>2. QED
      BY <3>1 DEF Spots, Once
  <2>2. ASSUME NEW k \in 1 .. Len(s), s[k] # s[p] PROVE s[k] \in Spots(z)
    <3>1. CASE k < p
      <4>1. k \in 1 .. Len(z) /\ z[k] = s[k]
        BY <1>1, <1>2, <3>1
      <4>2. QED
        BY <4>1 DEF Spots
    <3>2. CASE k > p
      <4>1. k - 1 \in 1 .. Len(z) /\ z[k - 1] = s[k]
        BY <1>1, <1>2, <3>2
      <4>2. QED
        BY <4>1 DEF Spots
    <3>3. QED
      BY <1>2, <2>2, <3>1, <3>2
  <2>3. QED
    BY <2>1, <2>2 DEF Spots
<1>10. QED
  BY <1>1, <1>7, <1>8, <1>9 DEF z

-----------------------------------------------------------------------------
(* The free list.                                                          *)

(* Its links are what leads through it. *)
LEMMA SameFree ==
    ASSUME NEW r \in Seq(Nodes), NEW f, NEW g, NEW h, LeadsTo(r, f, h, NilNode),
           \A m \in Spots(r) : g[m] = f[m]
    PROVE  LeadsTo(r, g, h, NilNode)
<1>1. \A k \in 1 .. Len(r) : g[r[k]] = f[r[k]]
  BY DEF Spots
<1>2. QED
  BY <1>1 DEF LeadsTo

(* FreeListAlloc takes its first node. *)
LEMMA PopFree ==
    ASSUME NEW r \in Seq(Nodes), NEW f, NEW h, LeadsTo(r, f, h, NilNode), h # NilNode
    PROVE  /\ Tail(r) \in Seq(Nodes) /\ Len(Tail(r)) = Len(r) - 1 /\ Len(r) >= 1
           /\ h \in Spots(r) /\ Spots(Tail(r)) = Spots(r) \ {h}
           /\ LeadsTo(Tail(r), f, f[h], NilNode)
<1> DEFINE z == Tail(r)
<1>1. r # <<>> /\ h = r[1]
  BY DEF LeadsTo
<1>2. /\ z \in Seq(Nodes) /\ Len(z) = Len(r) - 1 /\ Len(r) >= 1
      /\ \A k \in 1 .. Len(r) - 1 : z[k] = r[k + 1]
  BY <1>1
<1>3. Len(r) \in Nat
  OBVIOUS
<1> HIDE DEF z
<1>4. z = <<>> <=> Len(r) = 1
  <2>1. z = <<>> <=> Len(z) = 0
    BY <1>2
  <2>2. QED
    BY <1>2, <1>3, <2>1
<1>5. /\ \A i, k \in 1 .. Len(r) : r[i] = r[k] => i = k
      /\ \A k \in 1 .. Len(r) : f[r[k]] = IF k = Len(r) THEN NilNode ELSE r[k + 1]
  BY DEF LeadsTo
<1>6. Spots(z) = Spots(r) \ {h}
  <2>1. ASSUME NEW k \in 1 .. Len(z) PROVE z[k] \in Spots(r) \ {h}
    <3>1. k + 1 \in 1 .. Len(r) /\ 1 \in 1 .. Len(r) /\ z[k] = r[k + 1] /\ k + 1 # 1
      BY <1>2, <1>3
    <3>2. QED
      BY <1>1, <1>5, <3>1 DEF Spots
  <2>2. ASSUME NEW k \in 1 .. Len(r), r[k] # h PROVE r[k] \in Spots(z)
    <3>1. k - 1 \in 1 .. Len(z) /\ z[k - 1] = r[k]
      BY <1>1, <1>2, <1>3, <2>2
    <3>2. QED
      BY <3>1 DEF Spots
  <2>3. QED
    BY <2>1, <2>2 DEF Spots
<1>7. \A i, k \in 1 .. Len(z) : z[i] = z[k] => i = k
  <2> SUFFICES ASSUME NEW i \in 1 .. Len(z), NEW k \in 1 .. Len(z), z[i] = z[k] PROVE i = k
    OBVIOUS
  <2>1. i + 1 \in 1 .. Len(r) /\ k + 1 \in 1 .. Len(r) /\ r[i + 1] = r[k + 1]
    BY <1>2, <1>3
  <2>2. i + 1 = k + 1
    BY <1>5, <2>1
  <2>3. QED
    BY <2>2
<1>8. f[h] = IF z = <<>> THEN NilNode ELSE z[1]
  <2>1. 1 \in 1 .. Len(r) /\ f[h] = IF Len(r) = 1 THEN NilNode ELSE r[2]
    BY <1>1, <1>2, <1>3, <1>5
  <2>2. Len(r) # 1 => z[1] = r[2]
    BY <1>2, <1>3
  <2>3. QED
    BY <1>4, <2>1, <2>2
<1>9. ASSUME NEW k \in 1 .. Len(z) PROVE f[z[k]] = IF k = Len(z) THEN NilNode ELSE z[k + 1]
  <2>1. /\ k + 1 \in 1 .. Len(r) /\ z[k] = r[k + 1] /\ (k = Len(z) <=> k + 1 = Len(r))
        /\ k # Len(z) => z[k + 1] = r[k + 1 + 1]
    BY <1>2, <1>3
  <2>2. f[r[k + 1]] = IF k + 1 = Len(r) THEN NilNode ELSE r[k + 1 + 1]
    BY <1>5, <2>1
  <2>3. QED
    BY <2>1, <2>2
<1>10. LeadsTo(z, f, f[h], NilNode)
  BY <1>7, <1>8, <1>9 DEF LeadsTo
<1>11. h \in Spots(r)
  BY <1>1, <1>2 DEF Spots
<1>12. QED
  BY <1>2, <1>6, <1>10, <1>11 DEF z

(* FreeListFree puts a node before its first. *)
LEMMA PushFree ==
    ASSUME NEW r \in Seq(Nodes), NEW f, NEW g, NEW h, LeadsTo(r, f, h, NilNode),
           NEW d \in Nodes, d \notin Spots(r), g[d] = h, \A m \in Spots(r) : g[m] = f[m]
    PROVE  /\ <<d>> \o r \in Seq(Nodes) /\ Len(<<d>> \o r) = Len(r) + 1
           /\ Spots(<<d>> \o r) = Spots(r) \cup {d}
           /\ LeadsTo(<<d>> \o r, g, d, NilNode)
<1> DEFINE z == <<d>> \o r
<1>1. /\ z \in Seq(Nodes) /\ Len(z) = Len(r) + 1 /\ z[1] = d /\ z # <<>>
      /\ \A k \in 1 .. Len(r) : z[k + 1] = r[k]
  OBVIOUS
<1>2. Len(r) \in Nat /\ (r = <<>> <=> Len(r) = 0)
  OBVIOUS
<1> HIDE DEF z
<1>3. \A k \in 1 .. Len(z) : k = 1 \/ (k - 1 \in 1 .. Len(r) /\ z[k] = r[k - 1])
  <2> SUFFICES ASSUME NEW k \in 1 .. Len(z), k # 1
               PROVE  k - 1 \in 1 .. Len(r) /\ z[k] = r[k - 1]
    OBVIOUS
  <2>1. k - 1 \in 1 .. Len(r) /\ k - 1 + 1 = k
    BY <1>1, <1>2
  <2>2. QED
    BY <1>1, <2>1
<1>4. /\ \A i, k \in 1 .. Len(r) : r[i] = r[k] => i = k
      /\ \A k \in 1 .. Len(r) : f[r[k]] = IF k = Len(r) THEN NilNode ELSE r[k + 1]
      /\ h = IF r = <<>> THEN NilNode ELSE r[1]
  BY DEF LeadsTo
<1>5. \A k \in 1 .. Len(r) : r[k] # d /\ g[r[k]] = f[r[k]] /\ r[k] \in Spots(r)
  BY DEF Spots
<1>6. Spots(z) = Spots(r) \cup {d}
  <2>1. ASSUME NEW k \in 1 .. Len(z) PROVE z[k] \in Spots(r) \cup {d}
    BY <1>1, <1>3, <1>5
  <2>2. ASSUME NEW k \in 1 .. Len(r) PROVE r[k] \in Spots(z)
    <3>1. k + 1 \in 1 .. Len(z) /\ z[k + 1] = r[k]
      BY <1>1, <1>2
    <3>2. QED
      BY <3>1 DEF Spots
  <2>3. d \in Spots(z)
    <3>1. 1 \in 1 .. Len(z)
      BY <1>1, <1>2
    <3>2. QED
      BY <1>1, <3>1 DEF Spots
  <2>4. QED
    BY <2>1, <2>2, <2>3 DEF Spots
<1>7. ASSUME NEW i \in 1 .. Len(z), NEW k \in 1 .. Len(z), z[i] = z[k] PROVE i = k
  <2>1. i = 1 <=> k = 1
    BY <1>1, <1>3, <1>5, <1>7
  <2>2. CASE i # 1
    <3>1. i - 1 \in 1 .. Len(r) /\ k - 1 \in 1 .. Len(r) /\ r[i - 1] = r[k - 1]
      BY <1>3, <1>7, <2>1, <2>2
    <3>2. i - 1 = k - 1
      BY <1>4, <3>1
    <3>3. QED
      BY <3>2
  <2>3. QED
    BY <2>1, <2>2
<1>8. ASSUME NEW k \in 1 .. Len(z) PROVE g[z[k]] = IF k = Len(z) THEN NilNode ELSE z[k + 1]
  <2>1. CASE k = 1
    <3>1. Len(r) # 0 => 1 \in 1 .. Len(r) /\ z[1 + 1] = r[1]
      BY <1>1, <1>2
    <3>2. QED
      BY <1>1, <1>2, <1>4, <2>1, <3>1
  <2>2. CASE k # 1
    <3>1. k - 1 \in 1 .. Len(r) /\ z[k] = r[k - 1]
      BY <1>3, <2>2
    <3>2. g[z[k]] = IF k - 1 = Len(r) THEN NilNode ELSE r[k - 1 + 1]
      BY <1>4, <1>5, <3>1
    <3>3. k - 1 + 1 = k /\ (k - 1 = Len(r) <=> k = Len(z)) /\ (k # Len(z) => k \in 1 .. Len(r))
      BY <1>1, <1>2, <3>1
    <3>4. QED
      BY <1>1, <3>2, <3>3
  <2>3. QED
    BY <2>1, <2>2
<1>9. LeadsTo(z, g, d, NilNode)
  BY <1>1, <1>7, <1>8 DEF LeadsTo
<1>10. QED
  BY <1>1, <1>6, <1>9 DEF z

-----------------------------------------------------------------------------
(* What Chain finds.                                                       *)

(* Links lead through one sequence only. *)
LEMMA OneWay ==
    ASSUME NEW s \in Seq(Nodes), NEW t \in Seq(Nodes), NEW next, NEW n, NEW stop,
           stop \notin Nodes, LeadsTo(s, next, n, stop), LeadsTo(t, next, n, stop)
    PROVE  s = t
<1> DEFINE At(q, k) == IF k \in 1 .. Len(q) THEN q[k] ELSE stop
           Bad == {k \in 1 .. Len(s) + 1 : ~(k <= Len(t) + 1 /\ At(s, k) = At(t, k))}
<1>1. /\ Len(s) \in Nat /\ (s = <<>> <=> Len(s) = 0) /\ \A k \in 1 .. Len(s) : s[k] \in Nodes
      /\ Len(t) \in Nat /\ (t = <<>> <=> Len(t) = 0) /\ \A k \in 1 .. Len(t) : t[k] \in Nodes
  OBVIOUS
<1>2. /\ n = IF s = <<>> THEN stop ELSE s[1]
      /\ n = IF t = <<>> THEN stop ELSE t[1]
      /\ \A k \in 1 .. Len(s) : next[s[k]] = IF k = Len(s) THEN stop ELSE s[k + 1]
      /\ \A k \in 1 .. Len(t) : next[t[k]] = IF k = Len(t) THEN stop ELSE t[k + 1]
  BY DEF LeadsTo
<1>3. At(s, 1) = n /\ At(t, 1) = n
  BY <1>1, <1>2
<1>4. /\ \A k \in 1 .. Len(s) : next[s[k]] = At(s, k + 1)
      /\ \A k \in 1 .. Len(t) : next[t[k]] = At(t, k + 1)
  BY <1>1, <1>2
<1>5. Bad = {}
  <2> SUFFICES ASSUME Bad # {} PROVE FALSE
    OBVIOUS
  <2>1. Bad \subseteq Nat
    BY <1>1
  <2>2. PICK k \in Bad : \A m \in Bad : k <= m
    <3> HIDE DEF Bad
    <3> QED BY <2>1, LeastElement
  <2>3. k # 1
    BY <1>1, <1>3, <2>2
  <2>4. k - 1 \in 1 .. Len(s) /\ k - 1 \notin Bad
    BY <1>1, <2>2, <2>3
  <2>5. k - 1 <= Len(t) + 1 /\ At(s, k - 1) = At(t, k - 1)
    BY <1>1, <2>4
  <2>6. k - 1 \in 1 .. Len(t) /\ s[k - 1] = t[k - 1]
    BY <1>1, <2>4, <2>5
  <2>7. At(s, k - 1 + 1) = At(t, k - 1 + 1)
    <3> HIDE DEF At
    <3> QED BY <1>4, <2>4, <2>6
  <2>8. k \in 1 .. Len(s) + 1 /\ k - 1 + 1 = k /\ k <= Len(t) + 1
    BY <1>1, <2>4, <2>6, <2>2
  <2>9. QED
    BY <2>2, <2>7, <2>8
<1>6. Len(s) = Len(t)
  <2>1. Len(s) + 1 \in 1 .. Len(s) + 1
    BY <1>1
  <2>2. Len(s) + 1 <= Len(t) + 1 /\ At(s, Len(s) + 1) = At(t, Len(s) + 1)
    BY <1>5, <2>1
  <2>3. At(s, Len(s) + 1) = stop
    BY <1>1
  <2>4. ~(Len(s) + 1 \in 1 .. Len(t))
    BY <1>1, <2>2, <2>3
  <2>5. QED
    BY <1>1, <2>2, <2>4
<1>7. \A k \in 1 .. Len(s) : s[k] = t[k]
  BY <1>1, <1>5, <1>6
<1>8. QED
  BY <1>6, <1>7

(* Chain finds what the links lead through. *)
LEMMA ChainIs ==
    ASSUME NEW s \in Seq(Nodes), NEW next, NEW n, NEW stop, stop \notin Nodes, LeadsTo(s, next, n, stop)
    PROVE  Chain(next, n, stop) = s
<1> DEFINE routes == { t \in BoundedSeq(Nodes, Cardinality(Nodes)) : LeadsTo(t, next, n, stop) }
<1>1. s \in BoundedSeq(Nodes, Cardinality(Nodes))
  <2>1. Len(s) <= Cardinality(Nodes) /\ Cardinality(Nodes) \in Nat /\ Len(s) \in Nat
    BY DistinctLength, LinkedListAssumption, FS_CardinalityType DEF LeadsTo
  <2>2. s \in [1 .. Len(s) -> Nodes] /\ Len(s) \in 0 .. Cardinality(Nodes)
    BY <2>1
  <2>3. QED
    BY <2>2 DEF BoundedSeq, SeqOf
<1>2. \A t \in BoundedSeq(Nodes, Cardinality(Nodes)) : t \in Seq(Nodes)
  BY DEF BoundedSeq, SeqOf
<1>3. routes = {s}
  BY <1>1, <1>2, OneWay
<1>4. QED
  BY <1>3 DEF Chain

(* What ToSet gives for a sequence. *)
LEMMA ToSetIs ==
    ASSUME NEW s \in Seq(Nodes)
    PROVE  ToSet(s) = Spots(s)
BY DEF ToSet, Spots

(* Both directions find the list, and the second finds it backward. *)
LEMMA WalksFind ==
    ASSUME NEW s \in Seq(Nodes), Once(s), NEW f, NEW g, Both(f, g, s)
    PROVE  Chain(f, f[HeadNode], TailNode) = s /\ Chain(g, g[TailNode], HeadNode) = Reverse(s)
<1>1. Len(s) \in Nat /\ (s = <<>> <=> Len(s) = 0) /\ \A k \in 1 .. Len(s) : s[k] \in Nodes
  OBVIOUS
<1>2. /\ \A k \in 1 .. Len(s) : Spot(s, k) = s[k]
      /\ Spot(s, 0) = HeadNode /\ Spot(s, Len(s) + 1) = TailNode
  BY SpotFacts
<1>3. \A k \in 0 .. Len(s) : f[Spot(s, k)] = Spot(s, k + 1) /\ g[Spot(s, k + 1)] = Spot(s, k)
  BY DEF Both
<1>4. \A i, k \in 1 .. Len(s) : s[i] = s[k] => i = k
  BY DEF Once
<1>5. HeadNode \notin Nodes /\ TailNode \notin Nodes
  BY LinkedListAssumption
<1>6. LeadsTo(s, f, f[HeadNode], TailNode)
  <2>1. f[HeadNode] = IF s = <<>> THEN TailNode ELSE s[1]
    <3>1. 0 \in 0 .. Len(s) /\ f[Spot(s, 0)] = Spot(s, 0 + 1)
      BY <1>1, <1>3
    <3>2. QED
      BY <1>1, <1>2, <3>1
  <2>2. ASSUME NEW k \in 1 .. Len(s) PROVE f[s[k]] = IF k = Len(s) THEN TailNode ELSE s[k + 1]
    <3>1. k \in 0 .. Len(s) /\ (k # Len(s) => k + 1 \in 1 .. Len(s))
      BY <1>1
    <3>2. QED
      BY <1>2, <1>3, <3>1
  <2>3. QED
    BY <1>4, <2>1, <2>2 DEF LeadsTo
<1> DEFINE z == Reverse(s)
<1>7. z \in Seq(Nodes) /\ Len(z) = Len(s) /\ \A k \in 1 .. Len(s) : z[k] = s[Len(s) - k + 1]
  BY <1>1 DEF Reverse
<1> HIDE DEF z
<1>8. z = <<>> <=> Len(s) = 0
  BY <1>7
<1>9. LeadsTo(z, g, g[TailNode], HeadNode)
  <2>1. g[TailNode] = IF z = <<>> THEN HeadNode ELSE z[1]
    <3>1. Len(s) \in 0 .. Len(s)
      BY <1>1
    <3>2. g[TailNode] = Spot(s, Len(s))
      BY <1>2, <1>3, <3>1
    <3>3. Len(s) # 0 => z[1] = s[Len(s)] /\ Spot(s, Len(s)) = s[Len(s)]
      BY <1>1, <1>2, <1>7
    <3>4. Len(s) = 0 => Spot(s, Len(s)) = HeadNode
      BY <1>2
    <3>5. QED
      BY <1>8, <3>2, <3>3, <3>4
  <2>2. ASSUME NEW k \in 1 .. Len(z) PROVE g[z[k]] = IF k = Len(z) THEN HeadNode ELSE z[k + 1]
    <3> DEFINE m == Len(s) - k
    <3>1. /\ m \in 0 .. Len(s) /\ m + 1 \in 1 .. Len(s) /\ z[k] = s[m + 1]
          /\ (k = Len(z) <=> m = 0) /\ (m # 0 => m \in 1 .. Len(s) /\ z[k + 1] = s[m])
      <4>1. k \in 1 .. Len(s) /\ z[k] = s[Len(s) - k + 1]
        BY <1>7
      <4>2. k # Len(s) => k + 1 \in 1 .. Len(s) /\ Len(s) - (k + 1) + 1 = m
        BY <1>1, <4>1
      <4>3. k # Len(s) => z[k + 1] = s[m]
        BY <1>7, <4>2
      <4>4. QED
        BY <1>1, <1>7, <4>1, <4>3
    <3> HIDE DEF m
    <3>2. g[s[m + 1]] = Spot(s, m)
      BY <1>2, <1>3, <3>1
    <3>3. QED
      BY <1>2, <3>1, <3>2
  <2>3. ASSUME NEW i \in 1 .. Len(z), NEW k \in 1 .. Len(z), z[i] = z[k] PROVE i = k
    <3>1. Len(s) - i + 1 \in 1 .. Len(s) /\ Len(s) - k + 1 \in 1 .. Len(s)
      BY <1>1, <1>7
    <3>2. s[Len(s) - i + 1] = s[Len(s) - k + 1]
      BY <1>7, <2>3
    <3>3. Len(s) - i + 1 = Len(s) - k + 1
      BY <1>4, <3>1, <3>2
    <3>4. QED
      BY <1>1, <1>7, <3>3
  <2>4. QED
    BY <2>1, <2>2, <2>3 DEF LeadsTo
<1>10. Chain(f, f[HeadNode], TailNode) = s
  BY <1>5, <1>6, ChainIs
<1>11. Chain(g, g[TailNode], HeadNode) = z
  BY <1>5, <1>7, <1>9, ChainIs
<1>12. QED
  BY <1>10, <1>11 DEF z

(* What the operators of LinkedList see. *)
LEMMA Views ==
    ASSUME NEW s \in Seq(Nodes), NEW r \in Seq(Nodes), Shape(s, r)
    PROVE  Forward = s /\ Backward = Reverse(s) /\ FreeNodes = r
<1>1. NilNode \notin Nodes
  BY LinkedListAssumption
<1>2. Forward = s /\ Backward = Reverse(s)
  BY WalksFind DEF Shape, Forward, Backward
<1>3. FreeNodes = r
  BY <1>1, ChainIs DEF Shape, FreeNodes
<1>4. QED
  BY <1>2, <1>3

-----------------------------------------------------------------------------
(* Steps.                                                                  *)

(* A node that is added comes from the free list or from malloc. *)
LEMMA AddStep ==
    ASSUME ListTypes, NEW s \in Seq(Nodes), NEW r \in Seq(Nodes), Shape(s, r), NEW j \in 0 .. Len(s),
           NEW n \in Nodes, NEW i \in Items, FreeListAlloc(n), item' = [item EXCEPT ![n] = i],
           LinksInserted(nxt, prev, nxt', prev', s, j, n), size' = size + 1
    PROVE  /\ n \notin Spots(s) /\ InsertAt(s, j + 1, n) \in Seq(Nodes)
           /\ \E r2 \in Seq(Nodes) : Shape(InsertAt(s, j + 1, n), r2)'
<1>1. PICK r2 \in Seq(Nodes) :
        /\ n \notin Spots(s) /\ owned' = Spots(s) \cup {n} \cup Spots(r2)
        /\ Spots(r2) \subseteq Spots(r) /\ n \notin Spots(r2)
        /\ LeadsTo(r2, prev, freeHead', NilNode) /\ freeLen' = Len(r2) /\ Len(r2) <= Len(r)
  <2>1. CASE freeHead # NilNode
    <3>1. n = freeHead /\ freeHead' = prev[n] /\ freeLen' = freeLen - 1 /\ owned' = owned
      BY <2>1 DEF FreeListAlloc
    <3>2. /\ Tail(r) \in Seq(Nodes) /\ Len(Tail(r)) = Len(r) - 1 /\ Len(r) >= 1
          /\ n \in Spots(r) /\ Spots(Tail(r)) = Spots(r) \ {n}
          /\ LeadsTo(Tail(r), prev, prev[n], NilNode)
      BY <2>1, <3>1, PopFree DEF Shape
    <3>3. n \notin Spots(s) /\ owned' = Spots(s) \cup {n} \cup Spots(Tail(r))
      BY <3>1, <3>2 DEF Shape
    <3>4. freeLen' = Len(Tail(r)) /\ Len(Tail(r)) <= Len(r)
      BY <3>1, <3>2 DEF Shape
    <3>5. QED
      BY <3>1, <3>2, <3>3, <3>4
  <2>2. CASE freeHead = NilNode
    <3>1. n \notin owned /\ owned' = owned \cup {n} /\ freeHead' = freeHead /\ freeLen' = freeLen
      BY <2>2 DEF FreeListAlloc
    <3>2. QED
      BY <3>1 DEF Shape
  <2>3. QED
    BY <2>1, <2>2
<1> DEFINE z == InsertAt(s, j + 1, n)
<1>2. /\ z \in Seq(Nodes) /\ Once(z) /\ Both(nxt', prev', z)
      /\ Spots(z) = Spots(s) \cup {n} /\ Len(z) = Len(s) + 1
  BY <1>1, BothInsert DEF Shape
<1> HIDE DEF z
<1>3. LeadsTo(r2, prev', freeHead', NilNode)
  <2>1. ASSUME NEW m \in Spots(r2) PROVE prev'[m] = prev[m]
    <3>1. m \in Nodes /\ m \notin Spots(s) /\ m # n /\ m \in AllNodes
      BY <1>1, SpotsIn DEF Shape, AllNodes
    <3>2. Spot(s, j + 1) \in Spots(s) \cup {HeadNode, TailNode}
      BY DEF Spot, Spots
    <3>3. m # Spot(s, j + 1)
      BY <3>1, <3>2, LinkedListAssumption
    <3>4. QED
      BY <3>1, <3>3 DEF LinksInserted
  <2>2. QED
    BY <1>1, <2>1, SameFree
<1>4. ASSUME NEW k \in 1 .. Len(z) PROVE item'[z[k]] \in Items
  <2>1. z[k] \in Nodes /\ z[k] \in Spots(s) \cup {n}
    BY <1>2, SpotsIn
  <2>2. z[k] # n => item[z[k]] \in Items
    BY <2>1 DEF Spots, Shape
  <2>3. QED
    BY <2>1, <2>2 DEF ListTypes
<1>5. owned' = Spots(z) \cup Spots(r2) /\ Spots(z) \cap Spots(r2) = {}
  BY <1>1, <1>2 DEF Shape
<1>6. size' = Len(z) /\ freeLen' = Len(r2) /\ freeLen' < MaxFree
  <2>1. Len(r2) \in Nat /\ Len(r) \in Nat /\ Len(r) < MaxFree /\ size = Len(s) /\ MaxFree \in Nat
    BY LinkedListAssumption DEF Shape
  <2>2. QED
    BY <1>1, <1>2, <2>1
<1>7. Shape(z, r2)'
  BY <1>2, <1>3, <1>4, <1>5, <1>6 DEF Shape
<1>8. QED
  BY <1>1, <1>2, <1>7 DEF z

(* A node that is deleted goes to the free list or to free. *)
LEMMA DelStep ==
    ASSUME ListTypes, NEW s \in Seq(Nodes), NEW r \in Seq(Nodes), Shape(s, r), NEW p \in 1 .. Len(s),
           ListDelNode(s[p])
    PROVE  RemoveAt(s, p) \in Seq(Nodes) /\ \E r2 \in Seq(Nodes) : Shape(RemoveAt(s, p), r2)'
<1> DEFINE d == s[p]
           z == RemoveAt(s, p)
<1>1. Len(s) \in Nat /\ p \in Nat /\ 1 <= p /\ p <= Len(s)
  OBVIOUS
<1>2. /\ d \in Nodes /\ d \in AllNodes /\ d = Spot(s, p) /\ d \in Spots(s) /\ d \notin Spots(r)
      /\ Once(s) /\ Both(nxt, prev, s)
  BY SpotFacts, SpotsIn DEF Shape, AllNodes
<1>3. prev[d] = Spot(s, p - 1) /\ nxt[d] = Spot(s, p + 1)
  <2>1. p \in 0 .. Len(s) /\ p - 1 \in 0 .. Len(s) /\ p - 1 + 1 = p
    BY <1>1
  <2>2. \A k \in 0 .. Len(s) : nxt[Spot(s, k)] = Spot(s, k + 1) /\ prev[Spot(s, k + 1)] = Spot(s, k)
    BY <1>2 DEF Both
  <2>3. QED
    BY <1>2, <2>1, <2>2
<1>4. Spot(s, p - 1) \in AllNodes /\ Spot(s, p + 1) \in AllNodes /\ Spot(s, p + 1) # d
  <2>1. p \in 0 .. Len(s) + 1 /\ p - 1 \in 0 .. Len(s) + 1 /\ p + 1 \in 0 .. Len(s) + 1 /\ p + 1 # p
    BY <1>1
  <2>2. QED
    BY <1>2, <2>1, SpotFacts
<1> HIDE DEF d
<1>5. \A m \in AllNodes : nxt'[m] = IF m = Spot(s, p - 1) THEN Spot(s, p + 1) ELSE nxt[m]
  <2>1. nxt' = [nxt EXCEPT ![Spot(s, p - 1)] = Spot(s, p + 1)]
    BY <1>3 DEF ListDelNode, d
  <2>2. QED
    BY <1>4, <2>1 DEF ListTypes
<1>6. \A m \in AllNodes \ {d} : prev'[m] = IF m = Spot(s, p + 1) THEN Spot(s, p - 1) ELSE prev[m]
  <2>1. \/ prev' = [prev EXCEPT ![d] = freeHead, ![Spot(s, p + 1)] = Spot(s, p - 1)]
        \/ prev' = [prev EXCEPT ![Spot(s, p + 1)] = Spot(s, p - 1)]
    BY <1>3 DEF ListDelNode, d
  <2>2. QED
    BY <1>4, <2>1 DEF ListTypes
<1>7. LinksRemoved(nxt, prev, nxt', prev', s, p)
  BY <1>2, <1>5, <1>6 DEF LinksRemoved
<1>8. /\ z \in Seq(Nodes) /\ Once(z) /\ Both(nxt', prev', z)
      /\ Spots(z) = Spots(s) \ {d} /\ Len(z) = Len(s) - 1
  BY <1>2, <1>7, BothRemove DEF d
<1> HIDE DEF z
<1>9. \A m \in Spots(r) : prev'[m] = prev[m]
  <2> SUFFICES ASSUME NEW m \in Spots(r) PROVE prev'[m] = prev[m]
    OBVIOUS
  <2>1. m \in Nodes /\ m \notin Spots(s) /\ m # d /\ m \in AllNodes
    BY <1>2, SpotsIn DEF Shape, AllNodes
  <2>2. Spot(s, p + 1) \in Spots(s) \cup {HeadNode, TailNode}
    BY DEF Spot, Spots
  <2>3. m # Spot(s, p + 1)
    BY <2>1, <2>2, LinkedListAssumption
  <2>4. QED
    BY <1>6, <2>1, <2>3
<1>10. PICK r2 \in Seq(Nodes) :
         /\ owned' = (Spots(s) \ {d}) \cup Spots(r2) /\ (Spots(s) \ {d}) \cap Spots(r2) = {}
         /\ LeadsTo(r2, prev', freeHead', NilNode) /\ freeLen' = Len(r2) /\ Len(r2) < MaxFree
  <2>1. CASE FreeListKeeps
    <3>1. /\ prev' = [prev EXCEPT ![d] = freeHead, ![Spot(s, p + 1)] = Spot(s, p - 1)]
          /\ freeHead' = d /\ freeLen' = freeLen + 1 /\ owned' = owned
      BY <1>3, <2>1 DEF ListDelNode, d
    <3>2. prev'[d] = freeHead
      BY <1>2, <1>4, <3>1 DEF ListTypes
    <3>3. /\ <<d>> \o r \in Seq(Nodes) /\ Len(<<d>> \o r) = Len(r) + 1
          /\ Spots(<<d>> \o r) = Spots(r) \cup {d}
          /\ LeadsTo(<<d>> \o r, prev', d, NilNode)
      BY <1>2, <1>9, <3>2, PushFree DEF Shape
    <3>4. freeLen = Len(r) /\ freeLen + 1 < MaxFree
      BY <2>1 DEF FreeListKeeps, Shape
    <3>5. owned' = (Spots(s) \ {d}) \cup (Spots(r) \cup {d}) /\ (Spots(s) \ {d}) \cap (Spots(r) \cup {d}) = {}
      BY <1>2, <3>1 DEF Shape
    <3>6. QED
      BY <3>1, <3>3, <3>4, <3>5
  <2>2. CASE ~FreeListKeeps
    <3>1. owned' = owned \ {d} /\ freeHead' = freeHead /\ freeLen' = freeLen
      BY <2>2 DEF ListDelNode, d
    <3>2. owned' = (Spots(s) \ {d}) \cup Spots(r) /\ (Spots(s) \ {d}) \cap Spots(r) = {}
      BY <1>2, <3>1 DEF Shape
    <3>3. LeadsTo(r, prev', freeHead', NilNode)
      BY <1>9, <3>1, SameFree DEF Shape
    <3>4. freeLen' = Len(r) /\ Len(r) < MaxFree
      BY <3>1 DEF Shape
    <3>5. QED
      BY <3>2, <3>3, <3>4
  <2>3. QED
    BY <2>1, <2>2
<1>11. ASSUME NEW k \in 1 .. Len(z) PROVE item'[z[k]] \in Items
  <2>1. z[k] \in Spots(s)
    BY <1>8, SpotsIn
  <2>2. item' = item
    BY DEF ListDelNode
  <2>3. QED
    BY <2>1, <2>2 DEF Spots, Shape
<1>12. size' = Len(z)
  BY <1>1, <1>8 DEF ListDelNode, Shape
<1>13. Shape(z, r2)'
  BY <1>8, <1>10, <1>11, <1>12 DEF Shape
<1>14. QED
  BY <1>8, <1>10, <1>13 DEF z

(* An empty list and an empty free list. *)
LEMMA EmptyShape ==
    ASSUME NEW f, NEW g, f[HeadNode] = TailNode, g[TailNode] = HeadNode
    PROVE  /\ <<>> \in Seq(Nodes) /\ Len(<<>>) = 0 /\ Once(<<>>) /\ Both(f, g, <<>>) /\ Spots(<<>>) = {}
           /\ LeadsTo(<<>>, g, NilNode, NilNode)
<1>1. <<>> \in Seq(Nodes) /\ Len(<<>>) = 0
  OBVIOUS
<1>2. Spot(<<>>, 0) = HeadNode /\ Spot(<<>>, 1) = TailNode
  BY <1>1 DEF Spot
<1>3. Both(f, g, <<>>)
  <2>1. \A k \in 0 .. Len(<<>>) : k = 0 /\ k + 1 = 1
    BY <1>1
  <2>2. QED
    BY <1>2, <2>1 DEF Both
<1>4. 1 .. Len(<<>>) = {}
  BY <1>1
<1>5. Once(<<>>) /\ Spots(<<>>) = {} /\ LeadsTo(<<>>, g, NilNode, NilNode)
  BY <1>4 DEF Once, Spots, LeadsTo
<1>6. QED
  BY <1>1, <1>3, <1>5

(* The items of a list whose nodes are s. *)
Word(c, s) == [k \in 1 .. Len(s) |-> c[s[k]]]

(* A node that FreeListAlloc gives is not in the list. *)
LEMMA NewNode ==
    ASSUME NEW s \in Seq(Nodes), NEW r \in Seq(Nodes), Shape(s, r), NEW n \in Nodes, FreeListAlloc(n)
    PROVE  n \notin Spots(s)
<1>1. CASE freeHead # NilNode
  <2>1. freeHead \in Spots(r)
    BY <1>1, PopFree DEF Shape
  <2>2. QED
    BY <1>1, <2>1 DEF FreeListAlloc, Shape
<1>2. CASE freeHead = NilNode
  BY <1>2 DEF FreeListAlloc, Shape
<1>3. QED
  BY <1>1, <1>2

(* The nodes after which, and before which, an item is added are places of *)
(* the list.                                                               *)
LEMMA AddAfterPlace ==
    ASSUME NEW s \in Seq(Nodes), NEW b \in {HeadNode} \cup Spots(s)
    PROVE  \E j \in 0 .. Len(s) : b = Spot(s, j)
<1>1. Len(s) \in Nat
  OBVIOUS
<1>2. CASE b = HeadNode
  BY <1>1, <1>2, SpotFacts
<1>3. CASE b \in Spots(s)
  <2>1. PICK k \in 1 .. Len(s) : b = s[k]
    BY <1>3 DEF Spots
  <2>2. k \in 0 .. Len(s) /\ b = Spot(s, k)
    BY <1>1, <2>1, SpotFacts
  <2>3. QED
    BY <2>2
<1>4. QED
  BY <1>2, <1>3

(* The same for the node before which one is added. *)
LEMMA AddBeforePlace ==
    ASSUME NEW s \in Seq(Nodes), NEW a \in {TailNode} \cup Spots(s)
    PROVE  \E j \in 0 .. Len(s) : a = Spot(s, j + 1)
<1>1. Len(s) \in Nat
  OBVIOUS
<1>2. CASE a = TailNode
  <2>1. Len(s) \in 0 .. Len(s) /\ a = Spot(s, Len(s) + 1)
    BY <1>1, <1>2, SpotFacts
  <2>2. QED
    BY <2>1
<1>3. CASE a \in Spots(s)
  <2>1. PICK k \in 1 .. Len(s) : a = s[k]
    BY <1>3 DEF Spots
  <2>2. k - 1 \in 0 .. Len(s) /\ a = Spot(s, k - 1 + 1)
    <3>1. a = Spot(s, k) /\ k - 1 \in 0 .. Len(s) /\ k - 1 + 1 = k
      BY <1>1, <2>1, SpotFacts
    <3>2. QED
      BY <3>1
  <2>3. QED
    BY <2>2
<1>4. QED
  BY <1>2, <1>3

(* The places around a gap, and the links between them. *)
LEMMA Gap ==
    ASSUME NEW s \in Seq(Nodes), NEW r \in Seq(Nodes), Shape(s, r), NEW j \in 0 .. Len(s)
    PROVE  /\ Spot(s, j) \in AllNodes /\ Spot(s, j + 1) \in AllNodes
           /\ nxt[Spot(s, j)] = Spot(s, j + 1) /\ prev[Spot(s, j + 1)] = Spot(s, j)
           /\ \A n \in Nodes \ Spots(s) : n # Spot(s, j) /\ n # Spot(s, j + 1) /\ n \in AllNodes
<1>1. Len(s) \in Nat /\ j \in 0 .. Len(s) + 1 /\ j + 1 \in 0 .. Len(s) + 1
  OBVIOUS
<1>2. Spot(s, j) \in AllNodes /\ Spot(s, j + 1) \in AllNodes
  BY <1>1, SpotFacts
<1>3. nxt[Spot(s, j)] = Spot(s, j + 1) /\ prev[Spot(s, j + 1)] = Spot(s, j)
  BY DEF Shape, Both
<1>4. \A k \in Int : Spot(s, k) \in Spots(s) \cup {HeadNode, TailNode}
  BY DEF Spot, Spots
<1>5. \A n \in Nodes \ Spots(s) : n # Spot(s, j) /\ n # Spot(s, j + 1) /\ n \in AllNodes
  BY <1>1, <1>4, LinkedListAssumption DEF AllNodes
<1>6. QED
  BY <1>2, <1>3, <1>5

(* ListAddAfter and ListAddBefore put a node at a place of the list. *)
LEMMA AddIs ==
    ASSUME ListTypes, NEW s \in Seq(Nodes), NEW r \in Seq(Nodes), Shape(s, r), NEW i \in Items,
           \/ \E b \in {HeadNode} \cup Spots(s) : ListAddAfter(i, b)
           \/ \E a \in {TailNode} \cup Spots(s) : ListAddBefore(i, a)
    PROVE  \E j \in 0 .. Len(s), n \in Nodes :
             /\ FreeListAlloc(n) /\ item' = [item EXCEPT ![n] = i] /\ size' = size + 1
             /\ LinksInserted(nxt, prev, nxt', prev', s, j, n)
             /\ prev' \in [AllNodes -> Links] /\ nxt' \in [AllNodes -> Links]
<1>1. ASSUME NEW b \in {HeadNode} \cup Spots(s), ListAddAfter(i, b)
      PROVE  \E j \in 0 .. Len(s), n \in Nodes :
               /\ FreeListAlloc(n) /\ item' = [item EXCEPT ![n] = i] /\ size' = size + 1
               /\ LinksInserted(nxt, prev, nxt', prev', s, j, n)
               /\ prev' \in [AllNodes -> Links] /\ nxt' \in [AllNodes -> Links]
  <2>1. PICK j \in 0 .. Len(s) : b = Spot(s, j)
    BY AddAfterPlace
  <2>2. PICK n \in Nodes :
          /\ FreeListAlloc(n) /\ item' = [item EXCEPT ![n] = i] /\ size' = size + 1
          /\ nxt'  = [nxt EXCEPT ![b] = n, ![n] = nxt[b]]
          /\ prev' = [prev EXCEPT ![n] = b, ![nxt[b]] = n]
    BY <1>1 DEF ListAddAfter
  <2>3. n \notin Spots(s)
    BY <2>2, NewNode
  <2> DEFINE x == Spot(s, j)
             y == Spot(s, j + 1)
  <2>4. x \in AllNodes /\ y \in AllNodes /\ nxt[x] = y /\ n # x /\ n # y /\ n \in AllNodes
    BY <2>3, Gap
  <2>5. nxt' = [nxt EXCEPT ![x] = n, ![n] = y] /\ prev' = [prev EXCEPT ![n] = x, ![y] = n]
    BY <2>1, <2>2, <2>4
  <2> HIDE DEF x, y
  <2>6. /\ \A m \in AllNodes : nxt'[m] = IF m = x THEN n ELSE IF m = n THEN y ELSE nxt[m]
        /\ \A m \in AllNodes : prev'[m] = IF m = y THEN n ELSE IF m = n THEN x ELSE prev[m]
    BY <2>4, <2>5 DEF ListTypes
  <2>7. prev' \in [AllNodes -> Links] /\ nxt' \in [AllNodes -> Links]
    BY <2>4, <2>5 DEF ListTypes, Links
  <2>8. LinksInserted(nxt, prev, nxt', prev', s, j, n)
    BY <2>6 DEF LinksInserted, x, y
  <2>9. QED
    BY <2>2, <2>7, <2>8
<1>2. ASSUME NEW a \in {TailNode} \cup Spots(s), ListAddBefore(i, a)
      PROVE  \E j \in 0 .. Len(s), n \in Nodes :
               /\ FreeListAlloc(n) /\ item' = [item EXCEPT ![n] = i] /\ size' = size + 1
               /\ LinksInserted(nxt, prev, nxt', prev', s, j, n)
               /\ prev' \in [AllNodes -> Links] /\ nxt' \in [AllNodes -> Links]
  <2>1. PICK j \in 0 .. Len(s) : a = Spot(s, j + 1)
    BY AddBeforePlace
  <2>2. PICK n \in Nodes :
          /\ FreeListAlloc(n) /\ item' = [item EXCEPT ![n] = i] /\ size' = size + 1
          /\ prev' = [prev EXCEPT ![a] = n, ![n] = prev[a]]
          /\ nxt'  = [nxt EXCEPT ![n] = a, ![prev[a]] = n]
    BY <1>2 DEF ListAddBefore
  <2>3. n \notin Spots(s)
    BY <2>2, NewNode
  <2> DEFINE x == Spot(s, j)
             y == Spot(s, j + 1)
  <2>4. x \in AllNodes /\ y \in AllNodes /\ prev[y] = x /\ n # x /\ n # y /\ n \in AllNodes
    BY <2>3, Gap
  <2>5. prev' = [prev EXCEPT ![y] = n, ![n] = x] /\ nxt' = [nxt EXCEPT ![n] = y, ![x] = n]
    BY <2>1, <2>2, <2>4
  <2> HIDE DEF x, y
  <2>6. /\ \A m \in AllNodes : nxt'[m] = IF m = x THEN n ELSE IF m = n THEN y ELSE nxt[m]
        /\ \A m \in AllNodes : prev'[m] = IF m = y THEN n ELSE IF m = n THEN x ELSE prev[m]
    BY <2>4, <2>5 DEF ListTypes
  <2>7. prev' \in [AllNodes -> Links] /\ nxt' \in [AllNodes -> Links]
    BY <2>4, <2>5 DEF ListTypes, Links
  <2>8. LinksInserted(nxt, prev, nxt', prev', s, j, n)
    BY <2>6 DEF LinksInserted, x, y
  <2>9. QED
    BY <2>2, <2>7, <2>8
<1>3. QED
  BY <1>1, <1>2

(* The items of the longer list. *)
LEMMA WordInsert ==
    ASSUME NEW s \in Seq(Nodes), NEW j \in 0 .. Len(s), NEW n \in Nodes \ Spots(s), NEW i \in Items,
           NEW c \in [Nodes -> Items \cup {NilNode}]
    PROVE  Word([c EXCEPT ![n] = i], InsertAt(s, j + 1, n)) = InsertAt(Word(c, s), j + 1, i)
<1> DEFINE p == j + 1
           T == Items \cup {NilNode}
           z == InsertAt(s, p, n)
           w == Word(c, s)
           v == InsertAt(w, p, i)
           c2 == [c EXCEPT ![n] = i]
<1>1. Len(s) \in Nat /\ p \in 1 .. Len(s) + 1 /\ n \in Nodes
  OBVIOUS
<1>2. w \in Seq(T) /\ Len(w) = Len(s) /\ \A k \in 1 .. Len(s) : w[k] = c[s[k]]
  BY DEF Word
<1> HIDE DEF p, w
<1>3. /\ z \in Seq(Nodes) /\ Len(z) = Len(s) + 1
      /\ \A k \in 1 .. Len(s) + 1 : z[k] = IF k < p THEN s[k] ELSE IF k = p THEN n ELSE s[k - 1]
  BY <1>1, InsertAtElements
<1>4. p \in 1 .. Len(w) + 1 /\ i \in T
  BY <1>1, <1>2
<1> HIDE DEF T
<1>5. /\ v \in Seq(T) /\ Len(v) = Len(w) + 1
      /\ \A k \in 1 .. Len(w) + 1 : v[k] = IF k < p THEN w[k] ELSE IF k = p THEN i ELSE w[k - 1]
  <2>1. w \in Seq(T)
    BY <1>2
  <2>2. v \in Seq(T)
    BY <1>4, <2>1, InsertAtElements
  <2>3. Len(v) = Len(w) + 1
    BY <1>4, <2>1, InsertAtElements
  <2>4. \A k \in 1 .. Len(w) + 1 : v[k] = IF k < p THEN w[k] ELSE IF k = p THEN i ELSE w[k - 1]
    BY <1>4, <2>1, InsertAtElements, SMTT(30)
  <2>5. QED
    BY <2>2, <2>3, <2>4
<1>6. c2[n] = i /\ \A m \in Nodes : m # n => c2[m] = c[m]
  OBVIOUS
<1>7. \A k \in 1 .. Len(s) : s[k] \in Nodes /\ s[k] # n
  BY DEF Spots
<1> HIDE DEF z, v, c2
<1>8. ASSUME NEW k \in 1 .. Len(z) PROVE c2[z[k]] = v[k]
  <2>1. k \in 1 .. Len(s) + 1 /\ k \in 1 .. Len(w) + 1
    BY <1>2, <1>3
  <2>2. CASE k < p
    <3>1. k \in 1 .. Len(s) /\ z[k] = s[k] /\ v[k] = w[k]
      BY <1>1, <1>3, <1>5, <2>1, <2>2
    <3>2. QED
      BY <1>2, <1>6, <1>7, <3>1
  <2>3. CASE k = p
    BY <1>1, <1>3, <1>5, <1>6, <2>1, <2>3
  <2>4. CASE k > p
    <3>1. k - 1 \in 1 .. Len(s) /\ z[k] = s[k - 1] /\ v[k] = w[k - 1]
      BY <1>1, <1>3, <1>5, <2>1, <2>4
    <3>2. QED
      BY <1>2, <1>6, <1>7, <3>1
  <2>5. QED
    BY <1>1, <2>1, <2>2, <2>3, <2>4
<1>9. Len(v) = Len(z)
  BY <1>2, <1>3, <1>5
<1>10. Word(c2, z) = v
  <2>1. v = [k \in 1 .. Len(v) |-> v[k]]
    BY <1>5
  <2>2. QED
    BY <1>8, <1>9, <2>1 DEF Word
<1>11. QED
  BY <1>10 DEF c2, z, v, w, p

(* The items of the shorter list. *)
LEMMA WordRemove ==
    ASSUME NEW s \in Seq(Nodes), NEW p \in 1 .. Len(s), NEW c \in [Nodes -> Items \cup {NilNode}]
    PROVE  Word(c, RemoveAt(s, p)) = RemoveAt(Word(c, s), p)
<1> DEFINE T == Items \cup {NilNode}
           z == RemoveAt(s, p)
           w == Word(c, s)
           v == RemoveAt(w, p)
<1>1. Len(s) \in Nat
  OBVIOUS
<1>2. w \in Seq(T) /\ Len(w) = Len(s) /\ \A k \in 1 .. Len(s) : w[k] = c[s[k]]
  BY DEF Word
<1> HIDE DEF w, T
<1>3. /\ z \in Seq(Nodes) /\ Len(z) = Len(s) - 1
      /\ \A k \in 1 .. Len(s) - 1 : z[k] = IF k < p THEN s[k] ELSE s[k + 1]
  BY RemoveAtElements
<1>4. p \in 1 .. Len(w)
  BY <1>2
<1>5. /\ v \in Seq(T) /\ Len(v) = Len(w) - 1
      /\ \A k \in 1 .. Len(w) - 1 : v[k] = IF k < p THEN w[k] ELSE w[k + 1]
  BY <1>2, <1>4, RemoveAtElements
<1> HIDE DEF z, v
<1>6. ASSUME NEW k \in 1 .. Len(z) PROVE c[z[k]] = v[k]
  <2>1. k \in 1 .. Len(s) - 1 /\ k \in 1 .. Len(w) - 1 /\ k \in 1 .. Len(s) /\ k + 1 \in 1 .. Len(s)
    BY <1>1, <1>2, <1>3
  <2>2. QED
    BY <1>2, <1>3, <1>5, <2>1
<1>7. Len(v) = Len(z)
  BY <1>2, <1>3, <1>5
<1>8. Word(c, z) = v
  <2>1. v = [k \in 1 .. Len(v) |-> v[k]]
    BY <1>5
  <2>2. QED
    BY <1>6, <1>7, <2>1 DEF Word
<1>9. QED
  BY <1>8 DEF z, v, w

-----------------------------------------------------------------------------
(* Every step keeps the shape and is a step of the sequence of items.      *)

(* The sequence that the list stands for. *)
LEMMA AbstractIs ==
    ASSUME NEW s \in Seq(Nodes), NEW r \in Seq(Nodes), Shape(s, r)
    PROVE  [k \in 1 .. Len(Forward) |-> item[Forward[k]]] = Word(item, s)
BY Views DEF Word

(* ListInit. *)
LEMMA ListInitInv ==
    ASSUME ListInit
    PROVE  ListInv /\ Shape(<<>>, <<>>)
<1>1. HeadNode \in AllNodes /\ TailNode \in AllNodes /\ HeadNode # TailNode
  BY LinkedListAssumption DEF AllNodes
<1>2. nxt[HeadNode] = TailNode /\ prev[TailNode] = HeadNode
  BY <1>1 DEF ListInit
<1>3. ListTypes
  BY DEF ListInit, ListTypes, Links, AllNodes
<1>4. /\ <<>> \in Seq(Nodes) /\ Len(<<>>) = 0 /\ Once(<<>>) /\ Both(nxt, prev, <<>>)
      /\ Spots(<<>>) = {} /\ LeadsTo(<<>>, prev, NilNode, NilNode)
  BY <1>2, EmptyShape
<1>5. \A k \in 1 .. Len(<<>>) : item[<<>>[k]] \in Items
  BY <1>4
<1>6. Shape(<<>>, <<>>)
  BY <1>4, <1>5, LinkedListAssumption DEF Shape, ListInit
<1>7. QED
  BY <1>3, <1>4, <1>6 DEF ListInv

(* What a step does to the nodes, the free list and the items. *)
LEMMA ListStepIs ==
    ASSUME ListTypes, NEW s \in Seq(Nodes), NEW r \in Seq(Nodes), Shape(s, r), ListStep
    PROVE  /\ ListTypes'
           /\ \E s2, r2 \in Seq(Nodes) :
                /\ Shape(s2, r2)'
                /\ \/ \E k \in 1 .. Len(s) + 1, i \in Items : Word(item', s2) = InsertAt(Word(item, s), k, i)
                   \/ \E k \in 1 .. Len(s) : Word(item', s2) = RemoveAt(Word(item, s), k)
                   \/ Word(item', s2) = <<>>
<1> DEFINE Goal ==
             /\ ListTypes'
             /\ \E s2, r2 \in Seq(Nodes) :
                  /\ Shape(s2, r2)'
                  /\ \/ \E k \in 1 .. Len(s) + 1, i \in Items : Word(item', s2) = InsertAt(Word(item, s), k, i)
                     \/ \E k \in 1 .. Len(s) : Word(item', s2) = RemoveAt(Word(item, s), k)
                     \/ Word(item', s2) = <<>>
<1>1. Forward = s /\ ToSet(Forward) = Spots(s)
  BY Views, ToSetIs
<1>2. item \in [Nodes -> Items \cup {NilNode}]
  BY DEF ListTypes
<1>3. ASSUME NEW i \in Items,
             \/ \E b \in {HeadNode} \cup Spots(s) : ListAddAfter(i, b)
             \/ \E a \in {TailNode} \cup Spots(s) : ListAddBefore(i, a)
      PROVE  Goal
  <2>1. PICK j \in 0 .. Len(s), n \in Nodes :
          /\ FreeListAlloc(n) /\ item' = [item EXCEPT ![n] = i] /\ size' = size + 1
          /\ LinksInserted(nxt, prev, nxt', prev', s, j, n)
          /\ prev' \in [AllNodes -> Links] /\ nxt' \in [AllNodes -> Links]
    BY <1>3, AddIs
  <2>2. n \notin Spots(s) /\ InsertAt(s, j + 1, n) \in Seq(Nodes)
    BY <2>1, AddStep
  <2>3. PICK r2 \in Seq(Nodes) : Shape(InsertAt(s, j + 1, n), r2)'
    BY <2>1, AddStep
  <2>4. Word(item', InsertAt(s, j + 1, n)) = InsertAt(Word(item, s), j + 1, i)
    <3>1. n \in Nodes \ Spots(s)
      BY <2>2
    <3>2. Word([item EXCEPT ![n] = i], InsertAt(s, j + 1, n)) = InsertAt(Word(item, s), j + 1, i)
      BY <1>2, <3>1, WordInsert, ZenonT(60)
    <3>3. QED
      BY <2>1, <3>2, Zenon
  <2>5. j + 1 \in 1 .. Len(s) + 1
    OBVIOUS
  <2>6. ListTypes'
    BY <1>2, <2>1 DEF ListTypes
  <2>7. QED
    BY <2>2, <2>3, <2>4, <2>5, <2>6
<1>4. ASSUME NEW d \in Spots(s), ListDelNode(d)
      PROVE  Goal
  <2>1. PICK p \in 1 .. Len(s) : d = s[p]
    BY DEF Spots
  <2>2. RemoveAt(s, p) \in Seq(Nodes)
    BY <1>4, <2>1, DelStep
  <2>3. PICK r2 \in Seq(Nodes) : Shape(RemoveAt(s, p), r2)'
    BY <1>4, <2>1, DelStep
  <2>4. item' = item
    BY <1>4 DEF ListDelNode
  <2>5. Word(item', RemoveAt(s, p)) = RemoveAt(Word(item, s), p)
    BY <1>2, <2>4, WordRemove
  <2>6. ListTypes'
    <3>1. nxt[d] \in Links /\ prev[d] \in Links
      BY SpotsIn DEF ListTypes, AllNodes
    <3>2. freeHead \in Links
      <4>1. freeHead # NilNode => freeHead \in Spots(r)
        BY PopFree DEF Shape
      <4>2. QED
        BY <4>1, SpotsIn DEF Links, AllNodes
    <3>3. nxt' \in [AllNodes -> Links] /\ prev' \in [AllNodes -> Links]
      BY <1>4, <3>1, <3>2 DEF ListDelNode, ListTypes
    <3>4. QED
      BY <1>2, <2>4, <3>3 DEF ListTypes
  <2>7. QED
    BY <2>2, <2>3, <2>5, <2>6
<1>5. ASSUME ListDestroy
      PROVE  Goal
  <2>1. HeadNode \in AllNodes /\ TailNode \in AllNodes /\ HeadNode # TailNode
    BY LinkedListAssumption DEF AllNodes
  <2>2. nxt'[HeadNode] = TailNode /\ prev'[TailNode] = HeadNode
    BY <1>5, <2>1 DEF ListDestroy, ListTypes
  <2>3. /\ <<>> \in Seq(Nodes) /\ Len(<<>>) = 0 /\ Once(<<>>) /\ Both(nxt', prev', <<>>)
        /\ Spots(<<>>) = {} /\ LeadsTo(<<>>, prev', NilNode, NilNode)
    BY <2>2, EmptyShape
  <2>4. \A k \in 1 .. Len(<<>>) : item'[<<>>[k]] \in Items
    BY <2>3
  <2>5. Shape(<<>>, <<>>)'
    BY <1>5, <2>3, <2>4, LinkedListAssumption DEF Shape, ListDestroy
  <2>6. Word(item', <<>>) = <<>>
    BY <2>3 DEF Word
  <2>7. ListTypes'
    BY <1>5, <2>1 DEF ListDestroy, ListTypes, Links
  <2>8. QED
    BY <2>3, <2>5, <2>6, <2>7
<1>6. QED
  <2> HIDE DEF Goal
  <2>1. \/ \E i \in Items :
              \/ \E b \in {HeadNode} \cup Spots(s) : ListAddAfter(i, b)
              \/ \E a \in {TailNode} \cup Spots(s) : ListAddBefore(i, a)
        \/ \E d \in Spots(s) : ListDelNode(d)
        \/ ListDestroy
    BY <1>1 DEF ListStep
  <2>2. Goal
    BY <1>3, <1>4, <1>5, <2>1, Zenon
  <2>3. QED
    BY <2>2 DEF Goal

(* The shape is an invariant. *)
LEMMA ListInvInductive ==
    ASSUME ListInv, [ListStep]_listVars
    PROVE  ListInv'
<1>1. CASE ListStep
  BY <1>1, ListStepIs DEF ListInv
<1>2. CASE UNCHANGED listVars
  BY <1>2 DEF ListInv, ListTypes, Shape, listVars
<1>3. QED
  BY <1>1, <1>2

-----------------------------------------------------------------------------
(* What the shape gives.                                                   *)

(* The links of both directions agree. *)
LEMMA ShapeLinks ==
    ASSUME NEW s \in Seq(Nodes), NEW r \in Seq(Nodes), Shape(s, r)
    PROVE  LinksAgree
<1>1. Forward = s /\ Backward = Reverse(s) /\ size = Len(s) /\ Len(s) \in Nat
  BY Views DEF Shape
<1>2. /\ \A k \in 1 .. Len(s) : Spot(s, k) = s[k] /\ s[k] # HeadNode /\ s[k] # TailNode
      /\ Spot(s, 0) = HeadNode /\ Spot(s, Len(s) + 1) = TailNode
  BY SpotFacts, LinkedListAssumption
<1>3. \A k \in 0 .. Len(s) : nxt[Spot(s, k)] = Spot(s, k + 1) /\ prev[Spot(s, k + 1)] = Spot(s, k)
  BY DEF Shape, Both
<1>4. ListHead = IF size = 0 THEN NilNode ELSE s[1]
  <2>1. nxt[HeadNode] = Spot(s, 1)
    <3>1. 0 \in 0 .. Len(s)
      BY <1>1
    <3>2. nxt[Spot(s, 0)] = Spot(s, 0 + 1)
      BY <1>3, <3>1
    <3>3. QED
      BY <1>2, <3>2
  <2>2. QED
    BY <1>1, <1>2, <2>1 DEF ListHead
<1>5. ListTail = IF size = 0 THEN NilNode ELSE s[size]
  <2>1. prev[TailNode] = Spot(s, Len(s))
    <3>1. Len(s) \in 0 .. Len(s)
      BY <1>1
    <3>2. QED
      BY <1>2, <1>3, <3>1
  <2>2. QED
    BY <1>1, <1>2, <2>1 DEF ListTail
<1>6. ASSUME NEW k \in 1 .. Len(s)
      PROVE  /\ ListNext(s[k]) = IF k = Len(s) THEN NilNode ELSE s[k + 1]
             /\ ListPrev(s[k]) = IF k = 1 THEN NilNode ELSE s[k - 1]
  <2>1. k \in 0 .. Len(s) /\ k - 1 \in 0 .. Len(s) /\ k - 1 + 1 = k
    BY <1>1
  <2>2. nxt[s[k]] = Spot(s, k + 1) /\ prev[s[k]] = Spot(s, k - 1)
    BY <1>2, <1>3, <2>1
  <2>3. /\ k # Len(s) => k + 1 \in 1 .. Len(s)
        /\ k # 1 => k - 1 \in 1 .. Len(s)
    BY <1>1
  <2>4. /\ nxt[s[k]] = IF k = Len(s) THEN TailNode ELSE s[k + 1]
        /\ prev[s[k]] = IF k = 1 THEN HeadNode ELSE s[k - 1]
    BY <1>2, <2>2, <2>3
  <2>5. QED
    BY <1>2, <2>3, <2>4 DEF ListNext, ListPrev
<1>7. QED
  BY <1>1, <1>4, <1>5, <1>6 DEF LinksAgree

(* Every node is accounted for. *)
LEMMA ShapeNodes ==
    ASSUME NEW s \in Seq(Nodes), NEW r \in Seq(Nodes), Shape(s, r)
    PROVE  NodesAccounted
<1>1. Forward = s /\ FreeNodes = r
  BY Views
<1>2. ToSet(s) = Spots(s) /\ ToSet(r) = Spots(r)
  BY ToSetIs
<1>3. Cardinality(Spots(r)) = Len(r)
  BY DistinctSize DEF Spots, Shape, LeadsTo
<1>4. QED
  BY <1>1, <1>2, <1>3 DEF NodesAccounted, Shape

(* The loop of ListFind satisfies its recursive equation. *)
LEMMA WalkUnfolds ==
    ASSUME NEW first, NEW i
    PROVE  /\ Walk(first, i)[0] = first
           /\ \A n \in 1 .. Cardinality(Nodes) : Walk(first, i)[n] = Past(Walk(first, i)[n - 1], i)
<1> DEFINE Eq(f, m) == f = [n \in 0 .. m |-> IF n = 0 THEN first ELSE Past(f[n - 1], i)]
           S == {m \in Nat : \E f : Eq(f, m)}
<1>1. 0 \in S
  <2>1. Eq([n \in 0 .. 0 |-> first], 0)
    OBVIOUS
  <2>2. QED
    BY <2>1
<1>2. ASSUME NEW m \in Nat, m \in S PROVE m + 1 \in S
  <2>1. PICK f : Eq(f, m)
    BY <1>2
  <2> DEFINE g == [n \in 0 .. m + 1 |-> IF n <= m THEN f[n] ELSE Past(f[m], i)]
  <2>2. \A n \in 0 .. m : g[n] = f[n]
    OBVIOUS
  <2>3. \A n \in 0 .. m + 1 : g[n] = IF n = 0 THEN first ELSE Past(g[n - 1], i)
    <3>1. CASE m = 0
      BY <3>1, <2>1, <2>2
    <3>2. TAKE n \in 0 .. m + 1
    <3>3. CASE n = m + 1
      BY <3>3, <2>2
    <3>4. CASE n \in 1 .. m
      <4>1. n \in 0 .. m /\ n - 1 \in 0 .. m /\ n # 0
        BY <3>4
      <4>2. f[n] = Past(f[n - 1], i)
        BY <4>1, <2>1
      <4>3. QED
        BY <4>1, <4>2, <2>2
    <3>5. CASE n = 0
      BY <3>5, <2>1, <2>2
    <3>6. QED
      BY <3>3, <3>4, <3>5
  <2>4. Eq(g, m + 1)
    <3> HIDE DEF g
    <3> SUFFICES g = [n \in 0 .. m + 1 |-> g[n]]
      BY <2>3
    <3> QED
      BY DEF g
  <2>5. QED
    <3> HIDE DEF Eq, g
    <3> QED
      BY <2>4
<1>3. \E f : Eq(f, Cardinality(Nodes))
  <2> HIDE DEF Eq
  <2>1. Cardinality(Nodes) \in S
    <3> HIDE DEF S
    <3> QED
      BY <1>1, <1>2, SetInduction, LinkedListAssumption, FS_CardinalityType
  <2>2. QED
    BY <2>1
<1>4. Walk(first, i) = CHOOSE f : Eq(f, Cardinality(Nodes))
  BY DEF Walk
<1>5. Eq(Walk(first, i), Cardinality(Nodes))
  <2> HIDE DEF Eq
  <2> QED
    BY <1>3, <1>4
<1>6. Cardinality(Nodes) \in Nat
  BY LinkedListAssumption, FS_CardinalityType
<1>7. QED
  BY <1>5, <1>6


(* It stops at the first node that has the item, or at the end. *)
LEMMA WalkStops ==
    ASSUME NEW s \in Seq(Nodes), NEW r \in Seq(Nodes), Shape(s, r), NEW i, NEW p \in 0 .. Len(s),
           NEW h \in p + 1 .. Len(s) + 1, h <= Len(s) => item[s[h]] = i,
           \A k \in p + 1 .. h - 1 : item[s[k]] # i
    PROVE  Walk(Spot(s, p + 1), i)[Cardinality(Nodes)] = Spot(s, h)
<1> DEFINE W == Walk(Spot(s, p + 1), i)
           N == Cardinality(Nodes)
           At(k) == IF p + 1 + k < h THEN p + 1 + k ELSE h
           S == {k \in Nat : k <= N => W[k] = Spot(s, At(k))}
<1>1. N \in Nat /\ Len(s) <= N /\ Len(s) \in Nat
  BY DistinctLength, LinkedListAssumption, FS_CardinalityType DEF Shape, Once
<1>2. W[0] = Spot(s, p + 1) /\ \A n \in 1 .. N : W[n] = Past(W[n - 1], i)
  <2> DEFINE first == Spot(s, p + 1)
  <2> HIDE DEF first
  <2> SUFFICES Walk(first, i)[0] = first /\ \A n \in 1 .. N : Walk(first, i)[n] = Past(Walk(first, i)[n - 1], i)
    BY DEF first
  <2> QED
    BY WalkUnfolds
<1> HIDE DEF W, N
<1>3. 0 \in S
  <2>1. W[0] = Spot(s, p + 1) /\ At(0) = p + 1
    BY <1>1, <1>2
  <2>2. QED
    BY <2>1
<1>4. ASSUME NEW k \in Nat, k \in S PROVE k + 1 \in S
  <2> SUFFICES ASSUME k + 1 <= N PROVE W[k + 1] = Spot(s, At(k + 1))
    BY <1>1
  <2>1. W[k + 1] = Past(Spot(s, At(k)), i)
    <3>1. k <= N /\ k + 1 \in 1 .. N /\ (k + 1) - 1 = k
      BY <1>1
    <3>2. W[k + 1] = Past(W[k], i)
      BY <1>2, <3>1
    <3>3. W[k] = Spot(s, At(k))
      BY <1>4, <3>1
    <3>4. QED
      BY <3>2, <3>3
  <2>2. CASE p + 1 + k < h
    <3> DEFINE m == p + 1 + k
    <3>1. m \in 1 .. Len(s) /\ m \in 0 .. Len(s) /\ m \in p + 1 .. h - 1
      BY <1>1, <2>2
    <3>2. At(k) = m
      BY <2>2
    <3>3. At(k + 1) = m + 1
      BY <1>1, <2>2
    <3> HIDE DEF m
    <3>4. Spot(s, m) = s[m] /\ s[m] \in Nodes /\ s[m] # TailNode
      BY <3>1, SpotFacts, LinkedListAssumption
    <3>5. item[s[m]] # i /\ nxt[s[m]] = Spot(s, m + 1)
      BY <3>1, <3>4 DEF Shape, Both
    <3>6. QED
      BY <2>1, <3>2, <3>3, <3>4, <3>5 DEF Past
  <2>3. CASE ~(p + 1 + k < h)
    <3>1. At(k) = h /\ At(k + 1) = h /\ (h = Len(s) + 1 \/ h \in 1 .. Len(s))
      BY <1>1, <2>3
    <3>2. Spot(s, h) = TailNode \/ item[Spot(s, h)] = i
      BY <3>1, SpotFacts
    <3>3. QED
      BY <2>1, <3>1, <3>2 DEF Past
  <2>4. QED
    BY <2>2, <2>3
<1>5. N \in S
  <2> HIDE DEF S
  <2> QED
    BY <1>1, <1>3, <1>4, SetInduction
<1>6. W[N] = Spot(s, h)
  BY <1>1, <1>5
<1>7. QED
  BY <1>6 DEF W, N

(* ListFind finds the first match after its start. *)
LEMMA ShapeFinds ==
    ASSUME NEW s \in Seq(Nodes), NEW r \in Seq(Nodes), Shape(s, r)
    PROVE  FindsFirst
<1>1. Forward = s /\ size = Len(s) /\ Len(s) \in Nat
  BY Views DEF Shape
<1> SUFFICES ASSUME NEW i \in Items, NEW p \in 0 .. size
             PROVE  LET start == IF p = 0 THEN NilNode ELSE Forward[p]
                        hits  == { k \in p + 1 .. size : item[Forward[k]] = i }
                    IN  ListFind(start, i) = IF hits = {} THEN NilNode
                                             ELSE Forward[CHOOSE k \in hits : \A m \in hits : k <= m]
  BY Zenon DEF FindsFirst
<1> DEFINE start == IF p = 0 THEN NilNode ELSE Forward[p]
           hits  == { k \in p + 1 .. size : item[Forward[k]] = i }
<1> SUFFICES ListFind(start, i) = IF hits = {} THEN NilNode
                                  ELSE Forward[CHOOSE k \in hits : \A m \in hits : k <= m]
  BY Zenon
<1>2. PICK h \in p + 1 .. Len(s) + 1 :
        (h <= Len(s) => item[s[h]] = i) /\ \A k \in p + 1 .. h - 1 : item[s[k]] # i
  <2> DEFINE P == { k \in p + 1 .. Len(s) : item[s[k]] = i }
  <2>1. PICK h \in 1 .. Len(s) + 1 : (h <= Len(s) => h \in P) /\ \A k \in 1 .. h - 1 : k \notin P
    <3> HIDE DEF P
    <3> QED
      BY <1>1, FirstPlace
  <2>2. QED
    BY <1>1, <2>1, SMTT(30)
<1>3. Walk(Spot(s, p + 1), i)[Cardinality(Nodes)] = Spot(s, h)
  BY <1>2, WalkStops
<1>4. nxt[IF start = NilNode THEN HeadNode ELSE start] = Spot(s, p + 1)
  <2>1. p = 0 => Spot(s, p) = HeadNode
    BY SpotFacts
  <2>2. p # 0 => Spot(s, p) = s[p] /\ s[p] # NilNode
    BY <1>1, SpotFacts, LinkedListAssumption
  <2>3. nxt[Spot(s, p)] = Spot(s, p + 1)
    BY <1>1 DEF Shape, Both
  <2>4. QED
    BY <1>1, <2>1, <2>2, <2>3
<1>5. ListFind(start, i) = IF Spot(s, h) = TailNode THEN NilNode ELSE Spot(s, h)
  BY <1>3, <1>4 DEF ListFind
<1>6. CASE h = Len(s) + 1
  <2>1. hits = {}
    BY <1>1, <1>2, <1>6
  <2> HIDE DEF hits, start
  <2>2. QED
    BY <1>5, <1>6, <2>1, SpotFacts
<1>7. CASE h <= Len(s)
  <2>1. h \in hits /\ \A m \in hits : h <= m
    BY <1>1, <1>2, <1>7
  <2> DEFINE c == CHOOSE k \in hits : \A m \in hits : k <= m
  <2>2. c \in hits /\ \A m \in hits : c <= m
    BY <2>1
  <2> HIDE DEF c
  <2>3. c = h
    BY <1>1, <2>1, <2>2
  <2> HIDE DEF hits, start
  <2>4. h \in 1 .. Len(s) /\ Spot(s, h) = s[h] /\ s[h] # TailNode
    BY <1>1, <1>7, SpotFacts, LinkedListAssumption
  <2>5. QED
    BY <1>1, <1>5, <2>1, <2>3, <2>4 DEF c
<1>8. QED
  BY <1>1, <1>2, <1>6, <1>7

(* The list has its types and the lengths its memory allows. *)
LEMMA ShapeFields ==
    ASSUME ListTypes, NEW s \in Seq(Nodes), NEW r \in Seq(Nodes), Shape(s, r)
    PROVE  /\ size \in 0 .. Cardinality(Nodes) /\ freeLen \in 0 .. Cardinality(Nodes)
           /\ owned \subseteq Nodes /\ freeHead \in Nodes \cup {NilNode}
<1>1. Len(s) <= Cardinality(Nodes) /\ Len(s) \in Nat
  BY DistinctLength, LinkedListAssumption DEF Shape, Once
<1>2. Len(r) <= Cardinality(Nodes) /\ Len(r) \in Nat
  BY DistinctLength, LinkedListAssumption DEF Shape, LeadsTo
<1>3. Cardinality(Nodes) \in Nat
  BY LinkedListAssumption, FS_CardinalityType
<1>4. size \in 0 .. Cardinality(Nodes) /\ freeLen \in 0 .. Cardinality(Nodes)
  BY <1>1, <1>2, <1>3 DEF Shape
<1>5. owned \subseteq Nodes
  BY SpotsIn DEF Shape
<1>6. freeHead \in Nodes \cup {NilNode}
  BY DEF Shape, LeadsTo
<1>7. QED
  BY <1>4, <1>5, <1>6

-----------------------------------------------------------------------------
(* The theorems.                                                           *)

(* However nodes are added, deleted and reused, ListHead, ListTail,        *)
(* ListNext and ListPrev walk the same nodes in both directions, as many   *)
(* as list->size, and every node that malloc gave is either in the list or *)
(* in the free list, whose length is right and below its maximum.          *)
THEOREM ListSound == ListSpecification => [](LinksAgree /\ NodesAccounted)
<1>1. ListInit => ListInv
  BY ListInitInv
<1>2. ListInv /\ [ListStep]_listVars => ListInv'
  BY ListInvInductive
<1>3. ListInv => LinksAgree /\ NodesAccounted
  BY ShapeLinks, ShapeNodes DEF ListInv
<1>4. QED
  BY <1>1, <1>2, <1>3, PTL DEF ListSpecification

(* ListSpec means the same operators on sequences. *)
LEMMA SameOperators ==
    /\ \A q, k, e : Abstract!InsertAt(q, k, e) = InsertAt(q, k, e)
    /\ \A q, k : Abstract!RemoveAt(q, k) = RemoveAt(q, k)
BY Zenon DEF Abstract!InsertAt, Abstract!RemoveAt, InsertAt, RemoveAt

(* The list implements the sequence of items that LinkedList.h promises:   *)
(* an addition puts the item at the place asked for, a deletion takes out  *)
(* the one item, and nothing else moves.                                   *)
THEOREM ListImplements == ListSpecification => ImplementsList
<1> DEFINE seq == [k \in 1 .. Len(Forward) |-> item[Forward[k]]]
<1>1. ListInit => ListInv /\ Abstract!Init
  <2> SUFFICES ASSUME ListInit PROVE ListInv /\ Abstract!Init
    OBVIOUS
  <2>1. ListInv /\ Shape(<<>>, <<>>) /\ <<>> \in Seq(Nodes)
    BY ListInitInv
  <2>2. seq = Word(item, <<>>)
    BY <2>1, AbstractIs
  <2>3. Word(item, <<>>) = <<>>
    BY DEF Word
  <2>4. QED
    BY <2>1, <2>2, <2>3 DEF Abstract!Init
<1>2. ListInv /\ [ListStep]_listVars => ListInv'
  BY ListInvInductive
<1>3. ListInv /\ [ListStep]_listVars => [Abstract!Put \/ Abstract!Take \/ Abstract!Clear]_seq
  <2> SUFFICES ASSUME ListInv, [ListStep]_listVars
               PROVE  [Abstract!Put \/ Abstract!Take \/ Abstract!Clear]_seq
    OBVIOUS
  <2>1. CASE UNCHANGED listVars
    BY <2>1 DEF listVars, Forward
  <2>2. CASE ListStep
    <3>1. PICK s, r \in Seq(Nodes) : ListTypes /\ Shape(s, r)
      BY DEF ListInv
    <3>2. PICK s2, r2 \in Seq(Nodes) :
            /\ Shape(s2, r2)'
            /\ \/ \E k \in 1 .. Len(s) + 1, i \in Items : Word(item', s2) = InsertAt(Word(item, s), k, i)
               \/ \E k \in 1 .. Len(s) : Word(item', s2) = RemoveAt(Word(item, s), k)
               \/ Word(item', s2) = <<>>
      BY <2>2, <3>1, ListStepIs
    <3>3. seq = Word(item, s) /\ Len(seq) = Len(s)
      BY <3>1, AbstractIs, Views
    <3>4. seq' = Word(item', s2)
      <4>1. Forward' = s2
        BY <3>2, WalksFind DEF Shape, Forward
      <4>2. QED
        BY <4>1 DEF Word
    <3> HIDE DEF seq
    <3>5. \/ \E k \in 1 .. Len(seq) + 1, i \in Items : seq' = InsertAt(seq, k, i)
          \/ \E k \in 1 .. Len(seq) : seq' = RemoveAt(seq, k)
          \/ seq' = <<>>
      BY <3>2, <3>3, <3>4
    <3>6. QED
      BY <3>5, SameOperators DEF Abstract!Put, Abstract!Take, Abstract!Clear, seq
  <2>3. QED
    BY <2>1, <2>2
<1>4. QED
  BY <1>1, <1>2, <1>3, PTL DEF ListSpecification, ImplementsList, Abstract!Spec

-----------------------------------------------------------------------------
(***************************************************************************)
(* The buffer.  Place by place, it has the bytes it should have, then its  *)
(* terminator.                                                             *)
(***************************************************************************)
Bytes(s) == {s[k] : k \in 1 .. Len(s)}
Cells    == (UNION {Bytes(s) : s \in Texts}) \cup {Junk, Nul}

BufferTypes ==
  /\ mem \in Seq(Cells) /\ text \in Seq(Cells)
  /\ length \in 0 .. MaxLength /\ capacity \in 0 .. 2 * (MaxLength + SizeInc)

BufferInv ==
  /\ BufferTypes
  /\ length <= capacity /\ length = Len(text)
  /\ (Len(mem) = 0 /\ capacity = 0) \/ Len(mem) = capacity + 1
  /\ \A k \in 1 .. length : mem[k] = text[k]
  /\ length > 0 => mem[length + 1] = Nul

(* What is put into the buffer consists of cells. *)
LEMMA TextsAreCells ==
    ASSUME NEW s \in Texts
    PROVE  s \in Seq(Cells) /\ Len(s) \in 0 .. MaxLength
<1>1. s \in Seq(Bytes(s)) /\ Len(s) <= MaxLength
  BY MembufferAssumption DEF Bytes
<1>2. Bytes(s) \subseteq Cells
  BY DEF Cells
<1>3. Len(s) \in Nat /\ \A k \in 1 .. Len(s) : s[k] \in Cells
  BY <1>1, <1>2
<1>4. s \in [1 .. Len(s) -> Cells]
  BY <1>1, <1>3
<1>5. QED
  BY <1>1, <1>3, <1>4, MembufferAssumption

(* memcpy writes the bytes of s from place i on, and nothing else. *)
LEMMA CopyElements ==
    ASSUME NEW m \in Seq(Cells), NEW s \in Seq(Cells), NEW i \in Nat
    PROVE  /\ Copy(m, i, s) \in Seq(Cells) /\ Len(Copy(m, i, s)) = Len(m)
           /\ \A k \in 1 .. Len(m) :
                Copy(m, i, s)[k] = IF k > i /\ k <= i + Len(s) THEN s[k - i] ELSE m[k]
<1>1. \A k \in 1 .. Len(m) : (IF k > i /\ k <= i + Len(s) THEN s[k - i] ELSE m[k]) \in Cells
  OBVIOUS
<1>2. QED
  BY <1>1 DEF Copy

(* A terminator is one cell. *)
LEMMA TerminateElements ==
    ASSUME NEW m \in Seq(Cells), NEW i \in 0 .. Len(m) - 1
    PROVE  /\ Terminate(m, i) \in Seq(Cells) /\ Len(Terminate(m, i)) = Len(m)
           /\ \A k \in 1 .. Len(m) : Terminate(m, i)[k] = IF k = i + 1 THEN Nul ELSE m[k]
<1>1. Nul \in Cells
  BY DEF Cells
<1>2. QED
  BY <1>1 DEF Terminate

(* realloc keeps what fits. *)
LEMMA ReallocElements ==
    ASSUME BufferInv, NEW a \in Nat
    PROVE  /\ Realloc(a) \in Seq(Cells) /\ Len(Realloc(a)) = a + 1
           /\ \A k \in 1 .. a + 1 : k <= Len(mem) => Realloc(a)[k] = mem[k]
<1>1. Junk \in Cells /\ mem \in Seq(Cells)
  BY DEF Cells, BufferInv, BufferTypes
<1>2. \A k \in 1 .. a + 1 : (IF k <= Len(mem) THEN mem[k] ELSE Junk) \in Cells
  BY <1>1
<1>3. QED
  BY <1>1, <1>2 DEF Realloc

(* membuffer_set_size leaves room for n bytes and the terminator and keeps *)
(* what was there, whichever realloc succeeded; shrinking never grows.     *)
LEMMA SetSizeGives ==
    ASSUME BufferInv, NEW n \in 0 .. MaxLength, NEW r \in SetSize(n)
    PROVE  /\ r[1] \in Seq(Cells) /\ r[2] \in 0 .. 2 * (MaxLength + SizeInc) /\ n <= r[2]
           /\ (Len(r[1]) = 0 /\ r[2] = 0) \/ Len(r[1]) = r[2] + 1
           /\ \A k \in 1 .. Len(r[1]) : k <= Len(mem) => r[1][k] = mem[k]
           /\ n <= length => r[2] <= capacity
<1>1. /\ mem \in Seq(Cells) /\ length \in 0 .. MaxLength /\ capacity \in 0 .. 2 * (MaxLength + SizeInc)
      /\ SizeInc \in Nat /\ SizeInc > 0 /\ MaxLength \in Nat /\ length <= capacity
      /\ (Len(mem) = 0 /\ capacity = 0) \/ Len(mem) = capacity + 1
  BY MembufferAssumption DEF BufferInv, BufferTypes
<1>2. CASE r = <<mem, capacity>> /\ n <= capacity
  BY <1>1, <1>2
<1>3. ASSUME NEW a \in Nat, r = <<Realloc(a), a>>, n <= a, a <= 2 * (MaxLength + SizeInc),
             n <= length => a <= capacity
      PROVE  /\ r[1] \in Seq(Cells) /\ r[2] \in 0 .. 2 * (MaxLength + SizeInc) /\ n <= r[2]
             /\ (Len(r[1]) = 0 /\ r[2] = 0) \/ Len(r[1]) = r[2] + 1
             /\ \A k \in 1 .. Len(r[1]) : k <= Len(mem) => r[1][k] = mem[k]
             /\ n <= length => r[2] <= capacity
  <2> DEFINE z == Realloc(a)
  <2>1. z \in Seq(Cells) /\ Len(z) = a + 1 /\ \A k \in 1 .. a + 1 : k <= Len(mem) => z[k] = mem[k]
    BY ReallocElements
  <2>2. r[1] = z /\ r[2] = a
    BY <1>3
  <2> HIDE DEF z
  <2>3. a \in 0 .. 2 * (MaxLength + SizeInc)
    BY <1>1, <1>3
  <2>4. QED
    BY <1>3, <2>1, <2>2, <2>3
<1>4. CASE n >= length
  <2>1. CASE n <= capacity
    <3>1. r = <<mem, capacity>>
      BY <1>4, <2>1 DEF SetSize
    <3>2. QED
      BY <1>2, <2>1, <3>1
  <2>2. CASE ~(n <= capacity)
    <3>1. PICK a \in {Larger(SizeInc, n - length) + capacity, n} : r = <<Realloc(a), a>>
      BY <1>4, <2>2 DEF SetSize
    <3>2. a \in Nat /\ n <= a /\ a <= 2 * (MaxLength + SizeInc)
      BY <1>1, <1>4, <2>2, <3>1 DEF Larger
    <3>3. ~(n <= length)
      BY <1>1, <2>2
    <3>4. QED
      BY <1>3, <3>1, <3>2, <3>3
  <2>3. QED
    BY <2>1, <2>2
<1>5. CASE ~(n >= length)
  <2>1. CASE capacity - n <= SizeInc
    <3>1. r = <<mem, capacity>> /\ n <= capacity
      BY <1>1, <1>5, <2>1 DEF SetSize
    <3>2. QED
      BY <1>2, <3>1
  <2>2. CASE ~(capacity - n <= SizeInc)
    <3>1. PICK a \in {n + SizeInc, n} : r = <<Realloc(a), a>>
      BY <1>5, <2>2 DEF SetSize
    <3>2. a \in Nat /\ n <= a /\ a <= 2 * (MaxLength + SizeInc) /\ a <= capacity
      BY <1>1, <1>5, <2>2, <3>1
    <3>3. QED
      BY <1>3, <3>1, <3>2
  <2>3. QED
    BY <2>1, <2>2
<1>6. QED
  BY <1>4, <1>5

(* A memory m with room for c bytes that holds t and its terminator makes  *)
(* a buffer that is right.                                                 *)
Filled(m, c, t) ==
  /\ m \in Seq(Cells) /\ t \in Seq(Cells)
  /\ c \in 0 .. 2 * (MaxLength + SizeInc) /\ Len(t) \in 0 .. MaxLength /\ Len(t) <= c
  /\ (Len(m) = 0 /\ c = 0) \/ Len(m) = c + 1
  /\ \A k \in 1 .. Len(t) : m[k] = t[k]
  /\ Len(t) > 0 => m[Len(t) + 1] = Nul

(* The invariant in these words. *)
LEMMA FilledIs ==
    /\ BufferInv => Filled(mem, capacity, text) /\ length = Len(text)
    /\ Filled(mem', capacity', text') /\ length' = Len(text') => BufferInv'
BY DEF Filled, BufferInv, BufferTypes

(* membuffer_assign. *)
LEMMA AssignKeeps ==
    ASSUME BufferInv, NEW s \in Texts, MembufferAssign(s)
    PROVE  BufferInv'
<1>1. s \in Seq(Cells) /\ Len(s) \in 0 .. MaxLength
  BY TextsAreCells
<1>2. PICK r \in SetSize(Len(s)) :
        /\ mem' = IF s = <<>> THEN r[1] ELSE Terminate(Copy(r[1], 0, s), Len(s))
        /\ capacity' = r[2] /\ length' = Len(s) /\ text' = s
  BY DEF MembufferAssign
<1> DEFINE m == r[1]
           c == r[2]
<1>3. /\ m \in Seq(Cells) /\ c \in 0 .. 2 * (MaxLength + SizeInc) /\ Len(s) <= c
      /\ (Len(m) = 0 /\ c = 0) \/ Len(m) = c + 1
  BY <1>1, SetSizeGives
<1> HIDE DEF m, c
<1>4. CASE s = <<>>
  <2>1. Filled(m, c, s)
    BY <1>1, <1>3, <1>4 DEF Filled
  <2>2. QED
    BY <1>2, <1>4, <2>1, FilledIs DEF m, c
<1>5. CASE s # <<>>
  <2>1. Len(s) > 0 /\ Len(m) = c + 1 /\ Len(s) \in 0 .. Len(m) - 1
    BY <1>1, <1>3, <1>5
  <2> DEFINE d == Copy(m, 0, s)
             z == Terminate(d, Len(s))
  <2>2. /\ d \in Seq(Cells) /\ Len(d) = Len(m)
        /\ \A k \in 1 .. Len(m) : d[k] = IF k > 0 /\ k <= 0 + Len(s) THEN s[k - 0] ELSE m[k]
    BY <1>1, <1>3, CopyElements
  <2> HIDE DEF d
  <2>3. /\ z \in Seq(Cells) /\ Len(z) = Len(d)
        /\ \A k \in 1 .. Len(d) : z[k] = IF k = Len(s) + 1 THEN Nul ELSE d[k]
    BY <2>1, <2>2, TerminateElements
  <2> HIDE DEF z
  <2>4. \A k \in 1 .. Len(s) : z[k] = s[k]
    BY <1>1, <2>1, <2>2, <2>3
  <2>5. z[Len(s) + 1] = Nul
    BY <2>1, <2>2, <2>3
  <2>6. Filled(z, c, s)
    BY <1>1, <1>3, <2>1, <2>2, <2>3, <2>4, <2>5 DEF Filled
  <2>7. QED
    BY <1>2, <1>5, <2>6, FilledIs DEF m, c, d, z
<1>6. QED
  BY <1>4, <1>5

(* membuffer_attach. *)
LEMMA AttachKeeps ==
    ASSUME BufferInv, NEW s \in Texts, MembufferAttach(s)
    PROVE  BufferInv'
<1>1. s \in Seq(Cells) /\ Len(s) \in 0 .. MaxLength /\ Nul \in Cells
  BY TextsAreCells DEF Cells
<1> DEFINE z == Append(s, Nul)
<1>2. z \in Seq(Cells) /\ Len(z) = Len(s) + 1 /\ (\A k \in 1 .. Len(s) : z[k] = s[k]) /\ z[Len(s) + 1] = Nul
  BY <1>1
<1> HIDE DEF z
<1>3. Len(s) \in 0 .. 2 * (MaxLength + SizeInc)
  BY <1>1, MembufferAssumption
<1>4. Filled(z, Len(s), s)
  BY <1>1, <1>2, <1>3 DEF Filled
<1>5. QED
  BY <1>4, FilledIs DEF MembufferAttach, z

(* membuffer_insert. *)
LEMMA InsertKeeps ==
    ASSUME BufferInv, NEW s \in Texts, NEW i \in 0 .. length, MembufferInsert(s, i)
    PROVE  BufferInv'
<1>1. s \in Seq(Cells) /\ Len(s) \in 0 .. MaxLength /\ s # <<>> /\ Len(s) > 0
  BY TextsAreCells DEF MembufferInsert
<1>2. /\ length \in Nat /\ length + Len(s) \in 0 .. MaxLength /\ length = Len(text)
      /\ text \in Seq(Cells) /\ \A k \in 1 .. length : mem[k] = text[k]
      /\ mem \in Seq(Cells) /\ length <= Len(mem) /\ MaxLength \in Nat
  BY <1>1, MembufferAssumption DEF BufferInv, BufferTypes, MembufferInsert
<1> DEFINE n == length + Len(s)
<1>3. PICK r \in SetSize(n) : mem' = Terminate(Inserted(r[1], i, s), n) /\ capacity' = r[2]
  BY DEF MembufferInsert
<1> DEFINE m == r[1]
           c == r[2]
<1>4. /\ m \in Seq(Cells) /\ c \in 0 .. 2 * (MaxLength + SizeInc) /\ n <= c
      /\ (Len(m) = 0 /\ c = 0) \/ Len(m) = c + 1
      /\ \A k \in 1 .. Len(m) : k <= Len(mem) => m[k] = mem[k]
  <2> HIDE DEF n
  <2> QED
    BY <1>2, SetSizeGives DEF n
<1>5. length' = n /\ text' = SubSeq(text, 1, i) \o s \o SubSeq(text, i + 1, Len(text))
  BY DEF MembufferInsert
<1>6. Len(m) = c + 1 /\ n \in 1 .. Len(m) - 1 /\ i \in 0 .. length /\ i \in Nat
  BY <1>1, <1>2, <1>4
<1> HIDE DEF m, c
<1> DEFINE after == SubSeq(m, i + 1, length)
           d == Copy(m, i + Len(s), after)
           e == Copy(d, i, s)
           z == Terminate(e, n)
<1>7. after \in Seq(Cells) /\ Len(after) = length - i /\ \A k \in 1 .. length - i : after[k] = m[i + k]
  BY <1>2, <1>4, <1>6
<1> HIDE DEF after
<1>8. /\ d \in Seq(Cells) /\ Len(d) = Len(m)
      /\ \A k \in 1 .. Len(m) : d[k] = IF k > i + Len(s) /\ k <= i + Len(s) + Len(after) THEN after[k - (i + Len(s))]
                                       ELSE m[k]
  <2>1. i + Len(s) \in Nat
    BY <1>1, <1>6
  <2>2. QED
    BY <1>4, <1>7, <2>1, CopyElements
<1> HIDE DEF d
<1>9. /\ e \in Seq(Cells) /\ Len(e) = Len(d)
      /\ \A k \in 1 .. Len(d) : e[k] = IF k > i /\ k <= i + Len(s) THEN s[k - i] ELSE d[k]
  BY <1>1, <1>6, <1>8, CopyElements
<1> HIDE DEF e
<1>10. /\ z \in Seq(Cells) /\ Len(z) = Len(e)
       /\ \A k \in 1 .. Len(e) : z[k] = IF k = n + 1 THEN Nul ELSE e[k]
  <2>1. n \in 0 .. Len(e) - 1
    BY <1>6, <1>8, <1>9
  <2>2. QED
    BY <1>9, <2>1, TerminateElements
<1> HIDE DEF z
<1> DEFINE front == SubSeq(text, 1, i)
           back == SubSeq(text, i + 1, Len(text))
           t == front \o s \o back
<1>11. /\ t \in Seq(Cells) /\ Len(t) = n
       /\ \A k \in 1 .. n : t[k] = IF k <= i THEN text[k]
                                   ELSE IF k <= i + Len(s) THEN s[k - i] ELSE text[k - Len(s)]
  <2>1. front \in Seq(Cells) /\ Len(front) = i /\ \A k \in 1 .. i : front[k] = text[k]
    BY <1>2, <1>6
  <2>2. back \in Seq(Cells) /\ Len(back) = length - i /\ \A k \in 1 .. length - i : back[k] = text[i + k]
    BY <1>2, <1>6, SMTT(30)
  <2> HIDE DEF front, back
  <2> DEFINE u == front \o s
  <2>3. /\ u \in Seq(Cells) /\ Len(u) = i + Len(s)
        /\ \A k \in 1 .. i + Len(s) : u[k] = IF k <= i THEN front[k] ELSE s[k - i]
    BY <1>1, <2>1, ConcatElements
  <2> HIDE DEF u
  <2>4. /\ t \in Seq(Cells) /\ Len(t) = Len(u) + Len(back)
        /\ \A k \in 1 .. Len(u) + Len(back) : t[k] = IF k <= Len(u) THEN u[k] ELSE back[k - Len(u)]
    <3>1. t = u \o back /\ u \in Seq(Cells) /\ back \in Seq(Cells)
      BY <2>2, <2>3 DEF u
    <3> HIDE DEF t
    <3>2. QED
      BY <3>1, ConcatElements
  <2> HIDE DEF t
  <2>5. Len(u) + Len(back) = n
    BY <1>1, <1>2, <1>6, <2>2, <2>3
  <2>6. ASSUME NEW k \in 1 .. n
        PROVE t[k] = IF k <= i THEN text[k] ELSE IF k <= i + Len(s) THEN s[k - i] ELSE text[k - Len(s)]
    <3>1. CASE k <= i + Len(s)
      <4>1. k \in 1 .. i + Len(s) /\ k <= Len(u) /\ k \in 1 .. Len(u) + Len(back)
        BY <1>1, <1>6, <2>3, <2>5, <3>1
      <4>2. t[k] = u[k] /\ u[k] = IF k <= i THEN front[k] ELSE s[k - i]
        BY <2>3, <2>4, <4>1
      <4>3. k <= i => front[k] = text[k]
        BY <1>6, <2>1
      <4>4. QED
        BY <3>1, <4>2, <4>3
    <3>2. CASE k > i + Len(s)
      <4>1. k - Len(u) \in 1 .. length - i /\ i + (k - Len(u)) = k - Len(s)
        BY <1>1, <1>2, <1>6, <2>3, <3>2
      <4>2. t[k] = back[k - Len(u)]
        BY <1>1, <1>6, <2>3, <2>4, <2>5, <3>2
      <4>3. back[k - Len(u)] = text[k - Len(s)]
        BY <2>2, <4>1
      <4>4. ~(k <= i) /\ ~(k <= i + Len(s))
        BY <1>1, <1>6, <3>2
      <4>5. QED
        BY <4>2, <4>3, <4>4
    <3>3. QED
      BY <1>1, <1>6, <3>1, <3>2
  <2>7. QED
    BY <2>4, <2>5, <2>6
<1> HIDE DEF t
<1>12. ASSUME NEW k \in 1 .. n PROVE z[k] = t[k]
  <2>1. k \in 1 .. Len(m) /\ z[k] = e[k]
    BY <1>1, <1>2, <1>6, <1>8, <1>9, <1>10
  <2>2. CASE k <= i
    <3>1. k \in 1 .. Len(d) /\ k \in 1 .. length /\ k <= Len(mem) /\ ~(k > i) /\ ~(k > i + Len(s))
      BY <1>1, <1>2, <1>6, <1>8, <2>1, <2>2
    <3>2. e[k] = d[k] /\ d[k] = m[k]
      BY <1>8, <1>9, <2>1, <3>1
    <3>3. m[k] = mem[k] /\ mem[k] = text[k]
      BY <1>2, <1>4, <2>1, <3>1
    <3>4. t[k] = text[k]
      BY <1>11, <2>2
    <3>5. QED
      BY <2>1, <3>2, <3>3, <3>4
  <2>3. CASE k > i /\ k <= i + Len(s)
    <3>1. k \in 1 .. Len(d)
      BY <1>8, <2>1
    <3>2. e[k] = s[k - i]
      BY <1>9, <2>3, <3>1
    <3>3. ~(k <= i)
      BY <1>6, <2>3
    <3>4. t[k] = s[k - i]
      BY <1>11, <2>3, <3>3
    <3>5. QED
      BY <2>1, <3>2, <3>4
  <2>4. CASE k > i + Len(s)
    <3>1. k - (i + Len(s)) \in 1 .. length - i /\ i + (k - (i + Len(s))) = k - Len(s)
      BY <1>1, <1>2, <1>6, <2>4
    <3>2. e[k] = after[k - (i + Len(s))]
      <4>1. k <= i + Len(s) + Len(after) /\ k \in 1 .. Len(d) /\ ~(k <= i + Len(s))
        BY <1>1, <1>2, <1>6, <1>7, <1>8, <2>1, <2>4
      <4>2. e[k] = d[k]
        BY <1>9, <4>1
      <4>3. d[k] = after[k - (i + Len(s))]
        BY <1>8, <2>1, <2>4, <4>1
      <4>4. QED
        BY <4>2, <4>3
    <3>3. after[k - (i + Len(s))] = m[k - Len(s)]
      BY <1>7, <3>1
    <3>4. k - Len(s) \in 1 .. length /\ k - Len(s) \in 1 .. Len(m) /\ k - Len(s) <= Len(mem)
      BY <1>1, <1>2, <1>6, <2>1, <2>4
    <3>5. m[k - Len(s)] = text[k - Len(s)]
      BY <1>2, <1>4, <3>4
    <3>6. t[k] = text[k - Len(s)]
      BY <1>1, <1>6, <1>11, <2>4
    <3>7. QED
      BY <2>1, <3>2, <3>3, <3>5, <3>6
  <2>5. QED
    BY <1>1, <1>6, <2>2, <2>3, <2>4
<1>13. z[n + 1] = Nul /\ Len(z) = c + 1
  BY <1>2, <1>6, <1>8, <1>9, <1>10
<1>14. Filled(z, c, t)
  <2> HIDE DEF n
  <2> QED
    BY <1>2, <1>4, <1>10, <1>11, <1>12, <1>13 DEF Filled, n
<1>15. mem' = z /\ text' = t /\ capacity' = c /\ length' = Len(t)
  BY <1>3, <1>5, <1>11 DEF z, e, d, after, t, m, c, Inserted
<1>16. QED
  BY <1>14, <1>15, FilledIs

(* membuffer_delete, when the memory shrinks. *)
LEMMA TrimKeeps ==
    ASSUME BufferInv, NEW i \in 0 .. length, NEW n \in 0 .. MaxLength, length # 0, Trim(i, n)
    PROVE  BufferInv'
<1> DEFINE d == Deleted(i, n)
           new == length - d
<1>1. /\ length \in 0 .. MaxLength /\ length > 0 /\ length = Len(text) /\ MaxLength \in Nat
      /\ text \in Seq(Cells) /\ (\A k \in 1 .. length : mem[k] = text[k])
      /\ mem \in Seq(Cells) /\ Len(mem) = capacity + 1 /\ length <= capacity /\ capacity \in Nat
  BY MembufferAssumption DEF BufferInv, BufferTypes
<1>2. /\ d \in Nat /\ i + d <= length /\ i \in Nat /\ n \in Nat
      /\ (i + n <= length /\ d = n) \/ (i + n > length /\ i + d = length)
  BY <1>1 DEF Deleted
<1> DEFINE after == SubSeq(mem, i + d + 1, length)
<1>3. PICK r \in SetSize(new) :
        mem' = Terminate(SubSeq(Copy(mem, i, after), 1, r[2] + 1), new) /\ capacity' = r[2]
  BY DEF Trim, Closed
<1>4. length' = new /\ text' = SubSeq(text, 1, i) \o SubSeq(text, i + n + 1, Len(text))
  BY DEF Trim
<1> HIDE DEF d
<1>5. new \in 0 .. MaxLength /\ new <= length /\ i <= new
  BY <1>1, <1>2
<1> DEFINE c == r[2]
<1>6. c \in 0 .. 2 * (MaxLength + SizeInc) /\ new <= c /\ c <= capacity
  <2> HIDE DEF new
  <2> QED
    BY <1>5, SetSizeGives
<1> HIDE DEF c
<1>7. /\ after \in Seq(Cells) /\ Len(after) = length - (i + d)
      /\ \A k \in 1 .. length - (i + d) : after[k] = mem[i + d + k]
  BY <1>1, <1>2
<1> HIDE DEF after
<1> DEFINE e == Copy(mem, i, after)
           g == SubSeq(e, 1, c + 1)
           z == Terminate(g, new)
<1>8. /\ e \in Seq(Cells) /\ Len(e) = Len(mem)
      /\ \A k \in 1 .. Len(mem) : e[k] = IF k > i /\ k <= i + Len(after) THEN after[k - i] ELSE mem[k]
  BY <1>1, <1>2, <1>7, CopyElements
<1> HIDE DEF e
<1>9. g \in Seq(Cells) /\ Len(g) = c + 1 /\ \A k \in 1 .. c + 1 : g[k] = e[k]
  BY <1>1, <1>6, <1>8
<1> HIDE DEF g
<1>10. /\ z \in Seq(Cells) /\ Len(z) = Len(g)
       /\ \A k \in 1 .. Len(g) : z[k] = IF k = new + 1 THEN Nul ELSE g[k]
  <2>1. new \in 0 .. Len(g) - 1
    BY <1>5, <1>6, <1>9
  <2> HIDE DEF new
  <2>2. QED
    BY <1>9, <2>1, TerminateElements
<1> HIDE DEF z
<1> DEFINE a == SubSeq(text, 1, i)
           b == SubSeq(text, i + n + 1, Len(text))
           t == a \o b
<1>11. a \in Seq(Cells) /\ Len(a) = i /\ \A k \in 1 .. i : a[k] = text[k]
  BY <1>1, <1>2
<1>12. /\ b \in Seq(Cells) /\ Len(b) = length - (i + d)
       /\ \A k \in 1 .. length - (i + d) : b[k] = text[i + d + k]
  <2>1. CASE i + n <= length /\ d = n
    <3>1. b \in Seq(Cells) /\ Len(b) = length - (i + n) /\ \A k \in 1 .. length - (i + n) : b[k] = text[i + n + k]
      BY <1>1, <1>2, <2>1
    <3> HIDE DEF b
    <3>2. QED
      BY <2>1, <3>1
  <2>2. CASE i + n > length /\ i + d = length
    <3>1. b = <<>> /\ length - (i + d) = 0
      BY <1>1, <1>2, <2>2
    <3> HIDE DEF b
    <3>2. QED
      BY <3>1
  <2>3. QED
    BY <1>2, <2>1, <2>2
<1> HIDE DEF a, b
<1>13. /\ t \in Seq(Cells) /\ Len(t) = new
       /\ \A k \in 1 .. new : t[k] = IF k <= i THEN a[k] ELSE b[k - i]
  <2>1. /\ t \in Seq(Cells) /\ Len(t) = Len(a) + Len(b)
        /\ \A k \in 1 .. Len(a) + Len(b) : t[k] = IF k <= Len(a) THEN a[k] ELSE b[k - Len(a)]
    BY <1>11, <1>12, ConcatElements
  <2>2. Len(a) = i /\ Len(a) + Len(b) = new
    <3>1. Len(a) = i /\ Len(b) = length - (i + d)
      BY <1>11, <1>12, Zenon
    <3>2. QED
      BY <1>1, <1>2, <3>1
  <2> HIDE DEF t, new
  <2>3. QED
    BY <2>1, <2>2
<1> HIDE DEF t
<1>14. ASSUME NEW k \in 1 .. new PROVE z[k] = t[k]
  <2>1. k \in 1 .. Len(g) /\ k \in 1 .. c + 1 /\ k \in 1 .. Len(mem) /\ k # new + 1 /\ k \in 1 .. length
    BY <1>1, <1>5, <1>6, <1>9
  <2>2. z[k] = e[k]
    BY <1>9, <1>10, <2>1
  <2>3. CASE k <= i
    <3>1. e[k] = mem[k] /\ t[k] = a[k]
      BY <1>2, <1>8, <1>13, <2>1, <2>3
    <3>2. QED
      BY <1>1, <1>2, <1>11, <2>1, <2>2, <2>3, <3>1
  <2>4. CASE k > i
    <3>1. k - i \in 1 .. length - (i + d) /\ k <= i + Len(after) /\ i + d + (k - i) \in 1 .. length
      <4>1. Len(after) = length - (i + d)
        BY <1>7, Zenon
      <4>2. k \in Nat /\ k <= length - d /\ length \in Nat /\ d \in Nat /\ i \in Nat
        BY <1>1, <1>2, <1>5
      <4>3. QED
        BY <2>4, <4>1, <4>2
    <3>2. e[k] = after[k - i]
      BY <1>8, <2>1, <2>4, <3>1
    <3>3. after[k - i] = mem[i + d + (k - i)] /\ b[k - i] = text[i + d + (k - i)]
      BY <1>7, <1>12, <3>1
    <3>4. t[k] = b[k - i]
      BY <1>2, <1>13, <2>1, <2>4
    <3>5. QED
      BY <1>1, <2>2, <3>1, <3>2, <3>3, <3>4
  <2>5. QED
    BY <1>2, <2>1, <2>3, <2>4
<1>15. z[new + 1] = Nul /\ Len(z) = c + 1
  BY <1>1, <1>5, <1>6, <1>9, <1>10
<1>16. Filled(z, c, t)
  <2> HIDE DEF new
  <2> QED
    BY <1>5, <1>6, <1>10, <1>13, <1>14, <1>15 DEF Filled
<1>17. mem' = z /\ text' = t /\ capacity' = c /\ length' = Len(t)
  BY <1>3, <1>4, <1>13 DEF z, g, e, after, t, a, b, c
<1>18. QED
  BY <1>16, <1>17, FilledIs

(* The same, when it cannot: the bytes after the deleted ones are in their *)
(* place, and the last ones are there a second time.                       *)
LEMMA TrimFailsKeeps ==
    ASSUME BufferInv, NEW i \in 0 .. length, NEW n \in 0 .. MaxLength, length # 0, TrimFails(i, n)
    PROVE  BufferInv'
<1> DEFINE d == Deleted(i, n)
           after == SubSeq(mem, i + d + 1, length)
           z == Copy(mem, i, after)
           a == SubSeq(text, 1, i)
           b == SubSeq(text, i + d + 1, Len(text))
           e == SubSeq(text, Len(text) - d + 1, Len(text))
           t == (a \o b) \o e
<1>1. /\ length \in 0 .. MaxLength /\ length > 0 /\ length = Len(text) /\ MaxLength \in Nat
      /\ text \in Seq(Cells) /\ (\A k \in 1 .. length : mem[k] = text[k])
      /\ mem \in Seq(Cells) /\ Len(mem) = capacity + 1 /\ length <= capacity /\ capacity \in Nat
      /\ mem[length + 1] = Nul /\ capacity \in 0 .. 2 * (MaxLength + SizeInc)
  BY MembufferAssumption DEF BufferInv, BufferTypes
<1>2. d \in Nat /\ i + d <= length /\ i \in Nat /\ d <= length
  BY <1>1 DEF Deleted
<1>3. mem' = z /\ text' = t /\ length' = length /\ capacity' = capacity
  BY DEF TrimFails, Closed
<1> HIDE DEF d
<1>4. /\ after \in Seq(Cells) /\ Len(after) = length - (i + d)
      /\ \A k \in 1 .. length - (i + d) : after[k] = mem[i + d + k]
  BY <1>1, <1>2
<1> HIDE DEF after
<1>5. /\ z \in Seq(Cells) /\ Len(z) = Len(mem)
      /\ \A k \in 1 .. Len(mem) : z[k] = IF k > i /\ k <= i + Len(after) THEN after[k - i] ELSE mem[k]
  BY <1>1, <1>2, <1>4, CopyElements
<1> HIDE DEF z
<1>6. a \in Seq(Cells) /\ Len(a) = i /\ \A k \in 1 .. i : a[k] = text[k]
  BY <1>1, <1>2
<1>7. /\ b \in Seq(Cells) /\ Len(b) = length - (i + d)
      /\ \A k \in 1 .. length - (i + d) : b[k] = text[i + d + k]
  BY <1>1, <1>2
<1>8. e \in Seq(Cells) /\ Len(e) = d /\ \A k \in 1 .. d : e[k] = text[length - d + k]
  <2> DEFINE f == length - d
  <2>1. f \in Nat /\ f + d = length /\ f <= Len(text) /\ e = SubSeq(text, f + 1, Len(text))
    BY <1>1, <1>2
  <2> HIDE DEF f, e
  <2>2. e \in Seq(Cells) /\ Len(e) = Len(text) - f /\ \A k \in 1 .. Len(text) - f : e[k] = text[f + k]
    BY <1>1, <2>1
  <2>3. Len(text) - f = d
    BY <1>1, <1>2, <2>1
  <2>4. QED
    BY <2>2, <2>3 DEF f
<1> HIDE DEF a, b, e
<1> DEFINE ab == a \o b
           new == length - d
<1>9. /\ ab \in Seq(Cells) /\ Len(ab) = new
      /\ \A k \in 1 .. new : ab[k] = IF k <= i THEN a[k] ELSE b[k - i]
  <2>1. /\ ab \in Seq(Cells) /\ Len(ab) = Len(a) + Len(b)
        /\ \A k \in 1 .. Len(a) + Len(b) : ab[k] = IF k <= Len(a) THEN a[k] ELSE b[k - Len(a)]
    BY <1>6, <1>7, ConcatElements
  <2>2. Len(a) = i /\ Len(a) + Len(b) = new
    <3>1. Len(a) = i /\ Len(b) = length - (i + d)
      BY <1>6, <1>7, Zenon
    <3>2. QED
      BY <1>1, <1>2, <3>1
  <2> HIDE DEF ab, new
  <2>3. QED
    BY <2>1, <2>2
<1>10. t = ab \o e
  OBVIOUS
<1> HIDE DEF ab, t
<1>11. /\ t \in Seq(Cells) /\ Len(t) = length
       /\ \A k \in 1 .. length : t[k] = IF k <= new THEN ab[k] ELSE e[k - new]
  <2>1. /\ t \in Seq(Cells) /\ Len(t) = Len(ab) + Len(e)
        /\ \A k \in 1 .. Len(ab) + Len(e) : t[k] = IF k <= Len(ab) THEN ab[k] ELSE e[k - Len(ab)]
    BY <1>8, <1>9, <1>10, ConcatElements
  <2>2. Len(ab) = new /\ Len(ab) + Len(e) = length
    <3>1. Len(ab) = length - d /\ Len(e) = d
      BY <1>8, <1>9, Zenon
    <3>2. QED
      BY <1>1, <1>2, <3>1
  <2> HIDE DEF new
  <2>3. QED
    BY <2>1, <2>2
<1>12. new \in Nat /\ i <= new /\ new <= length /\ new + d = length
  BY <1>1, <1>2
<1>13. ASSUME NEW k \in 1 .. length PROVE z[k] = t[k]
  <2>0. Len(after) = new - i /\ k \in 1 .. Len(mem)
    <3>1. Len(after) = length - (i + d)
      BY <1>4, Zenon
    <3>2. QED
      BY <1>1, <1>2, <3>1
  <2> HIDE DEF new
  <2>1. CASE k <= i
    <3>1. z[k] = mem[k] /\ t[k] = a[k] /\ a[k] = text[k]
      BY <1>2, <1>5, <1>6, <1>9, <1>11, <1>12, <2>0, <2>1
    <3>2. QED
      BY <1>1, <3>1
  <2>2. CASE k > i /\ k <= new
    <3>1. k - i \in 1 .. length - (i + d) /\ i + d + (k - i) \in 1 .. length /\ k <= i + Len(after)
      BY <1>1, <1>2, <1>12, <2>0, <2>2
    <3>2. z[k] = after[k - i] /\ t[k] = ab[k] /\ ab[k] = b[k - i]
      BY <1>5, <1>9, <1>11, <1>12, <2>0, <2>2, <3>1
    <3>3. after[k - i] = mem[i + d + (k - i)] /\ b[k - i] = text[i + d + (k - i)]
      BY <1>4, <1>7, <3>1
    <3>4. QED
      BY <1>1, <3>1, <3>2, <3>3
  <2>3. CASE k > new
    <3>1. k - new \in 1 .. d /\ length - d + (k - new) = k /\ ~(k <= i + Len(after))
      <4>1. k \in Nat /\ k <= length /\ length \in Nat /\ i + Len(after) = new
        BY <1>1, <1>2, <1>12, <2>0
      <4>2. QED
        BY <1>2, <1>12, <2>3, <4>1
    <3>2. z[k] = mem[k] /\ t[k] = e[k - new] /\ e[k - new] = text[k]
      BY <1>5, <1>8, <1>11, <1>12, <2>0, <2>3, <3>1
    <3>3. QED
      BY <1>1, <3>2
  <2>4. QED
    BY <1>2, <1>12, <2>1, <2>2, <2>3
<1>14. z[length + 1] = Nul
  <2>1. length + 1 \in 1 .. Len(mem) /\ ~(length + 1 <= i + Len(after))
    <3>1. Len(after) = length - (i + d)
      BY <1>4, Zenon
    <3>2. QED
      BY <1>1, <1>2, <3>1
  <2>2. QED
    BY <1>1, <1>5, <2>1
<1>15. Filled(z, capacity, t)
  BY <1>1, <1>5, <1>11, <1>13, <1>14 DEF Filled
<1>16. QED
  BY <1>3, <1>11, <1>15, FilledIs

(* The buffer stays right whatever is done with it. *)
LEMMA BufferInductive ==
    ASSUME BufferInv, [BufferStep]_bufVars
    PROVE  BufferInv'
<1>1. CASE mem' = <<>> /\ length' = 0 /\ capacity' = 0 /\ text' = <<>>
  <2>1. Filled(<<>>, 0, <<>>)
    BY MembufferAssumption DEF Filled
  <2>2. QED
    BY <1>1, <2>1, FilledIs
<1>2. CASE UNCHANGED bufVars
  BY <1>2 DEF bufVars, BufferInv, BufferTypes
<1>3. ASSUME NEW s \in Texts, MembufferAssign(s) \/ MembufferAttach(s) \/ \E i \in 0 .. length : MembufferInsert(s, i)
      PROVE  BufferInv'
  BY <1>3, AssignKeeps, AttachKeeps, InsertKeeps
<1>4. ASSUME NEW i \in 0 .. length, NEW n \in 0 .. MaxLength, MembufferDelete(i, n)
      PROVE  BufferInv'
  BY <1>4, TrimKeeps, TrimFailsKeeps DEF MembufferDelete
<1>5. QED
  BY <1>1, <1>2, <1>3, <1>4 DEF BufferStep, MembufferDetach, MembufferDestroy

(* What the invariant says of the buffer as a whole. *)
LEMMA BufferIsRight == BufferInv => BufferHolds
<1> SUFFICES ASSUME BufferInv PROVE BufferHolds
  OBVIOUS
<1>1. /\ mem \in Seq(Cells) /\ text \in Seq(Cells) /\ length \in Nat /\ length = Len(text)
      /\ (Len(mem) = 0 /\ capacity = 0) \/ Len(mem) = capacity + 1
      /\ \A k \in 1 .. length : mem[k] = text[k]
      /\ length <= capacity /\ capacity \in Nat
  BY DEF BufferInv, BufferTypes
<1>2. mem = <<>> \/ Len(mem) = capacity + 1
  BY <1>1
<1> DEFINE z == SubSeq(mem, 1, length)
<1>3. z \in Seq(Cells) /\ Len(z) = length /\ \A k \in 1 .. length : z[k] = mem[k]
  BY <1>1
<1> HIDE DEF z
<1>4. z = text
  BY <1>1, <1>3
<1>5. QED
  BY <1>1, <1>2, <1>4 DEF BufferHolds, BufferInv, z

(* The list with its free list and the buffer, used in any order and with  *)
(* allocations that fail, are sound after every operation: links agree     *)
(* both ways, every node is in the list or free, ListFind finds the first  *)
(* match, and the buffer has its bytes, its terminator and room for both,  *)
(* for any memory, any texts and any limits.  A membuffer_delete that gets *)
(* no memory to shrink into leaves its last bytes a second time, and no    *)
(* other harm.                                                             *)
THEOREM StructuresAreSound == StructuresSpec => []StructuresSound
<1>1. ListInit /\ BufferInit => ListInv /\ BufferInv
  <2>1. BufferInit => BufferInv
    BY MembufferAssumption DEF BufferInit, BufferInv, BufferTypes
  <2>2. QED
    BY <2>1, ListInitInv
<1>2. ListInv /\ BufferInv /\ [ListUsed \/ BufferUsed]_structVars => ListInv' /\ BufferInv'
  <2> SUFFICES ASSUME ListInv, BufferInv, [ListUsed \/ BufferUsed]_structVars
               PROVE  ListInv' /\ BufferInv'
    OBVIOUS
  <2>1. [ListStep]_listVars /\ [BufferStep]_bufVars
    BY DEF ListUsed, BufferUsed, structVars
  <2>2. QED
    BY <2>1, ListInvInductive, BufferInductive
<1>3. ListInv /\ BufferInv => StructuresSound
  <2> SUFFICES ASSUME ListInv, BufferInv PROVE StructuresSound
    OBVIOUS
  <2>1. PICK s, r \in Seq(Nodes) : ListTypes /\ Shape(s, r)
    BY DEF ListInv
  <2>2. LinksAgree /\ NodesAccounted /\ FindsFirst
    BY <2>1, ShapeLinks, ShapeNodes, ShapeFinds
  <2>3. /\ size \in 0 .. Cardinality(Nodes) /\ freeLen \in 0 .. Cardinality(Nodes)
        /\ owned \subseteq Nodes /\ freeHead \in Nodes \cup {NilNode}
    BY <2>1, ShapeFields
  <2>4. FieldsOK
    BY <2>1, <2>3 DEF FieldsOK, ListTypes, BufferInv, BufferTypes
  <2>5. QED
    BY <2>2, <2>4, BufferIsRight DEF StructuresSound
<1>4. QED
  BY <1>1, <1>2, <1>3, PTL DEF StructuresSpec

-----------------------------------------------------------------------------
(***************************************************************************)
(* The tables of names.  The comparison is an order on names up to case,   *)
(* and each round of the search leaves every match between top and bot.    *)
(***************************************************************************)
NamesOf == Seq(Nat \ {0})   \* the terminator is not part of a name

(* The code of place k of a name, 0 after its end, and where two names     *)
(* differ.                                                                 *)
Code(x, k, c)  == IF k <= Len(x) THEN (IF c THEN x[k] ELSE Lower(x[k])) ELSE 0
Diffs(m, s, c) == { k \in 1 .. Len(m) : Code(m, k, c) # Code(s, k, c) }

(* Codes are positive up to the end of a name. *)
LEMMA CodeTypes ==
    ASSUME NEW x \in NamesOf, NEW c \in BOOLEAN
    PROVE  /\ Len(x) \in Nat
           /\ \A k \in Nat \ {0} : /\ Code(x, k, c) \in Nat
                                   /\ k <= Len(x) => Code(x, k, c) > 0
                                   /\ k > Len(x) => Code(x, k, c) = 0
<1>1. Len(x) \in Nat /\ \A k \in 1 .. Len(x) : x[k] \in Nat /\ x[k] > 0
  BY SMTT(20) DEF NamesOf
<1>2. \A n \in Nat \ {0} : Lower(n) \in Nat /\ Lower(n) > 0
  BY SMTT(20) DEF Lower
<1>3. QED
  BY <1>1, <1>2, SMTT(20) DEF Code

(* The comparison looks at the first difference, then at the lengths. *)
LEMMA CmpAt ==
    ASSUME NEW m \in NamesOf, NEW s \in NamesOf, NEW c \in BOOLEAN
    PROVE  /\ \A k \in Diffs(m, s, c) : (\A e \in Diffs(m, s, c) : k <= e) =>
                MemptrCmp(m, s, c) = Code(m, k, c) - Code(s, k, c)
           /\ Diffs(m, s, c) = {} => MemptrCmp(m, s, c) = IF Len(m) < Len(s) THEN -1 ELSE 0
<1> DEFINE D == Diffs(m, s, c)
           least == CHOOSE d \in D : \A e \in D : d <= e
<1>1. MemptrCmp(m, s, c) = IF D # {} THEN Code(m, least, c) - Code(s, least, c)
                           ELSE IF Len(m) < Len(s) THEN -1 ELSE 0
  BY Zenon DEF MemptrCmp, Diffs, Code
<1>2. D \subseteq Nat
  BY DEF Diffs
<1> HIDE DEF D
<1>3. ASSUME NEW k \in D, \A e \in D : k <= e PROVE k = least
  <2>1. least \in D /\ \A e \in D : least <= e
    BY <1>3
  <2> HIDE DEF least
  <2>2. QED
    BY <1>2, <1>3, <2>1
<1> HIDE DEF least
<1>4. ASSUME NEW k \in D, \A e \in D : k <= e
      PROVE  MemptrCmp(m, s, c) = Code(m, k, c) - Code(s, k, c)
  <2>1. D # {} /\ k = least
    BY <1>3, <1>4
  <2>2. QED
    BY <1>1, <2>1
<1>5. D = {} => MemptrCmp(m, s, c) = IF Len(m) < Len(s) THEN -1 ELSE 0
  BY <1>1
<1>6. QED
  BY <1>4, <1>5 DEF D

(* There is a first difference if there is one. *)
LEMMA FirstDiff ==
    ASSUME NEW m \in NamesOf, NEW s \in NamesOf, NEW c \in BOOLEAN, Diffs(m, s, c) # {}
    PROVE  \E k \in 1 .. Len(m) : /\ Code(m, k, c) # Code(s, k, c)
                                  /\ \A e \in 1 .. Len(m) : e < k => Code(m, e, c) = Code(s, e, c)
                                  /\ MemptrCmp(m, s, c) = Code(m, k, c) - Code(s, k, c)
<1>1. Diffs(m, s, c) \subseteq Nat /\ Len(m) \in Nat
  BY CodeTypes DEF Diffs
<1>2. PICK k \in Diffs(m, s, c) : \A e \in Diffs(m, s, c) : k <= e
  BY <1>1, LeastElement
<1>3. MemptrCmp(m, s, c) = Code(m, k, c) - Code(s, k, c)
  BY <1>2, CmpAt
<1>4. QED
  BY <1>1, <1>2, <1>3 DEF Diffs

(* Names that compare as 0 have the same codes. *)
LEMMA CmpZero ==
    ASSUME NEW m \in NamesOf, NEW s \in NamesOf, NEW c \in BOOLEAN
    PROVE  /\ MemptrCmp(m, s, c) \in Int
           /\ MemptrCmp(m, s, c) = 0 <=> Diffs(m, s, c) = {} /\ Len(m) = Len(s)
<1>1. Len(m) \in Nat /\ Len(s) \in Nat
  BY CodeTypes
<1>2. CASE Diffs(m, s, c) # {}
  <2>1. PICK k \in 1 .. Len(m) : /\ Code(m, k, c) # Code(s, k, c)
                                 /\ MemptrCmp(m, s, c) = Code(m, k, c) - Code(s, k, c)
    BY <1>2, FirstDiff
  <2>2. k \in Nat \ {0}
    BY <1>1
  <2>3. Code(m, k, c) \in Nat /\ Code(s, k, c) \in Nat
    BY <2>2, CodeTypes
  <2>4. QED
    BY <1>2, <2>1, <2>3
<1>3. CASE Diffs(m, s, c) = {}
  <2>1. MemptrCmp(m, s, c) = IF Len(m) < Len(s) THEN -1 ELSE 0
    BY <1>3, CmpAt
  <2>2. ~(Len(m) > Len(s))
    <3> SUFFICES ASSUME Len(m) > Len(s) PROVE FALSE
      BY <1>1
    <3>1. Len(s) + 1 \in 1 .. Len(m) /\ Len(s) + 1 \in Nat \ {0}
      BY <1>1
    <3>2. Code(m, Len(s) + 1, c) > 0 /\ Code(s, Len(s) + 1, c) = 0
      BY <1>1, <3>1, CodeTypes
    <3>3. Len(s) + 1 \in Diffs(m, s, c)
      BY <3>1, <3>2 DEF Diffs
    <3>4. QED
      BY <1>3, <3>3
  <2>3. QED
    BY <1>1, <1>3, <2>1, <2>2
<1>4. QED
  BY <1>2, <1>3

(* A name that is the same compares the same. *)
LEMMA SameCompares ==
    ASSUME NEW m \in NamesOf, NEW s \in NamesOf, NEW x \in NamesOf, NEW c \in BOOLEAN, SameName(m, s, c)
    PROVE  MemptrCmp(m, x, c) = MemptrCmp(s, x, c)
<1>1. Len(m) = Len(s) /\ Diffs(m, s, c) = {} /\ Len(m) \in Nat
  BY CmpZero, CodeTypes DEF SameName
<1>2. \A k \in 1 .. Len(m) : Code(m, k, c) = Code(s, k, c)
  BY <1>1 DEF Diffs
<1>3. Diffs(m, x, c) = Diffs(s, x, c)
  BY <1>1, <1>2 DEF Diffs
<1>4. CASE Diffs(m, x, c) = {}
  <2>1. MemptrCmp(m, x, c) = IF Len(m) < Len(x) THEN -1 ELSE 0
    BY <1>4, CmpAt
  <2>2. MemptrCmp(s, x, c) = IF Len(s) < Len(x) THEN -1 ELSE 0
    BY <1>3, <1>4, CmpAt
  <2>3. QED
    BY <1>1, <2>1, <2>2
<1>5. CASE Diffs(m, x, c) # {}
  <2> DEFINE D == Diffs(m, x, c)
  <2>1. D \subseteq Nat /\ D \subseteq 1 .. Len(m)
    BY <1>1 DEF Diffs
  <2>2. PICK k \in D : \A e \in D : k <= e
    <3> HIDE DEF D
    <3> QED
      BY <1>5, <2>1, LeastElement DEF D
  <2>3. MemptrCmp(m, x, c) = Code(m, k, c) - Code(x, k, c)
    BY <2>2, CmpAt
  <2>4. MemptrCmp(s, x, c) = Code(s, k, c) - Code(x, k, c)
    BY <1>3, <2>2, CmpAt
  <2>5. Code(m, k, c) = Code(s, k, c)
    BY <1>2, <2>1, <2>2
  <2>6. QED
    BY <2>3, <2>4, <2>5
<1>6. QED
  BY <1>4, <1>5

(* What comes first one way comes second the other way. *)
LEMMA CmpReverses ==
    ASSUME NEW m \in NamesOf, NEW s \in NamesOf, NEW c \in BOOLEAN, MemptrCmp(m, s, c) < 0
    PROVE  MemptrCmp(s, m, c) > 0
<1>1. Len(m) \in Nat /\ Len(s) \in Nat
  BY CodeTypes
<1>2. ASSUME NEW k \in 1 .. Len(s), Code(s, k, c) > Code(m, k, c),
             \A e \in 1 .. Len(s) : e < k => Code(s, e, c) = Code(m, e, c)
      PROVE  MemptrCmp(s, m, c) > 0
  <2>1. Code(m, k, c) \in Nat /\ Code(s, k, c) \in Nat
    BY <1>1, CodeTypes
  <2>2. k \in Diffs(s, m, c)
    BY <1>2, <2>1 DEF Diffs
  <2>3. \A e \in Diffs(s, m, c) : k <= e
    BY <1>1, <1>2 DEF Diffs
  <2>4. MemptrCmp(s, m, c) = Code(s, k, c) - Code(m, k, c)
    BY <2>2, <2>3, CmpAt
  <2>5. QED
    BY <1>2, <2>1, <2>4
<1>3. CASE Diffs(m, s, c) # {}
  <2>1. PICK k \in 1 .. Len(m) :
          /\ Code(m, k, c) # Code(s, k, c)
          /\ \A e \in 1 .. Len(m) : e < k => Code(m, e, c) = Code(s, e, c)
          /\ MemptrCmp(m, s, c) = Code(m, k, c) - Code(s, k, c)
    BY <1>3, FirstDiff
  <2>2. k \in Nat \ {0} /\ Code(m, k, c) \in Nat /\ Code(s, k, c) \in Nat /\ Code(m, k, c) > 0
    <3>1. k \in Nat \ {0} /\ k <= Len(m)
      BY <1>1
    <3>2. QED
      BY <3>1, CodeTypes
  <2>3. Code(s, k, c) > Code(m, k, c)
    BY <2>1, <2>2
  <2>4. k \in 1 .. Len(s)
    <3>1. ~(k > Len(s))
      BY <2>2, <2>3, CodeTypes
    <3>2. QED
      BY <1>1, <2>2, <3>1
  <2>5. \A e \in 1 .. Len(s) : e < k => Code(s, e, c) = Code(m, e, c)
    BY <1>1, <2>1
  <2>6. QED
    BY <1>2, <2>3, <2>4, <2>5
<1>4. CASE Diffs(m, s, c) = {}
  <2>1. Len(m) < Len(s)
    BY <1>4, CmpAt
  <2> DEFINE k == Len(m) + 1
  <2>2. k \in 1 .. Len(s) /\ k \in Nat \ {0} /\ k <= Len(s) /\ k > Len(m)
    BY <1>1, <2>1
  <2> HIDE DEF k
  <2>3. Code(s, k, c) > Code(m, k, c)
    <3>1. Code(s, k, c) > 0 /\ Code(m, k, c) = 0
      BY <2>2, CodeTypes
    <3>2. QED
      BY <3>1
  <2>4. \A e \in 1 .. Len(s) : e < k => Code(s, e, c) = Code(m, e, c)
    <3>1. \A e \in 1 .. Len(m) : Code(m, e, c) = Code(s, e, c)
      BY <1>4 DEF Diffs
    <3>2. QED
      BY <1>1, <3>1 DEF k
  <2>5. QED
    BY <1>2, <2>2, <2>3, <2>4
<1>5. QED
  BY <1>3, <1>4

(* The search satisfies its recursive equation. *)
LEMMA SearchUnfolds ==
    ASSUME NEW name, NEW table, NEW c, Len(table) \in Nat
    PROVE  /\ Search(name, table, c)[0] = [top |-> 0, bot |-> Len(table) - 1, found |-> -1]
           /\ \A n \in 1 .. Len(table) :
                Search(name, table, c)[n] = Halve(name, table, c, Search(name, table, c)[n - 1])
<1> DEFINE start == [top |-> 0, bot |-> Len(table) - 1, found |-> -1]
           Eq(f, m) == f = [n \in 0 .. m |-> IF n = 0 THEN start ELSE Halve(name, table, c, f[n - 1])]
           S == {m \in Nat : \E f : Eq(f, m)}
<1> HIDE DEF start
<1>1. 0 \in S
  <2>1. Eq([n \in 0 .. 0 |-> start], 0)
    OBVIOUS
  <2>2. QED
    BY <2>1
<1>2. ASSUME NEW m \in Nat, m \in S PROVE m + 1 \in S
  <2>1. PICK f : Eq(f, m)
    BY <1>2
  <2> DEFINE g == [n \in 0 .. m + 1 |-> IF n <= m THEN f[n] ELSE Halve(name, table, c, f[m])]
  <2>2. \A n \in 0 .. m : g[n] = f[n]
    OBVIOUS
  <2>3. \A n \in 0 .. m + 1 : g[n] = IF n = 0 THEN start ELSE Halve(name, table, c, g[n - 1])
    <3>1. CASE m = 0
      BY <3>1, <2>1, <2>2
    <3>2. TAKE n \in 0 .. m + 1
    <3>3. CASE n = m + 1
      BY <3>3, <2>2
    <3>4. CASE n \in 1 .. m
      <4>1. n \in 0 .. m /\ n - 1 \in 0 .. m /\ n # 0
        BY <3>4
      <4>2. f[n] = Halve(name, table, c, f[n - 1])
        BY <4>1, <2>1
      <4>3. QED
        BY <4>1, <4>2, <2>2
    <3>5. CASE n = 0
      BY <3>5, <2>1, <2>2
    <3>6. QED
      BY <3>3, <3>4, <3>5
  <2>4. Eq(g, m + 1)
    <3> HIDE DEF g
    <3> SUFFICES g = [n \in 0 .. m + 1 |-> g[n]]
      BY <2>3
    <3> QED
      BY DEF g
  <2>5. QED
    <3> HIDE DEF Eq, g
    <3> QED
      BY <2>4
<1>3. \E f : Eq(f, Len(table))
  <2> HIDE DEF Eq
  <2>1. Len(table) \in S
    <3> HIDE DEF S
    <3> QED
      BY <1>1, <1>2, SetInduction
  <2>2. QED
    BY <2>1
<1>4. Search(name, table, c) = CHOOSE f : Eq(f, Len(table))
  BY DEF Search, start
<1>5. Eq(Search(name, table, c), Len(table))
  <2> HIDE DEF Eq
  <2> QED
    BY <1>3, <1>4
<1>6. QED
  BY <1>5 DEF start

(* Where a search is after n rounds: it has found the name, or what is     *)
(* left has every match and is shorter by n.                               *)
Searching(name, table, c, n, a) ==
  /\ a \in [top : Int, bot : Int, found : Int]
  /\ 0 <= a.top /\ a.bot <= Len(table) - 1
  /\ \/ a.found \in 0 .. Len(table) - 1 /\ SameName(name, table[a.found + 1].name, c)
     \/ /\ a.found = -1 /\ a.bot - a.top + 1 <= Len(table) - n
        /\ \A j \in 1 .. Len(table) : SameName(name, table[j].name, c) => a.top <= j - 1 /\ j - 1 <= a.bot

(* The entries of a table have names. *)
LEMMA TableNames ==
    ASSUME NEW Ids, NEW table \in Seq([name : NamesOf, id : Ids])
    PROVE  \A j \in 1 .. Len(table) : table[j].name \in NamesOf
<1> DEFINE R == [name : NamesOf, id : Ids]
<1>1. \A x \in R : x.name \in NamesOf
  OBVIOUS
<1> HIDE DEF R
<1>2. table \in Seq(R)
  BY Zenon DEF R
<1>3. \A j \in 1 .. Len(table) : table[j] \in R
  BY <1>2
<1>4. QED
  BY <1>1, <1>3

(* A round keeps it so. *)
LEMMA HalveSearches ==
    ASSUME NEW name \in NamesOf, NEW Ids, NEW table \in Seq([name : NamesOf, id : Ids]), NEW c \in BOOLEAN,
           InOrder(table, c), NEW n \in Nat, n + 1 <= Len(table), NEW a, Searching(name, table, c, n, a)
    PROVE  Searching(name, table, c, n + 1, Halve(name, table, c, a))
<1>1. /\ a \in [top : Int, bot : Int, found : Int] /\ a.top \in Int /\ a.bot \in Int /\ a.found \in Int
      /\ 0 <= a.top /\ a.bot <= Len(table) - 1 /\ Len(table) \in Nat
  BY DEF Searching
<1>2. CASE a.found >= 0
  <2>1. Halve(name, table, c, a) = a
    BY <1>2 DEF Halve
  <2>2. a.found \in 0 .. Len(table) - 1 /\ SameName(name, table[a.found + 1].name, c)
    BY <1>2 DEF Searching
  <2>3. QED
    BY <1>1, <2>1, <2>2 DEF Searching
<1>3. CASE ~(a.found >= 0)
  <2>0. /\ a.found = -1 /\ a.bot - a.top + 1 <= Len(table) - n
        /\ \A j \in 1 .. Len(table) : SameName(name, table[j].name, c) => a.top <= j - 1 /\ j - 1 <= a.bot
    BY <1>3 DEF Searching
  <2>1. CASE a.top > a.bot
    <3>1. Halve(name, table, c, a) = a
      BY <2>1 DEF Halve
    <3>2. a.bot - a.top + 1 <= Len(table) - (n + 1)
      BY <1>1, <2>1
    <3>3. QED
      BY <1>1, <2>0, <3>1, <3>2 DEF Searching
  <2>2. CASE ~(a.top > a.bot)
    <3> DEFINE mid == (a.top + a.bot) \div 2
               cmp == MemptrCmp(name, table[mid + 1].name, c)
    <3>1. mid \in Int /\ a.top <= mid /\ mid <= a.bot
      <4> DEFINE u == a.top
                 v == a.bot
      <4>1. u \in Int /\ v \in Int /\ u <= v
        BY <1>1, <2>2
      <4>2. mid = (u + v) \div 2
        OBVIOUS
      <4> HIDE DEF u, v, mid
      <4>3. mid \in Int /\ u <= mid /\ mid <= v
        BY <4>1, <4>2
      <4>4. QED
        BY <4>3 DEF u, v
    <3>2. mid + 1 \in 1 .. Len(table) /\ mid \in 0 .. Len(table) - 1
      BY <1>1, <3>1
    <3>3. Halve(name, table, c, a) = IF cmp > 0 THEN [a EXCEPT !.top = mid + 1]
                                     ELSE IF cmp < 0 THEN [a EXCEPT !.bot = mid - 1]
                                     ELSE [a EXCEPT !.found = mid]
      BY <1>3, <2>2, Zenon DEF Halve
    <3> HIDE DEF mid
    <3>4. \A j \in 1 .. Len(table) : table[j].name \in NamesOf
      BY TableNames
    <3>5. cmp \in Int /\ (cmp = 0 <=> Diffs(name, table[mid + 1].name, c) = {} /\ Len(name) = Len(table[mid + 1].name))
      <4> DEFINE w == table[mid + 1].name
      <4>1. w \in NamesOf
        BY <3>2, <3>4
      <4> HIDE DEF w
      <4>2. MemptrCmp(name, w, c) \in Int /\ (MemptrCmp(name, w, c) = 0 <=> Diffs(name, w, c) = {} /\ Len(name) = Len(w))
        BY <4>1, CmpZero
      <4>3. QED
        BY <4>2 DEF w
    <3>6. ASSUME NEW j \in 1 .. Len(table), SameName(name, table[j].name, c)
          PROVE  /\ cmp > 0 => j > mid + 1
                 /\ cmp < 0 => j < mid + 1
      <4>1. cmp = MemptrCmp(table[j].name, table[mid + 1].name, c)
        BY <3>2, <3>4, <3>6, SameCompares
      <4>2. j = mid + 1 => cmp = 0
        BY <3>6 DEF SameName
      <4>3. j < mid + 1 => cmp < 0
        BY <3>2, <4>1 DEF InOrder
      <4>4. j > mid + 1 => cmp > 0
        <5> SUFFICES ASSUME j > mid + 1 PROVE cmp > 0
          OBVIOUS
        <5>1. MemptrCmp(table[mid + 1].name, table[j].name, c) < 0
          BY <3>2 DEF InOrder
        <5>2. QED
          BY <3>2, <3>4, <4>1, <5>1, CmpReverses
      <4> HIDE DEF cmp
      <4>5. QED
        BY <3>1, <3>5, <4>2, <4>3, <4>4
    <3>7. CASE cmp > 0
      <4> DEFINE b == [a EXCEPT !.top = mid + 1]
      <4>1. b \in [top : Int, bot : Int, found : Int] /\ b.top = mid + 1 /\ b.bot = a.bot /\ b.found = a.found
        BY <1>1, <3>1
      <4>2. Halve(name, table, c, a) = b
        BY <3>3, <3>7
      <4> HIDE DEF b
      <4>3. \A j \in 1 .. Len(table) : SameName(name, table[j].name, c) => b.top <= j - 1 /\ j - 1 <= b.bot
        BY <2>0, <3>1, <3>6, <3>7, <4>1
      <4>4. b.bot - b.top + 1 <= Len(table) - (n + 1) /\ 0 <= b.top
        BY <1>1, <2>0, <3>1, <4>1
      <4> HIDE DEF cmp
      <4>5. QED
        BY <1>1, <2>0, <4>1, <4>2, <4>3, <4>4 DEF Searching
    <3>8. CASE cmp < 0
      <4> DEFINE b == [a EXCEPT !.bot = mid - 1]
      <4>1. b \in [top : Int, bot : Int, found : Int] /\ b.top = a.top /\ b.bot = mid - 1 /\ b.found = a.found
        BY <1>1, <3>1
      <4>2. Halve(name, table, c, a) = b
        BY <3>3, <3>5, <3>8
      <4> HIDE DEF b
      <4>3. \A j \in 1 .. Len(table) : SameName(name, table[j].name, c) => b.top <= j - 1 /\ j - 1 <= b.bot
        BY <2>0, <3>1, <3>6, <3>8, <4>1
      <4>4. b.bot - b.top + 1 <= Len(table) - (n + 1) /\ b.bot <= Len(table) - 1
        BY <1>1, <2>0, <3>1, <4>1
      <4> HIDE DEF cmp
      <4>5. QED
        BY <1>1, <2>0, <4>1, <4>2, <4>3, <4>4 DEF Searching
    <3>9. CASE cmp = 0
      <4> DEFINE b == [a EXCEPT !.found = mid]
      <4>1. b \in [top : Int, bot : Int, found : Int] /\ b.top = a.top /\ b.bot = a.bot /\ b.found = mid
        BY <1>1, <3>1
      <4>2. Halve(name, table, c, a) = b
        BY <3>3, <3>9
      <4> HIDE DEF b
      <4>3. SameName(name, table[mid + 1].name, c)
        <5> DEFINE x == table[mid + 1].name
        <5>1. x \in NamesOf
          BY <3>2, <3>4
        <5> HIDE DEF x
        <5>2. MemptrCmp(name, x, c) = 0
          BY <3>9 DEF x
        <5>3. Diffs(name, x, c) = {} /\ Len(name) = Len(x)
          BY <5>1, <5>2, CmpZero
        <5>4. Diffs(x, name, c) = {}
          BY <5>3 DEF Diffs
        <5>5. MemptrCmp(x, name, c) = 0
          BY <5>1, <5>3, <5>4, CmpZero
        <5>6. QED
          BY <5>2, <5>5 DEF SameName, x
      <4> HIDE DEF cmp
      <4>4. QED
        BY <1>1, <3>2, <4>1, <4>2, <4>3 DEF Searching
    <3> HIDE DEF cmp
    <3>10. QED
      BY <3>5, <3>7, <3>8, <3>9
  <2>3. QED
    BY <2>1, <2>2
<1>4. QED
  BY <1>2, <1>3

(* In a table in order, of any length, map_str_to_int finds a name, with   *)
(* or without regard to case, exactly if it is there, and map_int_to_str   *)
(* gives back a name with the same number: the binary search never steps   *)
(* past a match and ends within as many rounds as there are names.         *)
THEOREM NamesAreFound ==
    ASSUME NEW name \in NamesOf, NEW Ids, NEW table \in Seq([name : NamesOf, id : Ids]),
           NEW c \in BOOLEAN, InOrder(table, c)
    PROVE  NameFound(name, table, c)
<1> DEFINE N == Len(table)
           F == Search(name, table, c)
           S == {n \in Nat : n <= N => Searching(name, table, c, n, F[n])}
<1>1. N \in Nat
  OBVIOUS
<1>2. /\ F[0] = [top |-> 0, bot |-> N - 1, found |-> -1]
      /\ \A n \in 1 .. N : F[n] = Halve(name, table, c, F[n - 1])
  BY <1>1, SearchUnfolds
<1> HIDE DEF F
<1>3. 0 \in S
  <2> DEFINE a == [top |-> 0, bot |-> N - 1, found |-> -1]
  <2>1. /\ a \in [top : Int, bot : Int, found : Int]
        /\ a.top = 0 /\ a.bot = N - 1 /\ a.found = -1
    BY <1>1
  <2> HIDE DEF a
  <2>2. Searching(name, table, c, 0, a)
    BY <1>1, <2>1 DEF Searching
  <2>3. F[0] = a
    BY <1>2 DEF a
  <2>4. QED
    BY <2>2, <2>3
<1>4. ASSUME NEW n \in Nat, n \in S PROVE n + 1 \in S
  <2> SUFFICES ASSUME n + 1 <= N PROVE Searching(name, table, c, n + 1, F[n + 1])
    BY <1>1
  <2>1. n <= N /\ n + 1 \in 1 .. N /\ (n + 1) - 1 = n
    BY <1>1
  <2>2. Searching(name, table, c, n, F[n])
    BY <1>4, <2>1
  <2>3. F[n + 1] = Halve(name, table, c, F[n])
    BY <1>2, <2>1
  <2>4. QED
    BY <2>2, <2>3, HalveSearches
<1>5. N \in S
  <2> HIDE DEF S
  <2> QED
    BY <1>1, <1>3, <1>4, SetInduction
<1> DEFINE i == F[N].found
<1>6. Searching(name, table, c, N, F[N])
  BY <1>1, <1>5
<1>7. \/ i \in 0 .. N - 1 /\ SameName(name, table[i + 1].name, c)
      \/ i = -1 /\ \A j \in 1 .. N : ~SameName(name, table[j].name, c)
  <2>1. F[N].top \in Int /\ F[N].bot \in Int
    BY <1>6 DEF Searching
  <2>2. QED
    BY <1>1, <1>6, <2>1 DEF Searching
<1>8. MapStrToInt(name, table, c) = i
  BY DEF MapStrToInt, F
<1> HIDE DEF i
<1>9. CASE i = -1 /\ \A j \in 1 .. N : ~SameName(name, table[j].name, c)
  BY <1>8, <1>9 DEF NameFound
<1>10. CASE i \in 0 .. N - 1 /\ SameName(name, table[i + 1].name, c)
  <2>1. i + 1 \in 1 .. N
    BY <1>1, <1>10
  <2>2. \E k \in 1 .. Len(table) : SameName(name, table[k].name, c)
    BY <1>10, <2>1
  <2> DEFINE hits == { k \in 1 .. Len(table) : table[k].id = table[i + 1].id }
             least == CHOOSE k \in hits : \A m \in hits : k <= m
  <2>3. hits \subseteq Nat /\ i + 1 \in hits
    BY <2>1
  <2>4. least \in hits /\ \A m \in hits : least <= m
    <3> HIDE DEF hits
    <3>1. \E k \in hits : \A m \in hits : k <= m
      BY <2>3, LeastElement
    <3>2. QED
      BY <3>1
  <2>5. MapIntToStr(table[i + 1].id, table) = least - 1
    <3>1. hits # {}
      BY <2>3
    <3>2. QED
      BY <3>1, Zenon DEF MapIntToStr
  <2> HIDE DEF least
  <2>6. least - 1 \in 0 .. i /\ table[(least - 1) + 1].id = table[i + 1].id
    <3>1. least \in 1 .. N /\ least <= i + 1 /\ table[least].id = table[i + 1].id
      BY <2>3, <2>4
    <3>2. (least - 1) + 1 = least /\ least - 1 \in 0 .. i
      BY <1>1, <1>10, <3>1
    <3>3. QED
      BY <3>1, <3>2
  <2>7. QED
    BY <1>8, <1>10, <2>2, <2>5, <2>6 DEF NameFound
<1>11. QED
  BY <1>7, <1>9, <1>10

=============================================================================
