----------------------------- MODULE TimerThread -----------------------------
(***************************************************************************)
(* The timer of threadutil (TimerThread.c): one thread, a persistent job   *)
(* of a thread pool, that sleeps until the first event of a queue ordered  *)
(* by time is due and then hands the event's job to the pool.  Pool        *)
(* threads and others schedule and remove events and shut the timer down.  *)
(* The pool is seen only through what ThreadPoolAdd and                    *)
(* ThreadPoolAddPersistent return and when they block.                     *)
(*                                                                         *)
(* A definition named ...Mutant is a deliberately wrong variant of the one *)
(* that follows it; it is used only to show that a property can fail.      *)
(***************************************************************************)
EXTENDS Naturals, Sequences, FiniteSets

LOCAL INSTANCE SequencesExt   \* InsertAt, RemoveAt, ToSet

CONSTANTS
    Events,           \* the events ever scheduled
    PersistentEvents, \* those of duration PERSISTENT
    Callers,          \* the pool's threads; their jobs use the timer
    InitCaller,       \* the caller of TimerThreadInit
    Timer,            \* the thread that runs TimerThreadWorker
    NoThread,
    Delays,           \* the timeouts callers ask for, relative (REL_SEC)
    MaxTime,          \* bound: the clock stops at MaxTime
    PoolCanRefuse,    \* ThreadPoolAdd may fail (maxJobsTotal, no memory)
    AllocCanFail,     \* FreeListAlloc may return NULL
    LateCalls         \* callers may enter the timer while it shuts down

ASSUME TimerAssumption ==
    /\ PersistentEvents \subseteq Events /\ InitCaller \in Callers
    /\ Timer \notin Callers /\ NoThread \notin Callers \cup {Timer} \cup Events
    /\ Delays \subseteq Nat /\ MaxTime \in Nat
    /\ {PoolCanRefuse, AllocCanFail, LateCalls} \subseteq BOOLEAN

VARIABLES
    now,           \* time(NULL)
    (* struct TIMERTHREAD *)
    mutex, eventQ, lastEventId, shutdown,
    sleepers,      \* threads blocked in a wait on timer->condition
    destroyed,     \* TimerThreadShutdown, or a failed TimerThreadInit, is over
    (* TimerThreadWorker: position and the end of its timed wait *)
    tpc, deadline,
    (* callers: position, and the event and time TimerThreadSchedule was given *)
    cpc, cevent, ctime,
    (* struct TIMEREVENT, and what became of each event *)
    eventTime, eventId, fate

NoEvent == NoThread    \* not an event either
Never == MaxTime + 1   \* the end of a wait without a timeout

eventVars == <<eventTime, eventId, fate>>
callVars  == <<cpc, cevent, ctime>>
workerVars == <<tpc, deadline>>
timerVars == <<mutex, eventQ, lastEventId, shutdown, sleepers, destroyed>>
vars == <<now, timerVars, workerVars, callVars, eventVars>>

Free == mutex = NoThread /\ ~destroyed

Goto(c, pc) == cpc' = [cpc EXCEPT ![c] = pc]

(* Mutant: the signal is forgotten. *)
SignalMutant == UNCHANGED sleepers

(* pthread_cond_signal(&timer->condition) wakes one of the sleepers. *)
Signal == IF sleepers = {} THEN UNCHANGED sleepers
          ELSE \E t \in sleepers : sleepers' = sleepers \ {t}

-----------------------------------------------------------------------------
(* TimerThreadWorker                                                       *)

(* The mutex is taken, at first or when a wait ends. *)
TimerLocks ==
    /\ tpc \in {"start", "wait"} /\ Timer \notin sleepers /\ Free
    /\ mutex' = Timer
    /\ tpc' = "top"
    /\ UNCHANGED <<now, eventQ, lastEventId, shutdown, sleepers, destroyed, deadline,
                   callVars, eventVars>>

(* The first event's time has come. *)
Due == eventQ # <<>> /\ now >= eventTime[Head(eventQ)]

(* The worker resets the flag, wakes TimerThreadShutdown and ends. *)
TimerStops ==
    /\ tpc = "top" /\ shutdown
    /\ shutdown' = FALSE
    /\ Signal
    /\ mutex' = NoThread
    /\ tpc' = "ended"
    /\ UNCHANGED <<now, eventQ, lastEventId, destroyed, deadline, callVars, eventVars>>

(* The first event's job is given to the pool while the mutex is held. *)
TimerAdds ==
    /\ tpc = "top" /\ ~shutdown /\ Due
    /\ tpc' = "adding"
    /\ UNCHANGED <<now, timerVars, deadline, callVars, eventVars>>

(* Mutant: the event stays queued after its job was handed over. *)
TimerAddedMutant(ok) ==
    /\ tpc = "adding"
    /\ ok \/ PoolCanRefuse
    /\ fate' = [fate EXCEPT ![Head(eventQ)] = IF ok THEN "pool" ELSE "freed"]
    /\ tpc' = "top"
    /\ UNCHANGED <<now, timerVars, deadline, callVars, eventTime, eventId>>

(* The pool takes the job, or refuses it and the timer frees it.           *)
(* ThreadPoolAddPersistent returns only when a thread of the pool is free  *)
(* to take the job.                                                        *)
TimerAdded(ok) ==
    /\ tpc = "adding"
    /\ ok \/ PoolCanRefuse
    /\ ok /\ Head(eventQ) \in PersistentEvents => \E c \in Callers : cpc[c] = "idle"
    /\ fate' = [fate EXCEPT ![Head(eventQ)] = IF ok THEN "pool" ELSE "freed"]
    /\ eventQ' = Tail(eventQ)
    /\ tpc' = "top"
    /\ UNCHANGED <<now, mutex, lastEventId, shutdown, sleepers, destroyed, deadline,
                   callVars, eventTime, eventId>>

(* Nothing is due: a wait until the head's time, or without a timeout. *)
TimerWaits ==
    /\ tpc = "top" /\ ~shutdown /\ ~Due
    /\ deadline' = IF eventQ = <<>> THEN Never ELSE eventTime[Head(eventQ)]
    /\ sleepers' = sleepers \cup {Timer}
    /\ mutex' = NoThread
    /\ tpc' = "wait"
    /\ UNCHANGED <<now, eventQ, lastEventId, shutdown, destroyed, callVars, eventVars>>

(* Mutant: the worker wakes only when the time of the event is past. *)
TimerTimeOutMutant ==
    /\ Timer \in sleepers /\ now > deadline
    /\ sleepers' = sleepers \ {Timer}
    /\ UNCHANGED <<now, mutex, eventQ, lastEventId, shutdown, destroyed, workerVars,
                   callVars, eventVars>>

(* ithread_cond_timedwait ends by its time-out. *)
TimerTimeOut ==
    /\ Timer \in sleepers /\ now >= deadline
    /\ sleepers' = sleepers \ {Timer}
    /\ UNCHANGED <<now, mutex, eventQ, lastEventId, shutdown, destroyed, workerVars,
                   callVars, eventVars>>

-----------------------------------------------------------------------------
(* TimerThreadInit, which holds the mutex: the pool has started the        *)
(* worker, or it refused and everything is destroyed.                      *)
InitReturns(c, ok) ==
    /\ cpc[c] = "init"
    /\ ok \/ PoolCanRefuse
    /\ mutex' = NoThread
    /\ tpc' = IF ok THEN "start" ELSE "ended"
    /\ destroyed' = ~ok
    /\ Goto(c, "idle")
    /\ UNCHANGED <<now, eventQ, lastEventId, shutdown, sleepers, deadline, cevent,
                   ctime, eventVars>>

(* The timer is there; a caller enters one of its operations. *)
MayCall(c) ==
    /\ cpc[c] = "idle" /\ tpc # "none" /\ ~destroyed
    /\ LateCalls \/ \A d \in Callers : cpc[d] # "sdWait"

-----------------------------------------------------------------------------
(* TimerThreadSchedule: CalculateEventTime reads the clock before the      *)
(* mutex is taken.                                                         *)
Schedule(c, e, delay) ==
    /\ MayCall(c) /\ fate[e] = "new" /\ \A d \in Callers : cevent[d] # e
    /\ now + delay <= MaxTime
    /\ Goto(c, "schedule")
    /\ cevent' = [cevent EXCEPT ![c] = e]
    /\ ctime' = [ctime EXCEPT ![c] = now + delay]
    /\ UNCHANGED <<now, timerVars, workerVars, eventVars>>

(* TimerThreadSchedule returns. *)
ScheduleReturns(c) ==
    /\ Goto(c, "idle")
    /\ cevent' = [cevent EXCEPT ![c] = NoEvent]
    /\ ctime' = [ctime EXCEPT ![c] = 0]

(* The place of an event at time t: before the first one not earlier. *)
Position(t) ==
    CHOOSE i \in 1..(Len(eventQ) + 1) :
        /\ i <= Len(eventQ) => eventTime[eventQ[i]] >= t
        /\ \A k \in 1..(i - 1) : eventTime[eventQ[k]] < t

(* Mutant: two events get the same id. *)
ScheduleQueuesMutant(c) ==
    /\ cpc[c] = "schedule" /\ Free
    /\ eventTime' = [eventTime EXCEPT ![cevent[c]] = ctime[c]]
    /\ eventId' = [eventId EXCEPT ![cevent[c]] = lastEventId]
    /\ fate' = [fate EXCEPT ![cevent[c]] = "queued"]
    /\ eventQ' = InsertAt(eventQ, Position(ctime[c]), cevent[c])
    /\ Signal
    /\ ScheduleReturns(c)
    /\ UNCHANGED <<now, mutex, lastEventId, shutdown, destroyed, workerVars>>

(* The event is queued and the worker is told of it. *)
ScheduleQueues(c) ==
    /\ cpc[c] = "schedule" /\ Free
    /\ eventTime' = [eventTime EXCEPT ![cevent[c]] = ctime[c]]
    /\ eventId' = [eventId EXCEPT ![cevent[c]] = lastEventId]
    /\ fate' = [fate EXCEPT ![cevent[c]] = "queued"]
    /\ eventQ' = InsertAt(eventQ, Position(ctime[c]), cevent[c])
    /\ lastEventId' = lastEventId + 1
    /\ Signal
    /\ ScheduleReturns(c)
    /\ UNCHANGED <<now, mutex, shutdown, destroyed, workerVars>>

(* CreateTimerEvent, or the list, finds no memory: EOUTOFMEM.  Only the    *)
(* second failure uses up an id.                                           *)
ScheduleFails(c, created) ==
    /\ cpc[c] = "schedule" /\ Free /\ AllocCanFail
    /\ fate' = [fate EXCEPT ![cevent[c]] = "refused"]
    /\ lastEventId' = IF created THEN lastEventId + 1 ELSE lastEventId
    /\ ScheduleReturns(c)
    /\ UNCHANGED <<now, mutex, eventQ, shutdown, sleepers, destroyed, workerVars,
                   eventTime, eventId>>

(* TimerThreadRemove with the id that was returned for event e: the first  *)
(* event of that id is taken out, if it is still queued.                   *)
RemoveEvent(c, e) ==
    /\ MayCall(c) /\ Free /\ fate[e] \notin {"new", "refused"}
    /\ \E i \in 1..Len(eventQ) :
         /\ eventId[eventQ[i]] = eventId[e]
         /\ \A k \in 1..(i - 1) : eventId[eventQ[k]] # eventId[e]
         /\ eventQ' = RemoveAt(eventQ, i)
         /\ fate' = [fate EXCEPT ![eventQ[i]] = "removed"]
    /\ UNCHANGED <<now, mutex, lastEventId, shutdown, sleepers, destroyed, workerVars,
                   callVars, eventTime, eventId>>

-----------------------------------------------------------------------------
(* TimerThreadShutdown: the queue is freed and the worker is told to end.  *)
Shutdown(c) ==
    /\ MayCall(c) /\ Free
    /\ \A d \in Callers : cpc[d] # "sdWait" /\ (LateCalls \/ cpc[d] = "idle")
    /\ shutdown' = TRUE
    /\ fate' = [e \in Events |-> IF e \in ToSet(eventQ) THEN "freed" ELSE fate[e]]
    /\ eventQ' = <<>>
    /\ sleepers' = {c}     \* the broadcast, then the caller's own wait
    /\ Goto(c, "sdWait")
    /\ UNCHANGED <<now, mutex, lastEventId, destroyed, workerVars, cevent, ctime,
                   eventTime, eventId>>

ShutdownResumes(c) ==
    /\ cpc[c] = "sdWait" /\ c \notin sleepers /\ Free
    /\ \/ shutdown /\ sleepers' = sleepers \cup {c} /\ UNCHANGED <<cpc, destroyed>>
       \/ ~shutdown /\ destroyed' = TRUE /\ Goto(c, "idle") /\ UNCHANGED sleepers
    /\ UNCHANGED <<now, mutex, eventQ, lastEventId, shutdown, workerVars,
                   cevent, ctime, eventVars>>

Tick == now < MaxTime /\ now' = now + 1
        /\ UNCHANGED <<timerVars, workerVars, callVars, eventVars>>

Init ==
    /\ now = 0 /\ mutex = InitCaller /\ eventQ = <<>> /\ lastEventId = 0
    /\ shutdown = FALSE /\ sleepers = {} /\ destroyed = FALSE
    /\ tpc = "none" /\ deadline = Never
    /\ cpc = [c \in Callers |-> IF c = InitCaller THEN "init" ELSE "idle"]
    /\ cevent = [c \in Callers |-> NoEvent] /\ ctime = [c \in Callers |-> 0]
    /\ eventTime = [e \in Events |-> 0] /\ eventId = [e \in Events |-> 0]
    /\ fate = [e \in Events |-> "new"]

TimerStep == \/ TimerLocks \/ TimerStops \/ TimerAdds \/ TimerWaits \/ TimerTimeOut
             \/ \E ok \in BOOLEAN : TimerAdded(ok)

(* What a caller does once it has entered an operation. *)
CallerStep(c) ==
    \/ \E ok \in BOOLEAN : InitReturns(c, ok) \/ ScheduleFails(c, ok)
    \/ ScheduleQueues(c) \/ ShutdownResumes(c)

Next ==
    \/ TimerStep
    \/ \E c \in Callers :
         \/ CallerStep(c)
         \/ \E e \in Events : RemoveEvent(c, e) \/ \E delay \in Delays : Schedule(c, e, delay)
         \/ Shutdown(c)
    \/ Tick

Spec == Init /\ [][Next]_vars

(* The worker is inside ThreadPoolAddPersistent and has the mutex. *)
InPersistentAdd == tpc = "adding" /\ Head(eventQ) \in PersistentEvents

(* Threads go on and time passes.  Fairness is strong for threads that     *)
(* wait for the mutex, which others keep only briefly.  Nothing makes      *)
(* ThreadPoolAddPersistent return: it waits until a thread of the pool     *)
(* takes the job, and none may ever be free, as those that want to         *)
(* schedule wait for the mutex of the timer.                               *)
FairSpec == Spec /\ SF_vars(TimerStep /\ ~InPersistentAdd) /\ WF_vars(Tick)
                 /\ \A c \in Callers : SF_vars(CallerStep(c))

-----------------------------------------------------------------------------
(* Every variable has its type. *)
TypeOK ==
    /\ now \in 0..MaxTime /\ mutex \in Callers \cup {Timer, NoThread}
    /\ eventQ \in Seq(Events) /\ lastEventId \in Nat
    /\ shutdown \in BOOLEAN /\ destroyed \in BOOLEAN
    /\ sleepers \subseteq Callers \cup {Timer}
    /\ tpc \in {"none", "start", "top", "adding", "wait", "ended"}
    /\ deadline \in 0..Never
    /\ cpc \in [Callers -> {"idle", "init", "schedule", "sdWait"}]
    /\ cevent \in [Callers -> Events \cup {NoEvent}] /\ ctime \in [Callers -> 0..MaxTime]
    /\ eventTime \in [Events -> 0..MaxTime] /\ eventId \in [Events -> Nat]
    /\ fate \in [Events -> {"new", "refused", "queued", "pool", "removed", "freed"}]

(* "Q is ordered by eventTime with the head of the Q being the next event" *)
(* (TimerThreadSchedule), whatever is inserted and removed in between.     *)
QueueSorted ==
    \A i, k \in 1..Len(eventQ) : i < k => eventTime[eventQ[i]] <= eventTime[eventQ[k]]

(* The worker never sleeps past the first event: when it is asleep, the    *)
(* end of its wait is not after the time of the head of the queue, even if *)
(* that head was scheduled after the worker went to sleep.                 *)
NoOversleep ==
    Timer \in sleepers /\ eventQ # <<>> => deadline <= eventTime[Head(eventQ)]

(* An event is handed to the pool, or given up because the pool refused    *)
(* it, only when its time has come and only while it is the earliest one.  *)
FiresOnTime ==
    \A e \in Events : fate[e] # "pool" /\ fate'[e] = "pool" =>
          /\ fate[e] = "queued" /\ now >= eventTime[e]
          /\ \A f \in Events : fate[f] = "queued" => eventTime[e] <= eventTime[f]

(* An event is in the queue exactly as long as it was neither handed over, *)
(* nor removed, nor freed, and it is there once: so an event that          *)
(* TimerThreadRemove has removed never runs, and none runs twice.          *)
QueueHoldsTheQueued ==
    /\ \A e \in Events : fate[e] = "queued" <=> e \in ToSet(eventQ)
    /\ \A i, k \in 1..Len(eventQ) : eventQ[i] = eventQ[k] => i = k

(* TimerThreadRemove by the id returned for an event takes that event.     *)
RemoveTakesTheNamedEvent ==
    \A c \in Callers, e \in Events : RemoveEvent(c, e) => fate'[e] = "removed"

(* When TimerThreadShutdown has returned, the worker has ended and no      *)
(* event is left that was neither run, removed nor freed.                  *)
ShutdownLeavesNothing ==
    destroyed => tpc = "ended" /\ \A e \in Events : fate[e] # "queued"

(* A scheduled event is, in time, handed over, removed or freed. *)
EventsFire == \A e \in Events : fate[e] = "queued" ~> fate[e] # "queued"

(* TimerThreadShutdown ends: the worker and the caller meet on one         *)
(* condition variable and one flag, which the worker resets.               *)
ShutdownEnds == shutdown ~> destroyed

(* The queue is right: ordered, made of exactly the events that still have *)
(* to fire, each once, and empty when TimerThreadShutdown has returned;    *)
(* and every variable has its type.                                        *)
QueueRight == TypeOK /\ QueueSorted /\ QueueHoldsTheQueued /\ ShutdownLeavesNothing

(* Whatever callers do between, every step of the worker hands over the    *)
(* right event at the right time, and every TimerThreadRemove takes the    *)
(* event it was asked to take.                                             *)
EventsHandled == [][FiresOnTime /\ RemoveTakesTheNamedEvent]_vars

(* The timer serves its callers: scheduled events do not stay for ever,    *)
(* and neither does a caller of TimerThreadShutdown, unless the worker     *)
(* stays for ever in ThreadPoolAddPersistent, with the mutex, for an event *)
(* of duration PERSISTENT (the SDK schedules none).                        *)
TimerServes == <>[]InPersistentAdd \/ (EventsFire /\ ShutdownEnds)

==============================================================================
