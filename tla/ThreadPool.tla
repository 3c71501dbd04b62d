----------------------------- MODULE ThreadPool -----------------------------
(***************************************************************************)
(* The thread pool of threadutil (ThreadPool.c): worker threads that take  *)
(* jobs from three priority queues or a single persistent-job slot, and    *)
(* the threads that call ThreadPoolAdd, ThreadPoolAddPersistent,           *)
(* ThreadPoolRemove, ThreadPoolGetStats, ThreadPoolSetAttr and             *)
(* ThreadPoolShutdown.                                                     *)
(*                                                                         *)
(* One step of the model is what a thread does between two points where    *)
(* another thread can act: from taking tp->mutex to releasing it or to     *)
(* waiting on a condition variable.  The loops that run under the mutex    *)
(* (BumpPriority, AddWorker) take one step per iteration while the mutex   *)
(* stays with the thread.                                                  *)
(*                                                                         *)
(* A definition named ...Mutant is a deliberately wrong variant of the one *)
(* that follows it; it is used only to show that a property can fail.      *)
(***************************************************************************)
EXTENDS Integers, Sequences, FiniteSets

LOCAL INSTANCE SequencesExt   \* RemoveAt, ToSet

CONSTANTS
    Workers,         \* identities for pool threads: the threads the system can give
    Callers,         \* threads that use the pool's interface
    InitCaller,      \* the caller of ThreadPoolInit
    Jobs,            \* the jobs handed to the pool
    PersistentJobs,  \* those handed to ThreadPoolAddPersistent
    Priorities,      \* the priorities callers of ThreadPoolAdd use
    InitAttr,        \* the ThreadPoolAttr given to ThreadPoolInit
    NewAttrs,        \* those given to ThreadPoolSetAttr
    StatsCallers,    \* the callers of ThreadPoolGetStats and ThreadPoolGetAttr
    NoThread, NoJob, \* not a thread, not a job
    AgeCap,          \* bound: a queued job's age is counted up to AgeCap
    CreateCanFail,   \* ithread_create may fail (EAGAIN)
    AllocCanFail,    \* FreeListAlloc may return NULL
    LateCalls        \* callers may be inside the pool, or enter it, during shutdown

INFINITE_THREADS == -1

(* ThreadPoolAttr, without the stack size and the scheduling policy. *)
ThreadPoolAttr == [minThreads : Nat, maxThreads : Nat \cup {INFINITE_THREADS},
                   jobsPerThread : Nat \ {0}, maxJobsTotal : Nat,
                   starvationTime : Nat, maxIdleTime : Nat]

ASSUME ThreadsAssumption ==
    /\ IsFiniteSet(Workers)
    /\ InitCaller \in Callers /\ StatsCallers \subseteq Callers
    /\ NoThread \notin Workers \cup Callers /\ Workers \cap Callers = {}
ASSUME JobsAssumption == PersistentJobs \subseteq Jobs /\ NoJob \notin Jobs
ASSUME AttrAssumption == NewAttrs \subseteq ThreadPoolAttr /\ InitAttr \in ThreadPoolAttr
ASSUME BoundsAssumption ==
    /\ Priorities \subseteq {"HIGH", "MED", "LOW"}
    /\ AgeCap \in Nat
    /\ {CreateCanFail, AllocCanFail, LateCalls} \subseteq BOOLEAN

VARIABLES
    (* struct THREADPOOL *)
    mutex,            \* the thread that holds tp->mutex, or NoThread
    waiters,          \* callers blocked on tp->start_and_shutdown
    attr, lastJobId, shutdown,
    totalThreads, pendingWorkerThreadStart, busyThreads, persistentThreads,
    idleThreads, workerThreads,   \* tp->stats
    highJobQ, medJobQ, lowJobQ, persistentJob,
    destroyed,        \* ThreadPoolShutdown has destroyed the mutex
    (* WorkerThread's position and local variables *)
    wpc, wjob, wkind, timedOut,
    (* a caller's position, operation and local variables *)
    cpc, op, cjob, jobsSeen, loopVar,
    (* what the job structures hold, and what became of each job *)
    jobId, age, retId, hist

queues     == <<highJobQ, medJobQ, lowJobQ, persistentJob>>
counters   == <<totalThreads, pendingWorkerThreadStart, busyThreads,
                persistentThreads, idleThreads, workerThreads>>
workerVars == <<wpc, wjob, wkind, timedOut>>
callerVars == <<cpc, op, cjob, jobsSeen, loopVar>>
jobVars    == <<jobId, age, retId, hist>>
poolVars   == <<mutex, waiters, attr, lastJobId, shutdown, destroyed>>
vars       == <<queues, counters, workerVars, callerVars, jobVars, poolVars>>

-----------------------------------------------------------------------------
(* State predicates the code tests.                                        *)

(* The mutex can be taken. *)
Free == mutex = NoThread /\ ~destroyed

TotalJobs == Len(highJobQ) + Len(medJobQ) + Len(lowJobQ)

NothingToDo == TotalJobs = 0 /\ persistentJob = NoJob /\ ~shutdown

(* Threads that exist and have incremented tp->totalThreads. *)
Alive == {w \in Workers : wpc[w] \notin {"none", "starting"}}

Waiting == {w \in Workers : wpc[w] = "wait"}

(* Mutant: the signal is forgotten. *)
SignalConditionMutant == wpc' = wpc

(* pthread_cond_signal(&tp->condition): one waiting worker, if any, wakes. *)
SignalCondition ==
    IF Waiting = {} THEN wpc' = wpc
    ELSE \E w \in Waiting : wpc' = [wpc EXCEPT ![w] = "woken"]

(* Mutant: the broadcast is forgotten. *)
BroadcastStartMutant == UNCHANGED waiters

(* pthread_cond_broadcast(&tp->start_and_shutdown) *)
BroadcastStart == waiters' = {}

(* pthread_cond_wait(&tp->start_and_shutdown, &tp->mutex) at position pc. *)
WaitStart(c, pc) ==
    /\ waiters' = waiters \cup {c}
    /\ cpc' = [cpc EXCEPT ![c] = pc]
    /\ mutex' = NoThread

-----------------------------------------------------------------------------
(* WorkerThread                                                            *)

(* The new thread announces itself. *)
WorkerStart(w) ==
    /\ wpc[w] = "starting" /\ Free
    /\ totalThreads' = totalThreads + 1
    /\ pendingWorkerThreadStart' = 0
    /\ BroadcastStart
    /\ wpc' = [wpc EXCEPT ![w] = "top"]
    /\ UNCHANGED <<mutex, attr, lastJobId, shutdown, destroyed, busyThreads,
                   persistentThreads, idleThreads, workerThreads, queues,
                   wjob, wkind, timedOut, callerVars, jobVars>>

(* The top of the worker's loop: the previous job, if any, is accounted    *)
(* for and freed.                                                          *)
WorkerTop(w) ==
    /\ wpc[w] = "top" /\ Free
    /\ mutex' = w
    /\ busyThreads' = IF wjob[w] = NoJob THEN busyThreads ELSE busyThreads - 1
    /\ wjob' = [wjob EXCEPT ![w] = NoJob]
    /\ timedOut' = [timedOut EXCEPT ![w] = FALSE]
    /\ idleThreads' = idleThreads + 1
    /\ workerThreads' = IF wkind[w] = "regular" THEN workerThreads - 1 ELSE workerThreads
    /\ persistentThreads' =
           IF wkind[w] = "persistent" THEN persistentThreads - 1 ELSE persistentThreads
    /\ wpc' = [wpc EXCEPT ![w] = "check"]
    /\ UNCHANGED <<waiters, attr, lastJobId, shutdown, destroyed, totalThreads,
                   pendingWorkerThreadStart, queues, wkind, callerVars, jobVars>>

(* Mutant: a worker dies at the minimum too. *)
MayDieMutant(w) ==
    \/ timedOut[w] /\ totalThreads >= attr.minThreads
    \/ attr.maxThreads # INFINITE_THREADS /\ totalThreads > attr.maxThreads

(* A worker without a job dies when its wait timed out and the pool keeps  *)
(* its minimum, or when attributes set later allow fewer threads.          *)
MayDie(w) ==
    \/ timedOut[w] /\ totalThreads > attr.minThreads
    \/ attr.maxThreads # INFINITE_THREADS /\ totalThreads > attr.maxThreads

(* Mutant: a dying worker tells nobody. *)
WorkerExitMutant(w) ==
    /\ totalThreads' = totalThreads - 1
    /\ mutex' = NoThread
    /\ wpc' = [wpc EXCEPT ![w] = "none"]
    /\ wkind' = [wkind EXCEPT ![w] = "fresh"]
    /\ UNCHANGED waiters

WorkerExit(w) ==
    /\ totalThreads' = totalThreads - 1
    /\ BroadcastStart
    /\ mutex' = NoThread
    /\ wpc' = [wpc EXCEPT ![w] = "none"]
    /\ wkind' = [wkind EXCEPT ![w] = "fresh"]

(* The test of the inner wait loop, and what follows from it. *)
WorkerDie(w) ==
    /\ wpc[w] = "check" /\ mutex = w
    /\ NothingToDo /\ MayDie(w)
    /\ idleThreads' = idleThreads - 1
    /\ WorkerExit(w)
    /\ UNCHANGED <<attr, lastJobId, shutdown, destroyed, pendingWorkerThreadStart,
                   busyThreads, persistentThreads, workerThreads, queues,
                   wjob, timedOut, callerVars, jobVars>>

WorkerWait(w) ==
    /\ wpc[w] = "check" /\ mutex = w
    /\ NothingToDo /\ ~MayDie(w)
    /\ wpc' = [wpc EXCEPT ![w] = "wait"]
    /\ timedOut' = [timedOut EXCEPT ![w] = FALSE]
    /\ mutex' = NoThread
    /\ UNCHANGED <<waiters, attr, lastJobId, shutdown, destroyed, counters,
                   queues, wjob, wkind, callerVars, jobVars>>

WorkerLeaveWait(w) ==
    /\ wpc[w] = "check" /\ mutex = w
    /\ ~NothingToDo
    /\ idleThreads' = idleThreads - 1
    /\ wpc' = [wpc EXCEPT ![w] = "bump"]
    /\ UNCHANGED <<poolVars, totalThreads, pendingWorkerThreadStart, busyThreads,
                   persistentThreads, workerThreads, queues, wjob, wkind,
                   timedOut, callerVars, jobVars>>

(* maxIdleTime passes without a signal. *)
WorkerTimeOut(w) ==
    /\ wpc[w] = "wait"
    /\ wpc' = [wpc EXCEPT ![w] = "woken"]
    /\ timedOut' = [timedOut EXCEPT ![w] = TRUE]
    /\ UNCHANGED <<poolVars, counters, queues, wjob, wkind, callerVars, jobVars>>

(* Mutant: the worker goes on without the mutex. *)
WorkerWakesMutant(w) ==
    /\ wpc[w] = "woken"
    /\ wpc' = [wpc EXCEPT ![w] = "check"]
    /\ UNCHANGED <<poolVars, counters, queues, wjob, wkind, timedOut, callerVars, jobVars>>

(* pthread_cond_timedwait returns: the worker has the mutex again. *)
WorkerWakes(w) ==
    /\ wpc[w] = "woken" /\ Free
    /\ mutex' = w
    /\ wpc' = [wpc EXCEPT ![w] = "check"]
    /\ UNCHANGED <<waiters, attr, lastJobId, shutdown, destroyed, counters,
                   queues, wjob, wkind, timedOut, callerVars, jobVars>>

-----------------------------------------------------------------------------
(* BumpPriority, one iteration of its loop per step.  Each queue takes its *)
(* nodes from a free list of its own: ListDelNode gives one back to the    *)
(* old queue, ListAddTail may find none for the new one, and its result is *)
(* not looked at.  The job is then in no queue: it is lost.                *)

(* The head of the medium queue has waited for the starvation time. *)
MedStarved == medJobQ # <<>> /\ age[Head(medJobQ)] >= attr.starvationTime

(* The head of the low queue has waited; the code compares with maxIdleTime. *)
LowStarved == lowJobQ # <<>> /\ age[Head(lowJobQ)] >= attr.maxIdleTime

JobLost(j) == hist' = [hist EXCEPT ![j] = "lost"]

BumpMed(w) ==
    /\ wpc[w] = "bump" /\ MedStarved
    /\ medJobQ' = Tail(medJobQ)
    /\ \/ highJobQ' = Append(highJobQ, Head(medJobQ)) /\ UNCHANGED hist
       \/ AllocCanFail /\ JobLost(Head(medJobQ)) /\ UNCHANGED highJobQ
    /\ UNCHANGED <<poolVars, counters, lowJobQ, persistentJob,
                   workerVars, callerVars, jobId, age, retId>>

(* Mutant: a starved job is taken from one queue and never put in the other. *)
BumpLowMutant(w) ==
    /\ wpc[w] = "bump" /\ ~MedStarved /\ LowStarved
    /\ lowJobQ' = Tail(lowJobQ)
    /\ UNCHANGED <<poolVars, counters, highJobQ, medJobQ, persistentJob,
                   workerVars, callerVars, jobVars>>

BumpLow(w) ==
    /\ wpc[w] = "bump" /\ ~MedStarved /\ LowStarved
    /\ lowJobQ' = Tail(lowJobQ)
    /\ \/ medJobQ' = Append(medJobQ, Head(lowJobQ)) /\ UNCHANGED hist
       \/ AllocCanFail /\ JobLost(Head(lowJobQ)) /\ UNCHANGED medJobQ
    /\ UNCHANGED <<poolVars, counters, highJobQ, persistentJob,
                   workerVars, callerVars, jobId, age, retId>>

Bumped(w) == wpc[w] = "bump" /\ ~MedStarved /\ ~LowStarved

(* The pool is shutting down. *)
WorkerStop(w) ==
    /\ Bumped(w) /\ shutdown
    /\ WorkerExit(w)
    /\ UNCHANGED <<attr, lastJobId, shutdown, destroyed, pendingWorkerThreadStart,
                   busyThreads, persistentThreads, idleThreads, workerThreads,
                   queues, wjob, timedOut, callerVars, jobVars>>

(* "Should never get here" (ThreadPool.c): BumpPriority has lost the only  *)
(* job the worker left its wait for, and the worker leaves the pool.       *)
WorkerStrays(w) ==
    /\ Bumped(w) /\ ~shutdown /\ persistentJob = NoJob /\ TotalJobs = 0
    /\ WorkerExit(w)
    /\ UNCHANGED <<attr, lastJobId, shutdown, destroyed, pendingWorkerThreadStart,
                   busyThreads, persistentThreads, idleThreads, workerThreads,
                   queues, wjob, timedOut, callerVars, jobVars>>

(* Mutant: the thread does not count as busy. *)
RunJobMutant(w, j, kind) ==
    /\ wjob' = [wjob EXCEPT ![w] = j]
    /\ wkind' = [wkind EXCEPT ![w] = kind]
    /\ wpc' = [wpc EXCEPT ![w] = "run"]
    /\ mutex' = NoThread
    /\ UNCHANGED busyThreads

(* The worker leaves the mutex with job j and runs it. *)
RunJob(w, j, kind) ==
    /\ wjob' = [wjob EXCEPT ![w] = j]
    /\ wkind' = [wkind EXCEPT ![w] = kind]
    /\ wpc' = [wpc EXCEPT ![w] = "run"]
    /\ busyThreads' = busyThreads + 1
    /\ mutex' = NoThread

(* Mutant: the slot keeps the job that was taken. *)
TakePersistentMutant(w) ==
    /\ Bumped(w) /\ ~shutdown /\ persistentJob # NoJob
    /\ RunJob(w, persistentJob, "persistent")
    /\ persistentThreads' = persistentThreads + 1
    /\ BroadcastStart
    /\ UNCHANGED <<attr, lastJobId, shutdown, destroyed, totalThreads,
                   pendingWorkerThreadStart, idleThreads, workerThreads,
                   queues, timedOut, callerVars, jobVars>>

TakePersistent(w) ==
    /\ Bumped(w) /\ ~shutdown /\ persistentJob # NoJob
    /\ RunJob(w, persistentJob, "persistent")
    /\ persistentJob' = NoJob
    /\ persistentThreads' = persistentThreads + 1
    /\ BroadcastStart
    /\ UNCHANGED <<attr, lastJobId, shutdown, destroyed, totalThreads,
                   pendingWorkerThreadStart, idleThreads, workerThreads,
                   highJobQ, medJobQ, lowJobQ, timedOut, callerVars, jobVars>>

(* The highest-priority queue that is not empty loses its head. *)
TakeJob(w) ==
    /\ Bumped(w) /\ ~shutdown /\ persistentJob = NoJob
    /\ \/ /\ highJobQ # <<>>
          /\ RunJob(w, Head(highJobQ), "regular")
          /\ highJobQ' = Tail(highJobQ) /\ UNCHANGED <<medJobQ, lowJobQ>>
       \/ /\ highJobQ = <<>> /\ medJobQ # <<>>
          /\ RunJob(w, Head(medJobQ), "regular")
          /\ medJobQ' = Tail(medJobQ) /\ UNCHANGED <<highJobQ, lowJobQ>>
       \/ /\ highJobQ = <<>> /\ medJobQ = <<>> /\ lowJobQ # <<>>
          /\ RunJob(w, Head(lowJobQ), "regular")
          /\ lowJobQ' = Tail(lowJobQ) /\ UNCHANGED <<highJobQ, medJobQ>>
    /\ workerThreads' = workerThreads + 1
    /\ UNCHANGED <<waiters, attr, lastJobId, shutdown, destroyed, totalThreads,
                   pendingWorkerThreadStart, persistentThreads, idleThreads,
                   persistentJob, timedOut, callerVars, jobVars>>

(* job->func returns. *)
JobReturns(w) ==
    /\ wpc[w] = "run"
    /\ wpc' = [wpc EXCEPT ![w] = "top"]
    /\ hist' = [hist EXCEPT ![wjob[w]] = "done"]
    /\ UNCHANGED <<poolVars, counters, queues, wjob, wkind, timedOut,
                   callerVars, jobId, age, retId>>

-----------------------------------------------------------------------------
(* CreateWorker, called with the mutex held by ThreadPoolAdd (through      *)
(* AddWorker), ThreadPoolAddPersistent, ThreadPoolSetAttr and              *)
(* ThreadPoolInit.                                                         *)

(* Mutant: off by one. *)
AtMaxThreadsMutant ==
    attr.maxThreads # INFINITE_THREADS /\ totalThreads > attr.maxThreads

AtMaxThreads ==
    attr.maxThreads # INFINITE_THREADS /\ totalThreads + 1 > attr.maxThreads

(* Where the caller of CreateWorker continues, holding the mutex.  AddWorker *)
(* counts the threads it created; past jobsSeen[c] the count no longer     *)
(* changes what its loop does (jobs / threads is 0) and stands still.      *)
CreateReturns(c, ok) ==
    /\ mutex' = c
    /\ cpc' = [cpc EXCEPT ![c] =
                 CASE op[c] = "persistent" -> "handOver"
                   [] op[c] = "add"        -> IF ok THEN "loop" ELSE "addDone"
                   [] OTHER                -> IF ok THEN "loop" ELSE "failed"]
    /\ loopVar' = [loopVar EXCEPT ![c] =
                 CASE ~ok \/ op[c] \notin {"add", "init", "setattr"} -> loopVar[c]
                   [] ok /\ op[c] = "add" ->
                        IF loopVar[c] > jobsSeen[c] THEN loopVar[c] ELSE loopVar[c] + 1
                   [] OTHER -> loopVar[c] - 1]

(* Another caller's new thread has not started yet. *)
CreateWaits(c) ==
    /\ cpc[c] = "create" /\ pendingWorkerThreadStart = 1
    /\ WaitStart(c, "cwWait")
    /\ UNCHANGED <<attr, lastJobId, shutdown, destroyed, counters, queues,
                   workerVars, op, cjob, jobsSeen, loopVar, jobVars>>

(* EMAXTHREADS, or ithread_create fails. *)
CreateFails(c) ==
    /\ cpc[c] = "create" /\ pendingWorkerThreadStart = 0
    /\ AtMaxThreads \/ CreateCanFail \/ \A w \in Workers : wpc[w] # "none"
    /\ CreateReturns(c, FALSE)
    /\ UNCHANGED <<waiters, attr, lastJobId, shutdown, destroyed, counters,
                   queues, workerVars, op, cjob, jobsSeen, jobVars>>

(* ithread_create succeeds and the caller waits for the thread to start. *)
CreateThread(c, w) ==
    /\ cpc[c] = "create" /\ pendingWorkerThreadStart = 0
    /\ ~AtMaxThreads /\ wpc[w] = "none"
    /\ wpc' = [wpc EXCEPT ![w] = "starting"]
    /\ pendingWorkerThreadStart' = 1
    /\ WaitStart(c, "cwStart")
    /\ UNCHANGED <<attr, lastJobId, shutdown, destroyed, totalThreads, busyThreads,
                   persistentThreads, idleThreads, workerThreads, queues, wjob,
                   wkind, timedOut, op, cjob, jobsSeen, loopVar, jobVars>>

(* pthread_cond_wait returns inside CreateWorker. *)
CreateResumes(c) ==
    /\ cpc[c] \in {"cwWait", "cwStart"} /\ c \notin waiters /\ Free
    /\ \/ /\ pendingWorkerThreadStart = 1
          /\ WaitStart(c, cpc[c])
          /\ UNCHANGED loopVar
       \/ /\ pendingWorkerThreadStart = 0 /\ cpc[c] = "cwWait"
          /\ mutex' = c
          /\ cpc' = [cpc EXCEPT ![c] = "create"]
          /\ UNCHANGED <<waiters, loopVar>>
       \/ /\ pendingWorkerThreadStart = 0 /\ cpc[c] = "cwStart"
          /\ CreateReturns(c, TRUE)
          /\ UNCHANGED waiters
    /\ UNCHANGED <<attr, lastJobId, shutdown, destroyed, counters, queues,
                   workerVars, op, cjob, jobsSeen, jobVars>>

-----------------------------------------------------------------------------
(* ThreadPoolAdd                                                           *)

(* ThreadPoolInit has returned. *)
Ready == op[InitCaller] # "init"

(* The caller enters an operation of the pool. *)
MayCall(c) == cpc[c] = "idle" /\ Ready /\ (LateCalls \/ ~shutdown)

Goto(c, pc) == cpc' = [cpc EXCEPT ![c] = pc]

(* The operation returns to its caller, releases the mutex and its local   *)
(* variables are gone.                                                     *)
Return(c) ==
    /\ Goto(c, "idle")
    /\ op' = [op EXCEPT ![c] = "none"]
    /\ cjob' = [cjob EXCEPT ![c] = NoJob]
    /\ jobsSeen' = [jobsSeen EXCEPT ![c] = 0]
    /\ loopVar' = [loopVar EXCEPT ![c] = 0]
    /\ mutex' = NoThread

(* maxJobsTotal is reached, or CreateThreadPoolJob finds no memory. *)
AddRefused(c, j) ==
    /\ MayCall(c) /\ Free /\ hist[j] = "new"
    /\ TotalJobs >= attr.maxJobsTotal \/ AllocCanFail
    /\ hist' = [hist EXCEPT ![j] = "rejected"]
    /\ UNCHANGED <<poolVars, counters, queues, workerVars, callerVars,
                   jobId, age, retId>>

(* The job, numbered lastJobId, is appended to the queue of its priority,  *)
(* or ListAddTail fails; then AddWorker begins, having read the number of  *)
(* jobs and of non-persistent threads once.                                *)
AddEnqueue(c, j, priority, ok) ==
    /\ MayCall(c) /\ Free /\ hist[j] = "new"
    /\ TotalJobs < attr.maxJobsTotal
    /\ ok \/ AllocCanFail
    /\ highJobQ' = IF ok /\ priority = "HIGH" THEN Append(highJobQ, j) ELSE highJobQ
    /\ medJobQ'  = IF ok /\ priority = "MED"  THEN Append(medJobQ, j)  ELSE medJobQ
    /\ lowJobQ'  = IF ok /\ priority = "LOW"  THEN Append(lowJobQ, j)  ELSE lowJobQ
    /\ hist' = [hist EXCEPT ![j] = IF ok THEN "accepted" ELSE "rejected"]
    /\ jobId' = [jobId EXCEPT ![j] = lastJobId]
    /\ mutex' = c
    /\ Goto(c, "loop")
    /\ op' = [op EXCEPT ![c] = "add"]
    /\ cjob' = [cjob EXCEPT ![c] = j]
    /\ jobsSeen' = [jobsSeen EXCEPT ![c] = IF ok THEN TotalJobs + 1 ELSE TotalJobs]
    /\ loopVar' = [loopVar EXCEPT ![c] = totalThreads - persistentThreads]
    /\ UNCHANGED <<waiters, attr, lastJobId, shutdown, destroyed, counters,
                   persistentJob, workerVars, age, retId>>

(* The condition of AddWorker's loop; loopVar[c] is its variable threads. *)
NeedWorker(c) ==
    \/ loopVar[c] = 0
    \/ loopVar[c] # 0 /\ jobsSeen[c] \div loopVar[c] >= attr.jobsPerThread
    \/ totalThreads = busyThreads

AddWorker(c) ==
    /\ cpc[c] = "loop" /\ op[c] = "add"
    /\ Goto(c, IF NeedWorker(c) THEN "create" ELSE "addDone")
    /\ UNCHANGED <<poolVars, counters, queues, workerVars,
                   op, cjob, jobsSeen, loopVar, jobVars>>

(* A waiting worker is told of the job and the caller gets an id for it. *)
AddReturns(c) ==
    /\ cpc[c] = "addDone"
    /\ IF hist[cjob[c]] = "rejected" THEN wpc' = wpc ELSE SignalCondition
    /\ retId' = [retId EXCEPT ![cjob[c]] = lastJobId]
    /\ lastJobId' = lastJobId + 1
    /\ Return(c)
    /\ UNCHANGED <<waiters, attr, shutdown, destroyed, counters, queues, wjob,
                   wkind, timedOut, jobId, age, hist>>

-----------------------------------------------------------------------------
(* ThreadPoolAddPersistent                                                 *)

(* The pool is not below its maximum and has one non-persistent thread:    *)
(* EMAXTHREADS.                                                            *)
PersistentRefused ==
    /\ ~(totalThreads < attr.maxThreads)
    /\ totalThreads - persistentThreads - 1 = 0

AddPersistent(c, j) ==
    /\ MayCall(c) /\ Free /\ hist[j] = "new"
    /\ \/ /\ PersistentRefused
          /\ hist' = [hist EXCEPT ![j] = "rejected"]
          /\ UNCHANGED <<mutex, cpc, op, cjob>>
       \/ /\ ~PersistentRefused
          /\ mutex' = c
          /\ Goto(c, IF totalThreads < attr.maxThreads THEN "create" ELSE "handOver")
          /\ op' = [op EXCEPT ![c] = "persistent"]
          /\ cjob' = [cjob EXCEPT ![c] = j]
          /\ hist' = [hist EXCEPT ![j] = "offered"]
    /\ UNCHANGED <<waiters, attr, lastJobId, shutdown, destroyed, counters, queues,
                   workerVars, jobsSeen, loopVar, jobId, age, retId>>

(* CreateThreadPoolJob finds no memory: EOUTOFMEM. *)
PersistentNoMemory(c) ==
    /\ cpc[c] = "handOver" /\ AllocCanFail
    /\ hist' = [hist EXCEPT ![cjob[c]] = "rejected"]
    /\ Return(c)
    /\ UNCHANGED <<waiters, attr, lastJobId, shutdown, destroyed, counters, queues,
                   workerVars, jobId, age, retId>>

(* The job is put in the slot and the caller waits for it to be taken. *)
HandOver(c) ==
    /\ cpc[c] = "handOver"
    /\ persistentJob' = cjob[c]
    /\ jobId' = [jobId EXCEPT ![cjob[c]] = lastJobId]
    /\ hist' = [hist EXCEPT ![cjob[c]] = "accepted"]
    /\ SignalCondition
    /\ WaitStart(c, "apWait")
    /\ UNCHANGED <<attr, lastJobId, shutdown, destroyed, counters, highJobQ, medJobQ,
                   lowJobQ, wjob, wkind, timedOut, op, cjob, jobsSeen, loopVar,
                   age, retId>>

HandOverResumes(c) ==
    /\ cpc[c] = "apWait" /\ c \notin waiters /\ Free
    /\ \/ /\ persistentJob # NoJob
          /\ WaitStart(c, "apWait")
          /\ UNCHANGED <<op, cjob, jobsSeen, loopVar, retId, lastJobId>>
       \/ /\ persistentJob = NoJob
          /\ retId' = [retId EXCEPT ![cjob[c]] = lastJobId]
          /\ lastJobId' = lastJobId + 1
          /\ Return(c)
          /\ UNCHANGED waiters
    /\ UNCHANGED <<attr, shutdown, destroyed, counters, queues, workerVars,
                   jobId, age, hist>>

-----------------------------------------------------------------------------
(* ThreadPoolRemove                                                        *)

(* ListFind: the i-th job of q is the first one whose jobId is id. *)
Finds(q, id, i) == jobId[q[i]] = id /\ \A k \in 1..(i - 1) : jobId[q[k]] # id

Holds(q, id) == \E j \in ToSet(q) : jobId[j] = id

(* A caller gives the id that ThreadPoolAdd or ThreadPoolAddPersistent     *)
(* returned for job j; the queues are searched in order of priority, the   *)
(* persistent job last.  An id that is not found changes nothing.          *)
RemoveJob(c, j) ==
    /\ MayCall(c) /\ Free /\ retId[j] # -1
    /\ LET id == retId[j] IN
       \/ /\ \E i \in 1..Len(highJobQ) :
               /\ Finds(highJobQ, id, i)
               /\ highJobQ' = RemoveAt(highJobQ, i)
               /\ hist' = [hist EXCEPT ![highJobQ[i]] = "removed"]
          /\ UNCHANGED <<medJobQ, lowJobQ, persistentJob>>
       \/ /\ ~Holds(highJobQ, id)
          /\ \E i \in 1..Len(medJobQ) :
               /\ Finds(medJobQ, id, i)
               /\ medJobQ' = RemoveAt(medJobQ, i)
               /\ hist' = [hist EXCEPT ![medJobQ[i]] = "removed"]
          /\ UNCHANGED <<highJobQ, lowJobQ, persistentJob>>
       \/ /\ ~Holds(highJobQ, id) /\ ~Holds(medJobQ, id)
          /\ \E i \in 1..Len(lowJobQ) :
               /\ Finds(lowJobQ, id, i)
               /\ lowJobQ' = RemoveAt(lowJobQ, i)
               /\ hist' = [hist EXCEPT ![lowJobQ[i]] = "removed"]
          /\ UNCHANGED <<highJobQ, medJobQ, persistentJob>>
       \/ /\ ~Holds(highJobQ, id) /\ ~Holds(medJobQ, id) /\ ~Holds(lowJobQ, id)
          /\ persistentJob # NoJob /\ jobId[persistentJob] = id
          /\ persistentJob' = NoJob
          /\ hist' = [hist EXCEPT ![persistentJob] = "removed"]
          /\ UNCHANGED <<highJobQ, medJobQ, lowJobQ>>
    /\ UNCHANGED <<poolVars, counters, workerVars, callerVars, jobId, age, retId>>

-----------------------------------------------------------------------------
(* ThreadPoolInit's and ThreadPoolSetAttr's creation of the minimum        *)
(* threads; loopVar[c] is the number of threads still to create.           *)

SetAttr(c, a) ==
    /\ MayCall(c) /\ Free
    /\ attr' = a
    /\ mutex' = c
    /\ Goto(c, "loop")
    /\ op' = [op EXCEPT ![c] = "setattr"]
    /\ loopVar' = [loopVar EXCEPT ![c] =
                     IF totalThreads < a.minThreads THEN a.minThreads - totalThreads ELSE 0]
    /\ UNCHANGED <<waiters, lastJobId, shutdown, destroyed, counters, queues,
                   workerVars, cjob, jobsSeen, jobVars>>

(* Mutant: the loop runs once too often. *)
AddMinThreadsMutant(c) ==
    /\ cpc[c] = "loop" /\ op[c] \in {"init", "setattr"} /\ loopVar[c] >= 0
    /\ Goto(c, "create")
    /\ UNCHANGED <<poolVars, counters, queues, workerVars,
                   op, cjob, jobsSeen, loopVar, jobVars>>

AddMinThreads(c) ==
    /\ cpc[c] = "loop" /\ op[c] \in {"init", "setattr"} /\ loopVar[c] > 0
    /\ Goto(c, "create")
    /\ UNCHANGED <<poolVars, counters, queues, workerVars,
                   op, cjob, jobsSeen, loopVar, jobVars>>

(* ThreadPoolSetAttr signals the change, ThreadPoolInit does not. *)
SignalIfSetAttr(c) == IF op[c] = "setattr" THEN SignalCondition ELSE wpc' = wpc

MinThreadsDone(c) ==
    /\ cpc[c] = "loop" /\ op[c] \in {"init", "setattr"} /\ loopVar[c] = 0
    /\ SignalIfSetAttr(c)
    /\ Return(c)
    /\ UNCHANGED <<waiters, attr, lastJobId, shutdown, destroyed, counters, queues,
                   wjob, wkind, timedOut, jobVars>>

(* Mutant: the way out of the failure keeps the mutex. *)
MinThreadsFailMutant(c) ==
    /\ cpc[c] = "failed"
    /\ SignalIfSetAttr(c)
    /\ Goto(c, "sdEnter")
    /\ UNCHANGED <<mutex, waiters, attr, lastJobId, shutdown, destroyed, counters, queues,
                   wjob, wkind, timedOut, op, cjob, jobsSeen, loopVar, jobVars>>

(* The minimum could not be created: the pool is shut down. *)
MinThreadsFail(c) ==
    /\ cpc[c] = "failed"
    /\ SignalIfSetAttr(c)
    /\ mutex' = NoThread
    /\ Goto(c, "sdEnter")
    /\ UNCHANGED <<waiters, attr, lastJobId, shutdown, destroyed, counters, queues,
                   wjob, wkind, timedOut, op, cjob, jobsSeen, loopVar, jobVars>>

-----------------------------------------------------------------------------
(* ThreadPoolGetStats and ThreadPoolGetAttr.  They read tp->shutdown       *)
(* without the mutex, once to decide whether to lock and again to decide   *)
(* whether to unlock.  A call that finds shutdown set the first time       *)
(* changes nothing and is left out.                                        *)

GetStats(c) ==
    /\ c \in StatsCallers /\ MayCall(c) /\ ~shutdown /\ ~destroyed
    /\ Goto(c, "gsLock")
    /\ UNCHANGED <<poolVars, counters, queues, workerVars,
                   op, cjob, jobsSeen, loopVar, jobVars>>

GetStatsLocks(c) ==
    /\ cpc[c] = "gsLock" /\ Free
    /\ mutex' = c
    /\ Goto(c, "gsRead")
    /\ UNCHANGED <<waiters, attr, lastJobId, shutdown, destroyed, counters, queues,
                   workerVars, op, cjob, jobsSeen, loopVar, jobVars>>

(* A caller that returns without unlocking is at "leaked". *)
GetStatsReturns(c) ==
    /\ cpc[c] = "gsRead"
    /\ IF shutdown THEN Goto(c, "leaked") /\ UNCHANGED mutex
       ELSE Goto(c, "idle") /\ mutex' = NoThread
    /\ UNCHANGED <<waiters, attr, lastJobId, shutdown, destroyed, counters, queues,
                   workerVars, op, cjob, jobsSeen, loopVar, jobVars>>

-----------------------------------------------------------------------------
(* ThreadPoolShutdown                                                      *)

(* Mutant: the pool is destroyed under its last thread. *)
AwaitThreadsMutant(c) ==
    IF totalThreads > 1
    THEN WaitStart(c, "sdWait") /\ UNCHANGED <<destroyed, op, cjob, jobsSeen, loopVar>>
    ELSE Return(c) /\ destroyed' = TRUE /\ UNCHANGED waiters

(* Wait for all threads to finish, or destroy the pool. *)
AwaitThreads(c) ==
    IF totalThreads > 0
    THEN WaitStart(c, "sdWait") /\ UNCHANGED <<destroyed, op, cjob, jobsSeen, loopVar>>
    ELSE Return(c) /\ destroyed' = TRUE /\ UNCHANGED waiters

(* Everything queued is freed and the workers are told. *)
Shutdown(c) ==
    /\ \/ MayCall(c) /\ ~shutdown /\ (LateCalls \/ \A d \in Callers : cpc[d] = "idle")
       \/ cpc[c] = "sdEnter"
    /\ Free
    /\ hist' = [j \in Jobs |->
                  IF j \in ToSet(highJobQ) \cup ToSet(medJobQ) \cup ToSet(lowJobQ)
                                           \cup {persistentJob}
                  THEN "discarded" ELSE hist[j]]
    /\ highJobQ' = <<>> /\ medJobQ' = <<>> /\ lowJobQ' = <<>>
    /\ persistentJob' = NoJob
    /\ shutdown' = TRUE
    /\ wpc' = [w \in Workers |-> IF wpc[w] = "wait" THEN "woken" ELSE wpc[w]]
    /\ AwaitThreads(c)
    /\ UNCHANGED <<attr, lastJobId, counters, wjob, wkind, timedOut,
                   jobId, age, retId>>

ShutdownResumes(c) ==
    /\ cpc[c] = "sdWait" /\ c \notin waiters /\ Free
    /\ AwaitThreads(c)
    /\ UNCHANGED <<attr, lastJobId, shutdown, counters, queues, workerVars, jobVars>>

-----------------------------------------------------------------------------
(* Time passes: every queued job has waited one unit longer.  A critical   *)
(* section reads the clock once, so time passes when nobody is in one.     *)
Tick ==
    /\ mutex = NoThread /\ ~destroyed
    /\ LET queued == ToSet(highJobQ) \cup ToSet(medJobQ) \cup ToSet(lowJobQ) IN
         /\ \E j \in queued : age[j] < AgeCap
         /\ age' = [j \in Jobs |-> IF j \in queued /\ age[j] < AgeCap
                                   THEN age[j] + 1 ELSE age[j]]
    /\ UNCHANGED <<poolVars, counters, queues, workerVars, callerVars,
                   jobId, retId, hist>>

(* ThreadPoolInit has initialised the structure and holds the mutex. *)
Init ==
    /\ mutex = InitCaller /\ waiters = {} /\ attr = InitAttr
    /\ lastJobId = 0 /\ shutdown = FALSE /\ destroyed = FALSE
    /\ totalThreads = 0 /\ pendingWorkerThreadStart = 0 /\ busyThreads = 0
    /\ persistentThreads = 0 /\ idleThreads = 0 /\ workerThreads = 0
    /\ highJobQ = <<>> /\ medJobQ = <<>> /\ lowJobQ = <<>> /\ persistentJob = NoJob
    /\ wpc = [w \in Workers |-> "none"] /\ wjob = [w \in Workers |-> NoJob]
    /\ wkind = [w \in Workers |-> "fresh"] /\ timedOut = [w \in Workers |-> FALSE]
    /\ cpc = [c \in Callers |-> IF c = InitCaller THEN "loop" ELSE "idle"]
    /\ op = [c \in Callers |-> IF c = InitCaller THEN "init" ELSE "none"]
    /\ cjob = [c \in Callers |-> NoJob] /\ jobsSeen = [c \in Callers |-> 0]
    /\ loopVar = [c \in Callers |-> IF c = InitCaller THEN attr.minThreads ELSE 0]
    /\ jobId = [j \in Jobs |-> -1] /\ retId = [j \in Jobs |-> -1]
    /\ age = [j \in Jobs |-> 0] /\ hist = [j \in Jobs |-> "new"]

(* What a worker does by itself. *)
WorkerStep(w) ==
    \/ WorkerStart(w) \/ WorkerTop(w) \/ WorkerDie(w) \/ WorkerWait(w)
    \/ WorkerLeaveWait(w) \/ WorkerWakes(w) \/ BumpMed(w) \/ BumpLow(w)
    \/ WorkerStop(w) \/ WorkerStrays(w) \/ TakePersistent(w) \/ TakeJob(w)

(* What a caller does once it has entered an operation. *)
CallerStep(c) ==
    \/ CreateWaits(c) \/ CreateFails(c) \/ (\E w \in Workers : CreateThread(c, w))
    \/ CreateResumes(c) \/ AddWorker(c) \/ AddReturns(c)
    \/ PersistentNoMemory(c) \/ HandOver(c) \/ HandOverResumes(c)
    \/ AddMinThreads(c) \/ MinThreadsDone(c) \/ MinThreadsFail(c)
    \/ GetStatsLocks(c) \/ GetStatsReturns(c) \/ ShutdownResumes(c)

(* The calls. *)
Call(c) ==
    \/ \E j \in Jobs \ PersistentJobs :
         \/ AddRefused(c, j)
         \/ \E priority \in Priorities, ok \in BOOLEAN :
              AddEnqueue(c, j, priority, ok)
    \/ \E j \in PersistentJobs : AddPersistent(c, j)
    \/ \E j \in Jobs : RemoveJob(c, j)
    \/ \E a \in NewAttrs : SetAttr(c, a)
    \/ GetStats(c)
    \/ Shutdown(c)

Next ==
    \/ \E w \in Workers : WorkerStep(w) \/ WorkerTimeOut(w) \/ JobReturns(w)
    \/ \E c \in Callers : CallerStep(c) \/ Call(c)
    \/ Tick

Spec == Init /\ [][Next]_vars

(* Every thread goes on: workers, callers inside an operation, and jobs    *)
(* that are not persistent.  The fairness is strong because a thread that  *)
(* waits for the mutex is disabled whenever another one holds it; idle     *)
(* workers hold it only for an instant every maxIdleTime.                  *)
Fairness ==
    /\ \A w \in Workers :
         /\ SF_vars(WorkerStep(w))
         /\ WF_vars(JobReturns(w) /\ wjob[w] \notin PersistentJobs)
    /\ \A c \in Callers : SF_vars(CallerStep(c) \/ (cpc[c] = "sdEnter" /\ Shutdown(c)))

FairSpec == Spec /\ Fairness

-----------------------------------------------------------------------------
(* Types                                                                   *)

Holding == {"loop", "create", "addDone", "handOver", "failed", "gsRead"}
Blocked == {"cwWait", "cwStart", "apWait", "sdWait"}
WorkerPC == {"none", "starting", "top", "check", "wait", "woken", "bump", "run"}
CallerPC == {"idle", "gsLock", "sdEnter", "leaked"} \cup Holding \cup Blocked
JobHist == {"new", "offered", "accepted", "done", "removed", "discarded",
            "rejected", "lost"}

(* Every variable has its type. *)
TypeOK ==
    /\ mutex \in Workers \cup Callers \cup {NoThread}
    /\ waiters \subseteq Callers
    /\ attr \in ThreadPoolAttr
    /\ lastJobId \in Nat /\ shutdown \in BOOLEAN /\ destroyed \in BOOLEAN
    /\ totalThreads \in Nat /\ pendingWorkerThreadStart \in {0, 1}
    /\ busyThreads \in Nat /\ persistentThreads \in Nat
    /\ idleThreads \in Nat /\ workerThreads \in Nat
    /\ highJobQ \in Seq(Jobs) /\ medJobQ \in Seq(Jobs) /\ lowJobQ \in Seq(Jobs)
    /\ persistentJob \in Jobs \cup {NoJob}
    /\ wpc \in [Workers -> WorkerPC]
    /\ wjob \in [Workers -> Jobs \cup {NoJob}]
    /\ wkind \in [Workers -> {"fresh", "regular", "persistent"}]
    /\ timedOut \in [Workers -> BOOLEAN]
    /\ cpc \in [Callers -> CallerPC]
    /\ op \in [Callers -> {"none", "init", "add", "persistent", "setattr"}]
    /\ cjob \in [Callers -> Jobs \cup {NoJob}]
    /\ jobsSeen \in [Callers -> Nat] /\ loopVar \in [Callers -> Nat]
    /\ jobId \in [Jobs -> Int] /\ retId \in [Jobs -> Int] /\ age \in [Jobs -> Nat]
    /\ hist \in [Jobs -> JobHist]

-----------------------------------------------------------------------------
(* Safety                                                                  *)

(* tp->mutex excludes: whoever is inside a critical section of             *)
(* WorkerThread or of an interface function holds it, so that no two       *)
(* threads are inside.                                                     *)
MutualExclusion ==
    /\ \A w \in Workers : wpc[w] \in {"check", "bump"} => mutex = w
    /\ \A c \in Callers : cpc[c] \in Holding => mutex = c

(* tp->mutex is released on every way out of WorkerThread and of the       *)
(* interface functions: a thread that holds it is inside one of their      *)
(* critical sections.  ThreadPoolGetStats and ThreadPoolGetAttr do not     *)
(* keep to this when shutdown comes between their lock and their unlock.   *)
MutexReleased ==
    /\ \A w \in Workers : mutex = w => wpc[w] \in {"check", "bump"}
    /\ \A c \in Callers : mutex = c => cpc[c] \in Holding

Starting   == {w \in Workers : wpc[w] = "starting"}
Busy       == {w \in Workers : wjob[w] # NoJob}
Persistent == {w \in Busy : wkind[w] = "persistent"}
Regular    == {w \in Busy : wkind[w] = "regular"}
Idle       == {w \in Workers : wpc[w] \in {"check", "wait", "woken"}}

(* The counters of ThreadPool and of its statistics tell how many threads  *)
(* there are, how many are starting, run a job, run a persistent job, wait *)
(* for a job or run an ordinary one.                                       *)
CountersAgree ==
    /\ totalThreads = Cardinality(Alive)
    /\ pendingWorkerThreadStart = Cardinality(Starting)
    /\ busyThreads = Cardinality(Busy)
    /\ persistentThreads = Cardinality(Persistent)
    /\ idleThreads = Cardinality(Idle)
    /\ workerThreads = Cardinality(Regular)

(* "pool will never have more than this number of threads" (ThreadPool.h): *)
(* threads that run or are starting never exceed maxThreads while the      *)
(* attributes are those of ThreadPoolInit.                                 *)
AtMostMaxThreads ==
    attr = InitAttr /\ NewAttrs = {} /\ InitAttr.maxThreads # INFINITE_THREADS =>
        totalThreads + pendingWorkerThreadStart <= attr.maxThreads

(* "pool will never have less than this number of threads" (ThreadPool.h): *)
(* once ThreadPoolInit has returned and until shutdown, idle workers do    *)
(* not leave the pool below minThreads.                                    *)
AtLeastMinThreads ==
    Ready /\ ~shutdown /\ NewAttrs = {} => totalThreads >= attr.minThreads

Running(j) == \E w \in Workers : wpc[w] = "run" /\ wjob[w] = j
Queued(j)  == j \in ToSet(highJobQ) \cup ToSet(medJobQ) \cup ToSet(lowJobQ)
                    \cup {persistentJob}

(* Where a job is, for the abstract pool. *)
JobState(j) ==
    IF hist[j] = "offered" THEN "new"
    ELSE IF hist[j] # "accepted" THEN hist[j]
    ELSE IF Running(j) THEN "running" ELSE IF Queued(j) THEN "queued" ELSE "nowhere"

(* As many jobs as maxThreads allows can run at the same time. *)
RunLimit == IF NewAttrs = {} /\ InitAttr.maxThreads # INFINITE_THREADS
            THEN InitAttr.maxThreads ELSE Cardinality(Workers)

Pool == INSTANCE JobPool WITH
            MaxRunning <- RunLimit, MayLose <- AllocCanFail,
            status <- [j \in Jobs |-> JobState(j)]

(* The pool keeps the promise of JobPool: no accepted job is run twice,    *)
(* run after it was removed, or removed while it runs, and none is lost    *)
(* but for want of memory in BumpPriority.                                 *)
ImplementsJobPool == Pool!JPSpec

(* When ThreadPoolShutdown has returned no accepted job is left without    *)
(* having run or having been given to its free function, and no thread is  *)
(* left that could touch the pool.                                         *)
ShutdownLeavesNothing ==
    destroyed => /\ \A j \in Jobs : hist[j] \notin {"accepted", "offered", "lost"}
                 /\ \A w \in Workers : wpc[w] = "none"
                 /\ \A c \in Callers : cpc[c] = "idle"

-----------------------------------------------------------------------------
(* Liveness                                                                *)

(* "Job will be run as soon as possible" (ThreadPool.h): a job accepted by *)
(* ThreadPoolAdd ends up run, removed, or discarded by shutdown, whichever *)
(* threads come, go or fail to be created meanwhile.                       *)
JobsAreRun ==
    \A j \in Jobs \ PersistentJobs :
        hist[j] = "accepted" ~> hist[j] \in {"done", "removed", "discarded"}

(* No caller stays inside the pool: neither the wait for a starting thread *)
(* in CreateWorker nor the wait for the workers to leave in                *)
(* ThreadPoolShutdown lasts forever.                                       *)
CallsReturn == \A c \in Callers : cpc[c] # "idle" ~> cpc[c] = "idle"

(* "Waits for all threads to finish. May block indefinitely if jobs do not *)
(* exit." (ThreadPool.h): when all jobs exit, ThreadPoolShutdown ends.     *)
ShutdownEnds == shutdown ~> destroyed

=============================================================================
