-------------------------- MODULE ThreadPoolProofs --------------------------
(***************************************************************************)
(* Proofs about ThreadPool, for any number of threads, callers and jobs    *)
(* and any attributes: the mutex and the counters, the bounds on the       *)
(* number of threads, that ThreadPool implements JobPool, and what         *)
(* ThreadPoolShutdown leaves.                                              *)
(***************************************************************************)
EXTENDS ThreadPool, FiniteSetTheorems, ListLemmas

LOCAL INSTANCE SequencesExt   \* RemoveAt, ToSet

(***************************************************************************)
(* Types: what TypeOK says, except that the counters and the loop variable *)
(* are only integers.  That they never are negative rests on what they     *)
(* count and comes last.                                                   *)
(***************************************************************************)
PoolTypes ==
    /\ mutex \in Workers \cup Callers \cup {NoThread}
    /\ waiters \subseteq Callers
    /\ attr \in ThreadPoolAttr
    /\ lastJobId \in Nat /\ shutdown \in BOOLEAN /\ destroyed \in BOOLEAN
    /\ pendingWorkerThreadStart \in {0, 1}
    /\ totalThreads \in Int /\ busyThreads \in Int /\ persistentThreads \in Int
    /\ idleThreads \in Int /\ workerThreads \in Int

QueueTypes ==
    /\ highJobQ \in Seq(Jobs) /\ medJobQ \in Seq(Jobs) /\ lowJobQ \in Seq(Jobs)
    /\ persistentJob \in Jobs \cup {NoJob}

WorkerTypes ==
    /\ wpc \in [Workers -> WorkerPC]
    /\ wjob \in [Workers -> Jobs \cup {NoJob}]
    /\ wkind \in [Workers -> {"fresh", "regular", "persistent"}]
    /\ timedOut \in [Workers -> BOOLEAN]

CallerTypes ==
    /\ cpc \in [Callers -> CallerPC]
    /\ op \in [Callers -> {"none", "init", "add", "persistent", "setattr"}]
    /\ cjob \in [Callers -> Jobs \cup {NoJob}]
    /\ jobsSeen \in [Callers -> Nat] /\ loopVar \in [Callers -> Int]

JobTypes ==
    /\ jobId \in [Jobs -> Int] /\ retId \in [Jobs -> Int] /\ age \in [Jobs -> Nat]
    /\ hist \in [Jobs -> JobHist]

Types == PoolTypes /\ QueueTypes /\ WorkerTypes /\ CallerTypes /\ JobTypes

(* ListDelNode on a list of jobs leaves a list of jobs. *)
LEMMA RemoveAtType ==
    ASSUME NEW S, NEW q \in Seq(S), NEW i \in 1..Len(q)
    PROVE  RemoveAt(q, i) \in Seq(S)
BY DEF RemoveAt

(* The first job of a queue is a job and the rest is a queue. *)
LEMMA HeadTailType ==
    ASSUME NEW q \in Seq(Jobs), q # <<>>
    PROVE  Head(q) \in Jobs /\ Tail(q) \in Seq(Jobs)
OBVIOUS

(* A queue to which a job is added is a queue. *)
LEMMA AppendType ==
    ASSUME NEW q \in Seq(Jobs), NEW j \in Jobs
    PROVE  Append(q, j) \in Seq(Jobs)
OBVIOUS

(* Writing one element of a function keeps its type. *)
LEMMA UpdateType ==
    ASSUME NEW S, NEW T, NEW f \in [S -> T], NEW x, NEW v \in T
    PROVE  [f EXCEPT ![x] = v] \in [S -> T]
OBVIOUS

(* The structure as ThreadPoolInit fills it has the right types. *)
LEMMA TypesInit == Init => Types
<1> SUFFICES ASSUME Init PROVE Types
  OBVIOUS
<1>1. PoolTypes
  <2>1. mutex \in Workers \cup Callers \cup {NoThread}
    BY ThreadsAssumption DEF Init
  <2>2. attr \in ThreadPoolAttr
    BY AttrAssumption DEF Init
  <2>3. shutdown \in BOOLEAN /\ destroyed \in BOOLEAN
    BY Zenon DEF Init
  <2>4. QED
    BY <2>1, <2>2, <2>3 DEF Init, PoolTypes
<1>2. QueueTypes /\ WorkerTypes
  BY DEF Init, QueueTypes, WorkerTypes, WorkerPC
<1>3. CallerTypes
  BY AttrAssumption DEF Init, CallerTypes, CallerPC, Holding, Blocked, ThreadPoolAttr
<1>4. JobTypes
  BY DEF Init, JobTypes, JobHist
<1>5. QED
  BY <1>1, <1>2, <1>3, <1>4 DEF Types

(* Every step of a worker keeps the types. *)
LEMMA TypesWorker ==
    ASSUME Types, NEW w \in Workers,
           WorkerStep(w) \/ WorkerTimeOut(w) \/ JobReturns(w)
    PROVE  Types'
<1> USE DEF Types, PoolTypes, QueueTypes, WorkerTypes, WorkerPC
<1>1. CASE WorkerStart(w)
  BY <1>1 DEF WorkerStart, BroadcastStart, queues, callerVars, jobVars, CallerTypes, JobTypes
<1>2. CASE WorkerTop(w)
  BY <1>2 DEF WorkerTop, queues, callerVars, jobVars, CallerTypes, JobTypes
<1>3. CASE WorkerDie(w)
  BY <1>3 DEF WorkerDie, WorkerExit, BroadcastStart, queues, callerVars, jobVars,
              CallerTypes, JobTypes
<1>4. CASE WorkerWait(w)
  BY <1>4 DEF WorkerWait, queues, counters, callerVars, jobVars, CallerTypes, JobTypes
<1>5. CASE WorkerLeaveWait(w)
  BY <1>5 DEF WorkerLeaveWait, poolVars, queues, callerVars, jobVars, CallerTypes, JobTypes
<1>6. CASE WorkerWakes(w)
  BY <1>6 DEF WorkerWakes, queues, counters, callerVars, jobVars, CallerTypes, JobTypes
<1>7. CASE BumpMed(w)
  <2>1. /\ medJobQ # <<>> /\ medJobQ' = Tail(medJobQ)
        /\ highJobQ' \in {highJobQ, Append(highJobQ, Head(medJobQ))}
        /\ hist' \in {hist, [hist EXCEPT ![Head(medJobQ)] = "lost"]}
        /\ UNCHANGED <<poolVars, counters, lowJobQ, persistentJob, workerVars, callerVars,
                       jobId, age, retId>>
    BY <1>7 DEF BumpMed, MedStarved, JobLost
  <2>2. QueueTypes'
    <3>1. Head(medJobQ) \in Jobs /\ Tail(medJobQ) \in Seq(Jobs)
      BY <2>1, HeadTailType
    <3>2. highJobQ' \in Seq(Jobs)
      BY <2>1, <3>1, AppendType
    <3>3. QED
      BY <2>1, <3>1, <3>2
  <2>3. JobTypes'
    BY <2>1 DEF JobTypes, JobHist
  <2>4. QED
    BY <2>1, <2>2, <2>3 DEF poolVars, counters, workerVars, callerVars, CallerTypes
<1>8. CASE BumpLow(w)
  <2>1. /\ lowJobQ # <<>> /\ lowJobQ' = Tail(lowJobQ)
        /\ medJobQ' \in {medJobQ, Append(medJobQ, Head(lowJobQ))}
        /\ hist' \in {hist, [hist EXCEPT ![Head(lowJobQ)] = "lost"]}
        /\ UNCHANGED <<poolVars, counters, highJobQ, persistentJob, workerVars, callerVars,
                       jobId, age, retId>>
    BY <1>8 DEF BumpLow, LowStarved, JobLost
  <2>2. QueueTypes'
    <3>1. Head(lowJobQ) \in Jobs /\ Tail(lowJobQ) \in Seq(Jobs)
      BY <2>1, HeadTailType
    <3>2. medJobQ' \in Seq(Jobs)
      BY <2>1, <3>1, AppendType
    <3>3. QED
      BY <2>1, <3>1, <3>2
  <2>3. JobTypes'
    BY <2>1 DEF JobTypes, JobHist
  <2>4. QED
    BY <2>1, <2>2, <2>3 DEF poolVars, counters, workerVars, callerVars, CallerTypes
<1>9. CASE WorkerStop(w) \/ WorkerStrays(w)
  <2>1. /\ WorkerExit(w)
        /\ UNCHANGED <<attr, lastJobId, shutdown, destroyed, pendingWorkerThreadStart,
                       busyThreads, persistentThreads, idleThreads, workerThreads,
                       queues, wjob, timedOut, callerVars, jobVars>>
    BY <1>9 DEF WorkerStop, WorkerStrays
  <2>2. QED
    BY <2>1 DEF WorkerExit, BroadcastStart, queues, callerVars, jobVars, CallerTypes, JobTypes
<1>10. CASE TakePersistent(w)
  BY <1>10 DEF TakePersistent, RunJob, BroadcastStart, callerVars, jobVars,
               CallerTypes, JobTypes
<1>11. CASE TakeJob(w)
  <2>1. PICK j \in Jobs : RunJob(w, j, "regular")
    BY <1>11, HeadTailType DEF TakeJob
  <2>2. QueueTypes'
    BY <1>11, HeadTailType DEF TakeJob
  <2>3. workerThreads' = workerThreads + 1
        /\ UNCHANGED <<waiters, attr, lastJobId, shutdown, destroyed, totalThreads,
                       pendingWorkerThreadStart, persistentThreads, idleThreads,
                       timedOut, callerVars, jobVars>>
    BY <1>11 DEF TakeJob
  <2>4. PoolTypes' /\ WorkerTypes'
    BY <2>1, <2>3 DEF RunJob
  <2>5. CallerTypes' /\ JobTypes'
    BY <2>3 DEF callerVars, jobVars, CallerTypes, JobTypes
  <2>6. QED
    BY <2>2, <2>4, <2>5
<1>12. CASE WorkerTimeOut(w)
  BY <1>12 DEF WorkerTimeOut, poolVars, counters, queues, callerVars, jobVars,
               CallerTypes, JobTypes
<1>13. CASE JobReturns(w)
  BY <1>13 DEF JobReturns, poolVars, counters, queues, callerVars, CallerTypes, JobTypes,
               JobHist
<1>14. QED
  BY <1>1, <1>2, <1>3, <1>4, <1>5, <1>6, <1>7, <1>8, <1>9, <1>10, <1>11, <1>12, <1>13
     DEF WorkerStep

(* Every step of CreateWorker keeps the types. *)
LEMMA TypesCreate ==
    ASSUME Types, NEW c \in Callers,
           \/ CreateWaits(c) \/ CreateFails(c) \/ CreateResumes(c)
           \/ \E w \in Workers : CreateThread(c, w)
    PROVE  Types'
<1> USE DEF Types, PoolTypes, CallerTypes, CallerPC, Holding, Blocked
<1>1. ASSUME NEW ok \in BOOLEAN, CreateReturns(c, ok)
      PROVE  /\ mutex' \in Workers \cup Callers \cup {NoThread}
             /\ cpc' \in [Callers -> CallerPC] /\ loopVar' \in [Callers -> Int]
  BY <1>1 DEF CreateReturns
<1>2. CASE CreateWaits(c)
  BY <1>2 DEF CreateWaits, WaitStart, counters, queues, workerVars, jobVars,
              QueueTypes, WorkerTypes, JobTypes
<1>3. CASE CreateFails(c)
  BY <1>1, <1>3 DEF CreateFails, counters, queues, workerVars, jobVars,
              QueueTypes, WorkerTypes, JobTypes
<1>4. ASSUME NEW w \in Workers, CreateThread(c, w) PROVE Types'
  BY <1>4 DEF CreateThread, WaitStart, queues, jobVars, QueueTypes, WorkerTypes, JobTypes,
              WorkerPC
<1>5. CASE CreateResumes(c)
  <2>1. mutex' \in Workers \cup Callers \cup {NoThread} /\ waiters' \subseteq Callers
        /\ cpc' \in [Callers -> CallerPC] /\ loopVar' \in [Callers -> Int]
    BY <1>1, <1>5 DEF CreateResumes, WaitStart
  <2>2. UNCHANGED <<attr, lastJobId, shutdown, destroyed, counters, queues,
                    workerVars, op, cjob, jobsSeen, jobVars>>
    BY <1>5 DEF CreateResumes
  <2>3. QED
    BY <2>1, <2>2 DEF counters, queues, workerVars, jobVars, QueueTypes, WorkerTypes, JobTypes
<1>6. QED
  BY <1>2, <1>3, <1>4, <1>5

(* pthread_cond_signal(&tp->condition) leaves every worker at one of its   *)
(* positions.                                                              *)
LEMMA SignalType ==
    ASSUME wpc \in [Workers -> WorkerPC], SignalCondition
    PROVE  wpc' \in [Workers -> WorkerPC]
BY DEF SignalCondition, Waiting, WorkerPC

(* A caller that returns or waits keeps its variables' types. *)
LEMMA ReturnType ==
    ASSUME CallerTypes, NEW c \in Callers, Return(c)
    PROVE  CallerTypes' /\ mutex' = NoThread
BY DEF Return, Goto, CallerTypes, CallerPC

(* So does a caller that waits on start_and_shutdown. *)
LEMMA WaitStartType ==
    ASSUME CallerTypes, PoolTypes, NEW c \in Callers, NEW pc \in CallerPC, WaitStart(c, pc),
           UNCHANGED <<op, cjob, jobsSeen, loopVar>>
    PROVE  CallerTypes' /\ mutex' = NoThread /\ waiters' \subseteq Callers
BY DEF WaitStart, CallerTypes, PoolTypes

(* So does the end of ThreadPoolShutdown. *)
LEMMA AwaitThreadsType ==
    ASSUME CallerTypes, PoolTypes, NEW c \in Callers, AwaitThreads(c)
    PROVE  /\ CallerTypes' /\ mutex' = NoThread /\ waiters' \subseteq Callers
           /\ destroyed' \in BOOLEAN
<1>1. CASE totalThreads > 0
  BY <1>1, WaitStartType DEF AwaitThreads, PoolTypes, CallerPC, Blocked
<1>2. CASE ~(totalThreads > 0)
  <2>1. destroyed' \in BOOLEAN
    BY <1>2, Zenon DEF AwaitThreads
  <2>2. QED
    BY <1>2, <2>1, ReturnType DEF AwaitThreads, PoolTypes
<1>3. QED
  BY <1>1, <1>2

(* Every step of a caller inside another function keeps the types. *)
LEMMA TypesCaller ==
    ASSUME Types, NEW c \in Callers,
           \/ AddWorker(c) \/ AddReturns(c) \/ PersistentNoMemory(c) \/ HandOver(c)
           \/ HandOverResumes(c) \/ AddMinThreads(c) \/ MinThreadsDone(c)
           \/ MinThreadsFail(c) \/ GetStatsLocks(c) \/ GetStatsReturns(c)
           \/ ShutdownResumes(c)
    PROVE  Types'
<1> USE DEF Types, PoolTypes
<1>1. CASE AddWorker(c)
  BY <1>1 DEF CallerTypes, CallerPC, Holding, AddWorker, Goto, poolVars, counters, queues, workerVars, jobVars,
              QueueTypes, WorkerTypes, JobTypes
<1>2. CASE AddReturns(c)
  <2>1. wpc' \in [Workers -> WorkerPC]
    BY <1>2, SignalType DEF AddReturns, WorkerTypes
  <2>2. CallerTypes' /\ mutex' = NoThread
    BY <1>2, ReturnType DEF AddReturns
  <2>3. JobTypes'
    <3>1. retId' = [retId EXCEPT ![cjob[c]] = lastJobId] /\ UNCHANGED <<jobId, age, hist>>
      BY <1>2 DEF AddReturns
    <3>2. retId' \in [Jobs -> Int]
      BY <3>1, UpdateType DEF JobTypes
    <3>3. QED
      BY <3>1, <3>2 DEF JobTypes
  <2>4. WorkerTypes'
    BY <1>2, <2>1 DEF AddReturns, WorkerTypes
  <2>5. PoolTypes' /\ QueueTypes'
    BY <1>2, <2>2 DEF AddReturns, counters, queues, QueueTypes
  <2>6. QED
    BY <2>2, <2>3, <2>4, <2>5
<1>3. CASE PersistentNoMemory(c)
  <2>1. CallerTypes' /\ mutex' = NoThread
    BY <1>3, ReturnType DEF PersistentNoMemory
  <2>2. QED
    BY <1>3, <2>1 DEF PersistentNoMemory, counters, queues, workerVars,
                QueueTypes, WorkerTypes, JobTypes, JobHist
<1>4. CASE HandOver(c)
  <2>1. wpc' \in [Workers -> WorkerPC]
    BY <1>4, SignalType DEF HandOver, WorkerTypes
  <2>2. CallerTypes' /\ mutex' = NoThread /\ waiters' \subseteq Callers
    BY <1>4, WaitStartType DEF HandOver, CallerPC, Blocked
  <2>3. QueueTypes'
    BY <1>4 DEF HandOver, QueueTypes, CallerTypes
  <2>4. JobTypes'
    <3>1. /\ jobId' = [jobId EXCEPT ![cjob[c]] = lastJobId]
          /\ hist' = [hist EXCEPT ![cjob[c]] = "accepted"]
          /\ UNCHANGED <<age, retId>>
      BY <1>4 DEF HandOver
    <3>2. jobId' \in [Jobs -> Int]
      BY <3>1, UpdateType DEF JobTypes
    <3>3. hist' \in [Jobs -> JobHist]
      BY <3>1 DEF JobTypes, JobHist
    <3>4. QED
      BY <3>1, <3>2, <3>3 DEF JobTypes
  <2>5. WorkerTypes'
    BY <1>4, <2>1 DEF HandOver, WorkerTypes
  <2>6. PoolTypes'
    BY <1>4, <2>2 DEF HandOver, counters
  <2>7. QED
    BY <2>2, <2>3, <2>4, <2>5, <2>6
<1>5. CASE HandOverResumes(c)
  <2>1. CASE persistentJob # NoJob
    <3>1. CallerTypes' /\ mutex' = NoThread /\ waiters' \subseteq Callers
      BY <1>5, <2>1, WaitStartType DEF HandOverResumes, CallerPC, Blocked
    <3>2. QED
      BY <1>5, <2>1, <3>1 DEF HandOverResumes, counters, queues, workerVars,
                  QueueTypes, WorkerTypes, JobTypes
  <2>2. CASE persistentJob = NoJob
    <3>1. CallerTypes' /\ mutex' = NoThread
      BY <1>5, <2>2, ReturnType DEF HandOverResumes
    <3>2. QED
      BY <1>5, <2>2, <3>1 DEF HandOverResumes, counters, queues, workerVars,
                  QueueTypes, WorkerTypes, JobTypes
  <2>3. QED
    BY <2>1, <2>2
<1>6. CASE AddMinThreads(c)
  BY <1>6 DEF CallerTypes, CallerPC, Holding, AddMinThreads, Goto, poolVars, counters, queues, workerVars, jobVars,
              QueueTypes, WorkerTypes, JobTypes
<1>7. CASE MinThreadsDone(c)
  <2>1. wpc' \in [Workers -> WorkerPC]
    BY <1>7, SignalType DEF MinThreadsDone, SignalIfSetAttr, WorkerTypes
  <2>2. CallerTypes' /\ mutex' = NoThread
    BY <1>7, ReturnType DEF MinThreadsDone
  <2>3. QED
    BY <1>7, <2>1, <2>2 DEF MinThreadsDone, counters, queues, jobVars, QueueTypes,
                WorkerTypes, JobTypes
<1>8. CASE MinThreadsFail(c)
  <2>1. wpc' \in [Workers -> WorkerPC]
    BY <1>8, SignalType DEF MinThreadsFail, SignalIfSetAttr, WorkerTypes
  <2>2. QED
    BY <1>8, <2>1 DEF CallerTypes, CallerPC, MinThreadsFail, Goto, counters, queues, jobVars, QueueTypes,
                WorkerTypes, JobTypes
<1>9. CASE GetStatsLocks(c)
  BY <1>9 DEF CallerTypes, CallerPC, Holding, GetStatsLocks, Goto, counters, queues, workerVars, jobVars,
              QueueTypes, WorkerTypes, JobTypes
<1>10. CASE GetStatsReturns(c)
  BY <1>10 DEF CallerTypes, CallerPC, Holding, GetStatsReturns, Goto, counters, queues, workerVars, jobVars,
               QueueTypes, WorkerTypes, JobTypes
<1>11. CASE ShutdownResumes(c)
  BY <1>11, AwaitThreadsType DEF ShutdownResumes, counters, queues, workerVars, jobVars,
              QueueTypes, WorkerTypes, JobTypes
<1>12. QED
  BY <1>1, <1>2, <1>3, <1>4, <1>5, <1>6, <1>7, <1>8, <1>9, <1>10, <1>11

(* ThreadPoolShutdown, which empties the queues, keeps the types. *)
LEMMA TypesShutdown ==
    ASSUME Types, NEW c \in Callers, Shutdown(c)
    PROVE  Types'
<1> USE DEF Types
<1>1. CallerTypes' /\ mutex' = NoThread /\ waiters' \subseteq Callers /\ destroyed' \in BOOLEAN
  BY AwaitThreadsType DEF Shutdown
<1>2. shutdown' \in BOOLEAN
  BY Zenon DEF Shutdown
<1>3. PoolTypes'
  BY <1>1, <1>2 DEF Shutdown, PoolTypes, counters
<1>4. QueueTypes'
  BY DEF Shutdown, QueueTypes
<1>5. WorkerTypes'
  BY DEF Shutdown, WorkerTypes, WorkerPC
<1>6. JobTypes'
  BY DEF Shutdown, JobTypes, JobHist
<1>7. QED
  BY <1>1, <1>3, <1>4, <1>5, <1>6

(* Every call keeps the types. *)
LEMMA TypesCall ==
    ASSUME Types, NEW c \in Callers, Call(c)
    PROVE  Types'
<1> USE DEF Types
<1>1. ASSUME NEW j \in Jobs, AddRefused(c, j) PROVE Types'
  BY <1>1 DEF AddRefused, poolVars, counters, queues, workerVars, callerVars,
              PoolTypes, QueueTypes, WorkerTypes, CallerTypes, JobTypes, JobHist
<1>2. ASSUME NEW j \in Jobs, NEW priority \in Priorities, NEW ok \in BOOLEAN,
             AddEnqueue(c, j, priority, ok)
      PROVE  Types'
  <2>1. QueueTypes'
    BY <1>2 DEF AddEnqueue, QueueTypes
  <2>2. TotalJobs \in Nat
    BY DEF TotalJobs, QueueTypes
  <2>3. CallerTypes'
    BY <1>2, <2>2 DEF AddEnqueue, Goto, CallerTypes, CallerPC, Holding, PoolTypes
  <2>4. JobTypes'
    BY <1>2 DEF AddEnqueue, JobTypes, JobHist, PoolTypes
  <2>5. PoolTypes' /\ WorkerTypes'
    BY <1>2 DEF AddEnqueue, PoolTypes, WorkerTypes, counters, workerVars
  <2>6. QED
    BY <2>1, <2>3, <2>4, <2>5
<1>3. ASSUME NEW j \in Jobs, AddPersistent(c, j) PROVE Types'
  <2>1. CallerTypes'
    BY <1>3 DEF AddPersistent, Goto, CallerTypes, CallerPC, Holding
  <2>2. JobTypes'
    BY <1>3 DEF AddPersistent, JobTypes, JobHist
  <2>3. PoolTypes' /\ WorkerTypes' /\ QueueTypes'
    BY <1>3 DEF AddPersistent, PoolTypes, WorkerTypes, QueueTypes, counters, workerVars, queues
  <2>4. QED
    BY <2>1, <2>2, <2>3
<1>4. ASSUME NEW j \in Jobs, RemoveJob(c, j) PROVE Types'
  <2>1. QueueTypes'
    BY <1>4, RemoveAtType DEF RemoveJob, QueueTypes
  <2>2. JobTypes'
    BY <1>4 DEF RemoveJob, JobTypes, JobHist
  <2>3. PoolTypes' /\ WorkerTypes' /\ CallerTypes'
    BY <1>4 DEF RemoveJob, PoolTypes, WorkerTypes, CallerTypes, poolVars, counters,
                workerVars, callerVars
  <2>4. QED
    BY <2>1, <2>2, <2>3
<1>5. ASSUME NEW a \in NewAttrs, SetAttr(c, a) PROVE Types'
  <2>1. a \in ThreadPoolAttr
    BY AttrAssumption
  <2>2. CallerTypes'
    BY <1>5, <2>1 DEF SetAttr, Goto, CallerTypes, CallerPC, Holding, PoolTypes, ThreadPoolAttr
  <2>3. PoolTypes' /\ WorkerTypes' /\ QueueTypes' /\ JobTypes'
    BY <1>5, <2>1 DEF SetAttr, PoolTypes, WorkerTypes, QueueTypes, JobTypes, counters,
                      workerVars, queues, jobVars
  <2>4. QED
    BY <2>2, <2>3
<1>6. CASE GetStats(c)
  BY <1>6 DEF GetStats, Goto, poolVars, counters, queues, workerVars, jobVars,
              PoolTypes, QueueTypes, WorkerTypes, CallerTypes, JobTypes, CallerPC
<1>7. CASE Shutdown(c)
  BY <1>7, TypesShutdown
<1>8. QED
  BY <1>1, <1>2, <1>3, <1>4, <1>5, <1>6, <1>7, JobsAssumption DEF Call

(* Types is an invariant. *)
LEMMA TypesNext == Types /\ [Next]_vars => Types'
<1> SUFFICES ASSUME Types, [Next]_vars PROVE Types'
  OBVIOUS
<1>1. ASSUME NEW w \in Workers, WorkerStep(w) \/ WorkerTimeOut(w) \/ JobReturns(w)
      PROVE  Types'
  BY <1>1, TypesWorker
<1>2. ASSUME NEW c \in Callers, CallerStep(c) PROVE Types'
  BY <1>2, TypesCreate, TypesCaller DEF CallerStep
<1>3. ASSUME NEW c \in Callers, Call(c) PROVE Types'
  BY <1>3, TypesCall
<1>4. CASE Tick
  BY <1>4, SMTT(30) DEF Tick, Types, PoolTypes, QueueTypes, WorkerTypes, CallerTypes, JobTypes,
              poolVars, counters, queues, workerVars, callerVars
<1>5. CASE UNCHANGED vars
  BY <1>5 DEF vars, Types, PoolTypes, QueueTypes, WorkerTypes, CallerTypes, JobTypes,
              poolVars, counters, queues, workerVars, callerVars, jobVars
<1>6. QED
  BY <1>1, <1>2, <1>3, <1>4, <1>5 DEF Next

-----------------------------------------------------------------------------
(***************************************************************************)
(* Mutual exclusion.  MutexInv, which says who holds the mutex and where   *)
(* ThreadPoolGetStats leaves it held, is inductive together with Types: an *)
(* action that is not guarded by Free is taken at a position inside a      *)
(* critical section, so its thread holds the mutex and no other thread is  *)
(* inside.                                                                 *)
(***************************************************************************)
MutexInv ==
    /\ \A w \in Workers : wpc[w] \in {"check", "bump"} <=> mutex = w
    /\ \A c \in Callers : cpc[c] \in Holding \cup {"leaked"} <=> mutex = c

(* No step of a worker puts a second thread in a critical section. *)
LEMMA MutexWorker ==
    ASSUME Types, MutexInv, NEW w \in Workers,
           WorkerStep(w) \/ WorkerTimeOut(w) \/ JobReturns(w)
    PROVE  MutexInv'
<1> USE ThreadsAssumption DEF Types, WorkerTypes, MutexInv, Free
<1>0. mutex # w => wpc[w] \notin {"check", "bump"}
  OBVIOUS
<1>1. CASE WorkerStart(w)
  BY <1>1 DEF WorkerStart, callerVars
<1>2. CASE WorkerTop(w)
  BY <1>2 DEF WorkerTop, callerVars
<1>3. CASE WorkerDie(w)
  BY <1>3 DEF WorkerDie, WorkerExit, callerVars
<1>4. CASE WorkerWait(w)
  BY <1>4 DEF WorkerWait, callerVars
<1>5. CASE WorkerLeaveWait(w)
  BY <1>5 DEF WorkerLeaveWait, poolVars, callerVars
<1>6. CASE WorkerWakes(w)
  BY <1>6 DEF WorkerWakes, callerVars
<1>7. CASE BumpMed(w)
  BY <1>7 DEF BumpMed, poolVars, workerVars, callerVars
<1>8. CASE BumpLow(w)
  BY <1>8 DEF BumpLow, poolVars, workerVars, callerVars
<1>9. CASE WorkerStop(w) \/ WorkerStrays(w)
  BY <1>9 DEF WorkerStop, WorkerStrays, WorkerExit, Bumped, callerVars
<1>10. CASE TakePersistent(w)
  BY <1>10 DEF TakePersistent, RunJob, Bumped, callerVars
<1>11. CASE TakeJob(w)
  <2>1. wpc[w] = "bump" /\ wpc' = [wpc EXCEPT ![w] = "run"] /\ mutex' = NoThread /\ cpc' = cpc
    BY <1>11 DEF TakeJob, RunJob, Bumped, callerVars
  <2>2. QED
    BY <2>1
<1>12. CASE WorkerTimeOut(w)
  BY <1>12 DEF WorkerTimeOut, poolVars, callerVars
<1>13. CASE JobReturns(w)
  BY <1>13 DEF JobReturns, poolVars, callerVars
<1>14. QED
  BY <1>1, <1>2, <1>3, <1>4, <1>5, <1>6, <1>7, <1>8, <1>9, <1>10, <1>11, <1>12, <1>13
     DEF WorkerStep

(* A signal moves a worker from one place outside the mutex to another. *)
LEMMA SignalOutside ==
    ASSUME WorkerTypes, SignalCondition, NEW w \in Workers
    PROVE  wpc'[w] \in {"check", "bump"} <=> wpc[w] \in {"check", "bump"}
BY DEF SignalCondition, Waiting, WorkerTypes

(* A caller does not move a worker to or from BumpPriority. *)
LEMMA CallersLeaveBump ==
    ASSUME Types, NEW c \in Callers, CallerStep(c) \/ Call(c), NEW v \in Workers, wpc'[v] = "bump"
    PROVE  wpc[v] = "bump"
<1> USE DEF Types, WorkerTypes
<1>1. \/ wpc' = wpc \/ SignalCondition
      \/ \E w \in Workers : wpc' = [wpc EXCEPT ![w] = "starting"]
      \/ wpc' = [w \in Workers |-> IF wpc[w] = "wait" THEN "woken" ELSE wpc[w]]
  BY DEF CallerStep, CreateWaits, CreateFails, CreateThread, CreateResumes, AddWorker,
     AddReturns, PersistentNoMemory, HandOver, HandOverResumes, AddMinThreads, MinThreadsDone,
     MinThreadsFail, SignalIfSetAttr, GetStatsLocks, GetStatsReturns, ShutdownResumes, workerVars,
     Call, AddRefused, AddEnqueue, AddPersistent, RemoveJob, SetAttr, GetStats, Shutdown
<1>2. QED
  BY <1>1 DEF SignalCondition

(* Nor does a step of a caller inside a function of the pool. *)
LEMMA MutexCaller ==
    ASSUME Types, MutexInv, NEW c \in Callers, CallerStep(c)
    PROVE  MutexInv'
<1> USE ThreadsAssumption DEF Types, WorkerTypes, CallerTypes, MutexInv, Free, Holding
<1>1. CASE CreateWaits(c)
  BY <1>1 DEF CreateWaits, WaitStart, workerVars
<1>2. CASE CreateFails(c)
  BY <1>2 DEF CreateFails, CreateReturns, workerVars
<1>3. ASSUME NEW w \in Workers, CreateThread(c, w) PROVE MutexInv'
  BY <1>3 DEF CreateThread, WaitStart
<1>4. CASE CreateResumes(c)
  BY <1>4 DEF CreateResumes, CreateReturns, WaitStart, workerVars
<1>5. CASE AddWorker(c)
  BY <1>5 DEF AddWorker, Goto, poolVars, workerVars
<1>6. CASE AddReturns(c)
  <2>1. \A w \in Workers : wpc'[w] \in {"check", "bump"} <=> wpc[w] \in {"check", "bump"}
    BY <1>6, SignalOutside DEF AddReturns
  <2>2. QED
    BY <1>6, <2>1 DEF AddReturns, Return, Goto
<1>7. CASE PersistentNoMemory(c)
  BY <1>7 DEF PersistentNoMemory, Return, Goto, workerVars
<1>8. CASE HandOver(c)
  <2>1. \A w \in Workers : wpc'[w] \in {"check", "bump"} <=> wpc[w] \in {"check", "bump"}
    BY <1>8, SignalOutside DEF HandOver
  <2>2. QED
    BY <1>8, <2>1 DEF HandOver, WaitStart
<1>9. CASE HandOverResumes(c)
  BY <1>9 DEF HandOverResumes, WaitStart, Return, Goto, workerVars
<1>10. CASE AddMinThreads(c)
  BY <1>10 DEF AddMinThreads, Goto, poolVars, workerVars
<1>11. CASE MinThreadsDone(c)
  <2>1. \A w \in Workers : wpc'[w] \in {"check", "bump"} <=> wpc[w] \in {"check", "bump"}
    BY <1>11, SignalOutside DEF MinThreadsDone, SignalIfSetAttr
  <2>2. QED
    BY <1>11, <2>1 DEF MinThreadsDone, Return, Goto
<1>12. CASE MinThreadsFail(c)
  <2>1. \A w \in Workers : wpc'[w] \in {"check", "bump"} <=> wpc[w] \in {"check", "bump"}
    BY <1>12, SignalOutside DEF MinThreadsFail, SignalIfSetAttr
  <2>2. QED
    BY <1>12, <2>1 DEF MinThreadsFail, Goto
<1>13. CASE GetStatsLocks(c)
  BY <1>13 DEF GetStatsLocks, Goto, workerVars
<1>14. CASE GetStatsReturns(c)
  BY <1>14 DEF GetStatsReturns, Goto, workerVars
<1>15. CASE ShutdownResumes(c)
  BY <1>15 DEF ShutdownResumes, AwaitThreads, WaitStart, Return, Goto, workerVars
<1>16. QED
  BY <1>1, <1>2, <1>3, <1>4, <1>5, <1>6, <1>7, <1>8, <1>9, <1>10, <1>11, <1>12, <1>13,
     <1>14, <1>15 DEF CallerStep

(* Nor does a call. *)
LEMMA MutexCall ==
    ASSUME Types, MutexInv, NEW c \in Callers, Call(c)
    PROVE  MutexInv'
<1> USE ThreadsAssumption DEF Types, WorkerTypes, CallerTypes, MutexInv, Free, Holding, MayCall
<1>1. ASSUME NEW j \in Jobs, AddRefused(c, j) PROVE MutexInv'
  BY <1>1 DEF AddRefused, poolVars, workerVars, callerVars
<1>2. ASSUME NEW j \in Jobs, NEW priority, NEW ok, AddEnqueue(c, j, priority, ok)
      PROVE  MutexInv'
  <2>1. Free /\ mutex' = c /\ Goto(c, "loop") /\ wpc' = wpc
    BY <1>2 DEF AddEnqueue, workerVars
  <2>2. QED
    BY <2>1 DEF Goto
<1>3. ASSUME NEW j \in Jobs, AddPersistent(c, j) PROVE MutexInv'
  BY <1>3 DEF AddPersistent, Goto, workerVars
<1>4. ASSUME NEW j \in Jobs, RemoveJob(c, j) PROVE MutexInv'
  <2>1. mutex' = mutex /\ wpc' = wpc /\ cpc' = cpc
    BY <1>4 DEF RemoveJob, poolVars, workerVars, callerVars
  <2>2. QED
    BY <2>1
<1>5. ASSUME NEW a \in NewAttrs, SetAttr(c, a) PROVE MutexInv'
  BY <1>5 DEF SetAttr, Goto, workerVars
<1>6. CASE GetStats(c)
  BY <1>6 DEF GetStats, Goto, poolVars, workerVars
<1>7. CASE Shutdown(c)
  <2>1. /\ mutex = NoThread /\ mutex' = NoThread
        /\ \E pc \in {"sdWait", "idle"} : cpc' = [cpc EXCEPT ![c] = pc]
        /\ wpc' = [w \in Workers |-> IF wpc[w] = "wait" THEN "woken" ELSE wpc[w]]
    BY <1>7 DEF Shutdown, AwaitThreads, WaitStart, Return, Goto
  <2>2. QED
    BY <2>1
<1>8. QED
  BY <1>1, <1>2, <1>3, <1>4, <1>5, <1>6, <1>7, JobsAssumption DEF Call

(* MutexInv is inductive relative to Types. *)
LEMMA MutexNext == Types /\ MutexInv /\ [Next]_vars => MutexInv'
<1> SUFFICES ASSUME Types, MutexInv, [Next]_vars PROVE MutexInv'
  OBVIOUS
<1>1. CASE Tick
  BY <1>1 DEF Tick, MutexInv, poolVars, workerVars, callerVars
<1>2. CASE UNCHANGED vars
  BY <1>2 DEF vars, MutexInv, poolVars, workerVars, callerVars
<1>3. QED
  BY <1>1, <1>2, MutexWorker, MutexCaller, MutexCall DEF Next

(* tp->mutex excludes, for any number of workers, callers and jobs: no two *)
(* threads are inside critical sections of WorkerThread and the interface  *)
(* functions, whichever of them wait, time out, fail or are signalled.     *)
THEOREM MutexExcludes == Spec => []MutualExclusion
<1>1. Init => MutexInv
  BY ThreadsAssumption DEF Init, MutexInv, Holding
<1>2. MutexInv => MutualExclusion
  BY DEF MutexInv, MutualExclusion
<1>3. QED
  BY <1>1, <1>2, TypesInit, TypesNext, MutexNext, PTL DEF Spec

(* Only a caller of ThreadPoolGetStats gets to where the mutex leaks. *)
StatsInv == \A c \in Callers \ StatsCallers : cpc[c] \notin {"gsLock", "gsRead", "leaked"}

(* StatsInv is inductive relative to Types. *)
LEMMA StatsNext == Types /\ StatsInv /\ [Next]_vars => StatsInv'
<1> SUFFICES ASSUME Types, StatsInv, [Next]_vars PROVE StatsInv'
  OBVIOUS
<1> USE DEF Types, CallerTypes, StatsInv
<1>1. ASSUME NEW w \in Workers, WorkerStep(w) \/ WorkerTimeOut(w) \/ JobReturns(w) PROVE StatsInv'
  <2>1. cpc' = cpc
    BY <1>1 DEF WorkerStep, WorkerStart, WorkerTop, WorkerDie, WorkerWait, WorkerLeaveWait,
       WorkerWakes, BumpMed, BumpLow, WorkerStop, WorkerStrays, TakePersistent, TakeJob, WorkerTimeOut,
       JobReturns, callerVars
  <2>2. QED
    BY <2>1
<1>2. ASSUME NEW c \in Callers, CallerStep(c) \/ Call(c) PROVE StatsInv'
  <2>1. \A d \in Callers \ {c} : cpc'[d] = cpc[d]
    BY <1>2 DEF CallerStep, CreateWaits, CreateFails, CreateReturns, CreateThread, CreateResumes,
       AddWorker, AddReturns, PersistentNoMemory, HandOver, HandOverResumes, AddMinThreads,
       MinThreadsDone, MinThreadsFail, GetStatsLocks, GetStatsReturns, ShutdownResumes,
       AwaitThreads, WaitStart, Return, Goto, Call, AddRefused, AddEnqueue, AddPersistent,
       RemoveJob, SetAttr, GetStats, Shutdown, callerVars
  <2>2. cpc'[c] \in {"gsLock", "gsRead", "leaked"} => c \in StatsCallers
    BY <1>2 DEF CallerStep, CreateWaits, CreateFails, CreateReturns, CreateThread, CreateResumes,
       AddWorker, AddReturns, PersistentNoMemory, HandOver, HandOverResumes, AddMinThreads,
       MinThreadsDone, MinThreadsFail, GetStatsLocks, GetStatsReturns, ShutdownResumes,
       AwaitThreads, WaitStart, Return, Goto, Call, AddRefused, AddEnqueue, AddPersistent,
       RemoveJob, SetAttr, GetStats, Shutdown, callerVars, MayCall
  <2>3. QED
    BY <2>1, <2>2
<1>3. CASE Tick \/ UNCHANGED vars
  BY <1>3 DEF Tick, vars, callerVars
<1>4. QED
  BY <1>1, <1>2, <1>3 DEF Next

(* In a pool whose statistics and attributes nobody asks for, the mutex is *)
(* released on every way out, the failing ones too.                        *)
THEOREM MutexIsReleased == ASSUME StatsCallers = {} PROVE Spec => []MutexReleased
<1>1. Init => MutexInv /\ StatsInv
  BY ThreadsAssumption DEF Init, MutexInv, StatsInv, Holding
<1>2. MutexInv /\ StatsInv => MutexReleased
  BY DEF MutexInv, StatsInv, MutexReleased
<1>3. QED
  BY <1>1, <1>2, TypesInit, TypesNext, MutexNext, StatsNext, PTL DEF Spec

-----------------------------------------------------------------------------
(***************************************************************************)
(* The counters.  What a worker's local variables hold at each of its      *)
(* positions (WorkerLocal) makes CountersAgree inductive: WorkerTop undoes *)
(* exactly the counts that RunJob and its caller made.                     *)
(***************************************************************************)
WorkerLocal ==
    \A w \in Workers :
        /\ wpc[w] \in {"none", "starting"} => wkind[w] = "fresh" /\ wjob[w] = NoJob
        /\ wpc[w] = "top" => (wkind[w] = "fresh" <=> wjob[w] = NoJob)
        /\ wpc[w] \in {"check", "wait", "woken", "bump"} => wjob[w] = NoJob
        /\ wpc[w] = "run" => wkind[w] # "fresh" /\ wjob[w] # NoJob

(* One if w is in S: what w contributes to the number of elements of S. *)
Share(w, S) == IF w \in S THEN 1 ELSE 0

(* When only w enters or leaves, the size of a set of workers changes by   *)
(* what w contributes.                                                     *)
LEMMA OneMember ==
    ASSUME NEW S \in SUBSET Workers, NEW T \in SUBSET Workers, NEW w \in Workers,
           \A v \in Workers \ {w} : v \in S <=> v \in T
    PROVE  /\ Cardinality(S) \in Nat /\ Cardinality(T) \in Nat
           /\ Cardinality(T) = Cardinality(S) + Share(w, T) - Share(w, S)
<1>1. IsFiniteSet(S) /\ IsFiniteSet(T)
  BY ThreadsAssumption, FS_Subset
<1>2. Cardinality(S) \in Nat /\ Cardinality(T) \in Nat
  BY <1>1, FS_CardinalityType
<1>3. CASE w \in T /\ w \notin S
  <2>1. T = S \cup {w}
    BY <1>3
  <2>2. QED
    BY <1>1, <1>2, <1>3, <2>1, FS_AddElement DEF Share
<1>4. CASE w \in S /\ w \notin T
  <2>1. S = T \cup {w}
    BY <1>4
  <2>2. QED
    BY <1>1, <1>2, <1>4, <2>1, FS_AddElement DEF Share
<1>5. CASE w \in S <=> w \in T
  <2>1. S = T
    BY <1>5
  <2>2. QED
    BY <1>2, <2>1 DEF Share
<1>6. QED
  BY <1>3, <1>4, <1>5

(* A step that moves only worker w keeps the counters right if it changes  *)
(* each of them by what w contributes.                                     *)
LEMMA CountersMove ==
    ASSUME Types, CountersAgree, NEW w \in Workers,
           \A v \in Workers \ {w} : /\ wpc'[v] = wpc[v] /\ wjob'[v] = wjob[v]
                                    /\ wkind'[v] = wkind[v],
           totalThreads' = totalThreads + Share(w, Alive') - Share(w, Alive),
           \/ pendingWorkerThreadStart' =
                  pendingWorkerThreadStart + Share(w, Starting') - Share(w, Starting)
           \/ w \in Starting /\ w \notin Starting' /\ pendingWorkerThreadStart' = 0,
           busyThreads' = busyThreads + Share(w, Busy') - Share(w, Busy),
           persistentThreads' = persistentThreads + Share(w, Persistent') - Share(w, Persistent),
           idleThreads' = idleThreads + Share(w, Idle') - Share(w, Idle),
           workerThreads' = workerThreads + Share(w, Regular') - Share(w, Regular)
    PROVE  CountersAgree'
<1>1. totalThreads' = Cardinality(Alive')
  <2>1. Cardinality(Alive') = Cardinality(Alive) + Share(w, Alive') - Share(w, Alive)
    <3>1. \A v \in Workers \ {w} : v \in Alive <=> v \in Alive'
      BY DEF Alive
    <3>2. Alive \in SUBSET Workers /\ Alive' \in SUBSET Workers
      BY DEF Alive
    <3>3. QED
      BY <3>1, <3>2, OneMember
  <2>2. QED
    BY <2>1 DEF CountersAgree
<1>2. pendingWorkerThreadStart' = Cardinality(Starting')
  <2>1. /\ Cardinality(Starting) \in Nat /\ Cardinality(Starting') \in Nat
        /\ Cardinality(Starting') = Cardinality(Starting) + Share(w, Starting') - Share(w, Starting)
    <3>1. \A v \in Workers \ {w} : v \in Starting <=> v \in Starting'
      BY DEF Starting
    <3>2. Starting \in SUBSET Workers /\ Starting' \in SUBSET Workers
      BY DEF Starting
    <3>3. QED
      BY <3>1, <3>2, OneMember
  <2>2. CASE w \in Starting /\ w \notin Starting' /\ pendingWorkerThreadStart' = 0
    <3>1. Share(w, Starting') = 0 /\ Share(w, Starting) = 1
      BY <2>2 DEF Share
    <3>2. pendingWorkerThreadStart \in {0, 1} /\ pendingWorkerThreadStart = Cardinality(Starting)
      BY DEF Types, PoolTypes, CountersAgree
    <3>3. QED
      BY <2>1, <2>2, <3>1, <3>2
  <2>3. QED
    BY <2>1, <2>2 DEF CountersAgree
<1>3. busyThreads' = Cardinality(Busy')
  <2>1. Cardinality(Busy') = Cardinality(Busy) + Share(w, Busy') - Share(w, Busy)
    <3>1. \A v \in Workers \ {w} : v \in Busy <=> v \in Busy'
      BY DEF Busy
    <3>2. Busy \in SUBSET Workers /\ Busy' \in SUBSET Workers
      BY DEF Busy
    <3>3. QED
      BY <3>1, <3>2, OneMember
  <2>2. QED
    BY <2>1 DEF CountersAgree
<1>4. persistentThreads' = Cardinality(Persistent')
  <2>1. Cardinality(Persistent') = Cardinality(Persistent) + Share(w, Persistent') - Share(w, Persistent)
    <3>1. \A v \in Workers \ {w} : v \in Persistent <=> v \in Persistent'
      BY DEF Persistent, Busy
    <3>2. Persistent \in SUBSET Workers /\ Persistent' \in SUBSET Workers
      BY DEF Persistent, Busy
    <3>3. QED
      BY <3>1, <3>2, OneMember
  <2>2. QED
    BY <2>1 DEF CountersAgree
<1>5. idleThreads' = Cardinality(Idle')
  <2>1. Cardinality(Idle') = Cardinality(Idle) + Share(w, Idle') - Share(w, Idle)
    <3>1. \A v \in Workers \ {w} : v \in Idle <=> v \in Idle'
      BY DEF Idle
    <3>2. Idle \in SUBSET Workers /\ Idle' \in SUBSET Workers
      BY DEF Idle
    <3>3. QED
      BY <3>1, <3>2, OneMember
  <2>2. QED
    BY <2>1 DEF CountersAgree
<1>6. workerThreads' = Cardinality(Regular')
  <2>1. Cardinality(Regular') = Cardinality(Regular) + Share(w, Regular') - Share(w, Regular)
    <3>1. \A v \in Workers \ {w} : v \in Regular <=> v \in Regular'
      BY DEF Regular, Busy
    <3>2. Regular \in SUBSET Workers /\ Regular' \in SUBSET Workers
      BY DEF Regular, Busy
    <3>3. QED
      BY <3>1, <3>2, OneMember
  <2>2. QED
    BY <2>1 DEF CountersAgree
<1>7. QED
  BY <1>1, <1>2, <1>3, <1>4, <1>5, <1>6 DEF CountersAgree

(* Nothing about the workers and their counters changes. *)
LEMMA CountersSame ==
    ASSUME WorkerLocal, CountersAgree, UNCHANGED counters, UNCHANGED <<wpc, wjob, wkind>>
    PROVE  WorkerLocal' /\ CountersAgree'
<1>1. /\ Alive' = Alive /\ Starting' = Starting /\ Busy' = Busy
      /\ Persistent' = Persistent /\ Idle' = Idle /\ Regular' = Regular
  BY DEF Alive, Starting, Busy, Persistent, Regular, Idle
<1>2. QED
  BY <1>1 DEF WorkerLocal, CountersAgree, counters

(* A worker's local variables are right after each of its steps. *)
LEMMA LocalWorker ==
    ASSUME Types, WorkerLocal, NEW w \in Workers,
           WorkerStep(w) \/ WorkerTimeOut(w) \/ JobReturns(w)
    PROVE  WorkerLocal'
<1> USE DEF Types, WorkerTypes, WorkerLocal
<1>1. CASE WorkerStart(w)
  BY <1>1 DEF WorkerStart
<1>2. CASE WorkerTop(w)
  BY <1>2 DEF WorkerTop
<1>3. CASE WorkerDie(w)
  BY <1>3 DEF WorkerDie, WorkerExit
<1>4. CASE WorkerWait(w)
  BY <1>4 DEF WorkerWait
<1>5. CASE WorkerLeaveWait(w)
  BY <1>5 DEF WorkerLeaveWait
<1>6. CASE WorkerWakes(w)
  BY <1>6 DEF WorkerWakes
<1>7. CASE BumpMed(w)
  BY <1>7 DEF BumpMed, workerVars
<1>8. CASE BumpLow(w)
  BY <1>8 DEF BumpLow, workerVars
<1>9. CASE WorkerStop(w) \/ WorkerStrays(w)
  BY <1>9 DEF WorkerStop, WorkerStrays, WorkerExit, Bumped
<1>10. CASE TakePersistent(w)
  BY <1>10 DEF TakePersistent, RunJob, Bumped
<1>11. CASE TakeJob(w)
  <2>1. PICK j \in Jobs : RunJob(w, j, "regular")
    BY <1>11, HeadTailType DEF TakeJob, QueueTypes
  <2>2. QED
    BY <2>1, JobsAssumption DEF RunJob
<1>12. CASE WorkerTimeOut(w)
  BY <1>12 DEF WorkerTimeOut
<1>13. CASE JobReturns(w)
  BY <1>13 DEF JobReturns
<1>14. QED
  BY <1>1, <1>2, <1>3, <1>4, <1>5, <1>6, <1>7, <1>8, <1>9, <1>10, <1>11, <1>12, <1>13
     DEF WorkerStep

(* A worker's step changes the counters by what it contributes. *)
LEMMA CountersWorker ==
    ASSUME Types, WorkerLocal, CountersAgree, NEW w \in Workers,
           WorkerStep(w) \/ WorkerTimeOut(w) \/ JobReturns(w)
    PROVE  CountersAgree'
<1> USE DEF Types, PoolTypes, WorkerTypes, WorkerLocal, Alive, Starting, Busy, Persistent,
            Regular, Idle, Share
<1>1. CASE WorkerStart(w)
  BY <1>1, CountersMove DEF WorkerStart
<1>2. CASE WorkerTop(w)
  BY <1>2, CountersMove DEF WorkerTop
<1>3. CASE WorkerDie(w)
  BY <1>3, CountersMove DEF WorkerDie, WorkerExit
<1>4. CASE WorkerWait(w)
  BY <1>4, CountersMove DEF WorkerWait, counters
<1>5. CASE WorkerLeaveWait(w)
  BY <1>5, CountersMove DEF WorkerLeaveWait
<1>6. CASE WorkerWakes(w)
  BY <1>6, CountersMove DEF WorkerWakes, counters
<1>7. CASE BumpMed(w)
  BY <1>7, CountersSame DEF BumpMed, workerVars
<1>8. CASE BumpLow(w)
  BY <1>8, CountersSame DEF BumpLow, workerVars
<1>9. CASE WorkerStop(w) \/ WorkerStrays(w)
  BY <1>9, CountersMove DEF WorkerStop, WorkerStrays, WorkerExit, Bumped
<1>10. CASE TakePersistent(w)
  BY <1>10, CountersMove DEF TakePersistent, RunJob, Bumped
<1>11. CASE TakeJob(w)
  <2>1. PICK j \in Jobs : RunJob(w, j, "regular")
    BY <1>11, HeadTailType DEF TakeJob, QueueTypes
  <2>2. /\ wpc[w] = "bump" /\ workerThreads' = workerThreads + 1
        /\ UNCHANGED <<totalThreads, pendingWorkerThreadStart, persistentThreads, idleThreads>>
    BY <1>11 DEF TakeJob, Bumped
  <2>3. QED
    BY <2>1, <2>2, JobsAssumption, CountersMove DEF RunJob
<1>12. CASE WorkerTimeOut(w)
  BY <1>12, CountersMove DEF WorkerTimeOut, counters
<1>13. CASE JobReturns(w)
  BY <1>13, CountersMove DEF JobReturns, counters
<1>14. QED
  BY <1>1, <1>2, <1>3, <1>4, <1>5, <1>6, <1>7, <1>8, <1>9, <1>10, <1>11, <1>12, <1>13
     DEF WorkerStep

(* A step that only wakes waiting workers changes none of the sets the     *)
(* counters count.                                                         *)
LEMMA CountersWoken ==
    ASSUME Types, WorkerLocal, CountersAgree, UNCHANGED <<counters, wjob, wkind>>,
           \A w \in Workers : wpc'[w] = wpc[w] \/ (wpc[w] = "wait" /\ wpc'[w] = "woken")
    PROVE  WorkerLocal' /\ CountersAgree'
<1>1. /\ Alive' = Alive /\ Starting' = Starting /\ Busy' = Busy
      /\ Persistent' = Persistent /\ Idle' = Idle /\ Regular' = Regular
  BY DEF Alive, Starting, Busy, Persistent, Regular, Idle
<1>2. CountersAgree'
  BY <1>1 DEF CountersAgree, counters
<1>3. WorkerLocal'
  BY DEF WorkerLocal
<1>4. QED
  BY <1>2, <1>3

(* pthread_cond_signal moves workers from wait to woken only. *)
LEMMA SignalWakes ==
    ASSUME WorkerTypes, SignalCondition, NEW w \in Workers
    PROVE  wpc'[w] = wpc[w] \/ (wpc[w] = "wait" /\ wpc'[w] = "woken")
BY DEF SignalCondition, Waiting, WorkerTypes

(* Callers only add starting threads and wake waiting ones. *)
LEMMA CountersCaller ==
    ASSUME Types, WorkerLocal, CountersAgree, NEW c \in Callers, CallerStep(c) \/ Call(c)
    PROVE  WorkerLocal' /\ CountersAgree'
<1>1. ASSUME UNCHANGED <<counters, workerVars>> PROVE WorkerLocal' /\ CountersAgree'
  BY <1>1, CountersSame DEF workerVars
<1>2. ASSUME UNCHANGED <<counters, wjob, wkind>>, SignalCondition \/ wpc' = wpc
      PROVE  WorkerLocal' /\ CountersAgree'
  BY <1>2, CountersWoken, SignalWakes DEF Types
<1>3. ASSUME NEW w \in Workers, CreateThread(c, w)
      PROVE  WorkerLocal' /\ CountersAgree'
  <2>1. WorkerLocal'
    BY <1>3 DEF CreateThread, WorkerLocal, Types, WorkerTypes
  <2>2. CountersAgree'
    BY <1>3, CountersMove DEF CreateThread, WorkerLocal, Types, PoolTypes, WorkerTypes, Alive,
       Starting, Busy, Persistent, Regular, Idle, Share
  <2>3. QED
    BY <2>1, <2>2
<1>4. CASE CallerStep(c)
  <2>1. CASE CreateWaits(c) \/ CreateFails(c) \/ CreateResumes(c) \/ ShutdownResumes(c)
    BY <2>1, <1>1 DEF CreateWaits, CreateFails, CreateResumes, ShutdownResumes
  <2>2. CASE AddWorker(c) \/ AddMinThreads(c) \/ PersistentNoMemory(c) \/ HandOverResumes(c)
    BY <2>2, <1>1 DEF AddWorker, AddMinThreads, PersistentNoMemory, HandOverResumes
  <2>3. CASE GetStatsLocks(c) \/ GetStatsReturns(c)
    BY <2>3, <1>1 DEF GetStatsLocks, GetStatsReturns
  <2>4. CASE AddReturns(c)
    BY <2>4, <1>2 DEF AddReturns
  <2>5. CASE HandOver(c)
    BY <2>5, <1>2 DEF HandOver
  <2>6. CASE MinThreadsDone(c) \/ MinThreadsFail(c)
    BY <2>6, <1>2 DEF MinThreadsDone, MinThreadsFail, SignalIfSetAttr
  <2>7. QED
    BY <1>3, <1>4, <2>1, <2>2, <2>3, <2>4, <2>5, <2>6 DEF CallerStep
<1>5. CASE Call(c)
  <2>1. CASE Shutdown(c)
    BY <2>1, CountersWoken DEF Shutdown, Types, WorkerTypes
  <2>2. CASE ~Shutdown(c)
    <3>1. UNCHANGED <<counters, workerVars>>
      BY <1>5, <2>2 DEF Call, AddRefused, AddEnqueue, AddPersistent, RemoveJob, SetAttr, GetStats
    <3>2. QED
      BY <3>1, <1>1
  <2>3. QED
    BY <2>1, <2>2
<1>6. QED
  BY <1>4, <1>5

(* WorkerLocal and CountersAgree are inductive relative to Types. *)
LEMMA CountersNext ==
    Types /\ WorkerLocal /\ CountersAgree /\ [Next]_vars => WorkerLocal' /\ CountersAgree'
<1> SUFFICES ASSUME Types, WorkerLocal, CountersAgree, [Next]_vars
             PROVE  WorkerLocal' /\ CountersAgree'
  OBVIOUS
<1>1. CASE Tick \/ UNCHANGED vars
  BY <1>1, CountersSame DEF Tick, vars, workerVars
<1>2. QED
  BY <1>1, LocalWorker, CountersWorker, CountersCaller DEF Next

(* A pool without threads has zero counters. *)
LEMMA CountersInit == Init => WorkerLocal /\ CountersAgree
<1> SUFFICES ASSUME Init PROVE WorkerLocal /\ CountersAgree
  OBVIOUS
<1>1. WorkerLocal
  BY DEF Init, WorkerLocal
<1>2. /\ Alive = {} /\ Starting = {} /\ Busy = {}
      /\ Persistent = {} /\ Idle = {} /\ Regular = {}
  BY DEF Init, Alive, Starting, Busy, Persistent, Regular, Idle
<1>3. CountersAgree
  BY <1>2, FS_EmptySet DEF Init, CountersAgree
<1>4. QED
  BY <1>1, <1>3

(* totalThreads, pendingWorkerThreadStart, busyThreads, persistentThreads  *)
(* and the statistics' idleThreads and workerThreads count the threads     *)
(* they are named for whenever they are read, however many threads run,    *)
(* start, finish jobs or die.                                              *)
THEOREM CountersAreRight == Spec => []CountersAgree
BY TypesInit, TypesNext, CountersInit, CountersNext, PTL DEF Spec

-----------------------------------------------------------------------------
(***************************************************************************)
(* Types, complete.  The counters are sizes of sets.  The loop variable is *)
(* not negative because a caller that creates the minimum of threads is    *)
(* inside CreateWorker only while some are left to create, and because     *)
(* there are no more persistent threads than threads.                      *)
(***************************************************************************)
Creating == {"create", "cwWait", "cwStart"}
LoopInv ==
    \A c \in Callers :
        /\ loopVar[c] \in Nat
        /\ cpc[c] \in Creating /\ op[c] \in {"init", "setattr"} => loopVar[c] > 0

(* The counters are numbers of threads; a persistent thread is one. *)
LEMMA CountersType ==
    ASSUME WorkerLocal, CountersAgree
    PROVE  /\ totalThreads \in Nat /\ busyThreads \in Nat /\ persistentThreads \in Nat
           /\ idleThreads \in Nat /\ workerThreads \in Nat
           /\ persistentThreads <= totalThreads
<1>1. /\ IsFiniteSet(Alive) /\ IsFiniteSet(Busy) /\ IsFiniteSet(Persistent)
      /\ IsFiniteSet(Idle) /\ IsFiniteSet(Regular)
  BY ThreadsAssumption, FS_Subset DEF Alive, Busy, Persistent, Regular, Idle
<1>2. Persistent \subseteq Alive
  BY DEF Persistent, Busy, Alive, WorkerLocal
<1>3. Cardinality(Persistent) <= Cardinality(Alive)
  BY <1>1, <1>2, FS_Subset
<1>4. QED
  BY <1>1, <1>3, FS_CardinalityType DEF CountersAgree

(* A step inside a function of the pool keeps LoopInv. *)
LEMMA LoopCaller ==
    ASSUME Types, LoopInv, NEW c \in Callers, CallerStep(c)
    PROVE  LoopInv'
<1> USE DEF Types, CallerTypes, LoopInv, Creating
<1>1. CASE CreateWaits(c)
  BY <1>1 DEF CreateWaits, WaitStart
<1>2. CASE CreateFails(c)
  BY <1>2 DEF CreateFails, CreateReturns
<1>3. ASSUME NEW w \in Workers, CreateThread(c, w) PROVE LoopInv'
  BY <1>3 DEF CreateThread, WaitStart
<1>4. CASE CreateResumes(c)
  <2>1. CASE UNCHANGED loopVar
    BY <1>4, <2>1 DEF CreateResumes, CreateReturns, WaitStart
  <2>2. CASE CreateReturns(c, TRUE)
    BY <1>4, <2>2 DEF CreateResumes, CreateReturns
  <2>3. QED
    BY <1>4, <2>1, <2>2 DEF CreateResumes
<1>5. CASE AddWorker(c)
  BY <1>5 DEF AddWorker, Goto
<1>6. CASE AddReturns(c)
  BY <1>6 DEF AddReturns, Return, Goto
<1>7. CASE PersistentNoMemory(c)
  BY <1>7 DEF PersistentNoMemory, Return, Goto
<1>8. CASE HandOver(c)
  BY <1>8 DEF HandOver, WaitStart
<1>9. CASE HandOverResumes(c)
  BY <1>9 DEF HandOverResumes, WaitStart, Return, Goto
<1>10. CASE AddMinThreads(c)
  BY <1>10 DEF AddMinThreads, Goto
<1>11. CASE MinThreadsDone(c)
  BY <1>11 DEF MinThreadsDone, Return, Goto
<1>12. CASE MinThreadsFail(c)
  BY <1>12 DEF MinThreadsFail, Goto
<1>13. CASE GetStatsLocks(c)
  BY <1>13 DEF GetStatsLocks, Goto
<1>14. CASE GetStatsReturns(c)
  BY <1>14 DEF GetStatsReturns, Goto
<1>15. CASE ShutdownResumes(c)
  BY <1>15 DEF ShutdownResumes, AwaitThreads, WaitStart, Return, Goto
<1>16. QED
  BY <1>1, <1>2, <1>3, <1>4, <1>5, <1>6, <1>7, <1>8, <1>9, <1>10, <1>11, <1>12, <1>13,
     <1>14, <1>15 DEF CallerStep

(* A call keeps LoopInv. *)
LEMMA LoopCall ==
    ASSUME Types, WorkerLocal, CountersAgree, LoopInv, NEW c \in Callers, Call(c)
    PROVE  LoopInv'
<1> USE DEF Types, CallerTypes, LoopInv, Creating
<1>1. ASSUME NEW j \in Jobs, AddRefused(c, j) \/ RemoveJob(c, j) PROVE LoopInv'
  <2>1. UNCHANGED <<cpc, op, loopVar>>
    BY <1>1 DEF AddRefused, RemoveJob, callerVars
  <2>2. QED
    BY <2>1
<1>2. ASSUME NEW j \in Jobs, NEW priority, NEW ok, AddEnqueue(c, j, priority, ok)
      PROVE  LoopInv'
  <2>1. /\ Goto(c, "loop") /\ op' = [op EXCEPT ![c] = "add"]
        /\ loopVar' = [loopVar EXCEPT ![c] = totalThreads - persistentThreads]
    BY <1>2 DEF AddEnqueue
  <2>2. totalThreads - persistentThreads \in Nat
    BY CountersType
  <2>3. QED
    BY <2>1, <2>2 DEF Goto
<1>3. ASSUME NEW j \in Jobs, AddPersistent(c, j) PROVE LoopInv'
  BY <1>3 DEF AddPersistent, Goto
<1>4. ASSUME NEW a \in NewAttrs, SetAttr(c, a) PROVE LoopInv'
  <2>1. (IF totalThreads < a.minThreads THEN a.minThreads - totalThreads ELSE 0) \in Nat
    BY CountersType, AttrAssumption DEF ThreadPoolAttr
  <2>2. QED
    BY <1>4, <2>1 DEF SetAttr, Goto
<1>5. CASE GetStats(c)
  BY <1>5 DEF GetStats, Goto
<1>6. CASE Shutdown(c)
  <2>1. AwaitThreads(c)
    BY <1>6 DEF Shutdown
  <2>2. QED
    BY <2>1 DEF AwaitThreads, WaitStart, Return, Goto
<1>7. QED
  BY <1>1, <1>2, <1>3, <1>4, <1>5, <1>6, JobsAssumption DEF Call

(* LoopInv is inductive relative to the types and the counters. *)
LEMMA LoopNext ==
    Types /\ WorkerLocal /\ CountersAgree /\ LoopInv /\ [Next]_vars => LoopInv'
<1> SUFFICES ASSUME Types, WorkerLocal, CountersAgree, LoopInv, [Next]_vars PROVE LoopInv'
  OBVIOUS
<1>1. ASSUME NEW w \in Workers, WorkerStep(w) \/ WorkerTimeOut(w) \/ JobReturns(w)
      PROVE  UNCHANGED callerVars
  BY <1>1 DEF WorkerStep, WorkerTimeOut, JobReturns, WorkerStart, WorkerTop, WorkerDie, WorkerWait,
     WorkerLeaveWait, WorkerWakes, BumpMed, BumpLow, WorkerStop, WorkerStrays, TakePersistent, TakeJob
<1>2. CASE Tick \/ UNCHANGED vars
  BY <1>2 DEF Tick, vars, callerVars, LoopInv
<1>3. QED
  BY <1>1, <1>2, LoopCaller, LoopCall DEF Next, callerVars, LoopInv

(* ThreadPoolInit starts with minThreads to create. *)
LEMMA LoopInit == Init => LoopInv
BY AttrAssumption DEF Init, LoopInv, Creating, ThreadPoolAttr

(* Every variable of the pool has its type, in particular no counter ever  *)
(* goes below zero and the threads still to create are never fewer than    *)
(* none.                                                                   *)
THEOREM TypesAreRight == Spec => []TypeOK
<1>1. Types /\ WorkerLocal /\ CountersAgree /\ LoopInv => TypeOK
  <2> SUFFICES ASSUME Types, WorkerLocal, CountersAgree, LoopInv PROVE TypeOK
    OBVIOUS
  <2>1. loopVar \in [Callers -> Nat]
    BY DEF Types, CallerTypes, LoopInv
  <2>2. QED
    BY <2>1, CountersType DEF Types, PoolTypes, QueueTypes, WorkerTypes, CallerTypes, JobTypes, TypeOK
<1>2. QED
  BY <1>1, TypesInit, TypesNext, CountersInit, CountersNext, LoopInit, LoopNext, PTL DEF Spec

-----------------------------------------------------------------------------
(***************************************************************************)
(* The number of threads.  Only five actions change totalThreads or        *)
(* pendingWorkerThreadStart.                                               *)
(***************************************************************************)
(* While a thread is starting, pendingWorkerThreadStart is set. *)
LEMMA StartPending ==
    ASSUME Types, CountersAgree, NEW w \in Workers, wpc[w] = "starting"
    PROVE  pendingWorkerThreadStart = 1
<1>1. IsFiniteSet(Starting) /\ Starting # {}
  BY ThreadsAssumption, FS_Subset DEF Starting
<1>2. Cardinality(Starting) # 0
  BY <1>1, FS_EmptySet
<1>3. QED
  BY <1>2 DEF CountersAgree, Types, PoolTypes

ThreadStep ==
    \/ \E w \in Workers : WorkerStart(w) \/ WorkerDie(w) \/ WorkerStop(w) \/ WorkerStrays(w)
    \/ \E c \in Callers, w \in Workers : CreateThread(c, w)

(* Every other step leaves the two counters alone. *)
LEMMA OnlyThreadSteps ==
    ASSUME [Next]_vars
    PROVE  ThreadStep \/ UNCHANGED <<totalThreads, pendingWorkerThreadStart>>
<1>1. ASSUME NEW w \in Workers, WorkerStep(w) \/ WorkerTimeOut(w) \/ JobReturns(w)
      PROVE  ThreadStep \/ UNCHANGED <<totalThreads, pendingWorkerThreadStart>>
  BY <1>1 DEF ThreadStep, WorkerStep, WorkerTimeOut, JobReturns, WorkerTop, WorkerWait,
     WorkerLeaveWait, WorkerWakes, BumpMed, BumpLow, TakePersistent, TakeJob, counters
<1>2. ASSUME NEW c \in Callers, CallerStep(c)
      PROVE  ThreadStep \/ UNCHANGED <<totalThreads, pendingWorkerThreadStart>>
  BY <1>2 DEF ThreadStep, CallerStep, CreateWaits, CreateFails, CreateResumes, AddWorker, AddReturns,
     PersistentNoMemory, HandOver, HandOverResumes, AddMinThreads, MinThreadsDone, MinThreadsFail,
     GetStatsLocks, GetStatsReturns, ShutdownResumes, counters
<1>3. ASSUME NEW c \in Callers, Call(c)
      PROVE  UNCHANGED <<totalThreads, pendingWorkerThreadStart>>
  BY <1>3 DEF Call, AddRefused, AddEnqueue, AddPersistent, RemoveJob, SetAttr, GetStats,
     Shutdown, counters
<1>4. CASE Tick \/ UNCHANGED vars
  BY <1>4 DEF Tick, vars, counters
<1>5. QED
  BY <1>1, <1>2, <1>3, <1>4 DEF Next

(* Without ThreadPoolSetAttr the attributes stay those of ThreadPoolInit. *)
LEMMA AttrStays ==
    ASSUME [Next]_vars, NewAttrs = {}
    PROVE  attr' = attr
<1>1. ASSUME NEW w \in Workers, WorkerStep(w) \/ WorkerTimeOut(w) \/ JobReturns(w)
      PROVE  attr' = attr
  BY <1>1 DEF WorkerStep, WorkerTimeOut, JobReturns, WorkerStart, WorkerTop, WorkerDie, WorkerWait,
     WorkerLeaveWait, WorkerWakes, BumpMed, BumpLow, WorkerStop, WorkerStrays, TakePersistent, TakeJob, poolVars
<1>2. ASSUME NEW c \in Callers, CallerStep(c) PROVE attr' = attr
  BY <1>2 DEF CallerStep, CreateWaits, CreateFails, CreateThread, CreateResumes, AddWorker,
     AddReturns, PersistentNoMemory, HandOver, HandOverResumes, AddMinThreads, MinThreadsDone,
     MinThreadsFail, GetStatsLocks, GetStatsReturns, ShutdownResumes, poolVars
<1>3. ASSUME NEW c \in Callers, Call(c) PROVE attr' = attr
  BY <1>3 DEF Call, AddRefused, AddEnqueue, AddPersistent, RemoveJob, GetStats, Shutdown, poolVars
<1>4. CASE Tick \/ UNCHANGED vars
  BY <1>4 DEF Tick, vars, poolVars
<1>5. QED
  BY <1>1, <1>2, <1>3, <1>4 DEF Next

AttrInv == NewAttrs = {} => attr = InitAttr

(* No step takes the pool above its maximum. *)
LEMMA AtMostNext ==
    /\ Types /\ CountersAgree /\ AttrInv /\ AtMostMaxThreads /\ [Next]_vars
    => AttrInv' /\ AtMostMaxThreads'
<1> SUFFICES ASSUME Types, CountersAgree, AttrInv, AtMostMaxThreads, [Next]_vars
             PROVE  AttrInv' /\ AtMostMaxThreads'
  OBVIOUS
<1>1. AttrInv'
  BY AttrStays DEF AttrInv
<1>2. AtMostMaxThreads'
  <2> SUFFICES ASSUME NewAttrs = {}, InitAttr.maxThreads # INFINITE_THREADS
               PROVE  totalThreads' + pendingWorkerThreadStart' <= InitAttr.maxThreads
    BY AttrStays DEF AttrInv, AtMostMaxThreads
  <2>1. /\ attr = InitAttr /\ totalThreads + pendingWorkerThreadStart <= InitAttr.maxThreads
        /\ totalThreads \in Int /\ pendingWorkerThreadStart \in {0, 1}
        /\ InitAttr.maxThreads \in Int
    BY AttrAssumption DEF AttrInv, AtMostMaxThreads, Types, PoolTypes, ThreadPoolAttr, INFINITE_THREADS
  <2>2. ASSUME NEW w \in Workers, WorkerStart(w)
        PROVE  totalThreads' + pendingWorkerThreadStart' <= InitAttr.maxThreads
    BY <2>1, <2>2, StartPending DEF WorkerStart
  <2>3. ASSUME NEW w \in Workers, WorkerDie(w) \/ WorkerStop(w) \/ WorkerStrays(w)
        PROVE  totalThreads' + pendingWorkerThreadStart' <= InitAttr.maxThreads
    <3>1. totalThreads' = totalThreads - 1 /\ pendingWorkerThreadStart' = pendingWorkerThreadStart
      BY <2>3 DEF WorkerDie, WorkerStop, WorkerStrays, WorkerExit
    <3>2. QED
      BY <2>1, <3>1
  <2>4. ASSUME NEW c \in Callers, NEW w \in Workers, CreateThread(c, w)
        PROVE  totalThreads' + pendingWorkerThreadStart' <= InitAttr.maxThreads
    BY <2>1, <2>4 DEF CreateThread, AtMaxThreads
  <2>5. QED
    BY <2>1, <2>2, <2>3, <2>4, OnlyThreadSteps DEF ThreadStep
<1>3. QED
  BY <1>1, <1>2

(* An empty pool is below its maximum. *)
LEMMA AtMostInit == Init => AttrInv /\ AtMostMaxThreads
BY AttrAssumption DEF Init, AttrInv, AtMostMaxThreads, ThreadPoolAttr, INFINITE_THREADS

(* "pool will never have more than this number of threads" (ThreadPool.h): *)
(* CreateWorker's test, made before the mutex is released to wait for the  *)
(* new thread, is enough for any number of concurrent callers, because     *)
(* only one thread is ever starting.                                       *)
THEOREM NeverMoreThanMaxThreads == Spec => []AtMostMaxThreads
BY TypesInit, TypesNext, CountersInit, CountersNext, AtMostInit, AtMostNext, PTL DEF Spec

-----------------------------------------------------------------------------
(***************************************************************************)
(* The minimum.  While ThreadPoolInit runs, nobody else is in the pool,    *)
(* and the threads that run, the one that is starting and those still to   *)
(* create add up to minThreads (InitPhase).  Afterwards a worker only      *)
(* leaves a pool that has more, since AtMostMaxThreads rules out the other *)
(* reason to die.                                                          *)
(***************************************************************************)
InitPhase ==
    ~Ready /\ ~shutdown =>
        /\ \A d \in Callers \ {InitCaller} : cpc[d] = "idle"
        /\ cpc[InitCaller] \in {"loop", "create", "cwStart", "failed", "sdEnter"}
        /\ cpc[InitCaller] \in {"loop", "create"} =>
             pendingWorkerThreadStart = 0 /\ totalThreads + loopVar[InitCaller] = attr.minThreads
        /\ cpc[InitCaller] = "cwStart" =>
             totalThreads + pendingWorkerThreadStart + loopVar[InitCaller] = attr.minThreads + 1

MinInv == NewAttrs = {} /\ AllocCanFail = FALSE => InitPhase /\ AtLeastMinThreads

(* Between leaving its wait and taking a job a worker has the mutex, so    *)
(* that what it saw is still there when it looks for it, unless            *)
(* BumpPriority loses it.                                                  *)
BumpInv == AllocCanFail = FALSE => \A w \in Workers : wpc[w] = "bump" => ~NothingToDo

(* BumpInv is inductive relative to the exclusion of the mutex. *)
LEMMA BumpNext == Types /\ MutexInv /\ BumpInv /\ [Next]_vars => BumpInv'
<1> SUFFICES ASSUME Types, MutexInv, BumpInv, [Next]_vars, AllocCanFail = FALSE,
                    NEW v \in Workers, wpc'[v] = "bump"
             PROVE  NothingToDo' => FALSE
  BY DEF BumpInv
<1>1. ASSUME NEW w \in Workers, w # v, WorkerStep(w) \/ WorkerTimeOut(w) \/ JobReturns(w)
      PROVE  ~NothingToDo'
  <2>1. wpc[v] = "bump" /\ mutex = v
    BY <1>1 DEF Types, WorkerTypes, MutexInv, WorkerStep, WorkerStart, WorkerTop, WorkerDie,
       WorkerWait, WorkerLeaveWait, WorkerExit, WorkerWakes, BumpMed, BumpLow, WorkerStop,
       WorkerStrays, TakePersistent, TakeJob, RunJob, WorkerTimeOut, JobReturns, workerVars
  <2>2. wpc[w] \notin {"check", "bump"} /\ ~Free
    BY <1>1, <2>1, ThreadsAssumption DEF MutexInv, Free
  <2>3. UNCHANGED <<queues, shutdown>>
    BY <1>1, <2>2 DEF WorkerStep, WorkerStart, WorkerTop, WorkerDie, WorkerWait, WorkerLeaveWait,
       WorkerWakes, BumpMed, BumpLow, Bumped, WorkerStop, WorkerStrays, TakePersistent, TakeJob,
       WorkerTimeOut, JobReturns, poolVars
  <2>4. QED
    BY <2>1, <2>3 DEF BumpInv, NothingToDo, TotalJobs, queues
<1>2. CASE WorkerStep(v) \/ WorkerTimeOut(v) \/ JobReturns(v)
  <2>1. WorkerLeaveWait(v) \/ BumpMed(v) \/ BumpLow(v)
    BY <1>2 DEF Types, WorkerTypes, WorkerStep, WorkerStart, WorkerTop, WorkerDie, WorkerWait,
       WorkerExit, WorkerWakes, WorkerStop, WorkerStrays, TakePersistent, TakeJob, RunJob,
       WorkerTimeOut, JobReturns
  <2>2. CASE WorkerLeaveWait(v)
    BY <2>2 DEF WorkerLeaveWait, NothingToDo, TotalJobs, queues, poolVars
  <2>3. CASE BumpMed(v)
    <3>1. /\ medJobQ \in Seq(Jobs) /\ medJobQ # <<>> /\ highJobQ \in Seq(Jobs) /\ lowJobQ \in Seq(Jobs)
          /\ medJobQ' = Tail(medJobQ) /\ highJobQ' = Append(highJobQ, Head(medJobQ))
          /\ lowJobQ' = lowJobQ
      BY <2>3 DEF BumpMed, MedStarved, Types, QueueTypes
    <3>2. Len(highJobQ') = Len(highJobQ) + 1 /\ Len(medJobQ') \in Nat /\ Len(lowJobQ') \in Nat
          /\ Len(highJobQ) \in Nat
      BY <3>1, HeadTailType
    <3>3. QED
      BY <3>2 DEF NothingToDo, TotalJobs
  <2>4. CASE BumpLow(v)
    <3>1. /\ lowJobQ \in Seq(Jobs) /\ lowJobQ # <<>> /\ highJobQ \in Seq(Jobs) /\ medJobQ \in Seq(Jobs)
          /\ lowJobQ' = Tail(lowJobQ) /\ medJobQ' = Append(medJobQ, Head(lowJobQ))
          /\ highJobQ' = highJobQ
      BY <2>4 DEF BumpLow, LowStarved, Types, QueueTypes
    <3>2. Len(medJobQ') = Len(medJobQ) + 1 /\ Len(lowJobQ') \in Nat /\ Len(highJobQ') \in Nat
          /\ Len(medJobQ) \in Nat
      BY <3>1, HeadTailType
    <3>3. QED
      BY <3>2 DEF NothingToDo, TotalJobs
  <2>5. QED
    BY <2>1, <2>2, <2>3, <2>4
<1>3. ASSUME NEW c \in Callers, CallerStep(c) \/ Call(c) PROVE ~NothingToDo'
  <2>1. wpc[v] = "bump"
    BY <1>3, CallersLeaveBump
  <2>2. mutex = v /\ cpc[c] \notin Holding /\ ~Free
    BY <2>1, ThreadsAssumption DEF MutexInv, Free
  <2>3. UNCHANGED <<queues, shutdown>>
    BY <1>3, <2>2 DEF CallerStep, CreateWaits, CreateFails, CreateThread, CreateResumes, AddWorker,
       AddReturns, PersistentNoMemory, HandOver, HandOverResumes, AddMinThreads, MinThreadsDone,
       MinThreadsFail, GetStatsLocks, GetStatsReturns, ShutdownResumes, poolVars, Holding,
       Call, AddRefused, AddEnqueue, AddPersistent, RemoveJob, SetAttr, GetStats, Shutdown
  <2>4. QED
    BY <2>1, <2>3 DEF BumpInv, NothingToDo, TotalJobs, queues
<1>4. CASE Tick \/ UNCHANGED vars
  <2>1. UNCHANGED <<queues, wpc, shutdown>>
    BY <1>4 DEF Tick, vars, poolVars, workerVars
  <2>2. QED
    BY <2>1 DEF BumpInv, NothingToDo, TotalJobs, queues
<1>5. QED
  BY <1>1, <1>2, <1>3, <1>4 DEF Next

(* A worker that dies leaves at least the minimum. *)
LEMMA DiesAboveMin ==
    ASSUME Types, AttrInv, AtMostMaxThreads, NewAttrs = {}, NEW w \in Workers, WorkerDie(w)
    PROVE  totalThreads > attr.minThreads
<1>1. CASE timedOut[w] /\ totalThreads > attr.minThreads
  BY <1>1
<1>2. CASE attr.maxThreads # INFINITE_THREADS /\ totalThreads > attr.maxThreads
  <2>1. totalThreads + pendingWorkerThreadStart <= attr.maxThreads
    BY <1>2 DEF AttrInv, AtMostMaxThreads
  <2>2. attr.maxThreads \in Int /\ totalThreads \in Int /\ pendingWorkerThreadStart \in {0, 1}
    BY <1>2 DEF Types, PoolTypes, ThreadPoolAttr, INFINITE_THREADS
  <2>3. QED
    BY <1>2, <2>1, <2>2
<1>3. QED
  BY <1>1, <1>2 DEF WorkerDie, MayDie

(* No step of a worker takes the pool below its minimum. *)
LEMMA MinWorker ==
    ASSUME Types, CountersAgree, LoopInv, AttrInv, AtMostMaxThreads, InitPhase, AtLeastMinThreads,
           NewAttrs = {}, BumpInv, AllocCanFail = FALSE, NEW w \in Workers, WorkerStep(w) \/ WorkerTimeOut(w) \/ JobReturns(w)
    PROVE  InitPhase' /\ AtLeastMinThreads'
<1>1. /\ totalThreads \in Int /\ pendingWorkerThreadStart \in {0, 1}
      /\ attr.minThreads \in Nat /\ loopVar[InitCaller] \in Nat
      /\ cpc[InitCaller] = "cwStart" /\ ~Ready => loopVar[InitCaller] > 0
  BY ThreadsAssumption DEF Types, PoolTypes, ThreadPoolAttr, LoopInv, Creating, Ready
<1>2. UNCHANGED <<cpc, op, loopVar, attr, shutdown>>
  BY DEF WorkerStep, WorkerTimeOut, JobReturns, WorkerStart, WorkerTop, WorkerDie, WorkerWait,
     WorkerLeaveWait, WorkerWakes, BumpMed, BumpLow, WorkerStop, WorkerStrays, TakePersistent, TakeJob,
     poolVars, callerVars
<1>3. CASE WorkerStart(w)
  <2>1. totalThreads' = totalThreads + 1 /\ pendingWorkerThreadStart' = 0
        /\ pendingWorkerThreadStart = 1
    BY <1>3, StartPending DEF WorkerStart
  <2>2. QED
    BY <1>1, <1>2, <2>1 DEF InitPhase, AtLeastMinThreads, Ready
<1>4. CASE WorkerDie(w)
  <2>1. /\ totalThreads' = totalThreads - 1
        /\ pendingWorkerThreadStart' = pendingWorkerThreadStart
        /\ totalThreads > attr.minThreads
    BY <1>4, DiesAboveMin DEF WorkerDie, WorkerExit
  <2>2. QED
    BY <1>1, <1>2, <2>1 DEF InitPhase, AtLeastMinThreads, Ready
<1>5. CASE WorkerStop(w)
  <2>1. shutdown /\ shutdown'
    BY <1>2, <1>5 DEF WorkerStop
  <2>2. QED
    BY <2>1 DEF InitPhase, AtLeastMinThreads
<1>6. CASE ~(WorkerStart(w) \/ WorkerDie(w) \/ WorkerStop(w) \/ WorkerStrays(w))
  <2>1. UNCHANGED <<totalThreads, pendingWorkerThreadStart>>
    BY <1>6 DEF WorkerStep, WorkerTimeOut, JobReturns, WorkerTop, WorkerWait,
       WorkerLeaveWait, WorkerWakes, BumpMed, BumpLow, TakePersistent, TakeJob, counters
  <2>2. QED
    BY <1>2, <2>1 DEF InitPhase, AtLeastMinThreads, Ready
<1>7. ~WorkerStrays(w)
  BY DEF BumpInv, WorkerStrays, Bumped, NothingToDo
<1>8. QED
  BY <1>3, <1>4, <1>5, <1>6, <1>7

(* Once ThreadPoolInit has returned no operation of a caller takes threads *)
(* away, and none is ThreadPoolInit again.                                 *)
LEMMA MinReady ==
    ASSUME Types, AtLeastMinThreads, Ready, NewAttrs = {}, [Next]_vars,
           NEW c \in Callers, CallerStep(c) \/ Call(c)
    PROVE  Ready' /\ AtLeastMinThreads'
<1>1. totalThreads' = totalThreads
  BY DEF CallerStep, CreateWaits, CreateFails, CreateThread, CreateResumes, AddWorker,
     AddReturns, PersistentNoMemory, HandOver, HandOverResumes, AddMinThreads, MinThreadsDone,
     MinThreadsFail, GetStatsLocks, GetStatsReturns, ShutdownResumes, counters,
     Call, AddRefused, AddEnqueue, AddPersistent, RemoveJob, SetAttr, GetStats, Shutdown
<1>2. \/ op' = op
      \/ \E o \in {"none", "add", "persistent", "setattr"} : op' = [op EXCEPT ![c] = o]
  <2>1. CASE CallerStep(c)
    BY <2>1 DEF CallerStep, CreateWaits, CreateFails, CreateThread, CreateResumes, AddWorker,
       AddReturns, PersistentNoMemory, HandOver, HandOverResumes, AddMinThreads, MinThreadsDone,
       MinThreadsFail, GetStatsLocks, GetStatsReturns, ShutdownResumes, AwaitThreads, Return
  <2>2. CASE Call(c)
    BY <2>2 DEF Call, AddRefused, AddEnqueue, AddPersistent, RemoveJob, SetAttr, GetStats, Shutdown,
       AwaitThreads, Return, callerVars
  <2>3. QED
    BY <2>1, <2>2
<1>3. Ready'
  BY <1>2, ThreadsAssumption DEF Ready, Types, CallerTypes
<1>4. shutdown => shutdown'
  BY DEF CallerStep, CreateWaits, CreateFails, CreateThread, CreateResumes, AddWorker,
     AddReturns, PersistentNoMemory, HandOver, HandOverResumes, AddMinThreads, MinThreadsDone,
     MinThreadsFail, GetStatsLocks, GetStatsReturns, ShutdownResumes, poolVars,
     Call, AddRefused, AddEnqueue, AddPersistent, RemoveJob, SetAttr, GetStats, Shutdown
<1>5. QED
  BY <1>1, <1>3, <1>4, AttrStays DEF AtLeastMinThreads

(* ThreadPoolInit's own steps. *)
LEMMA MinInit ==
    ASSUME Types, LoopInv, InitPhase, ~Ready, NewAttrs = {}, [Next]_vars,
           NEW c \in Callers, CallerStep(c) \/ Call(c)
    PROVE  InitPhase' /\ AtLeastMinThreads'
<1> USE ThreadsAssumption DEF Types, PoolTypes, CallerTypes, ThreadPoolAttr, Ready
<1>1. CASE shutdown
  <2>1. shutdown'
    BY <1>1 DEF CallerStep, CreateWaits, CreateFails, CreateThread, CreateResumes, AddWorker,
       AddReturns, PersistentNoMemory, HandOver, HandOverResumes, AddMinThreads, MinThreadsDone,
       MinThreadsFail, GetStatsLocks, GetStatsReturns, ShutdownResumes, poolVars,
       Call, AddRefused, AddEnqueue, AddPersistent, RemoveJob, SetAttr, GetStats, Shutdown
  <2>2. QED
    BY <2>1 DEF InitPhase, AtLeastMinThreads
<1>2. CASE ~shutdown /\ Call(c)
  <2>1. Shutdown(c)
    BY <1>2 DEF Call, AddRefused, AddEnqueue, AddPersistent, RemoveJob, SetAttr, GetStats, MayCall
  <2>2. shutdown'
    BY <2>1 DEF Shutdown
  <2>3. QED
    BY <2>2 DEF InitPhase, AtLeastMinThreads
<1>3. CASE ~shutdown /\ CallerStep(c)
  <2>1. c = InitCaller
    <3>1. cpc[c] # "idle"
      BY <1>3 DEF CallerStep, CreateWaits, CreateFails, CreateThread, CreateResumes, AddWorker,
         AddReturns, PersistentNoMemory, HandOver, HandOverResumes, AddMinThreads, MinThreadsDone,
         MinThreadsFail, GetStatsLocks, GetStatsReturns, ShutdownResumes
    <3>2. QED
      BY <1>3, <3>1 DEF InitPhase
  <2>2. /\ cpc[c] \in {"loop", "create", "cwStart", "failed", "sdEnter"}
        /\ \A d \in Callers \ {c} : cpc[d] = "idle"
        /\ op[c] = "init" /\ loopVar[c] \in Nat /\ attr.minThreads \in Nat
        /\ attr' = attr /\ totalThreads \in Int
        /\ cpc[c] \in {"loop", "create"} =>
             pendingWorkerThreadStart = 0 /\ totalThreads + loopVar[c] = attr.minThreads
        /\ cpc[c] = "cwStart" =>
             totalThreads + pendingWorkerThreadStart + loopVar[c] = attr.minThreads + 1
    BY <1>3, <2>1, AttrStays DEF InitPhase, LoopInv
  <2>3. CASE CreateFails(c)
    BY <2>1, <2>2, <2>3 DEF CreateFails, CreateReturns, InitPhase, AtLeastMinThreads
  <2>4. ASSUME NEW w \in Workers, CreateThread(c, w) PROVE InitPhase' /\ AtLeastMinThreads'
    BY <2>1, <2>2, <2>4 DEF CreateThread, WaitStart, InitPhase, AtLeastMinThreads
  <2>5. CASE CreateResumes(c)
    <3>1. CASE pendingWorkerThreadStart = 1
      BY <2>1, <2>2, <2>5, <3>1 DEF CreateResumes, WaitStart, InitPhase, AtLeastMinThreads, counters
    <3>2. CASE pendingWorkerThreadStart = 0
      <4>0. cpc[c] = "cwStart"
        BY <2>2, <2>5 DEF CreateResumes
      <4>1. UNCHANGED <<counters, op, shutdown>>
        BY <2>5 DEF CreateResumes
      <4>2. cpc' = [cpc EXCEPT ![c] = "loop"] /\ loopVar' = [loopVar EXCEPT ![c] = loopVar[c] - 1]
        BY <2>2, <2>5, <3>2, <4>0 DEF CreateResumes, CreateReturns
      <4>3. QED
        BY <2>1, <2>2, <3>2, <4>0, <4>1, <4>2 DEF counters, InitPhase, AtLeastMinThreads
    <3>3. QED
      BY <3>1, <3>2
  <2>6. CASE AddMinThreads(c)
    BY <2>1, <2>2, <2>6 DEF AddMinThreads, Goto, counters, poolVars, InitPhase, AtLeastMinThreads
  <2>7. CASE MinThreadsDone(c)
    BY <2>1, <2>2, <2>7 DEF MinThreadsDone, Return, Goto, counters, InitPhase, AtLeastMinThreads
  <2>8. CASE MinThreadsFail(c)
    BY <2>1, <2>2, <2>8 DEF MinThreadsFail, Goto, counters, InitPhase, AtLeastMinThreads
  <2>9. ~CreateWaits(c) /\ ~AddWorker(c) /\ ~AddReturns(c) /\ ~PersistentNoMemory(c) /\ ~HandOver(c)
        /\ ~HandOverResumes(c) /\ ~GetStatsLocks(c) /\ ~GetStatsReturns(c) /\ ~ShutdownResumes(c)
    BY <2>2 DEF CreateWaits, AddWorker, AddReturns, PersistentNoMemory, HandOver, HandOverResumes,
       GetStatsLocks, GetStatsReturns, ShutdownResumes
  <2>10. QED
    BY <1>3, <2>3, <2>4, <2>5, <2>6, <2>7, <2>8, <2>9 DEF CallerStep
<1>4. QED
  BY <1>1, <1>2, <1>3

(* MinInv is inductive relative to the invariants above. *)
LEMMA MinNext ==
    /\ Types /\ CountersAgree /\ LoopInv /\ AttrInv /\ AtMostMaxThreads /\ BumpInv /\ MinInv /\ [Next]_vars
    => MinInv'
<1> SUFFICES ASSUME Types, CountersAgree, LoopInv, AttrInv, AtMostMaxThreads, BumpInv,
                    InitPhase, AtLeastMinThreads, NewAttrs = {}, AllocCanFail = FALSE, [Next]_vars
             PROVE  InitPhase' /\ AtLeastMinThreads'
  BY DEF MinInv
<1>1. CASE Tick \/ UNCHANGED vars
  BY <1>1 DEF Tick, vars, counters, poolVars, callerVars, InitPhase, AtLeastMinThreads, Ready
<1>2. ASSUME NEW c \in Callers, CallerStep(c) \/ Call(c) PROVE InitPhase' /\ AtLeastMinThreads'
  <2>1. CASE Ready
    BY <1>2, <2>1, MinReady DEF InitPhase
  <2>2. CASE ~Ready
    BY <1>2, <2>2, MinInit
  <2>3. QED
    BY <2>1, <2>2
<1>3. QED
  BY <1>1, <1>2, MinWorker DEF Next

(* MinInv holds when ThreadPoolInit starts. *)
LEMMA MinFirst == Init => MinInv
BY ThreadsAssumption, AttrAssumption
   DEF Init, MinInv, InitPhase, AtLeastMinThreads, Ready, ThreadPoolAttr

(* "pool will never have less than this number of threads" (ThreadPool.h): *)
(* from the return of ThreadPoolInit to shutdown, idle workers that time   *)
(* out leave the pool only while more than minThreads run.  Memory does    *)
(* not run out: a worker whose job BumpPriority lost leaves at any number. *)
THEOREM NeverLessThanMinThreads == ASSUME AllocCanFail = FALSE PROVE Spec => []AtLeastMinThreads
<1>1. MinInv => AtLeastMinThreads
  BY DEF MinInv, AtLeastMinThreads
<1>2. Init => MutexInv /\ BumpInv
  BY ThreadsAssumption DEF Init, MutexInv, BumpInv, Holding
<1>3. QED
  BY <1>1, <1>2, MutexNext, BumpNext, TypesInit, TypesNext, CountersInit, CountersNext, LoopInit, LoopNext,
     AtMostInit, AtMostNext, MinFirst, MinNext, PTL DEF Spec


-----------------------------------------------------------------------------
(***************************************************************************)
(* ThreadPool implements JobPool, and ThreadPoolShutdown leaves nothing.   *)
(*                                                                         *)
(* Both are proved for pools that are given at most one persistent job:    *)
(* ThreadPoolAddPersistent writes the slot without looking at it, so two   *)
(* callers can lose a job.  The pools of the SDK get one each, the timer's *)
(* worker or the mini server.                                              *)
(***************************************************************************)
OnePersistentJob == \A i, j \in PersistentJobs : i = j

(* What the pool holds and no thread has taken yet. *)
InPool == ToSet(highJobQ) \cup ToSet(medJobQ) \cup ToSet(lowJobQ) \cup ({persistentJob} \ {NoJob})

(* A job is in one queue, at one place, or in the slot. *)
QueueInv ==
    /\ Distinct(highJobQ) /\ Distinct(medJobQ) /\ Distinct(lowJobQ)
    /\ ToSet(highJobQ) \cap ToSet(medJobQ) = {}
    /\ ToSet(highJobQ) \cap ToSet(lowJobQ) = {}
    /\ ToSet(medJobQ) \cap ToSet(lowJobQ) = {}
    /\ persistentJob \notin ToSet(highJobQ) \cup ToSet(medJobQ) \cup ToSet(lowJobQ)
    /\ persistentJob \in PersistentJobs \cup {NoJob}

(* The caller is in ThreadPoolAddPersistent and has not filled the slot. *)
Offers(c) == op[c] = "persistent" /\ cpc[c] \in {"create", "cwWait", "cwStart", "handOver"}
Runs(w)   == wpc[w] = "run"

(* An accepted job waits or is run, by one worker; an offered one has its  *)
(* caller.                                                                 *)
JobInv ==
    /\ \A j \in InPool : j \in Jobs /\ hist[j] = "accepted"
    /\ \A w \in Workers : Runs(w) => /\ wjob[w] \in Jobs \ InPool
                                     /\ hist[wjob[w]] = "accepted"
    /\ \A w, v \in Workers : Runs(w) /\ Runs(v) /\ wjob[w] = wjob[v] => w = v
    /\ \A j \in Jobs : hist[j] = "accepted" => j \in InPool \/ Running(j)
    /\ \A c \in Callers : Offers(c) => cjob[c] \in PersistentJobs /\ hist[cjob[c]] = "offered"
    /\ \A c, d \in Callers : Offers(c) /\ Offers(d) /\ cjob[c] = cjob[d] => c = d
    /\ \A j \in Jobs : hist[j] = "offered" => \E c \in Callers : Offers(c) /\ cjob[c] = j

HandOverInv == \A c \in Callers : cpc[c] = "handOver" => op[c] = "persistent"

-----------------------------------------------------------------------------
(* What a step does to the jobs, and to the workers and callers that have  *)
(* one.                                                                    *)
RunsStay == \A w \in Workers : /\ Runs(w)' <=> Runs(w)
                               /\ Runs(w) => wjob'[w] = wjob[w]
OffersStayBut(S) == \A c \in Callers \ S : /\ Offers(c)' <=> Offers(c)
                                           /\ Offers(c) => cjob'[c] = cjob[c]
Becomes(j, h) == hist' = [hist EXCEPT ![j] = h]

JobsStay == hist' = hist /\ InPool' = InPool /\ RunsStay /\ OffersStayBut({})
JobRejected(j) ==
    /\ hist[j] = "new" /\ Becomes(j, "rejected")
    /\ InPool' = InPool /\ RunsStay /\ OffersStayBut({})
JobAccepted(j) ==
    /\ hist[j] = "new" /\ Becomes(j, "accepted")
    /\ InPool' = InPool \cup {j} /\ RunsStay /\ OffersStayBut({})
JobOffered(c, j) ==
    /\ hist[j] = "new" /\ j \in PersistentJobs /\ Becomes(j, "offered")
    /\ ~Offers(c) /\ Offers(c)' /\ cjob'[c] = j
    /\ InPool' = InPool /\ RunsStay /\ OffersStayBut({c})
OfferTaken(c) ==
    /\ Offers(c) /\ ~Offers(c)' /\ Becomes(cjob[c], "accepted")
    /\ InPool' = InPool \cup {cjob[c]} /\ RunsStay /\ OffersStayBut({c})
OfferRefused(c) ==
    /\ Offers(c) /\ ~Offers(c)' /\ Becomes(cjob[c], "rejected")
    /\ InPool' = InPool /\ RunsStay /\ OffersStayBut({c})
JobRemoved(j) ==
    /\ j \in InPool /\ Becomes(j, "removed")
    /\ InPool' = InPool \ {j} /\ RunsStay /\ OffersStayBut({})
JobGone(j) ==
    /\ AllocCanFail /\ j \in InPool /\ Becomes(j, "lost")
    /\ InPool' = InPool \ {j} /\ RunsStay /\ OffersStayBut({})
JobStarted(w, j) ==
    /\ j \in InPool /\ InPool' = InPool \ {j} /\ hist' = hist
    /\ wpc[w] = "bump" /\ Runs(w)' /\ wjob'[w] = j
    /\ \A v \in Workers \ {w} : (Runs(v)' <=> Runs(v)) /\ wjob'[v] = wjob[v]
    /\ OffersStayBut({})
JobFinished(w) ==
    /\ Runs(w) /\ ~Runs(w)' /\ Becomes(wjob[w], "done")
    /\ \A v \in Workers \ {w} : (Runs(v)' <=> Runs(v)) /\ wjob'[v] = wjob[v]
    /\ InPool' = InPool /\ OffersStayBut({})
JobsDiscarded ==
    /\ hist' = [j \in Jobs |-> IF j \in InPool THEN "discarded" ELSE hist[j]]
    /\ InPool' = {} /\ RunsStay /\ OffersStayBut({})

JobStep ==
    \/ JobsStay \/ JobsDiscarded
    \/ \E j \in Jobs : JobRejected(j) \/ JobAccepted(j) \/ JobRemoved(j) \/ JobGone(j)
    \/ \E c \in Callers : OfferTaken(c) \/ OfferRefused(c) \/ \E j \in Jobs : JobOffered(c, j)
    \/ \E w \in Workers : JobFinished(w) \/ \E j \in Jobs : JobStarted(w, j)

(* Every such step keeps JobInv. *)
LEMMA JobInvStep ==
    ASSUME Types, JobInv, JobStep PROVE JobInv'
<1> USE JobsAssumption DEF Types, JobTypes, WorkerTypes, CallerTypes, JobInv, Running, RunsStay,
        OffersStayBut, Becomes, Runs, Offers
<1> HIDE DEF Types
<1>1. hist \in [Jobs -> JobHist]
  BY DEF Types
<1>2. CASE JobsStay
  BY <1>1, <1>2 DEF JobsStay
<1>3. CASE JobsDiscarded
  BY <1>1, <1>3 DEF JobsDiscarded
<1>4. ASSUME NEW j \in Jobs, JobRejected(j) PROVE JobInv'
  BY <1>1, <1>4 DEF JobRejected
<1>5. ASSUME NEW j \in Jobs, JobAccepted(j) PROVE JobInv'
  BY <1>1, <1>5 DEF JobAccepted
<1>6. ASSUME NEW j \in Jobs, JobRemoved(j) PROVE JobInv'
  BY <1>1, <1>6 DEF JobRemoved
<1>7. ASSUME NEW c \in Callers, OfferTaken(c) PROVE JobInv'
  BY <1>1, <1>7 DEF OfferTaken
<1>8. ASSUME NEW c \in Callers, OfferRefused(c) PROVE JobInv'
  BY <1>1, <1>8 DEF OfferRefused
<1>9. ASSUME NEW c \in Callers, NEW j \in Jobs, JobOffered(c, j) PROVE JobInv'
  BY <1>1, <1>9 DEF JobOffered
<1>10. ASSUME NEW w \in Workers, JobFinished(w) PROVE JobInv'
  BY <1>1, <1>10 DEF JobFinished
<1>11. ASSUME NEW w \in Workers, NEW j \in Jobs, JobStarted(w, j) PROVE JobInv'
  BY <1>1, <1>11 DEF JobStarted
<1>12. ASSUME NEW j \in Jobs, JobGone(j) PROVE JobInv'
  BY <1>1, <1>12 DEF JobGone
<1>13. QED
  BY <1>2, <1>3, <1>4, <1>5, <1>6, <1>7, <1>8, <1>9, <1>10, <1>11, <1>12 DEF JobStep

(* Where memory does not run out no job is lost. *)
NoLoss == AllocCanFail \/ \A j \in Jobs : hist[j] # "lost"

(* No other step loses a job. *)
LEMMA NoLossStep ==
    ASSUME Types, JobInv, NoLoss, JobStep PROVE NoLoss'
<1>1. hist \in [Jobs -> JobHist]
  BY DEF Types, JobTypes
<1>2. \/ AllocCanFail \/ hist' = hist
      \/ \E j \in Jobs, h \in JobHist \ {"lost"} : Becomes(j, h)
      \/ JobsDiscarded
  BY JobsAssumption DEF JobStep, JobsStay, JobRejected, JobAccepted, JobRemoved, JobGone, OfferTaken,
     OfferRefused, JobOffered, JobFinished, JobStarted, JobInv, JobHist
<1>3. QED
  BY <1>1, <1>2 DEF NoLoss, Becomes, JobsDiscarded

(* A new element at the end of a sequence. *)
LEMMA AppendMembers ==
    ASSUME NEW S, NEW q \in Seq(S), NEW e \in S
    PROVE  /\ Append(q, e) \in Seq(S) /\ ToSet(Append(q, e)) = ToSet(q) \cup {e}
           /\ Distinct(q) /\ e \notin ToSet(q) => Distinct(Append(q, e))
<1> DEFINE r == Append(q, e)
<1>1. /\ r \in Seq(S) /\ Len(r) = Len(q) + 1 /\ r[Len(q) + 1] = e
      /\ \A k \in 1 .. Len(q) : r[k] = q[k]
  OBVIOUS
<1> HIDE DEF r
<1>2. ASSUME NEW x \in ToSet(r) PROVE x \in ToSet(q) \cup {e}
  <2>1. PICK k \in 1 .. Len(q) + 1 : x = r[k]
    BY <1>1, ToSetPlaces
  <2>2. QED
    BY <1>1, <2>1, ToSetPlaces
<1>3. ASSUME NEW x \in ToSet(q) \cup {e} PROVE x \in ToSet(r)
  BY <1>1, ToSetPlaces
<1>4. ASSUME Distinct(q), e \notin ToSet(q) PROVE Distinct(r)
  <2>1. \A k \in 1 .. Len(q) : q[k] # e
    BY <1>4, ToSetPlaces
  <2>2. QED
    BY <1>1, <1>4, <2>1 DEF Distinct
<1>5. QED
  BY <1>1, <1>2, <1>3, <1>4 DEF r

-----------------------------------------------------------------------------
(* Steps that leave the queues, and what became of the jobs, alone.        *)
LEMMA QueuesStay ==
    ASSUME QueueInv, UNCHANGED queues
    PROVE  InPool' = InPool /\ QueueInv'
BY DEF QueueInv, InPool, queues

(* A signal wakes a worker that waits, it does not touch one that runs. *)
LEMMA SignalKeepsRuns ==
    ASSUME Types, SignalCondition \/ wpc' = wpc, wjob' = wjob
    PROVE  RunsStay
BY DEF SignalCondition, Waiting, RunsStay, Runs, Types, WorkerTypes

(* The steps of a worker that has no job. *)
LEMMA WorkerStays ==
    ASSUME Types, QueueInv, NEW w \in Workers,
           \/ WorkerStart(w) \/ WorkerTop(w) \/ WorkerDie(w) \/ WorkerWait(w)
           \/ WorkerLeaveWait(w) \/ WorkerWakes(w) \/ WorkerStop(w) \/ WorkerStrays(w)
           \/ WorkerTimeOut(w)
    PROVE  JobsStay /\ QueueInv'
<1>1. /\ UNCHANGED queues /\ hist' = hist /\ UNCHANGED callerVars
      /\ wpc[w] # "run" /\ \E p \in WorkerPC \ {"run"} : wpc' = [wpc EXCEPT ![w] = p]
      /\ \A v \in Workers \ {w} : wjob'[v] = wjob[v]
  BY DEF WorkerStart, WorkerTop, WorkerDie, WorkerWait, WorkerLeaveWait, WorkerWakes, WorkerStop, WorkerStrays,
     WorkerTimeOut, WorkerExit, Bumped, jobVars, Types, WorkerTypes, WorkerPC, queues
<1>2. InPool' = InPool /\ QueueInv'
  BY <1>1, QueuesStay
<1>3. RunsStay
  BY <1>1 DEF RunsStay, Runs, Types, WorkerTypes
<1>4. OffersStayBut({})
  BY <1>1 DEF OffersStayBut, Offers, callerVars
<1>5. QED
  BY <1>1, <1>2, <1>3, <1>4 DEF JobsStay

(* The steps of a caller that do not touch a job. *)
LEMMA CallerStays ==
    ASSUME Types, QueueInv, HandOverInv, NEW c \in Callers,
           \/ CreateWaits(c) \/ CreateFails(c) \/ CreateResumes(c)
           \/ (\E w \in Workers : CreateThread(c, w))
           \/ AddWorker(c) \/ AddReturns(c) \/ HandOverResumes(c) \/ AddMinThreads(c)
           \/ MinThreadsDone(c) \/ MinThreadsFail(c) \/ GetStatsLocks(c) \/ GetStatsReturns(c)
           \/ ShutdownResumes(c) \/ GetStats(c) \/ (\E a \in NewAttrs : SetAttr(c, a))
    PROVE  JobsStay /\ QueueInv' /\ HandOverInv'
<1> USE DEF Types, CallerTypes
<1> DEFINE CallerGoes ==
       /\ (Offers(c)' <=> Offers(c)) /\ (Offers(c) => cjob'[c] = cjob[c])
       /\ cpc'[c] = "handOver" => op'[c] = "persistent"
       /\ \A d \in Callers \ {c} : cpc'[d] = cpc[d] /\ op'[d] = op[d] /\ cjob'[d] = cjob[d]
<1>1. CASE \/ CreateWaits(c) \/ CreateFails(c) \/ CreateResumes(c)
           \/ \E w \in Workers : CreateThread(c, w)
  <2>1. UNCHANGED queues /\ hist' = hist /\ wjob' = wjob
    BY <1>1 DEF CreateWaits, CreateFails, CreateResumes, CreateThread, jobVars, workerVars
  <2>2. RunsStay
    BY <1>1, <2>1 DEF CreateWaits, CreateFails, CreateResumes, CreateThread, workerVars, RunsStay,
       Runs, WorkerTypes
  <2>3. ASSUME CreateWaits(c) PROVE CallerGoes
    BY <2>3 DEF CreateWaits, WaitStart, Offers
  <2>4. ASSUME CreateFails(c) PROVE CallerGoes
    BY <2>4 DEF CreateFails, CreateReturns, Offers
  <2>5. ASSUME CreateResumes(c) PROVE CallerGoes
    BY <2>5 DEF CreateResumes, CreateReturns, WaitStart, Offers
  <2>6. ASSUME (\E w \in Workers : CreateThread(c, w)) PROVE CallerGoes
    BY <2>6 DEF CreateThread, WaitStart, Offers
  <2>7. CallerGoes
    BY <1>1, <2>3, <2>4, <2>5, <2>6
  <2>8. QED
    BY <2>1, <2>2, <2>7, QueuesStay DEF JobsStay, OffersStayBut, Offers, HandOverInv
<1>2. CASE \/ AddWorker(c) \/ AddMinThreads(c) \/ GetStatsLocks(c) \/ GetStatsReturns(c)
           \/ GetStats(c) \/ ShutdownResumes(c) \/ HandOverResumes(c)
  <2>1. UNCHANGED queues /\ hist' = hist /\ UNCHANGED workerVars
    BY <1>2 DEF AddWorker, AddMinThreads, GetStatsLocks, GetStatsReturns, GetStats,
       ShutdownResumes, HandOverResumes, jobVars
  <2>2. RunsStay
    BY <2>1 DEF workerVars, RunsStay, Runs
  <2>3. ASSUME AddWorker(c) \/ AddMinThreads(c) PROVE CallerGoes
    BY <2>3 DEF AddWorker, AddMinThreads, Goto, Offers
  <2>4. ASSUME GetStatsLocks(c) \/ GetStatsReturns(c) \/ GetStats(c) PROVE CallerGoes
    BY <2>4 DEF GetStatsLocks, GetStatsReturns, GetStats, MayCall, Goto, Offers
  <2>5. ASSUME ShutdownResumes(c) \/ HandOverResumes(c) PROVE CallerGoes
    BY <2>5 DEF ShutdownResumes, HandOverResumes, AwaitThreads, WaitStart, Return, Goto, Offers
  <2>6. CallerGoes
    BY <1>2, <2>3, <2>4, <2>5
  <2>7. QED
    BY <2>1, <2>2, <2>6, QueuesStay DEF JobsStay, OffersStayBut, Offers, HandOverInv
<1>3. CASE AddReturns(c) \/ MinThreadsDone(c) \/ MinThreadsFail(c)
  <2>1. UNCHANGED queues /\ hist' = hist /\ wjob' = wjob /\ (SignalCondition \/ wpc' = wpc)
    BY <1>3 DEF AddReturns, MinThreadsDone, MinThreadsFail, SignalIfSetAttr, jobVars
  <2>2. RunsStay
    BY <2>1, SignalKeepsRuns
  <2>3. CallerGoes
    BY <1>3 DEF AddReturns, MinThreadsDone, MinThreadsFail, Return, Goto, Offers
  <2>4. QED
    BY <2>1, <2>2, <2>3, QueuesStay DEF JobsStay, OffersStayBut, Offers, HandOverInv
<1>4. CASE \E a \in NewAttrs : SetAttr(c, a)
  <2>1. UNCHANGED queues /\ hist' = hist /\ UNCHANGED workerVars
    BY <1>4 DEF SetAttr, jobVars
  <2>2. RunsStay
    BY <2>1 DEF workerVars, RunsStay, Runs
  <2>3. CallerGoes
    BY <1>4 DEF SetAttr, MayCall, Goto, Offers
  <2>4. QED
    BY <2>1, <2>2, <2>3, QueuesStay DEF JobsStay, OffersStayBut, Offers, HandOverInv
<1>5. QED
  BY <1>1, <1>2, <1>3, <1>4

-----------------------------------------------------------------------------
(* Steps that move, start or end a job.                                    *)

(* The head of a queue is one of its jobs, and not in the rest. *)
LEMMA HeadLeaves ==
    ASSUME NEW q \in Seq(Jobs), q # <<>>, Distinct(q)
    PROVE  /\ Head(q) \in Jobs /\ Head(q) \in ToSet(q) /\ Tail(q) \in Seq(Jobs)
           /\ ToSet(Tail(q)) = ToSet(q) \ {Head(q)} /\ Distinct(Tail(q))
<1>1. Len(q) >= 1 /\ Head(q) = q[1] /\ Head(q) \in Jobs /\ Tail(q) \in Seq(Jobs)
  BY TailElements
<1>2. Head(q) \in ToSet(q)
  BY <1>1, ToSetPlaces
<1>3. QED
  BY <1>1, <1>2, TailMembers

(* BumpPriority moves a job from one queue to the next, or loses it. *)
LEMMA BumpMoves ==
    ASSUME Types, QueueInv, NEW w \in Workers, BumpMed(w) \/ BumpLow(w)
    PROVE  (JobsStay \/ \E j \in Jobs : JobGone(j)) /\ QueueInv'
<1>1. UNCHANGED <<workerVars, callerVars, persistentJob>>
  BY DEF BumpMed, BumpLow
<1>2. RunsStay /\ OffersStayBut({})
  BY <1>1 DEF RunsStay, Runs, OffersStayBut, Offers, workerVars, callerVars
<1>3. CASE BumpMed(w)
  <2>1. /\ medJobQ \in Seq(Jobs) /\ highJobQ \in Seq(Jobs) /\ medJobQ # <<>>
        /\ medJobQ' = Tail(medJobQ) /\ lowJobQ' = lowJobQ
    BY <1>3 DEF BumpMed, MedStarved, Types, QueueTypes
  <2>2. /\ Head(medJobQ) \in Jobs /\ Head(medJobQ) \in ToSet(medJobQ)
        /\ ToSet(medJobQ') = ToSet(medJobQ) \ {Head(medJobQ)} /\ Distinct(medJobQ')
    BY <2>1, HeadLeaves DEF QueueInv
  <2>3. CASE highJobQ' = Append(highJobQ, Head(medJobQ)) /\ hist' = hist
    <3>1. /\ ToSet(highJobQ') = ToSet(highJobQ) \cup {Head(medJobQ)} /\ Distinct(highJobQ')
      BY <2>1, <2>2, <2>3, AppendMembers DEF QueueInv
    <3>2. InPool' = InPool /\ QueueInv'
      BY <1>1, <2>1, <2>2, <3>1 DEF QueueInv, InPool
    <3>3. QED
      BY <1>2, <2>3, <3>2 DEF JobsStay
  <2>4. CASE AllocCanFail /\ JobLost(Head(medJobQ)) /\ highJobQ' = highJobQ
    <3>1. InPool' = InPool \ {Head(medJobQ)} /\ QueueInv' /\ Head(medJobQ) \in InPool
      BY <1>1, <2>1, <2>2, <2>4 DEF QueueInv, InPool
    <3>2. JobGone(Head(medJobQ))
      BY <1>2, <2>4, <3>1 DEF JobGone, JobLost, Becomes
    <3>3. QED
      BY <2>2, <3>1, <3>2
  <2>5. QED
    BY <1>3, <2>3, <2>4 DEF BumpMed
<1>4. CASE BumpLow(w)
  <2>1. /\ lowJobQ \in Seq(Jobs) /\ medJobQ \in Seq(Jobs) /\ lowJobQ # <<>>
        /\ lowJobQ' = Tail(lowJobQ) /\ highJobQ' = highJobQ
    BY <1>4 DEF BumpLow, LowStarved, Types, QueueTypes
  <2>2. /\ Head(lowJobQ) \in Jobs /\ Head(lowJobQ) \in ToSet(lowJobQ)
        /\ ToSet(lowJobQ') = ToSet(lowJobQ) \ {Head(lowJobQ)} /\ Distinct(lowJobQ')
    BY <2>1, HeadLeaves DEF QueueInv
  <2>3. CASE medJobQ' = Append(medJobQ, Head(lowJobQ)) /\ hist' = hist
    <3>1. /\ ToSet(medJobQ') = ToSet(medJobQ) \cup {Head(lowJobQ)} /\ Distinct(medJobQ')
      BY <2>1, <2>2, <2>3, AppendMembers DEF QueueInv
    <3>2. InPool' = InPool /\ QueueInv'
      BY <1>1, <2>1, <2>2, <3>1 DEF QueueInv, InPool
    <3>3. QED
      BY <1>2, <2>3, <3>2 DEF JobsStay
  <2>4. CASE AllocCanFail /\ JobLost(Head(lowJobQ)) /\ medJobQ' = medJobQ
    <3>1. InPool' = InPool \ {Head(lowJobQ)} /\ QueueInv' /\ Head(lowJobQ) \in InPool
      BY <1>1, <2>1, <2>2, <2>4 DEF QueueInv, InPool
    <3>2. JobGone(Head(lowJobQ))
      BY <1>2, <2>4, <3>1 DEF JobGone, JobLost, Becomes
    <3>3. QED
      BY <2>2, <3>1, <3>2
  <2>5. QED
    BY <1>4, <2>3, <2>4 DEF BumpLow
<1>5. QED
  BY <1>3, <1>4

(* A worker takes a job out of the pool. *)
LEMMA TakeStarts ==
    ASSUME Types, QueueInv, NEW w \in Workers, TakePersistent(w) \/ TakeJob(w)
    PROVE  (\E j \in Jobs : JobStarted(w, j)) /\ QueueInv'
<1>1. wpc[w] = "bump" /\ hist' = hist /\ UNCHANGED callerVars
  BY DEF TakePersistent, TakeJob, Bumped, jobVars
<1>2. OffersStayBut({})
  BY <1>1 DEF OffersStayBut, Offers, callerVars
<1>3. ASSUME NEW j \in Jobs, NEW k, RunJob(w, j, k)
      PROVE  /\ Runs(w)' /\ wjob'[w] = j
             /\ \A v \in Workers \ {w} : (Runs(v)' <=> Runs(v)) /\ wjob'[v] = wjob[v]
  BY <1>3 DEF RunJob, Runs, Types, WorkerTypes
<1>4. CASE TakePersistent(w)
  <2>1. persistentJob \in Jobs /\ persistentJob' = NoJob /\ UNCHANGED <<highJobQ, medJobQ, lowJobQ>>
    BY <1>4 DEF TakePersistent, Types, QueueTypes
  <2>2. persistentJob \in InPool /\ InPool' = InPool \ {persistentJob} /\ QueueInv'
    <3>1. NoJob \notin ToSet(highJobQ) \cup ToSet(medJobQ) \cup ToSet(lowJobQ)
      BY JobsAssumption, ToSetPlaces DEF Types, QueueTypes
    <3>2. QED
      BY <2>1, <3>1, JobsAssumption DEF InPool, QueueInv
  <2>3. JobStarted(w, persistentJob)
    BY <1>1, <1>2, <1>3, <1>4, <2>1, <2>2 DEF TakePersistent, JobStarted
  <2>4. QED
    BY <2>1, <2>2, <2>3
<1>5. CASE TakeJob(w)
  <2>1. persistentJob' = persistentJob
    BY <1>5 DEF TakeJob
  <2>2. /\ highJobQ \in Seq(Jobs) /\ medJobQ \in Seq(Jobs) /\ lowJobQ \in Seq(Jobs)
        /\ Distinct(highJobQ) /\ Distinct(medJobQ) /\ Distinct(lowJobQ)
    BY DEF Types, QueueTypes, QueueInv
  <2>3. CASE /\ highJobQ # <<>> /\ RunJob(w, Head(highJobQ), "regular")
             /\ highJobQ' = Tail(highJobQ) /\ UNCHANGED <<medJobQ, lowJobQ>>
    <3>1. /\ Head(highJobQ) \in Jobs /\ Head(highJobQ) \in ToSet(highJobQ)
          /\ ToSet(highJobQ') = ToSet(highJobQ) \ {Head(highJobQ)} /\ Distinct(highJobQ')
      BY <2>2, <2>3, HeadLeaves
    <3>2. Head(highJobQ) \in InPool /\ InPool' = InPool \ {Head(highJobQ)} /\ QueueInv'
      BY <2>1, <2>3, <3>1 DEF InPool, QueueInv
    <3>3. JobStarted(w, Head(highJobQ))
      BY <1>1, <1>2, <1>3, <2>3, <3>1, <3>2 DEF JobStarted
    <3>4. QED
      BY <3>1, <3>2, <3>3
  <2>4. CASE /\ medJobQ # <<>> /\ RunJob(w, Head(medJobQ), "regular")
             /\ medJobQ' = Tail(medJobQ) /\ UNCHANGED <<highJobQ, lowJobQ>>
    <3>1. /\ Head(medJobQ) \in Jobs /\ Head(medJobQ) \in ToSet(medJobQ)
          /\ ToSet(medJobQ') = ToSet(medJobQ) \ {Head(medJobQ)} /\ Distinct(medJobQ')
      BY <2>2, <2>4, HeadLeaves
    <3>2. Head(medJobQ) \in InPool /\ InPool' = InPool \ {Head(medJobQ)} /\ QueueInv'
      BY <2>1, <2>4, <3>1 DEF InPool, QueueInv
    <3>3. JobStarted(w, Head(medJobQ))
      BY <1>1, <1>2, <1>3, <2>4, <3>1, <3>2 DEF JobStarted
    <3>4. QED
      BY <3>1, <3>2, <3>3
  <2>5. CASE /\ lowJobQ # <<>> /\ RunJob(w, Head(lowJobQ), "regular")
             /\ lowJobQ' = Tail(lowJobQ) /\ UNCHANGED <<highJobQ, medJobQ>>
    <3>1. /\ Head(lowJobQ) \in Jobs /\ Head(lowJobQ) \in ToSet(lowJobQ)
          /\ ToSet(lowJobQ') = ToSet(lowJobQ) \ {Head(lowJobQ)} /\ Distinct(lowJobQ')
      BY <2>2, <2>5, HeadLeaves
    <3>2. Head(lowJobQ) \in InPool /\ InPool' = InPool \ {Head(lowJobQ)} /\ QueueInv'
      BY <2>1, <2>5, <3>1 DEF InPool, QueueInv
    <3>3. JobStarted(w, Head(lowJobQ))
      BY <1>1, <1>2, <1>3, <2>5, <3>1, <3>2 DEF JobStarted
    <3>4. QED
      BY <3>1, <3>2, <3>3
  <2>6. QED
    BY <1>5, <2>3, <2>4, <2>5 DEF TakeJob
<1>6. QED
  BY <1>4, <1>5

(* A job returns. *)
LEMMA ReturnFinishes ==
    ASSUME Types, QueueInv, NEW w \in Workers, JobReturns(w)
    PROVE  JobFinished(w) /\ QueueInv'
<1>1. UNCHANGED queues /\ UNCHANGED callerVars /\ wjob' = wjob
  BY DEF JobReturns
<1>2. InPool' = InPool /\ QueueInv'
  BY <1>1, QueuesStay
<1>3. OffersStayBut({})
  BY <1>1 DEF OffersStayBut, Offers, callerVars
<1>4. QED
  BY <1>1, <1>2, <1>3 DEF JobReturns, JobFinished, Becomes, Runs, Types, WorkerTypes

(* ThreadPoolAdd: the job is accepted or rejected. *)
LEMMA AddDecides ==
    ASSUME Types, QueueInv, JobInv, NEW c \in Callers, NEW j \in Jobs \ PersistentJobs,
           \/ AddRefused(c, j)
           \/ \E priority \in Priorities, ok \in BOOLEAN : AddEnqueue(c, j, priority, ok)
    PROVE  (JobRejected(j) \/ JobAccepted(j)) /\ QueueInv'
<1>1. hist[j] = "new" /\ j \notin InPool /\ UNCHANGED <<wpc, wjob, persistentJob>>
  BY DEF AddRefused, AddEnqueue, JobInv, queues, workerVars
<1>2. RunsStay
  BY <1>1 DEF RunsStay, Runs
<1>3. CASE AddRefused(c, j)
  <2>1. UNCHANGED queues /\ UNCHANGED callerVars /\ Becomes(j, "rejected")
    BY <1>3 DEF AddRefused, Becomes
  <2>2. OffersStayBut({})
    BY <2>1 DEF OffersStayBut, Offers, callerVars
  <2>3. QED
    BY <1>1, <1>2, <2>1, <2>2, QueuesStay DEF JobRejected
<1>4. ASSUME NEW priority \in Priorities, NEW ok \in BOOLEAN, AddEnqueue(c, j, priority, ok)
      PROVE  (JobRejected(j) \/ JobAccepted(j)) /\ QueueInv'
  <2>1. OffersStayBut({})
    BY <1>4 DEF AddEnqueue, MayCall, Goto, OffersStayBut, Offers, Types, CallerTypes
  <2>2. CASE ~ok
    <3>1. UNCHANGED queues /\ Becomes(j, "rejected")
      BY <1>4, <2>2 DEF AddEnqueue, queues, Becomes
    <3>2. QED
      BY <1>1, <1>2, <2>1, <3>1, QueuesStay DEF JobRejected
  <2>3. CASE ok
    <3>1. Becomes(j, "accepted")
      BY <1>4, <2>3 DEF AddEnqueue, Becomes
    <3>2. /\ highJobQ \in Seq(Jobs) /\ medJobQ \in Seq(Jobs) /\ lowJobQ \in Seq(Jobs)
          /\ Distinct(highJobQ) /\ Distinct(medJobQ) /\ Distinct(lowJobQ)
          /\ j \notin ToSet(highJobQ) \cup ToSet(medJobQ) \cup ToSet(lowJobQ)
      BY <1>1 DEF Types, QueueTypes, QueueInv, InPool
    <3>3. persistentJob # j
      BY JobsAssumption DEF QueueInv
    <3>4. /\ ToSet(Append(highJobQ, j)) = ToSet(highJobQ) \cup {j} /\ Distinct(Append(highJobQ, j))
          /\ ToSet(Append(medJobQ, j)) = ToSet(medJobQ) \cup {j} /\ Distinct(Append(medJobQ, j))
          /\ ToSet(Append(lowJobQ, j)) = ToSet(lowJobQ) \cup {j} /\ Distinct(Append(lowJobQ, j))
      BY <3>2, AppendMembers
    <3>5. \/ highJobQ' = Append(highJobQ, j) /\ UNCHANGED <<medJobQ, lowJobQ>>
          \/ medJobQ' = Append(medJobQ, j) /\ UNCHANGED <<highJobQ, lowJobQ>>
          \/ lowJobQ' = Append(lowJobQ, j) /\ UNCHANGED <<highJobQ, medJobQ>>
      BY <1>4, <2>3, BoundsAssumption DEF AddEnqueue
    <3>6. InPool' = InPool \cup {j} /\ QueueInv'
      <4>1. CASE highJobQ' = Append(highJobQ, j) /\ UNCHANGED <<medJobQ, lowJobQ>>
        BY <1>1, <3>2, <3>3, <3>4, <4>1 DEF InPool, QueueInv
      <4>2. CASE medJobQ' = Append(medJobQ, j) /\ UNCHANGED <<highJobQ, lowJobQ>>
        BY <1>1, <3>2, <3>3, <3>4, <4>2 DEF InPool, QueueInv
      <4>3. CASE lowJobQ' = Append(lowJobQ, j) /\ UNCHANGED <<highJobQ, medJobQ>>
        BY <1>1, <3>2, <3>3, <3>4, <4>3 DEF InPool, QueueInv
      <4>4. QED
        BY <3>5, <4>1, <4>2, <4>3
    <3>7. QED
      BY <1>1, <1>2, <2>1, <3>1, <3>6 DEF JobAccepted
  <2>4. QED
    BY <2>2, <2>3
<1>5. QED
  BY <1>3, <1>4

(* ThreadPoolAddPersistent begins: the job is offered, or rejected. *)
LEMMA PersistentOffers ==
    ASSUME Types, QueueInv, NEW c \in Callers, NEW j \in PersistentJobs, AddPersistent(c, j)
    PROVE  (JobRejected(j) \/ JobOffered(c, j)) /\ QueueInv'
<1>1. hist[j] = "new" /\ cpc[c] = "idle" /\ UNCHANGED queues /\ UNCHANGED workerVars
  BY DEF AddPersistent, MayCall
<1>2. RunsStay /\ InPool' = InPool /\ QueueInv'
  BY <1>1, QueuesStay DEF RunsStay, Runs, workerVars
<1>3. CASE PersistentRefused
  <2>1. Becomes(j, "rejected") /\ UNCHANGED <<cpc, op, cjob>>
    BY <1>3 DEF AddPersistent, Becomes
  <2>2. QED
    BY <1>1, <1>2, <2>1 DEF JobRejected, OffersStayBut, Offers
<1>4. CASE ~PersistentRefused
  <2>1. /\ Becomes(j, "offered") /\ op' = [op EXCEPT ![c] = "persistent"]
        /\ cjob' = [cjob EXCEPT ![c] = j]
        /\ cpc' = [cpc EXCEPT ![c] = "create"] \/ cpc' = [cpc EXCEPT ![c] = "handOver"]
    BY <1>4 DEF AddPersistent, Becomes, Goto
  <2>2. Offers(c)' /\ ~Offers(c) /\ cjob'[c] = j /\ OffersStayBut({c})
    BY <1>1, <2>1 DEF OffersStayBut, Offers, Types, CallerTypes
  <2>3. QED
    BY <1>1, <1>2, <2>1, <2>2 DEF JobOffered
<1>5. QED
  BY <1>3, <1>4

(* It ends, and finds no memory or puts the job in the slot, which is free. *)
LEMMA OfferEnds ==
    ASSUME Types, QueueInv, JobInv, HandOverInv, OnePersistentJob, NEW c \in Callers,
           PersistentNoMemory(c) \/ HandOver(c)
    PROVE  (OfferRefused(c) \/ OfferTaken(c)) /\ QueueInv'
<1>1. /\ Offers(c) /\ cpc[c] = "handOver" /\ cjob[c] \in PersistentJobs
      /\ hist[cjob[c]] = "offered"
  BY DEF PersistentNoMemory, HandOver, HandOverInv, JobInv, Offers
<1>2. CASE PersistentNoMemory(c)
  <2>1. UNCHANGED queues /\ UNCHANGED workerVars /\ Becomes(cjob[c], "rejected")
    BY <1>2 DEF PersistentNoMemory, Becomes
  <2>2. RunsStay /\ InPool' = InPool /\ QueueInv'
    BY <2>1, QueuesStay DEF RunsStay, Runs, workerVars
  <2>3. ~Offers(c)' /\ OffersStayBut({c})
    BY <1>2 DEF PersistentNoMemory, Return, Goto, OffersStayBut, Offers, Types, CallerTypes
  <2>4. QED
    BY <1>1, <2>1, <2>2, <2>3 DEF OfferRefused
<1>3. CASE HandOver(c)
  <2>1. /\ Becomes(cjob[c], "accepted") /\ persistentJob' = cjob[c]
        /\ UNCHANGED <<highJobQ, medJobQ, lowJobQ, wjob, op, cjob>> /\ SignalCondition
        /\ cpc' = [cpc EXCEPT ![c] = "apWait"]
    BY <1>3 DEF HandOver, Becomes, WaitStart
  <2>2. RunsStay
    BY <2>1, SignalKeepsRuns
  <2>3. ~Offers(c)' /\ OffersStayBut({c})
    BY <2>1 DEF OffersStayBut, Offers, Types, CallerTypes
  <2>4. persistentJob = NoJob
    <3>1. SUFFICES ASSUME persistentJob # NoJob PROVE FALSE
      OBVIOUS
    <3>2. persistentJob = cjob[c]
      BY <1>1, <3>1 DEF QueueInv, OnePersistentJob
    <3>3. cjob[c] \in InPool
      BY <3>1, <3>2 DEF InPool
    <3>4. QED
      BY <1>1, <3>3 DEF JobInv
  <2>5. cjob[c] \notin InPool /\ cjob[c] # NoJob
    BY <1>1, JobsAssumption DEF JobInv
  <2>6. InPool' = InPool \cup {cjob[c]} /\ QueueInv'
    BY <1>1, <2>1, <2>4, <2>5 DEF InPool, QueueInv
  <2>7. QED
    BY <1>1, <2>1, <2>2, <2>3, <2>6 DEF OfferTaken
<1>4. QED
  BY <1>2, <1>3

(* ThreadPoolRemove takes out one job that waits. *)
LEMMA RemoveRemoves ==
    ASSUME Types, QueueInv, NEW c \in Callers, NEW j \in Jobs, RemoveJob(c, j)
    PROVE  (\E i \in Jobs : JobRemoved(i)) /\ QueueInv'
<1>1. UNCHANGED workerVars /\ UNCHANGED callerVars
  BY DEF RemoveJob
<1>2. RunsStay /\ OffersStayBut({})
  BY <1>1 DEF RunsStay, Runs, workerVars, OffersStayBut, Offers, callerVars
<1>3. ASSUME NEW q \in Seq(Jobs), Distinct(q), NEW i \in 1 .. Len(q)
      PROVE  /\ q[i] \in Jobs /\ q[i] \in ToSet(q)
             /\ ToSet(RemoveAt(q, i)) = ToSet(q) \ {q[i]} /\ Distinct(RemoveAt(q, i))
  BY <1>3, RemoveAtMembers, ToSetPlaces
<1>4. /\ highJobQ \in Seq(Jobs) /\ medJobQ \in Seq(Jobs) /\ lowJobQ \in Seq(Jobs)
      /\ Distinct(highJobQ) /\ Distinct(medJobQ) /\ Distinct(lowJobQ)
  BY DEF Types, QueueTypes, QueueInv
<1>5. CASE /\ \E i \in 1 .. Len(highJobQ) : highJobQ' = RemoveAt(highJobQ, i)
                                            /\ Becomes(highJobQ[i], "removed")
           /\ UNCHANGED <<medJobQ, lowJobQ, persistentJob>>
  <2>1. PICK i \in 1 .. Len(highJobQ) : highJobQ' = RemoveAt(highJobQ, i)
                                        /\ Becomes(highJobQ[i], "removed")
    BY <1>5
  <2>2. /\ highJobQ[i] \in Jobs /\ highJobQ[i] \in ToSet(highJobQ)
        /\ ToSet(highJobQ') = ToSet(highJobQ) \ {highJobQ[i]} /\ Distinct(highJobQ')
    BY <1>3, <1>4, <2>1
  <2>3. highJobQ[i] \in InPool /\ InPool' = InPool \ {highJobQ[i]} /\ QueueInv'
    BY <1>5, <2>2 DEF InPool, QueueInv
  <2>4. QED
    BY <1>2, <2>1, <2>2, <2>3 DEF JobRemoved
<1>6. CASE /\ \E i \in 1 .. Len(medJobQ) : medJobQ' = RemoveAt(medJobQ, i)
                                           /\ Becomes(medJobQ[i], "removed")
           /\ UNCHANGED <<highJobQ, lowJobQ, persistentJob>>
  <2>1. PICK i \in 1 .. Len(medJobQ) : medJobQ' = RemoveAt(medJobQ, i)
                                       /\ Becomes(medJobQ[i], "removed")
    BY <1>6
  <2>2. /\ medJobQ[i] \in Jobs /\ medJobQ[i] \in ToSet(medJobQ)
        /\ ToSet(medJobQ') = ToSet(medJobQ) \ {medJobQ[i]} /\ Distinct(medJobQ')
    BY <1>3, <1>4, <2>1
  <2>3. medJobQ[i] \in InPool /\ InPool' = InPool \ {medJobQ[i]} /\ QueueInv'
    BY <1>6, <2>2 DEF InPool, QueueInv
  <2>4. QED
    BY <1>2, <2>1, <2>2, <2>3 DEF JobRemoved
<1>7. CASE /\ \E i \in 1 .. Len(lowJobQ) : lowJobQ' = RemoveAt(lowJobQ, i)
                                           /\ Becomes(lowJobQ[i], "removed")
           /\ UNCHANGED <<highJobQ, medJobQ, persistentJob>>
  <2>1. PICK i \in 1 .. Len(lowJobQ) : lowJobQ' = RemoveAt(lowJobQ, i)
                                       /\ Becomes(lowJobQ[i], "removed")
    BY <1>7
  <2>2. /\ lowJobQ[i] \in Jobs /\ lowJobQ[i] \in ToSet(lowJobQ)
        /\ ToSet(lowJobQ') = ToSet(lowJobQ) \ {lowJobQ[i]} /\ Distinct(lowJobQ')
    BY <1>3, <1>4, <2>1
  <2>3. lowJobQ[i] \in InPool /\ InPool' = InPool \ {lowJobQ[i]} /\ QueueInv'
    BY <1>7, <2>2 DEF InPool, QueueInv
  <2>4. QED
    BY <1>2, <2>1, <2>2, <2>3 DEF JobRemoved
<1>8. CASE /\ persistentJob # NoJob /\ persistentJob' = NoJob
           /\ Becomes(persistentJob, "removed") /\ UNCHANGED <<highJobQ, medJobQ, lowJobQ>>
  <2>1. NoJob \notin ToSet(highJobQ) \cup ToSet(medJobQ) \cup ToSet(lowJobQ)
    BY <1>4, JobsAssumption, ToSetPlaces
  <2>2. persistentJob \in Jobs /\ persistentJob \in InPool
    BY <1>8, JobsAssumption DEF QueueInv, InPool
  <2>3. InPool' = InPool \ {persistentJob} /\ QueueInv'
    BY <1>8, <2>1 DEF InPool, QueueInv
  <2>4. QED
    BY <1>2, <1>8, <2>2, <2>3 DEF JobRemoved
<1>9. QED
  BY <1>5, <1>6, <1>7, <1>8, Zenon DEF RemoveJob, Becomes

(* ThreadPoolShutdown discards what waits. *)
LEMMA ShutdownDiscards ==
    ASSUME Types, QueueInv, NEW c \in Callers, Shutdown(c)
    PROVE  JobsDiscarded /\ QueueInv'
<1>1. /\ highJobQ' = <<>> /\ medJobQ' = <<>> /\ lowJobQ' = <<>> /\ persistentJob' = NoJob
      /\ wjob' = wjob
      /\ wpc' = [w \in Workers |-> IF wpc[w] = "wait" THEN "woken" ELSE wpc[w]]
  BY DEF Shutdown
<1>2. hist' = [j \in Jobs |-> IF j \in InPool THEN "discarded" ELSE hist[j]]
  <2>1. \A j \in Jobs : j \in InPool <=>
          j \in ToSet(highJobQ) \cup ToSet(medJobQ) \cup ToSet(lowJobQ) \cup {persistentJob}
    BY JobsAssumption DEF InPool
  <2>2. QED
    BY <2>1 DEF Shutdown
<1>3. ToSet(<<>>) = {}
  BY DEF ToSet
<1>4. InPool' = {} /\ QueueInv'
  BY <1>1, <1>3 DEF InPool, QueueInv, Distinct
<1>5. RunsStay
  BY <1>1 DEF RunsStay, Runs
<1>6. OffersStayBut({})
  BY DEF Shutdown, AwaitThreads, WaitStart, Return, Goto, MayCall, OffersStayBut, Offers, Types,
     CallerTypes
<1>7. QED
  BY <1>2, <1>4, <1>5, <1>6 DEF JobsDiscarded

(* The calls that touch a job leave no caller at the slot but the one of   *)
(* ThreadPoolAddPersistent.                                                *)
LEMMA CallsKeepHandOver ==
    ASSUME Types, HandOverInv, NEW c \in Callers, NEW j \in Jobs,
           \/ AddRefused(c, j) \/ AddPersistent(c, j) \/ RemoveJob(c, j) \/ Shutdown(c)
           \/ \E priority \in Priorities, ok \in BOOLEAN : AddEnqueue(c, j, priority, ok)
           \/ PersistentNoMemory(c) \/ HandOver(c)
    PROVE  HandOverInv'
<1> USE DEF HandOverInv, Types, CallerTypes, Goto
<1>1. CASE AddRefused(c, j) \/ RemoveJob(c, j)
  BY <1>1 DEF AddRefused, RemoveJob, callerVars
<1>2. CASE AddPersistent(c, j)
  BY <1>2 DEF AddPersistent, MayCall
<1>3. CASE Shutdown(c)
  BY <1>3 DEF Shutdown, AwaitThreads, WaitStart, Return
<1>4. CASE \E priority \in Priorities, ok \in BOOLEAN : AddEnqueue(c, j, priority, ok)
  BY <1>4 DEF AddEnqueue
<1>5. CASE PersistentNoMemory(c) \/ HandOver(c)
  BY <1>5 DEF PersistentNoMemory, HandOver, WaitStart, Return
<1>6. QED
  BY <1>1, <1>2, <1>3, <1>4, <1>5

PoolInv == Types /\ QueueInv /\ JobInv /\ HandOverInv /\ NoLoss

(* Every step of the pool is a step of its jobs. *)
LEMMA NextIsJobStep ==
    ASSUME PoolInv, OnePersistentJob, [Next]_vars
    PROVE  JobStep /\ QueueInv' /\ HandOverInv'
<1> USE DEF PoolInv
<1>1. ASSUME NEW w \in Workers, WorkerStep(w) \/ WorkerTimeOut(w) \/ JobReturns(w)
      PROVE  JobStep /\ QueueInv' /\ HandOverInv'
  <2>1. HandOverInv'
    BY <1>1 DEF HandOverInv, callerVars, WorkerStep, WorkerStart, WorkerTop, WorkerDie, WorkerWait,
       WorkerLeaveWait, WorkerWakes, BumpMed, BumpLow, WorkerStop, WorkerStrays, TakePersistent, TakeJob,
       WorkerTimeOut, JobReturns
  <2>2. JobStep /\ QueueInv'
    BY <1>1, WorkerStays, BumpMoves, TakeStarts, ReturnFinishes DEF WorkerStep, JobStep
  <2>3. QED
    BY <2>1, <2>2
<1>2. ASSUME NEW c \in Callers, CallerStep(c) PROVE JobStep /\ QueueInv' /\ HandOverInv'
  <2>1. CASE PersistentNoMemory(c) \/ HandOver(c)
    <3>1. cjob[c] \in Jobs
      BY <2>1, JobsAssumption DEF PersistentNoMemory, HandOver, HandOverInv, JobInv, Offers
    <3>2. QED
      BY <2>1, <3>1, OfferEnds, CallsKeepHandOver DEF JobStep
  <2>2. CASE ~(PersistentNoMemory(c) \/ HandOver(c))
    BY <1>2, <2>2, CallerStays DEF CallerStep, JobStep
  <2>3. QED
    BY <2>1, <2>2
<1>3. ASSUME NEW c \in Callers, Call(c) PROVE JobStep /\ QueueInv' /\ HandOverInv'
  <2>1. ASSUME NEW j \in Jobs \ PersistentJobs,
               \/ AddRefused(c, j)
               \/ \E priority \in Priorities, ok \in BOOLEAN : AddEnqueue(c, j, priority, ok)
        PROVE  JobStep /\ QueueInv' /\ HandOverInv'
    BY <2>1, AddDecides, CallsKeepHandOver DEF JobStep
  <2>2. ASSUME NEW j \in PersistentJobs, AddPersistent(c, j)
        PROVE  JobStep /\ QueueInv' /\ HandOverInv'
    BY <2>2, JobsAssumption, PersistentOffers, CallsKeepHandOver DEF JobStep
  <2>3. ASSUME NEW j \in Jobs, RemoveJob(c, j) PROVE JobStep /\ QueueInv' /\ HandOverInv'
    BY <2>3, RemoveRemoves, CallsKeepHandOver DEF JobStep
  <2>4. CASE (\E a \in NewAttrs : SetAttr(c, a)) \/ GetStats(c)
    BY <2>4, CallerStays DEF JobStep
  <2>5. CASE Shutdown(c)
    <3>1. HandOverInv'
      BY <2>5 DEF HandOverInv, Shutdown, AwaitThreads, WaitStart, Return, Goto, Types, CallerTypes
    <3>2. QED
      BY <2>5, <3>1, ShutdownDiscards DEF JobStep
  <2>6. QED
    BY <1>3, <2>1, <2>2, <2>3, <2>4, <2>5 DEF Call
<1>4. CASE Tick \/ UNCHANGED vars
  <2>1. UNCHANGED queues /\ hist' = hist /\ UNCHANGED workerVars /\ UNCHANGED callerVars
    BY <1>4 DEF Tick, vars, jobVars
  <2>2. InPool' = InPool /\ QueueInv'
    BY <2>1, QueuesStay
  <2>3. RunsStay /\ OffersStayBut({}) /\ HandOverInv'
    BY <2>1 DEF RunsStay, Runs, workerVars, OffersStayBut, Offers, callerVars, HandOverInv
  <2>4. QED
    BY <2>1, <2>2, <2>3 DEF JobsStay, JobStep
<1>5. QED
  BY <1>1, <1>2, <1>3, <1>4 DEF Next

(* So PoolInv is an invariant. *)
LEMMA PoolInvNext == OnePersistentJob /\ PoolInv /\ [Next]_vars => PoolInv'
BY NextIsJobStep, JobInvStep, NoLossStep, TypesNext DEF PoolInv

(* ThreadPoolInit begins with no jobs. *)
LEMMA PoolInvInit == Init => PoolInv
<1> SUFFICES ASSUME Init PROVE PoolInv
  OBVIOUS
<1>1. Types
  BY TypesInit
<1>2. ToSet(<<>>) = {}
  BY DEF ToSet
<1>3. InPool = {}
  BY <1>2 DEF Init, InPool
<1>4. QueueInv
  BY <1>2 DEF Init, QueueInv, Distinct
<1>5. JobInv
  BY <1>3 DEF Init, JobInv, Runs, Offers
<1>6. HandOverInv
  BY DEF Init, HandOverInv
<1>7. NoLoss
  BY DEF Init, NoLoss
<1>8. QED
  BY <1>1, <1>4, <1>5, <1>6, <1>7 DEF PoolInv

-----------------------------------------------------------------------------
(***************************************************************************)
(* The refinement.  JobState, which looks at the workers and the queues,   *)
(* is what hist and InPool say, so that the effect of a step on a job is   *)
(* the abstract step.                                                      *)
(***************************************************************************)
Life(j) == IF hist[j] = "accepted" THEN IF j \in InPool THEN "queued" ELSE "running"
           ELSE IF hist[j] = "offered" THEN "new" ELSE hist[j]
Lives == [j \in Jobs |-> Life(j)]

(* The invariant makes the refinement mapping of a job a matter of where it is. *)
LEMMA LifeIsState == JobInv => [j \in Jobs |-> JobState(j)] = Lives
<1> SUFFICES ASSUME JobInv PROVE [j \in Jobs |-> JobState(j)] = Lives
  OBVIOUS
<1>1. ASSUME NEW j \in Jobs PROVE JobState(j) = Life(j)
  <2>1. Queued(j) <=> j \in InPool
    BY JobsAssumption DEF Queued, InPool
  <2>2. ~(j \in InPool /\ Running(j))
    BY DEF JobInv, Running, Runs
  <2>3. hist[j] = "accepted" => j \in InPool \/ Running(j)
    BY DEF JobInv
  <2>4. QED
    BY <2>1, <2>2, <2>3 DEF JobState, Life
<1>2. QED
  BY <1>1 DEF Lives

(* A job that runs has a worker, and another worker has none: fewer jobs   *)
(* run than there are threads.                                             *)
LEMMA RunningBelowLimit ==
    ASSUME Types, JobInv, CountersAgree, AttrInv, AtMostMaxThreads,
           NEW w \in Workers, wpc[w] = "bump"
    PROVE  Cardinality({j \in Jobs : Lives[j] = "running"}) < RunLimit
<1> DEFINE R == {v \in Workers : Runs(v)}
           J == {j \in Jobs : Lives[j] = "running"}
           f == [v \in R |-> wjob[v]]
<1>1. \A v \in R : wjob[v] \in J
  BY DEF JobInv, Lives, Life
<1>2. \A j \in J : \E v \in R : wjob[v] = j
  <2> SUFFICES ASSUME NEW j \in J PROVE \E v \in R : wjob[v] = j
    OBVIOUS
  <2>1. hist[j] = "accepted" /\ j \notin InPool
    <3>1. Life(j) = "running" /\ hist[j] \in JobHist
      BY DEF Lives, Types, JobTypes
    <3>2. QED
      BY <3>1 DEF Life, JobHist
  <2>2. QED
    BY <2>1 DEF JobInv, Running, Runs
<1>3. f \in [R -> J] /\ \A j \in J : \E v \in R : f[v] = j
  BY <1>1, <1>2
<1>4. IsFiniteSet(Workers) /\ IsFiniteSet(R) /\ IsFiniteSet(Alive)
  BY ThreadsAssumption, FS_Subset DEF Alive
<1> HIDE DEF R, J, f
<1>5. Cardinality(J) <= Cardinality(R) /\ IsFiniteSet(J)
  BY <1>3, <1>4, OntoSize
<1>6. R \subseteq Alive \ {w} /\ w \in Alive /\ Alive \subseteq Workers
  BY DEF R, Alive, Runs
<1>7. IsFiniteSet(Alive \ {w}) /\ Cardinality(Alive \ {w}) = Cardinality(Alive) - 1
  BY <1>4, <1>6, FS_RemoveElement
<1>8. Cardinality(R) <= Cardinality(Alive) - 1
  BY <1>6, <1>7, FS_Subset
<1>9. Cardinality(Alive) <= RunLimit /\ RunLimit \in Nat
  <2>1. CASE NewAttrs = {} /\ InitAttr.maxThreads # INFINITE_THREADS
    <3>1. totalThreads + pendingWorkerThreadStart <= InitAttr.maxThreads
      BY <2>1 DEF AttrInv, AtMostMaxThreads
    <3>2. pendingWorkerThreadStart \in {0, 1} /\ totalThreads \in Int /\ InitAttr.maxThreads \in Nat
      BY <2>1, AttrAssumption DEF Types, PoolTypes, ThreadPoolAttr, INFINITE_THREADS
    <3>3. QED
      BY <2>1, <3>1, <3>2 DEF CountersAgree, RunLimit
  <2>2. CASE ~(NewAttrs = {} /\ InitAttr.maxThreads # INFINITE_THREADS)
    <3>1. RunLimit = Cardinality(Workers)
      BY <2>2 DEF RunLimit
    <3>2. QED
      BY <1>4, <1>6, <3>1, FS_Subset, FS_CardinalityType
  <2>3. QED
    BY <2>1, <2>2
<1>10. Cardinality(J) \in Nat /\ Cardinality(R) \in Nat /\ Cardinality(Alive) \in Nat
  BY <1>4, <1>5, FS_CardinalityType
<1>11. QED
  BY <1>5, <1>8, <1>9, <1>10 DEF J

(* The life of one job changes. *)
LEMMA OneLife ==
    ASSUME Types, NEW j \in Jobs, NEW new,
           \A i \in Jobs \ {j} : hist'[i] = hist[i] /\ (i \in InPool' <=> i \in InPool),
           Life(j)' = new
    PROVE  Lives' = [Lives EXCEPT ![j] = new]
<1>1. \A i \in Jobs \ {j} : Life(i)' = Life(i)
  BY DEF Life
<1>2. QED
  BY <1>1 DEF Lives

(* Every step of the jobs is a step of JobPool, or none. *)
LEMMA JobStepRefines ==
    ASSUME Types, JobInv, JobStep, CountersAgree, AttrInv, AtMostMaxThreads
    PROVE  \/ \E j \in Jobs :
                \/ Lives[j] = "new" /\ Lives' = [Lives EXCEPT ![j] = "queued"]
                \/ Lives[j] = "new" /\ Lives' = [Lives EXCEPT ![j] = "rejected"]
                \/ /\ Cardinality({i \in Jobs : Lives[i] = "running"}) < RunLimit
                   /\ Lives[j] = "queued" /\ Lives' = [Lives EXCEPT ![j] = "running"]
                \/ Lives[j] = "running" /\ Lives' = [Lives EXCEPT ![j] = "done"]
                \/ Lives[j] = "queued" /\ Lives' = [Lives EXCEPT ![j] = "removed"]
                \/ AllocCanFail /\ Lives[j] = "queued" /\ Lives' = [Lives EXCEPT ![j] = "lost"]
           \/ Lives' = [j \in Jobs |-> IF Lives[j] = "queued" THEN "discarded" ELSE Lives[j]]
           \/ Lives' = Lives
<1> USE JobsAssumption
<1>1. hist \in [Jobs -> JobHist] /\ \A j \in Jobs : Lives[j] = Life(j)
  BY DEF Types, JobTypes, Lives
<1>2. CASE JobsStay
  BY <1>2 DEF JobsStay, Lives, Life
<1>3. CASE JobsDiscarded
  <2>1. ASSUME NEW j \in Jobs
        PROVE  Life(j)' = IF Lives[j] = "queued" THEN "discarded" ELSE Lives[j]
    BY <1>1, <1>3 DEF JobsDiscarded, Life, JobInv, JobHist
  <2>2. QED
    BY <2>1 DEF Lives
<1>4. ASSUME NEW j \in Jobs, JobRejected(j)
      PROVE  Lives[j] = "new" /\ Lives' = [Lives EXCEPT ![j] = "rejected"]
  <2>1. Lives[j] = "new" /\ Life(j)' = "rejected"
    BY <1>1, <1>4 DEF JobRejected, Becomes, Life
  <2>2. QED
    BY <1>1, <1>4, <2>1, OneLife DEF JobRejected, Becomes
<1>5. ASSUME NEW j \in Jobs, JobAccepted(j)
      PROVE  Lives[j] = "new" /\ Lives' = [Lives EXCEPT ![j] = "queued"]
  <2>1. Lives[j] = "new" /\ Life(j)' = "queued"
    BY <1>1, <1>5 DEF JobAccepted, Becomes, Life
  <2>2. QED
    BY <1>1, <1>5, <2>1, OneLife DEF JobAccepted, Becomes
<1>6. ASSUME NEW j \in Jobs, JobRemoved(j)
      PROVE  Lives[j] = "queued" /\ Lives' = [Lives EXCEPT ![j] = "removed"]
  <2>1. Lives[j] = "queued" /\ Life(j)' = "removed"
    BY <1>1, <1>6 DEF JobRemoved, Becomes, Life, JobInv
  <2>2. QED
    BY <1>1, <1>6, <2>1, OneLife DEF JobRemoved, Becomes
<1>7. ASSUME NEW c \in Callers, OfferTaken(c)
      PROVE  \E j \in Jobs : Lives[j] = "new" /\ Lives' = [Lives EXCEPT ![j] = "queued"]
  <2>1. PICK j \in Jobs : j = cjob[c] /\ hist[j] = "offered"
    BY <1>7 DEF OfferTaken, JobInv
  <2>2. Lives[j] = "new" /\ Life(j)' = "queued"
    BY <1>1, <1>7, <2>1 DEF OfferTaken, Becomes, Life
  <2>3. QED
    BY <1>1, <1>7, <2>1, <2>2, OneLife DEF OfferTaken, Becomes
<1>8. ASSUME NEW c \in Callers, OfferRefused(c)
      PROVE  \E j \in Jobs : Lives[j] = "new" /\ Lives' = [Lives EXCEPT ![j] = "rejected"]
  <2>1. PICK j \in Jobs : j = cjob[c] /\ hist[j] = "offered"
    BY <1>8 DEF OfferRefused, JobInv
  <2>2. Lives[j] = "new" /\ Life(j)' = "rejected"
    BY <1>1, <1>8, <2>1 DEF OfferRefused, Becomes, Life
  <2>3. QED
    BY <1>1, <1>8, <2>1, <2>2, OneLife DEF OfferRefused, Becomes
<1>9. ASSUME NEW c \in Callers, NEW j \in Jobs, JobOffered(c, j) PROVE Lives' = Lives
  <2>1. ASSUME NEW i \in Jobs PROVE Life(i)' = Life(i)
    BY <1>1, <1>9 DEF JobOffered, Becomes, Life
  <2>2. QED
    BY <2>1 DEF Lives
<1>10. ASSUME NEW w \in Workers, JobFinished(w)
       PROVE  \E j \in Jobs : Lives[j] = "running" /\ Lives' = [Lives EXCEPT ![j] = "done"]
  <2>1. PICK j \in Jobs : j = wjob[w] /\ hist[j] = "accepted" /\ j \notin InPool
    BY <1>10 DEF JobFinished, JobInv
  <2>2. Lives[j] = "running" /\ Life(j)' = "done"
    BY <1>1, <1>10, <2>1 DEF JobFinished, Becomes, Life
  <2>3. QED
    BY <1>1, <1>10, <2>1, <2>2, OneLife DEF JobFinished, Becomes
<1>11. ASSUME NEW w \in Workers, NEW j \in Jobs, JobStarted(w, j)
       PROVE  /\ Cardinality({i \in Jobs : Lives[i] = "running"}) < RunLimit
              /\ Lives[j] = "queued" /\ Lives' = [Lives EXCEPT ![j] = "running"]
  <2>1. Lives[j] = "queued" /\ Life(j)' = "running"
    BY <1>1, <1>11 DEF JobStarted, Life, JobInv
  <2>2. Lives' = [Lives EXCEPT ![j] = "running"]
    BY <1>1, <1>11, <2>1, OneLife DEF JobStarted
  <2>3. wpc[w] = "bump"
    BY <1>11 DEF JobStarted
  <2>4. QED
    BY <2>1, <2>2, <2>3, RunningBelowLimit
<1>12. ASSUME NEW j \in Jobs, JobGone(j)
       PROVE  AllocCanFail /\ Lives[j] = "queued" /\ Lives' = [Lives EXCEPT ![j] = "lost"]
  <2>1. AllocCanFail /\ Lives[j] = "queued" /\ Life(j)' = "lost"
    BY <1>1, <1>12 DEF JobGone, Becomes, Life, JobInv
  <2>2. QED
    BY <1>1, <1>12, <2>1, OneLife DEF JobGone, Becomes
<1>13. QED
  BY <1>2, <1>3, <1>4, <1>5, <1>6, <1>7, <1>8, <1>9, <1>10, <1>11, <1>12 DEF JobStep

(* JobPool counts as this module does. *)
LEMMA PoolCounts == ASSUME NEW X PROVE Pool!Cardinality(X) = Cardinality(X)
BY Zenon DEF Pool!Cardinality, Cardinality

(* The same for the state function that the refinement maps to. *)
LEMMA NextRefines ==
    ASSUME PoolInv, PoolInv', JobStep, CountersAgree, AttrInv, AtMostMaxThreads
    PROVE  [Pool!JPNext]_([j \in Jobs |-> JobState(j)])
<1> DEFINE S == [j \in Jobs |-> JobState(j)]
<1>1. S = Lives
  BY LifeIsState DEF PoolInv
<1>2. S' = Lives'
  <2>1. (JobInv => S = Lives)'
    BY LifeIsState, PTL
  <2>2. QED
    BY <2>1 DEF PoolInv
<1>3. ASSUME NEW j \in Jobs, Lives[j] = "new", Lives' = [Lives EXCEPT ![j] = "queued"]
      PROVE  Pool!JPNext
  BY <1>1, <1>2, <1>3 DEF Pool!JPNext, Pool!Accept, Pool!Moves
<1>4. ASSUME NEW j \in Jobs, Lives[j] = "new", Lives' = [Lives EXCEPT ![j] = "rejected"]
      PROVE  Pool!JPNext
  BY <1>1, <1>2, <1>4 DEF Pool!JPNext, Pool!Reject, Pool!Moves
<1>5. ASSUME NEW j \in Jobs, Cardinality({i \in Jobs : Lives[i] = "running"}) < RunLimit,
             Lives[j] = "queued", Lives' = [Lives EXCEPT ![j] = "running"]
      PROVE  Pool!JPNext
  <2>1. Pool!Running = {i \in Jobs : Lives[i] = "running"}
    BY <1>1 DEF Pool!Running
  <2>2. Pool!Cardinality(Pool!Running) < RunLimit
    BY <1>5, <2>1, PoolCounts
  <2>3. Pool!Start(j)
    BY <1>1, <1>2, <1>5, <2>2 DEF Pool!Start, Pool!Moves
  <2>4. QED
    BY <2>3 DEF Pool!JPNext
<1>6. ASSUME NEW j \in Jobs, Lives[j] = "running", Lives' = [Lives EXCEPT ![j] = "done"]
      PROVE  Pool!JPNext
  BY <1>1, <1>2, <1>6 DEF Pool!JPNext, Pool!Finish, Pool!Moves
<1>7. ASSUME NEW j \in Jobs, Lives[j] = "queued", Lives' = [Lives EXCEPT ![j] = "removed"]
      PROVE  Pool!JPNext
  BY <1>1, <1>2, <1>7 DEF Pool!JPNext, Pool!Remove, Pool!Moves
<1>8. ASSUME Lives' = [j \in Jobs |-> IF Lives[j] = "queued" THEN "discarded" ELSE Lives[j]]
      PROVE  Pool!JPNext
  BY <1>1, <1>2, <1>8 DEF Pool!JPNext, Pool!DiscardAll
<1>9. ASSUME NEW j \in Jobs, AllocCanFail, Lives[j] = "queued", Lives' = [Lives EXCEPT ![j] = "lost"]
      PROVE  Pool!JPNext
  BY <1>1, <1>2, <1>9 DEF Pool!JPNext, Pool!Lose, Pool!Moves
<1>10. QED
  BY <1>1, <1>2, <1>3, <1>4, <1>5, <1>6, <1>7, <1>8, <1>9, JobStepRefines DEF PoolInv

(* ThreadPool.c, given one persistent job at a time, keeps the promise of  *)
(* JobPool, whatever the threads, callers, priorities, attributes and      *)
(* failures: no accepted job is run twice, run after its removal or        *)
(* removed while it runs, no more jobs run than the limit allows, and a    *)
(* job is lost only where memory may run out (in BumpPriority).            *)
THEOREM PoolImplementsJobPool == ASSUME OnePersistentJob PROVE Spec => ImplementsJobPool
<1>1. Init => Pool!JPInit
  <2> SUFFICES ASSUME Init PROVE Pool!JPInit
    OBVIOUS
  <2>1. \A j \in Jobs : JobState(j) = "new"
    BY DEF Init, JobState
  <2>2. QED
    BY <2>1 DEF Pool!JPInit
<1>2. PoolInv /\ [Next]_vars => PoolInv'
  BY PoolInvNext
<1>3. PoolInv /\ PoolInv' /\ CountersAgree /\ AttrInv /\ AtMostMaxThreads /\ [Next]_vars
      => [Pool!JPNext]_([j \in Jobs |-> JobState(j)])
  BY NextIsJobStep, NextRefines
<1>4. QED
  BY <1>1, <1>2, <1>3, PoolInvInit, TypesInit, TypesNext, CountersInit, CountersNext,
     AtMostInit, AtMostNext, PTL DEF Spec, ImplementsJobPool, Pool!JPSpec

-----------------------------------------------------------------------------
(***************************************************************************)
(* Shutdown.  ThreadPoolShutdown waits for totalThreads to be 0.  That     *)
(* nothing is left then needs that no thread is still starting, that no    *)
(* caller is about to put a job into the pool, and that none did after the *)
(* queues were emptied.                                                    *)
(***************************************************************************)
(* A thread that is starting has the caller that created it waiting.       *)
StartInv == \A w \in Workers : wpc[w] = "starting" => \E c \in Callers : cpc[c] = "cwStart"

(* Until ThreadPoolInit returns nobody else is in the pool, and only it    *)
(* can fail to create the minimum of threads.                              *)
CallInv ==
    /\ ~Ready => \A c \in Callers \ {InitCaller} : cpc[c] = "idle"
    /\ \A c \in Callers :
         /\ cpc[c] \in {"failed", "sdEnter"} => c = InitCaller /\ ~Ready
         /\ op[c] # "setattr" /\ (op[c] = "init" => c = InitCaller)
         /\ cpc[c] \in {"idle", "gsLock", "gsRead"} => op[c] = "none"
         /\ cpc[c] \in Creating \cup {"loop"} => op[c] # "none"

(* From shutdown on the pool is empty and only ThreadPoolShutdown is in it. *)
DownInv ==
    /\ \A c \in Callers : cpc[c] = "sdWait" => shutdown
    /\ shutdown => /\ InPool = {}
                   /\ \A c \in Callers : cpc[c] \in {"idle", "sdWait"}
                   /\ \A c, d \in Callers : cpc[c] = "sdWait" /\ cpc[d] = "sdWait" => c = d

ShutdownInv == StartInv /\ CallInv /\ DownInv /\ ShutdownLeavesNothing

(* Nothing happens to a pool that was destroyed. *)
LEMMA DestroyedRests ==
    ASSUME Types, ShutdownLeavesNothing, destroyed, Next
    PROVE  FALSE
<1>1. /\ \A w \in Workers : wpc[w] = "none"
      /\ \A c \in Callers : cpc[c] = "idle"
      /\ ~Free
  BY DEF ShutdownLeavesNothing, Free
<1>2. ASSUME NEW w \in Workers, WorkerStep(w) \/ WorkerTimeOut(w) \/ JobReturns(w) PROVE FALSE
  BY <1>1, <1>2 DEF WorkerStep, WorkerStart, WorkerTop, WorkerDie, WorkerWait, WorkerLeaveWait,
     WorkerWakes, BumpMed, BumpLow, Bumped, WorkerStop, WorkerStrays, TakePersistent, TakeJob, WorkerTimeOut,
     JobReturns
<1>3. ASSUME NEW c \in Callers, CallerStep(c) PROVE FALSE
  BY <1>1, <1>3 DEF CallerStep, CreateWaits, CreateFails, CreateThread, CreateResumes, AddWorker,
     AddReturns, PersistentNoMemory, HandOver, HandOverResumes, AddMinThreads, MinThreadsDone,
     MinThreadsFail, GetStatsLocks, GetStatsReturns, ShutdownResumes
<1>4. ASSUME NEW c \in Callers, Call(c) PROVE FALSE
  BY <1>1, <1>4 DEF Call, AddRefused, AddEnqueue, AddPersistent, RemoveJob, SetAttr, GetStats,
     Shutdown
<1>5. QED
  BY <1>2, <1>3, <1>4 DEF Next, Tick

(* The steps of the workers. *)
LEMMA WorkerKeepsShutdown ==
    ASSUME PoolInv, ShutdownInv, ~destroyed,
           NEW w \in Workers, WorkerStep(w) \/ WorkerTimeOut(w) \/ JobReturns(w)
    PROVE  ShutdownInv'
<1> USE DEF PoolInv, Types, WorkerTypes
<1>1. UNCHANGED <<callerVars, shutdown, destroyed>>
  BY DEF WorkerStep, WorkerStart, WorkerTop, WorkerDie, WorkerWait, WorkerLeaveWait,
     WorkerWakes, BumpMed, BumpLow, WorkerStop, WorkerStrays, TakePersistent, TakeJob, WorkerTimeOut,
     JobReturns, poolVars
<1>2. \E p \in WorkerPC \ {"starting"} : wpc' = [wpc EXCEPT ![w] = p] \/ wpc' = wpc
  BY DEF WorkerStep, WorkerStart, WorkerTop, WorkerDie, WorkerWait, WorkerLeaveWait, WorkerExit,
     WorkerWakes, BumpMed, BumpLow, WorkerStop, WorkerStrays, TakePersistent, TakeJob, RunJob, WorkerTimeOut,
     JobReturns, workerVars, WorkerPC
<1>3. StartInv'
  BY <1>1, <1>2 DEF ShutdownInv, StartInv, callerVars
<1>4. CallInv'
  BY <1>1 DEF ShutdownInv, CallInv, Ready, callerVars
<1>5. shutdown => InPool' \subseteq InPool
  <2>1. shutdown => ~TakePersistent(w) /\ ~TakeJob(w)
    BY DEF TakePersistent, TakeJob
  <2>2. QED
    BY <2>1, WorkerStays, BumpMoves, ReturnFinishes DEF WorkerStep, JobsStay, JobGone, JobFinished
<1>6. DownInv'
  BY <1>1, <1>5 DEF ShutdownInv, DownInv, callerVars
<1>7. QED
  BY <1>1, <1>3, <1>4, <1>6 DEF ShutdownInv, ShutdownLeavesNothing

(* Callers other than the one that shuts the pool down: none takes a step  *)
(* after shutdown.                                                         *)
LEMMA OthersKeepDown ==
    ASSUME PoolInv, ShutdownInv, ~destroyed, LateCalls = FALSE,
           NEW c \in Callers, CallerStep(c) \/ Call(c), ~ShutdownResumes(c), ~Shutdown(c)
    PROVE  DownInv' /\ ShutdownLeavesNothing'
<1> USE DEF PoolInv, Types, CallerTypes
<1>1. CASE CallerStep(c)
  <2>1. cpc[c] \notin {"idle", "sdWait"}
    BY <1>1 DEF CallerStep, CreateWaits, CreateFails, CreateThread, CreateResumes, AddWorker,
       AddReturns, PersistentNoMemory, HandOver, HandOverResumes, AddMinThreads, MinThreadsDone,
       MinThreadsFail, GetStatsLocks, GetStatsReturns
  <2>2. ~shutdown
    BY <2>1 DEF ShutdownInv, DownInv
  <2>3. UNCHANGED <<shutdown, destroyed>>
    BY <1>1 DEF CallerStep, CreateWaits, CreateFails, CreateThread, CreateResumes, AddWorker,
       AddReturns, PersistentNoMemory, HandOver, HandOverResumes, AddMinThreads, MinThreadsDone,
       MinThreadsFail, GetStatsLocks, GetStatsReturns, poolVars
  <2>4. \E p \in CallerPC \ {"sdWait"} : cpc' = [cpc EXCEPT ![c] = p]
    BY <1>1, <2>2 DEF CallerStep, CreateWaits, CreateFails, CreateThread, CreateResumes, AddWorker,
       AddReturns, PersistentNoMemory, HandOver, HandOverResumes, AddMinThreads, MinThreadsDone,
       MinThreadsFail, GetStatsLocks, GetStatsReturns, WaitStart, CreateReturns, Return, Goto,
       CallerPC, Holding, Blocked
  <2>5. QED
    BY <2>2, <2>3, <2>4 DEF ShutdownInv, DownInv, ShutdownLeavesNothing
<1>2. CASE Call(c)
  <2>1. MayCall(c) /\ UNCHANGED <<shutdown, destroyed>>
    BY <1>2 DEF Call, AddRefused, AddEnqueue, AddPersistent, RemoveJob, SetAttr, GetStats, poolVars
  <2>2. ~shutdown
    BY <2>1 DEF MayCall
  <2>3. \E p \in CallerPC \ {"sdWait"} : cpc' = [cpc EXCEPT ![c] = p] \/ cpc' = cpc
    BY <1>2 DEF Call, AddRefused, AddEnqueue, AddPersistent, RemoveJob, SetAttr, GetStats,
       Goto, CallerPC, Holding, Blocked, callerVars
  <2>4. QED
    BY <2>1, <2>2, <2>3 DEF ShutdownInv, DownInv, ShutdownLeavesNothing
<1>3. QED
  BY <1>1, <1>2

(* The caller that created a thread waits until it has started. *)
LEMMA CallersKeepStart ==
    ASSUME PoolInv, CountersAgree, StartInv,
           NEW c \in Callers, CallerStep(c) \/ Call(c)
    PROVE  StartInv'
<1> USE DEF PoolInv, Types, CallerTypes, WorkerTypes
<1>1. ASSUME NEW w \in Workers, CreateThread(c, w) PROVE StartInv'
  BY <1>1 DEF CreateThread, WaitStart, StartInv
<1>2. CASE CreateResumes(c)
  <2>1. UNCHANGED wpc
    BY <1>2 DEF CreateResumes, workerVars
  <2>2. ASSUME NEW w \in Workers, wpc[w] = "starting" PROVE \E d \in Callers : cpc'[d] = "cwStart"
    <3>1. pendingWorkerThreadStart = 1
      BY <2>2, StartPending
    <3>2. WaitStart(c, cpc[c])
      BY <1>2, <3>1 DEF CreateResumes
    <3>3. cpc' = cpc
      BY <3>2 DEF WaitStart
    <3>4. QED
      BY <2>2, <3>3 DEF StartInv
  <2>3. QED
    BY <2>1, <2>2 DEF StartInv
<1>3. CASE (CallerStep(c) \/ Call(c)) /\ ~CreateResumes(c) /\ ~\E w \in Workers : CreateThread(c, w)
  <2>1. \A w \in Workers : wpc'[w] = "starting" => wpc[w] = "starting"
    <3>1. CASE CallerStep(c)
      BY <1>3, <3>1 DEF CallerStep, CreateWaits, CreateFails, AddWorker, AddReturns,
         PersistentNoMemory, HandOver, HandOverResumes, AddMinThreads, MinThreadsDone,
         MinThreadsFail, GetStatsLocks, GetStatsReturns, ShutdownResumes, SignalIfSetAttr,
         SignalCondition, Waiting, workerVars
    <3>2. CASE Call(c)
      BY <3>2 DEF Call, AddRefused, AddEnqueue, AddPersistent, RemoveJob, SetAttr, GetStats,
         Shutdown, workerVars
    <3>3. QED
      BY <1>3, <3>1, <3>2
  <2>2. cpc[c] # "cwStart" /\ \E p \in CallerPC : cpc' = [cpc EXCEPT ![c] = p] \/ cpc' = cpc
    <3>1. CASE CallerStep(c)
      BY <1>3, <3>1 DEF CallerStep, CreateWaits, CreateFails, AddWorker, AddReturns,
         PersistentNoMemory, HandOver, HandOverResumes, AddMinThreads, MinThreadsDone,
         MinThreadsFail, GetStatsLocks, GetStatsReturns, ShutdownResumes, AwaitThreads,
         WaitStart, CreateReturns, Return, Goto, CallerPC, Holding, Blocked
    <3>2. CASE Call(c)
      BY <3>2 DEF Call, AddRefused, AddEnqueue, AddPersistent, RemoveJob, SetAttr, GetStats,
         Shutdown, AwaitThreads, WaitStart, Return, MayCall, Goto, CallerPC, Holding, Blocked,
         callerVars
    <3>3. QED
      BY <1>3, <3>1, <3>2
  <2>3. QED
    BY <2>1, <2>2 DEF StartInv
<1>4. QED
  BY <1>1, <1>2, <1>3

(* The callers' operations keep CallInv. *)
LEMMA CallerKeepsCalls ==
    ASSUME PoolInv, CallInv, NEW c \in Callers, CallerStep(c)
    PROVE  CallInv'
<1> USE ThreadsAssumption DEF PoolInv, Types, CallerTypes, CallInv, Ready, Creating
<1>1. CASE CreateWaits(c)
  BY <1>1 DEF CreateWaits, WaitStart
<1>2. CASE CreateFails(c)
  BY <1>2 DEF CreateFails, CreateReturns
<1>3. ASSUME NEW w \in Workers, CreateThread(c, w) PROVE CallInv'
  BY <1>3 DEF CreateThread, WaitStart
<1>4. CASE CreateResumes(c)
  BY <1>4 DEF CreateResumes, CreateReturns, WaitStart
<1>5. CASE AddWorker(c)
  BY <1>5 DEF AddWorker, Goto
<1>6. CASE AddReturns(c)
  BY <1>6 DEF AddReturns, Return, Goto
<1>7. CASE PersistentNoMemory(c)
  BY <1>7 DEF PersistentNoMemory, Return, Goto
<1>8. CASE HandOver(c)
  BY <1>8 DEF HandOver, WaitStart
<1>9. CASE HandOverResumes(c)
  BY <1>9 DEF HandOverResumes, WaitStart, Return, Goto
<1>10. CASE AddMinThreads(c)
  BY <1>10 DEF AddMinThreads, Goto
<1>11. CASE MinThreadsDone(c)
  BY <1>11 DEF MinThreadsDone, Return, Goto
<1>12. CASE MinThreadsFail(c)
  BY <1>12 DEF MinThreadsFail, Goto
<1>13. CASE GetStatsLocks(c)
  BY <1>13 DEF GetStatsLocks, Goto
<1>14. CASE GetStatsReturns(c)
  BY <1>14 DEF GetStatsReturns, Goto
<1>15. CASE ShutdownResumes(c)
  BY <1>15 DEF ShutdownResumes, AwaitThreads, WaitStart, Return, Goto
<1>16. QED
  BY <1>1, <1>2, <1>3, <1>4, <1>5, <1>6, <1>7, <1>8, <1>9, <1>10, <1>11, <1>12, <1>13,
     <1>14, <1>15 DEF CallerStep

(* So do the calls. *)
LEMMA CallKeepsCalls ==
    ASSUME PoolInv, CallInv, NewAttrs = {}, NEW c \in Callers, Call(c)
    PROVE  CallInv'
<1> USE ThreadsAssumption DEF PoolInv, Types, CallerTypes, CallInv, Ready, Creating
<1>1. ASSUME NEW j \in Jobs, AddRefused(c, j) \/ RemoveJob(c, j) PROVE CallInv'
  BY <1>1 DEF AddRefused, RemoveJob, callerVars
<1>2. ASSUME NEW j \in Jobs, NEW priority, NEW ok, AddEnqueue(c, j, priority, ok) PROVE CallInv'
  BY <1>2 DEF AddEnqueue, Goto, MayCall
<1>3. ASSUME NEW j \in PersistentJobs, AddPersistent(c, j) PROVE CallInv'
  BY <1>3 DEF AddPersistent, Goto, MayCall
<1>4. CASE GetStats(c)
  BY <1>4 DEF GetStats, Goto, MayCall
<1>5. CASE Shutdown(c)
  BY <1>5 DEF Shutdown, AwaitThreads, WaitStart, Return, Goto, MayCall
<1>6. QED
  BY <1>1, <1>2, <1>3, <1>4, <1>5 DEF Call

(* ThreadPoolShutdown goes on alone, and leaves when no thread is there:   *)
(* none can be starting, so none runs a job and nobody offers one.         *)
LEMMA ShutdownWaits ==
    ASSUME PoolInv, PoolInv', CountersAgree, ShutdownInv, ~destroyed, LateCalls = FALSE,
           AllocCanFail = FALSE, NEW c \in Callers, ShutdownResumes(c) \/ Shutdown(c)
    PROVE  DownInv' /\ ShutdownLeavesNothing'
<1> USE DEF PoolInv, Types, CallerTypes, PoolTypes, WorkerTypes
<1>1. /\ \A d \in Callers \ {c} : cpc[d] = "idle"
      /\ cpc[c] \in {"idle", "sdEnter", "sdWait"}
  <2>1. CASE ShutdownResumes(c)
    BY <2>1 DEF ShutdownResumes, ShutdownInv, DownInv
  <2>2. CASE Shutdown(c) /\ cpc[c] = "sdEnter"
    BY <2>2 DEF ShutdownInv, CallInv
  <2>3. CASE Shutdown(c) /\ cpc[c] # "sdEnter"
    BY <2>3 DEF Shutdown, MayCall
  <2>4. QED
    BY <2>1, <2>2, <2>3
<1>2. shutdown' /\ InPool' = {}
  <2>1. CASE ShutdownResumes(c)
    <3>1. shutdown /\ UNCHANGED <<shutdown, queues>>
      BY <2>1 DEF ShutdownResumes, ShutdownInv, DownInv
    <3>2. QED
      BY <3>1, QueuesStay DEF ShutdownInv, DownInv
  <2>2. CASE Shutdown(c)
    BY <2>2, ShutdownDiscards DEF Shutdown, JobsDiscarded
  <2>3. QED
    BY <2>1, <2>2
<1>3. AwaitThreads(c)
  BY DEF ShutdownResumes, Shutdown
<1>4. cpc' = [cpc EXCEPT ![c] = "sdWait"] \/ cpc' = [cpc EXCEPT ![c] = "idle"]
  BY <1>3 DEF AwaitThreads, WaitStart, Return, Goto
<1>5. DownInv'
  BY <1>1, <1>2, <1>4 DEF DownInv
<1>6. ShutdownLeavesNothing'
  <2> SUFFICES ASSUME destroyed' PROVE ShutdownLeavesNothing'
    BY DEF ShutdownLeavesNothing
  <2>1. totalThreads = 0 /\ cpc' = [cpc EXCEPT ![c] = "idle"]
    <3>1. Cardinality(Alive) \in Nat
      BY ThreadsAssumption, FS_Subset, FS_CardinalityType DEF Alive
    <3>2. ~(totalThreads > 0)
      BY <1>3 DEF AwaitThreads
    <3>3. totalThreads = 0
      BY <3>1, <3>2 DEF CountersAgree
    <3>4. QED
      BY <1>3, <3>2, <3>3 DEF AwaitThreads, Return, Goto
  <2>2. Alive = {}
    BY <2>1, ThreadsAssumption, FS_Subset, FS_EmptySet DEF Alive, CountersAgree
  <2>3. \A w \in Workers : wpc[w] # "starting"
    BY <1>1 DEF ShutdownInv, StartInv
  <2>4. \A w \in Workers : wpc[w] = "none"
    BY <2>2, <2>3 DEF Alive
  <2>5. \A w \in Workers : wpc'[w] = "none"
    BY <2>4 DEF ShutdownResumes, Shutdown, workerVars
  <2>6. \A d \in Callers : cpc'[d] = "idle"
    BY <1>1, <2>1
  <2>7. \A j \in Jobs : hist'[j] # "accepted"
    BY <1>2, <2>5 DEF JobInv, Running
  <2>8. \A j \in Jobs : hist'[j] # "offered"
    BY <2>6 DEF JobInv, Offers
  <2>9. QED
    BY <2>5, <2>6, <2>7, <2>8 DEF ShutdownLeavesNothing, NoLoss
<1>7. QED
  BY <1>5, <1>6

(* ShutdownInv is inductive relative to the invariants above. *)
LEMMA ShutdownInvNext ==
    /\ LateCalls = FALSE /\ NewAttrs = {} /\ AllocCanFail = FALSE
    /\ PoolInv /\ PoolInv' /\ CountersAgree /\ ShutdownInv /\ [Next]_vars
    => ShutdownInv'
<1> SUFFICES ASSUME LateCalls = FALSE, NewAttrs = {}, AllocCanFail = FALSE, PoolInv, PoolInv',
                    CountersAgree, ShutdownInv, [Next]_vars
             PROVE  ShutdownInv'
  OBVIOUS
<1>1. CASE Tick \/ UNCHANGED vars
  <2>1. UNCHANGED <<queues, wpc, cpc, op, shutdown, destroyed, hist>>
    BY <1>1 DEF Tick, vars, poolVars, workerVars, callerVars, jobVars
  <2>2. InPool' = InPool
    BY <2>1, QueuesStay DEF PoolInv
  <2>3. QED
    BY <2>1, <2>2 DEF ShutdownInv, StartInv, CallInv, DownInv, ShutdownLeavesNothing, Ready
<1>2. CASE Next /\ destroyed
  BY <1>2, DestroyedRests DEF PoolInv, ShutdownInv
<1>3. ASSUME ~destroyed, NEW c \in Callers, CallerStep(c) \/ Call(c) PROVE ShutdownInv'
  <2>1. StartInv'
    BY <1>3, CallersKeepStart DEF ShutdownInv
  <2>2. CallInv'
    BY <1>3, CallerKeepsCalls, CallKeepsCalls DEF ShutdownInv
  <2>3. DownInv' /\ ShutdownLeavesNothing'
    BY <1>3, OthersKeepDown, ShutdownWaits
  <2>4. QED
    BY <2>1, <2>2, <2>3 DEF ShutdownInv
<1>4. QED
  BY <1>1, <1>2, <1>3, WorkerKeepsShutdown DEF Next

(* ShutdownInv holds while ThreadPoolInit creates the first threads. *)
LEMMA ShutdownInvInit == Init => ShutdownInv
BY ThreadsAssumption DEF Init, ShutdownInv, StartInv, CallInv, DownInv, ShutdownLeavesNothing,
   Ready, Creating

(* After ThreadPoolShutdown no accepted job is left that neither ran nor   *)
(* was given to its free function, and no thread is left that could touch  *)
(* the pool.  The callers keep to what the SDK does: one persistent job,   *)
(* no ThreadPoolSetAttr, and no call that begins during or after shutdown; *)
(* and memory does not run out, as BumpPriority would lose a job then.     *)
THEOREM ShutdownClears ==
    ASSUME OnePersistentJob, LateCalls = FALSE, NewAttrs = {}, AllocCanFail = FALSE
    PROVE  Spec => []ShutdownLeavesNothing
<1>1. PoolInv /\ [Next]_vars => PoolInv'
  BY PoolInvNext
<1>2. PoolInv /\ PoolInv' /\ CountersAgree /\ ShutdownInv /\ [Next]_vars => ShutdownInv'
  BY ShutdownInvNext
<1>3. ShutdownInv => ShutdownLeavesNothing
  BY DEF ShutdownInv
<1>4. QED
  BY <1>1, <1>2, <1>3, PoolInvInit, ShutdownInvInit, TypesInit, TypesNext, CountersInit,
     CountersNext, PTL DEF Spec
=============================================================================
