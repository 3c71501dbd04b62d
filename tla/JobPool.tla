------------------------------ MODULE JobPool ------------------------------
(***************************************************************************)
(* What a thread pool promises about the jobs handed to it, whatever       *)
(* threads, queues and locks it is built from: a job that was accepted is  *)
(* run at most once, by one of at most MaxRunning threads, unless it is    *)
(* removed or discarded at shutdown before it starts.  No accepted job     *)
(* disappears, unless the pool may lose one for want of memory.            *)
(* ThreadPool implements this specification.                               *)
(***************************************************************************)
EXTENDS Naturals, FiniteSets

CONSTANTS
    Jobs,        \* the jobs ever handed to the pool
    MaxRunning,  \* how many jobs may run at the same time
    MayLose      \* a waiting job may be lost: memory may run out

VARIABLE status  \* status[j] is where job j is in its life

JobStatus == {"new", "queued", "running", "done",
              "removed", "discarded", "rejected", "lost"}

(* status[j] changes from a member of from to to, nothing else changes. *)
Moves(j, from, to) ==
    /\ status[j] \in from
    /\ status' = [status EXCEPT ![j] = to]

Running == {j \in Jobs : status[j] = "running"}

JPInit == status = [j \in Jobs |-> "new"]

Accept(j) == Moves(j, {"new"}, "queued")
Reject(j) == Moves(j, {"new"}, "rejected")
Start(j)  == Cardinality(Running) < MaxRunning /\ Moves(j, {"queued"}, "running")
Finish(j) == Moves(j, {"running"}, "done")
Remove(j) == Moves(j, {"queued"}, "removed")
Lose(j)   == MayLose /\ Moves(j, {"queued"}, "lost")

(* The shutdown of the pool discards every job that still waits. *)
DiscardAll ==
    status' = [j \in Jobs |-> IF status[j] = "queued" THEN "discarded" ELSE status[j]]

JPNext ==
    \/ \E j \in Jobs : \/ Accept(j) \/ Reject(j) \/ Start(j)
                       \/ Finish(j) \/ Remove(j) \/ Lose(j)
    \/ DiscardAll

JPSpec == JPInit /\ [][JPNext]_status

=============================================================================
