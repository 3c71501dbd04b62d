---------------------------- MODULE MCThreadPool ----------------------------
(* Small instances of ThreadPool for TLC.                                  *)
EXTENDS ThreadPool, TLC

(* A ThreadPoolAttr whose jobs starve after one unit of time. *)
Attr(min, max, perThread, maxJobs) ==
    [minThreads |-> min, maxThreads |-> max, jobsPerThread |-> perThread,
     maxJobsTotal |-> maxJobs, starvationTime |-> 1, maxIdleTime |-> 1]

OneToTwo   == Attr(1, 2, 1, 2)
OneToOne   == Attr(1, 1, 1, 2)
ZeroToTwo  == Attr(0, 2, 1, 2)
Resized    == {OneToOne, OneToTwo}

CONSTANTS c1, c2, w1, w2, w3, j1, j2, j3

Symmetry == Permutations({w1, w2, w3} \cap Workers)
            \cup Permutations(Jobs \ PersistentJobs)

=============================================================================
