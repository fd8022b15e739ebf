------------------------------ MODULE ArqQueue ------------------------------
(***************************************************************************)
(* The job queue (arq over Redis), which is not part of the repository:    *)
(* modelled from what app/workers, app/services and tests/conftest.py rely *)
(* on.  A job id is enqueued at most once while the job exists or its      *)
(* result is kept.  arq 0.26.3, the version pyproject.toml pins, delivers a*)
(* job again, up to max_tries deliveries, when its worker died or was shut *)
(* down; a job that raises an exception of its own, or exceeds             *)
(* job_timeout, is finished, and the exception kept as its result.         *)
(* The table of jobs is a function whose domain is the set of known ids.   *)
(***************************************************************************)
EXTENDS Integers

CONSTANT MaxTries      \* settings.job_max_tries

ASSUME MaxTriesAssumption == MaxTries \in Nat \ {0}

PlanJob == [kind |-> "plan", i |-> 0, d |-> 0]

\* batch:{action}:{i} and its re-scheduled forms batch:{action}:{i}:d{d}
BatchJob(i, d) == [kind |-> "batch", i |-> i, d |-> d]

JobId == [kind : {"plan", "batch"}, i : Nat, d : Nat]

JobState == [st : {"queued", "running", "done"}, tries : Nat]

\* A repeated _job_id is dropped.
enqueue_job(jobs, j) ==
    [k \in DOMAIN jobs \union {j} |->
        IF k \in DOMAIN jobs THEN jobs[k] ELSE [st |-> "queued", tries |-> 0]]

\* One more delivery of job j: job_try is the number of deliveries so far.
deliver(jobs, j) == [jobs EXCEPT ![j] = [st |-> "running", tries |-> @.tries + 1]]

finish(jobs, j) == [jobs EXCEPT ![j] = [@ EXCEPT !.st = "done"]]

\* The worker of a delivery is gone; a duplicate of it may have had a result.
redeliver(jobs, j) ==
    [jobs EXCEPT ![j] = IF @.st = "running" THEN [@ EXCEPT !.st = "queued"] ELSE @]

\* The kept result expires (keep_result): the id can be enqueued again.
expire(jobs, j) == [k \in DOMAIN jobs \ {j} |-> jobs[k]]
=============================================================================
