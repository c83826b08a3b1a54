---------------------------- MODULE GraphileQueue ----------------------------
(***************************************************************************)
(* The graphile-worker job table, as the adapter uses it (external: the    *)
(* library's code is not in the repository).  One job per execution, keyed *)
(* 'execution:<id>', added once with max_attempts.  Fetching a job locks   *)
(* it and counts an attempt; the count at the fetch numbers the delivery.  *)
(* A job whose attempts are used up stays in the table and is never        *)
(* fetched again.  A lock outlives the worker that took it: graphile       *)
(* frees a job that has been locked for too long (four hours).             *)
(***************************************************************************)
EXTENDS Naturals, ExecutionDomain

CONSTANT MaxAttempts  \* 25 in the code

ASSUME MaxAttemptsAssumption == MaxAttempts \in Nat \ {0}

VARIABLE job

Job == [state    : {"absent", "ready", "locked", "deleted"},
        attempts : 0 .. MaxAttempts]

QueueTypeOK == job \in [Execution -> Job]

QueueInit == job = [e \in Execution |-> [state |-> "absent", attempts |-> 0]]

\* SELECT graphile_worker.add_job('ivory-execution', ..., max_attempts := 25)
AddJob(e) == /\ job[e].state = "absent"
             /\ job' = [job EXCEPT ![e] = [state |-> "ready", attempts |-> 0]]

Fetchable(e) == job[e].state = "ready" /\ job[e].attempts < MaxAttempts
Exhausted(e) == job[e].state = "ready" /\ job[e].attempts = MaxAttempts

FetchJob(e) ==
    /\ Fetchable(e)
    /\ job' = [job EXCEPT ![e] = [state |-> "locked", attempts |-> @.attempts + 1]]

Locked(e, delivery) == job[e] = [state |-> "locked", attempts |-> delivery]

\* The task's promise resolved: the job is deleted, whoever holds it now.
CompleteJob(e) == job' = [job EXCEPT ![e].state = "deleted"]

\* The task's promise rejected: a job still locked for this delivery is
\* scheduled again (the backoff is not modelled).
FailJob(e, delivery) ==
    job' = IF Locked(e, delivery) THEN [job EXCEPT ![e].state = "ready"] ELSE job

ReleaseJob(e) == /\ job[e].state = "locked"
                 /\ job' = [job EXCEPT ![e].state = "ready"]
=============================================================================
