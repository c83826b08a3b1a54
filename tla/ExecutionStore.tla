--------------------------- MODULE ExecutionStore ----------------------------
(***************************************************************************)
(* PostgresExecutionStore: the canonical execution rows and their event    *)
(* log.  Every method runs in one transaction (withTransaction), so each   *)
(* is one step; a method that returns false has its guard false and no     *)
(* effect, and its caller says what happens then.                          *)
(*                                                                         *)
(* The sequence number of an event is its position: next_event_sequence is *)
(* bumped on the row in the transaction that inserts the event.            *)
(***************************************************************************)
EXTENDS Naturals, Sequences, ExecutionDomain

CONSTANTS Key,   \* Idempotency-Key header values
          Kind,  \* execution kinds
          None   \* no key, no kind, no execution

ASSUME NoneAssumption == None \notin Execution \cup Key \cup Kind

VARIABLES rows,  \* ivory_executions
          log    \* ivory_execution_events, by execution and sequence

storeVars == <<rows, log>>

NoLease == 0     \* lease_token IS NULL

AbsentRow == [status |-> "absent", key |-> None, kind |-> None,
              lease |-> NoLease, attempt |-> 0]

Row == [status  : ExecutionStatus \cup {"absent"},
        key     : Key \cup {None},
        kind    : Kind \cup {None},
        lease   : Nat,
        attempt : Nat]

StoreTypeOK == /\ rows \in [Execution -> Row]
               /\ log \in [Execution -> Seq(Event)]

StoreInit == /\ rows = [e \in Execution |-> AbsentRow]
             /\ log = [e \in Execution |-> <<>>]

-----------------------------------------------------------------------------
\* What a read sees.

Exists(e) == rows[e].status # "absent"

Terminal(e) == rows[e].status \in TerminalStatus

\* SELECT * FROM ivory_executions WHERE idempotency_key = $1
FindByKey(k) == {e \in Execution : rows[e].key = k}

-----------------------------------------------------------------------------
\* One transaction: the row of e and its log change together.
Commit(e, row, events) == /\ rows' = [rows EXCEPT ![e] = row]
                          /\ log' = [log EXCEPT ![e] = events]

\* Regression: the unique index on idempotency_key is gone.
InsertableWithoutIndex(e, k) == ~Exists(e)

\* PRIMARY KEY (id) and UNIQUE (idempotency_key) let the INSERT through.
Insertable(e, k) == /\ ~Exists(e)
                    /\ FindByKey(k) = {}

\* The store's half of createAndEnqueue.
Insert(e, k, kind) ==
    /\ Insertable(e, k)
    /\ Commit(e, [status |-> "queued", key |-> k, kind |-> kind,
                  lease |-> NoLease, attempt |-> 0],
                 Append(log[e], "queued"))

\* Regression: a claim also takes over an execution that is running.
ClaimableWhenRunning(e) == rows[e].status \in {"queued", "running"}

\* markRunning: WHERE id = $1 AND status = 'queued'
Claimable(e) == rows[e].status = "queued"

\* Regression: the claim of InMemoryExecutionStore, which counts no attempt.
MarkRunningUncounted(e, lease) ==
    /\ Claimable(e)
    /\ Commit(e, [rows[e] EXCEPT !.status = "running", !.lease = lease],
                 Append(log[e], "running"))

MarkRunning(e, lease) ==
    /\ Claimable(e)
    /\ Commit(e, [rows[e] EXCEPT !.status = "running", !.lease = lease,
                                 !.attempt = @ + 1],
                 Append(log[e], "running"))

\* Regression: the lease alone is checked, whatever the status.
HoldsLeaseOnly(e, lease) == rows[e].lease = lease

\* updateProgress, finish, retry: WHERE lease_token = $2 AND status = 'running'
HoldsLease(e, lease) == /\ rows[e].lease = lease
                        /\ rows[e].status = "running"

\* Regression: progress is written whoever holds the row, in any status.
UpdateProgressUnguarded(e, lease) == 
    /\ Exists(e)
    /\ Commit(e, rows[e], Append(log[e], "progress"))

UpdateProgress(e, lease) ==
    /\ HoldsLease(e, lease)
    /\ Commit(e, rows[e], Append(log[e], "progress"))

\* Regression: the name of the event is written as the status.
FinishMixedUp(e, lease, status) ==
    LET event == IF status = "succeeded" THEN "complete" ELSE "error"
    IN  /\ HoldsLease(e, lease)
        /\ Commit(e, [rows[e] EXCEPT !.status = event, !.lease = NoLease],
                     Append(log[e], event))

\* complete and fail
Finish(e, lease, status) ==
    /\ HoldsLease(e, lease)
    /\ Commit(e, [rows[e] EXCEPT !.status = status, !.lease = NoLease],
                 Append(log[e], IF status = "succeeded" THEN "complete" ELSE "error"))

\* Regression: the two events of a retry are appended in the other order.
RetrySwapped(e, lease) ==
    /\ HoldsLease(e, lease)
    /\ Commit(e, [rows[e] EXCEPT !.status = "queued", !.lease = NoLease],
                 Append(Append(log[e], "queued"), "error"))

Retry(e, lease) ==
    /\ HoldsLease(e, lease)
    /\ Commit(e, [rows[e] EXCEPT !.status = "queued", !.lease = NoLease],
                 Append(Append(log[e], "error"), "queued"))

\* cancelRunning: WHERE lease_token = $2 AND status IN ('running', 'cancelling')
HoldsCancel(e, lease) == /\ rows[e].lease = lease
                         /\ rows[e].status \in {"running", "cancelling"}

CancelRunning(e, lease) ==
    /\ HoldsCancel(e, lease)
    /\ Commit(e, [rows[e] EXCEPT !.status = "cancelled", !.lease = NoLease],
                 Append(log[e], "cancelled"))

\* Regression: cancel has no WHERE on the status.
CancelAnyStatus(e) ==
    LET next == IF rows[e].status = "queued" THEN "cancelled" ELSE "cancelling"
    IN  /\ Exists(e)
        /\ Commit(e, [rows[e] EXCEPT !.status = next], Append(log[e], next))

\* Regression: the CASE is gone, a queued execution waits for a worker to cancel it.
CancelByWorker(e) ==
    /\ rows[e].status \in {"queued", "running"}
    /\ Commit(e, [rows[e] EXCEPT !.status = "cancelling"],
                 Append(log[e], "cancelling"))

\* cancel: WHERE status IN ('queued', 'running'); the lease stays.
Cancel(e) ==
    LET next == IF rows[e].status = "queued" THEN "cancelled" ELSE "cancelling"
    IN  /\ rows[e].status \in {"queued", "running"}
        /\ Commit(e, [rows[e] EXCEPT !.status = next], Append(log[e], next))

-----------------------------------------------------------------------------
\* What the store may do to an execution that exists.
StoreUpdate(e) ==
    \/ \E lease \in Nat : \/ MarkRunning(e, lease)
                          \/ UpdateProgress(e, lease)
                          \/ Finish(e, lease, "succeeded")
                          \/ Finish(e, lease, "failed")
                          \/ Retry(e, lease)
                          \/ CancelRunning(e, lease)
    \/ Cancel(e)

StoreNext == \E e \in Execution : \/ \E k \in Key, kind \in Kind : Insert(e, k, kind)
                                  \/ StoreUpdate(e)
=============================================================================
