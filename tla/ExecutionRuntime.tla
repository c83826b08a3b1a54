--------------------------- MODULE ExecutionRuntime ---------------------------
(***************************************************************************)
(* The execution runtime: API processes and worker slots that meet in one  *)
(* PostgreSQL database, in the execution rows, their events and the        *)
(* graphile-worker jobs.                                                   *)
(***************************************************************************)
EXTENDS FiniteSets, ExecutionService, ExecutionProcessor

vars == <<rows, log, job, faults, req, proc>>

Init == /\ StoreInit
        /\ QueueInit
        /\ EnvironmentInit
        /\ ServiceInit
        /\ ProcessorInit

Next == \/ ServiceNext /\ UNCHANGED proc
        \/ ProcessorNext /\ UNCHANGED req

Spec == Init /\ [][Next]_vars

(***************************************************************************)
(* Fairness.  Node runs every continuation of a call that came back and    *)
(* every slot polls for jobs, so a process that lives goes on; a handler   *)
(* ends (DoclingHttpConversionAdapter aborts its call after two minutes);  *)
(* graphile frees the lock of a dead worker.  No client has to ask for     *)
(* anything, no progress has to be reported, no fault has to happen.       *)
(***************************************************************************)
Fairness == /\ \A c \in Client : WF_vars(Serve(c) /\ UNCHANGED proc)
            /\ \A w \in Worker : /\ WF_vars(Work(w) /\ UNCHANGED req)
                                 /\ WF_vars(Fetch(w) /\ UNCHANGED req)
            /\ \A e \in Execution :
                  WF_vars(Release(e) /\ UNCHANGED <<faults, req>>)

FairSpec == Spec /\ Fairness

-----------------------------------------------------------------------------

\* Every variable has the type the schema and the code give it.
TypeOK == /\ StoreTypeOK
          /\ QueueTypeOK
          /\ EnvironmentTypeOK
          /\ ServiceTypeOK
          /\ ProcessorTypeOK

\* A worker between its claim and the end of process().
Claimed == Pc \ {"claim", "resolved", "rejected"}

\* The execution e is in the hands of the delivery that drew this lease, or over.
Held(e, lease) ==
    \/ rows[e].lease = lease /\ rows[e].status \in {"running", "cancelling"}
    \/ Terminal(e)

\* A worker past its claim owns the execution until it settles it: the row carries
\* this worker's lease, or the worker's own write went through unanswered and the
\* row is terminal.  No one else takes or requeues the execution meanwhile.
LeaseIsHeld ==
    \A w \in Worker :
        proc[w].pc \in Claimed => Held(proc[w].exec, proc[w].lease)

\* No two deliveries of one execution are ever past their claim at a time, so no
\* two handlers run for it (the test "fences duplicate delivery after the first
\* worker claims an execution"), even when its job is delivered twice at once.
HandlersAreExclusive ==
    \A v, w \in Worker :
        /\ proc[v].pc \in Claimed
        /\ proc[w].pc \in Claimed
        /\ proc[v].exec = proc[w].exec
        => v = w

\* The execution of a key is e, and nothing else is; its job has been published.
Answer(k, e) == FindByKey(k) = {e} /\ job[e].state # "absent"

\* A key names one execution at most, whoever raced for it, and an execution that
\* has a row has had its job published (ADR-002: "No 202 if durable dispatch
\* cannot be committed").
KeysAreIndexed ==
    \A e \in Execution : /\ Exists(e) <=> rows[e].key \in Key
                         /\ Exists(e) => Answer(rows[e].key, e)

\* Creating is idempotent: whatever was lost, raced or asked again, every answer
\* for a key names the one execution of that key (ExecutionService.create).
AnswersAgree ==
    \A c \in Client : req[c].pc = "replied" => Answer(req[c].key, req[c].id)

\* Of the clients that hold an answer for a key one at most was told that its
\* request created the execution (202); the others were told of a replay (200).
OneAcceptance ==
    \A c, d \in Client :
        /\ req[c].pc = "replied" /\ req[c].status = 202
        /\ req[d].pc = "replied" /\ req[d].status = 202
        /\ req[c].key = req[d].key
        => c = d

\* The events that may be the last of an execution in this status.
LastEvent(status) ==
    CASE status = "running"   -> {"running", "progress"}
      [] status = "succeeded" -> {"complete"}
      [] status = "failed"    -> {"error"}
      [] OTHER                -> {status}

\* The last event tells the status: a client that replays the log of an
\* execution and one that reads its row learn the same.
LogTellsStatus ==
    \A e \in Execution :
        IF Exists(e) THEN /\ log[e] # <<>>
                          /\ log[e][Len(log[e])] \in LastEvent(rows[e].status)
                     ELSE log[e] = <<>>

\* The events that may follow one another in the log of an execution.
Follows ==
    {"queued"} \X {"running", "cancelled"}
    \cup {"running", "progress"}
         \X {"progress", "complete", "error", "cancelling", "cancelled"}
    \cup {<<"error", "queued">>, <<"cancelling", "cancelled">>}

\* The log reads as a sequence of attempts: each is opened by a claim, all but
\* the last were put back by an error, and nothing follows a terminal event.
HistoryIsLegal ==
    \A e \in Execution :
        \A i \in 1 .. Len(log[e]) - 1 : <<log[e][i], log[e][i + 1]>> \in Follows

Claims(events) == Cardinality({i \in DOMAIN events : events[i] = "running"})

\* ivory_executions.attempt counts the claims the log tells of, and no execution
\* is claimed more often than its job was delivered.
AttemptsAreLogged ==
    \A e \in Execution :
        rows[e].attempt = Claims(log[e]) /\ rows[e].attempt <= job[e].attempts

\* Graphile will not fetch the job of e again, and has given it up for a reason: each
\* delivery was a claim that failed, and those that were not each took a fault.
GivenUp(e) == Exhausted(e) /\ rows[e].attempt + faults >= MaxAttempts

\* A queued execution still has its job, one that graphile will fetch or has locked
\* (a lock whose worker died it frees), or one that has used up its deliveries on
\* attempts and faults: a retry and its redelivery stay together although they are
\* two transactions, and no delivery is lost between them.
QueuedIsDispatched ==
    \A e \in Execution :
        rows[e].status = "queued" =>
            Fetchable(e) \/ job[e].state = "locked" \/ GivenUp(e)

\* A terminal execution is never touched again, by no stale worker, second
\* delivery or late cancel: neither its row nor its log.
TerminalIsFinal ==
    [][\A e \in Execution : Terminal(e) =>
          rows'[e] = rows[e] /\ log'[e] = log[e]]_vars

\* A recorded request to cancel is not overtaken: no result, failure, progress or
\* retry of the worker that still runs is written after it.
CancelWins ==
    [][\A e \in Execution : rows[e].status = "cancelling" =>
          \/ rows'[e] = rows[e] /\ log'[e] = log[e]
          \/ rows'[e].status = "cancelled"]_vars

\* Seen from outside, an execution is what ExecutionContract says.
Contract == INSTANCE ExecutionContract
                WITH status <- [e \in Execution |-> rows[e].status], history <- log

\* The runtime implements the contract: claims, leases, deliveries and retries
\* show only as the status and the events the contract allows.
ImplementsContract == Contract!Spec

\* Where no fault happens every execution ends, unless its job has used up its
\* deliveries or a request to cancel came: neither a lost redelivery nor a refused
\* write leaves it queued or running.
EveryExecutionEnds ==
    \A e \in Execution :
        Exists(e) ~> (\/ Terminal(e) \/ Exhausted(e) \/ rows[e].status = "cancelling"
                      \/ faults > 0)

\* A request to cancel that is recorded while the worker has a look at the status
\* before it ends in a cancelled execution, if no fault happens (the monitor, the
\* two checks around the handler and the one in the catch leave no gap between).
CancelIsSeen ==
    \A e \in Execution, w \in Worker :
        (/\ rows[e].status = "cancelling"
         /\ proc[w].exec = e
         /\ proc[w].pc \in {"check", "handler", "recheck", "caught"})
        ~> rows[e].status = "cancelled" \/ faults > 0

-----------------------------------------------------------------------------
\* What the documents and the code's own assertions say and the code does not do.

\* ADR-002, worker lease: "Heartbeat and requeue".  An execution whose worker is
\* gone is taken up again.
RunningIsTakenUp ==
    \A e \in Execution : rows[e].status = "running" ~> rows[e].status # "running"

\* The monitor's comment has the lease-guarded terminal write as the source of
\* truth: an execution that was asked to cancel reaches a terminal status.
CancellingEnds ==
    \A e \in Execution : rows[e].status = "cancelling" ~> Terminal(e)
=============================================================================
