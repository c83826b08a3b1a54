-------------------------- MODULE ExecutionProcessor -------------------------
(***************************************************************************)
(* A worker slot: graphile hands it a job, ExecutionProcessor.process runs *)
(* it, one step for each call it awaits, and graphile settles the job by   *)
(* how the promise ended.                                                  *)
(*                                                                         *)
(* process() draws a random lease token.  Here the token of a delivery is  *)
(* the job's attempt number at its fetch: like the random one, no other    *)
(* delivery of the same execution has it.                                  *)
(***************************************************************************)
EXTENDS ExecutionStore, GraphileQueue, Environment

CONSTANTS Worker,
          Handled,    \* the kinds with a registered handler
          MaxReports  \* bound on the progress reports of one handler call

ASSUME ProcessorAssumption == /\ None \notin Worker
                              /\ Handled \subseteq Kind
                              /\ MaxReports \in Nat

VARIABLE proc  \* what each slot is doing

(***************************************************************************)
(* claim       about to markRunning                                        *)
(* check       awaiting the status before the handler is called            *)
(* handler     the handler runs                                            *)
(* recheck     it returned: awaiting the status                            *)
(* complete    about to complete                                           *)
(* caught      in the catch: awaiting the status                           *)
(* retry, fail, cancel       about to store.retry, fail, cancelRunning     *)
(* cancel_try  about to cancelRunning inside the try                       *)
(* resolved, rejected        the promise ended, graphile is to settle      *)
(***************************************************************************)
Pc == {"claim", "check", "handler", "recheck", "complete", "caught", "retry",
       "fail", "cancel", "cancel_try", "resolved", "rejected"}

Idle == [pc |-> "idle", exec |-> None, lease |-> NoLease, signal |-> FALSE,
         aborted |-> FALSE, retryable |-> FALSE, reports |-> 0]

Busy == [pc        : Pc,
         exec      : Execution,
         lease     : 1 .. MaxAttempts,
         signal    : BOOLEAN,          \* graphile's abort signal
         aborted   : BOOLEAN,          \* handlerController's
         retryable : BOOLEAN,          \* what the catch caught
         reports   : 0 .. MaxReports]

Proc == {Idle} \cup Busy

ProcessorTypeOK == proc \in [Worker -> Proc]

ProcessorInit == proc = [w \in Worker |-> Idle]

Goto(w, pc) == proc' = [proc EXCEPT ![w].pc = pc]

Cancelling(w) == rows[proc[w].exec].status = "cancelling"

\* Entering the catch: the controller is read at once, the status after a call.
Catch(w, retryable) ==
    proc' = [proc EXCEPT ![w] =
               [@ EXCEPT !.retryable = retryable,
                         !.pc = IF proc[w].aborted THEN "cancel" ELSE "caught"]]

-----------------------------------------------------------------------------

Delivered(e, lease) ==
    [pc |-> "claim", exec |-> e, lease |-> lease, signal |-> FALSE,
     aborted |-> FALSE, retryable |-> FALSE, reports |-> 0]

Fetch(w) ==
    /\ proc[w].pc = "idle"
    /\ \E e \in Execution :
          /\ FetchJob(e)
          /\ proc' = [proc EXCEPT ![w] = Delivered(e, job'[e].attempts)]
    /\ UNCHANGED <<rows, log, faults>>

\* markRunning; signal.aborted is read in the same turn as its answer.
Claim(w) ==
    LET e == proc[w].exec
    IN  /\ proc[w].pc = "claim"
        /\ \/ /\ MarkRunning(e, proc[w].lease)
              /\ Goto(w, IF proc[w].signal THEN "cancel" ELSE "check")
           \/ /\ ~Claimable(e)
              /\ Goto(w, "resolved")
              /\ UNCHANGED storeVars
        /\ UNCHANGED <<job, faults>>

\* isCancellationRequested, then the handler lookup.
Check(w) ==
    /\ proc[w].pc = "check"
    /\ \/ Cancelling(w) /\ Goto(w, "cancel")
       \/ /\ ~Cancelling(w)
          /\ rows[proc[w].exec].kind \in Handled
          /\ Goto(w, "handler")
       \/ /\ ~Cancelling(w)
          /\ rows[proc[w].exec].kind \notin Handled
          /\ Goto(w, "fail")
    /\ UNCHANGED <<rows, log, job, faults>>

\* context.reportProgress throws, with no retryable of its own, when refused.
Report(w) ==
    LET e == proc[w].exec
    IN  /\ proc[w].pc = "handler"
        /\ \/ /\ proc[w].reports < MaxReports
              /\ UpdateProgress(e, proc[w].lease)
              /\ proc' = [proc EXCEPT ![w].reports = @ + 1]
           \/ /\ ~HoldsLease(e, proc[w].lease)
              /\ Catch(w, TRUE)
              /\ UNCHANGED storeVars
        /\ UNCHANGED <<job, faults>>

HandlerReturns(w) ==
    /\ proc[w].pc = "handler"
    /\ Goto(w, IF proc[w].aborted THEN "cancel_try" ELSE "recheck")
    /\ UNCHANGED <<rows, log, job, faults>>

HandlerThrows(w) ==
    /\ proc[w].pc = "handler"
    /\ \E retryable \in BOOLEAN : Catch(w, retryable)
    /\ UNCHANGED <<rows, log, job, faults>>

\* Regression: the result is committed without asking for a cancellation.
RecheckSkipped(w) ==
    /\ proc[w].pc = "recheck"
    /\ Goto(w, "complete")
    /\ UNCHANGED <<rows, log, job, faults>>

Recheck(w) ==
    /\ proc[w].pc = "recheck"
    /\ Goto(w, IF Cancelling(w) THEN "cancel_try" ELSE "complete")
    /\ UNCHANGED <<rows, log, job, faults>>

Caught(w) ==
    /\ proc[w].pc = "caught"
    /\ Goto(w, IF Cancelling(w) THEN "cancel"
               ELSE IF proc[w].retryable THEN "retry" ELSE "fail")
    /\ UNCHANGED <<rows, log, job, faults>>

\* The store call each of these program points is about to make.
Write(w) ==
    LET e == proc[w].exec
        lease == proc[w].lease
    IN  \/ proc[w].pc = "claim"    /\ MarkRunning(e, lease)
        \/ proc[w].pc = "complete" /\ Finish(e, lease, "succeeded")
        \/ proc[w].pc = "fail"     /\ Finish(e, lease, "failed")
        \/ proc[w].pc = "retry"    /\ Retry(e, lease)
        \/ /\ proc[w].pc \in {"cancel", "cancel_try"}
           /\ CancelRunning(e, lease)

Refused(w) ==
    LET e == proc[w].exec
        lease == proc[w].lease
    IN  IF proc[w].pc \in {"cancel", "cancel_try"} THEN ~HoldsCancel(e, lease)
                                                   ELSE ~HoldsLease(e, lease)

\* complete, fail or cancelRunning: granted or refused, process() returns.
Settle(w) ==
    /\ proc[w].pc \in {"complete", "fail", "cancel", "cancel_try"}
    /\ Write(w) \/ (Refused(w) /\ UNCHANGED storeVars)
    /\ Goto(w, "resolved")
    /\ UNCHANGED <<job, faults>>

\* Regression: the error is swallowed after store.retry.
PutBackQuietly(w) ==
    /\ proc[w].pc = "retry"
    /\ Write(w) \/ (Refused(w) /\ UNCHANGED storeVars)
    /\ Goto(w, "resolved")
    /\ UNCHANGED <<job, faults>>

\* store.retry: granted or refused, the error is thrown again.
PutBack(w) ==
    /\ proc[w].pc = "retry"
    /\ Write(w) \/ (Refused(w) /\ UNCHANGED storeVars)
    /\ Goto(w, "rejected")
    /\ UNCHANGED <<job, faults>>

\* graphile-worker settles the job of a promise that ended.
SettleJob(w) ==
    /\ \/ proc[w].pc = "resolved" /\ CompleteJob(proc[w].exec)
       \/ proc[w].pc = "rejected" /\ FailJob(proc[w].exec, proc[w].lease)
    /\ proc' = [proc EXCEPT ![w] = Idle]
    /\ UNCHANGED <<rows, log, faults>>

-----------------------------------------------------------------------------

\* The cancellation monitor polls until the finally; nobody reads the
\* controller after the catch was entered.
Monitored == {"handler", "recheck", "complete", "cancel_try"}

Poll(w) ==
    /\ proc[w].pc \in Monitored
    /\ ~proc[w].aborted
    /\ Cancelling(w)
    /\ proc' = [proc EXCEPT ![w].aborted = TRUE]
    /\ UNCHANGED <<rows, log, job, faults>>

\* The process is told to stop.  relayAbort listens only once the handler is
\* about to be called: an abort that comes during the check is not relayed.
Shutdown(w) ==
    /\ proc[w].pc \in {"claim", "check"} \cup Monitored
    /\ ~proc[w].signal
    /\ Fault("shutdown")
    /\ proc' = [proc EXCEPT ![w] =
                  [@ EXCEPT !.signal = TRUE,
                            !.aborted = proc[w].aborted \/ proc[w].pc \in Monitored]]
    /\ UNCHANGED <<rows, log, job>>

\* A store call throws, its transaction rolled back or committed unseen.  Inside
\* the try that enters the catch; elsewhere process() rejects.
DatabaseFault(w) ==
    /\ proc[w].pc \notin {"idle", "handler", "resolved", "rejected"}
    /\ Fault("database")
    /\ Write(w) \/ UNCHANGED storeVars
    /\ IF proc[w].pc \in {"recheck", "complete", "cancel_try"}
       THEN Catch(w, TRUE)
       ELSE Goto(w, "rejected")
    /\ UNCHANGED job

\* The worker process dies: its job stays locked, its lease stays on the row.
Crash(w) ==
    /\ proc[w].pc # "idle"
    /\ Fault("crash")
    /\ proc' = [proc EXCEPT ![w] = Idle]
    /\ UNCHANGED <<rows, log, job>>

HasWorker(e) == \E w \in Worker : proc[w].exec = e /\ Locked(e, proc[w].lease)

\* A lock is freed after four hours; with its worker alive that is an overrun.
Release(e) ==
    /\ ReleaseJob(e)
    /\ \/ ~HasWorker(e) /\ UNCHANGED faults
       \/ HasWorker(e) /\ Fault("overrun")
    /\ UNCHANGED <<rows, log, proc>>

\* What a slot does of itself, its handler's end included.
Work(w) == \/ Claim(w) \/ Check(w) \/ Recheck(w) \/ Caught(w)
           \/ HandlerReturns(w) \/ HandlerThrows(w)
           \/ Settle(w) \/ PutBack(w) \/ SettleJob(w)

ProcessorNext ==
    \/ \E w \in Worker : \/ Fetch(w) \/ Work(w) \/ Report(w) \/ Poll(w)
                         \/ Shutdown(w) \/ DatabaseFault(w) \/ Crash(w)
    \/ \E e \in Execution : Release(e)
=============================================================================
