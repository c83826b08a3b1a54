--------------------------- MODULE ExecutionContract --------------------------
(***************************************************************************)
(* What an execution promises the client that watches it, with no workers, *)
(* leases, jobs or keys: a status that a reader may fetch at any time, and *)
(* a history of events that only grows, each change of status told by an   *)
(* event of the same step.  A request to cancel is never overtaken by a    *)
(* result, and a terminal status is the end of both.                       *)
(***************************************************************************)
EXTENDS Sequences, ExecutionDomain

VARIABLES status, history

Init == /\ status = [e \in Execution |-> "absent"]
        /\ history = [e \in Execution |-> <<>>]

Move(e, from, to, events) == /\ status[e] \in from
                             /\ status' = [status EXCEPT ![e] = to]
                             /\ history' = [history EXCEPT ![e] = events]

Tell(e, event) == Append(history[e], event)

Accept(e)   == Move(e, {"absent"}, "queued", Tell(e, "queued"))
Start(e)    == Move(e, {"queued"}, "running", Tell(e, "running"))
Progress(e) == Move(e, {"running"}, "running", Tell(e, "progress"))
Requeue(e)  == Move(e, {"running"}, "queued", Append(Tell(e, "error"), "queued"))
Succeed(e)  == Move(e, {"running"}, "succeeded", Tell(e, "complete"))
Fail(e)     == Move(e, {"running"}, "failed", Tell(e, "error"))
AskToCancel(e) == Move(e, {"running"}, "cancelling", Tell(e, "cancelling"))
CancelNow(e)   == Move(e, {"queued", "running", "cancelling"}, "cancelled",
                       Tell(e, "cancelled"))

Next == \E e \in Execution :
           \/ Accept(e)  \/ Start(e)   \/ Progress(e) \/ Requeue(e)
           \/ Succeed(e) \/ Fail(e)    \/ AskToCancel(e) \/ CancelNow(e)

Spec == Init /\ [][Next]_<<status, history>>
=============================================================================
