--------------------------- MODULE ExecutionDomain ---------------------------
(***************************************************************************)
(* The life cycle of an execution as @ivory-tower/domain states it: the    *)
(* statuses, which of them are terminal, and the table of transitions      *)
(* that assertExecutionTransition enforces.  "absent" stands for an        *)
(* execution with no row.                                                  *)
(*                                                                         *)
(* An event is named by what it tells a reader: the status of a 'status'   *)
(* event, or "progress", "error" or "complete".                            *)
(***************************************************************************)

CONSTANT Execution  \* the ids that ExecutionIdPort.next may give

TerminalStatus == {"succeeded", "failed", "cancelled"}

ExecutionStatus == {"queued", "running", "cancelling"} \cup TerminalStatus

Event == {"queued", "running", "cancelling", "cancelled",
          "progress", "error", "complete"}

\* canTransitionExecution(from, to)
CanTransition(from, to) ==
    \/ from = "queued"     /\ to \in {"running", "cancelling", "cancelled"}
    \/ from = "running"    /\ to \in {"cancelling"} \cup TerminalStatus
    \/ from = "cancelling" /\ to \in {"cancelled", "failed"}
=============================================================================
