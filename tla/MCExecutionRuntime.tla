-------------------------- MODULE MCExecutionRuntime --------------------------
(***************************************************************************)
(* Instances of ExecutionRuntime for TLC.  Clients, keys, workers and      *)
(* executions are interchangeable: no definition tells one from another.   *)
(***************************************************************************)
EXTENDS ExecutionRuntime, TLC

Interchangeable == Permutations(Client) \cup Permutations(Key)
                   \cup Permutations(Worker) \cup Permutations(Execution)
=============================================================================
