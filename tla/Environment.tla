----------------------------- MODULE Environment ------------------------------
(***************************************************************************)
(* What may go wrong around the processes: which kinds of fault a run      *)
(* allows, and a bound on how many of them happen.                         *)
(***************************************************************************)
EXTENDS Naturals

CONSTANTS Faults,    \* the kinds of fault that may happen
          MaxFaults  \* how many of them, in all

FaultKind == {"api",       \* an API process stops in the middle of a request
              "database",  \* a database call throws, before or after its commit
              "crash",     \* a worker process dies
              "shutdown",  \* a worker process is told to stop: its signal aborts
              "overrun",   \* a job's lock is freed while its worker still runs
              "network",   \* the connection of a reader is cut
              "store"}     \* a call of the object store throws, done or not

ASSUME FaultAssumption == Faults \subseteq FaultKind /\ MaxFaults \in Nat

VARIABLE faults  \* how many have happened

EnvironmentTypeOK == faults \in 0 .. MaxFaults

EnvironmentInit == faults = 0

Fault(kind) == /\ kind \in Faults
               /\ faults < MaxFaults
               /\ faults' = faults + 1
=============================================================================
