----------------------- MODULE ExecutionRuntime_proofs ------------------------
(***************************************************************************)
(* What holds of ExecutionRuntime for every number of clients, keys,       *)
(* executions, workers, deliveries and faults.                             *)
(***************************************************************************)
EXTENDS ExecutionRuntime, TLAPS

-----------------------------------------------------------------------------
\* The store's operations keep its types, whoever calls them.

\* A transaction on one execution writes a row and a log of the right type.
LEMMA CommitType ==
    ASSUME StoreTypeOK, NEW e \in Execution, NEW row \in Row,
           NEW events \in Seq(Event), Commit(e, row, events)
    PROVE  StoreTypeOK'
BY DEF StoreTypeOK, Commit

\* Every operation of PostgresExecutionStore keeps the types of the rows and of
\* the events.
LEMMA StoreType ==
    ASSUME StoreTypeOK, [StoreNext]_storeVars
    PROVE  StoreTypeOK'
<1>1. CASE UNCHANGED storeVars
  BY <1>1 DEF storeVars, StoreTypeOK
<1>2. ASSUME NEW e \in Execution,
             StoreUpdate(e) \/ \E k \in Key, kind \in Kind : Insert(e, k, kind)
      PROVE  StoreTypeOK'
  <2> USE DEF StoreTypeOK, Row, ExecutionStatus, TerminalStatus, NoLease
  <2>1. ASSUME NEW x \in Event PROVE Append(log[e], x) \in Seq(Event)
    OBVIOUS
  <2>2. ASSUME NEW k \in Key, NEW kind \in Kind, Insert(e, k, kind)
        PROVE  StoreTypeOK'
    <3>1. "queued" \in Event BY DEF Event
    <3> QED BY <2>1, <2>2, <3>1, CommitType DEF Insert
  <2>3. ASSUME NEW lease \in Nat, MarkRunning(e, lease)
        PROVE  StoreTypeOK'
    <3>1. "running" \in Event BY DEF Event
    <3>2. rows[e] \in Row /\ rows[e].attempt + 1 \in Nat
      OBVIOUS
    <3>3. [rows[e] EXCEPT !.status = "running", !.lease = lease,
                          !.attempt = @ + 1] \in Row
      BY <3>2
    <3> QED BY <2>1, <2>3, <3>1, <3>3, CommitType DEF MarkRunning
  <2>4. ASSUME NEW lease \in Nat, UpdateProgress(e, lease)
        PROVE  StoreTypeOK'
    <3>1. "progress" \in Event BY DEF Event
    <3> QED BY <2>1, <2>4, <3>1, CommitType DEF UpdateProgress
  <2>5. ASSUME NEW lease \in Nat, NEW status \in {"succeeded", "failed"},
               Finish(e, lease, status)
        PROVE  StoreTypeOK'
    <3>1. "complete" \in Event /\ "error" \in Event BY DEF Event
    <3> QED BY <2>1, <2>5, <3>1, CommitType DEF Finish
  <2>6. ASSUME NEW lease \in Nat, Retry(e, lease)
        PROVE  StoreTypeOK'
    <3>1. "error" \in Event /\ "queued" \in Event BY DEF Event
    <3>2. Append(Append(log[e], "error"), "queued") \in Seq(Event)
      BY <2>1, <3>1
    <3> QED BY <2>6, <3>2, CommitType DEF Retry
  <2>7. ASSUME NEW lease \in Nat, CancelRunning(e, lease)
        PROVE  StoreTypeOK'
    <3>1. "cancelled" \in Event BY DEF Event
    <3> QED BY <2>1, <2>7, <3>1, CommitType DEF CancelRunning
  <2>8. ASSUME Cancel(e)
        PROVE  StoreTypeOK'
    <3>1. "cancelled" \in Event /\ "cancelling" \in Event BY DEF Event
    <3> QED BY <2>1, <2>8, <3>1, CommitType DEF Cancel
  <2> QED BY <1>2, <2>2, <2>3, <2>4, <2>5, <2>6, <2>7, <2>8 DEF StoreUpdate
<1> QED BY <1>1, <1>2 DEF StoreNext

-----------------------------------------------------------------------------
\* The API.

\* What a request in flight carries, by how far it is.
LEMMA RequestFields ==
    ASSUME ServiceTypeOK, NEW c \in Client
    PROVE  /\ req[c].pc \in InFlight =>
                req[c] \in [pc : InFlight, key : Key, kind : Kind,
                            id : Execution \cup {None}, status : {None}]
           /\ req[c].pc \in {"insert", "refind"} => req[c].id \in Execution
BY DEF ServiceTypeOK, Request, NoRequest, InFlight

\* An answer is given to a request in flight, and names an execution.
LEMMA ReplyType ==
    ASSUME ServiceTypeOK, NEW c \in Client, req[c].pc \in InFlight,
           NEW e \in Execution, NEW status \in {200, 202}, Reply(c, e, status)
    PROVE  ServiceTypeOK'
<1>1. req'[c] = [req[c] EXCEPT !.pc = "replied", !.id = e, !.status = status]
  BY DEF Reply, ServiceTypeOK
<1>2. req[c] \in [pc : InFlight, key : Key, kind : Kind,
                  id : Execution \cup {None}, status : {None}]
  BY RequestFields
<1>3. ASSUME NEW r \in [pc : InFlight, key : Key, kind : Kind,
                        id : Execution \cup {None}, status : {None}]
      PROVE  [r EXCEPT !.pc = "replied", !.id = e, !.status = status]
                \in [pc : {"replied"}, key : Key, kind : Kind, id : Execution,
                     status : {200, 202}]
  OBVIOUS
<1>4. req'[c] \in [pc : {"replied"}, key : Key, kind : Kind, id : Execution,
                   status : {200, 202}]
  BY <1>1, <1>2, <1>3, Zenon
<1>5. req'[c] \in Request
  BY <1>4 DEF Request
<1> QED BY <1>5 DEF Reply, ServiceTypeOK

LEMMA RefuseType ==
    ASSUME ServiceTypeOK, NEW c \in Client, req[c].pc \in InFlight, Refuse(c)
    PROVE  ServiceTypeOK'
<1>1. req'[c] \in [pc : {"error"}, key : Key, kind : Kind, id : {None},
                   status : {None}]
  BY RequestFields DEF Refuse, ServiceTypeOK
<1>2. req'[c] \in Request
  BY <1>1 DEF Request
<1> QED BY <1>2 DEF Refuse, ServiceTypeOK

LEMMA RefindType ==
    ASSUME ServiceTypeOK, NEW c \in Client, req[c].pc = "insert",
           req' = [req EXCEPT ![c].pc = "refind"]
    PROVE  ServiceTypeOK'
<1>1. req'[c] \in [pc : {"refind"}, key : Key, kind : Kind, id : Execution,
                   status : {None}]
  BY RequestFields DEF ServiceTypeOK, InFlight
<1>2. req'[c] \in Request
  BY <1>1 DEF Request
<1> QED BY <1>2 DEF ServiceTypeOK

\* createAndEnqueue is an operation of the store and of the queue.
LEMMA CreateStep ==
    ASSUME TypeOK, NEW c \in Client, req[c].pc = "insert", CreateAndEnqueue(c)
    PROVE  StoreNext /\ QueueTypeOK'
<1>1. /\ req[c].key \in Key
      /\ req[c].kind \in Kind
      /\ req[c].id \in Execution
  BY RequestFields DEF TypeOK, InFlight
<1>2. StoreNext
  BY <1>1 DEF CreateAndEnqueue, StoreNext
<1>3. QueueTypeOK'
  BY <1>1, MaxAttemptsAssumption
     DEF CreateAndEnqueue, AddJob, TypeOK, QueueTypeOK, Job
<1> QED BY <1>2, <1>3

LEMMA FaultType ==
    ASSUME EnvironmentTypeOK, NEW kind, Fault(kind)
    PROVE  EnvironmentTypeOK'
BY FaultAssumption DEF EnvironmentTypeOK, Fault

\* A step of the API is a step of the store or none, and keeps the types.
LEMMA ServiceStep ==
    ASSUME TypeOK, ServiceNext
    PROVE  /\ [StoreNext]_storeVars
           /\ QueueTypeOK'
           /\ EnvironmentTypeOK'
           /\ ServiceTypeOK'
<1> USE DEF TypeOK
<1>1. ASSUME NEW c \in Client, NEW k \in Key, NEW kind \in Kind, Ask(c, k, kind)
      PROVE  UNCHANGED <<rows, log, job, faults>> /\ ServiceTypeOK'
  <2>1. [NoRequest EXCEPT !.pc = "find", !.key = k, !.kind = kind] \in Request
    BY DEF NoRequest, Request
  <2> QED BY <1>1, <2>1 DEF Ask, ServiceTypeOK
<1>2. ASSUME NEW c \in Client, Find(c)
      PROVE  UNCHANGED <<rows, log, job, faults>> /\ ServiceTypeOK'
  <2>1. req[c].pc \in InFlight
    BY <1>2 DEF Find, InFlight
  <2>2. CASE \E e \in FindByKey(req[c].key) : Reply(c, e, 200)
    BY <1>2, <2>1, <2>2, ReplyType DEF Find, FindByKey
  <2>3. ASSUME NEW e \in Execution,
               req' = [req EXCEPT ![c] = [@ EXCEPT !.pc = "insert", !.id = e]]
        PROVE  ServiceTypeOK'
    <3>1. req'[c] \in [pc : {"insert"}, key : Key, kind : Kind, id : Execution,
                       status : {None}]
      BY <2>1, <2>3, RequestFields DEF ServiceTypeOK
    <3>2. req'[c] \in Request
      BY <3>1 DEF Request
    <3> QED BY <2>3, <3>2 DEF ServiceTypeOK
  <2> QED BY <1>2, <2>2, <2>3 DEF Find
<1>3. ASSUME NEW c \in Client, TryInsert(c)
      PROVE  /\ [StoreNext]_storeVars
             /\ QueueTypeOK'
             /\ UNCHANGED faults
             /\ ServiceTypeOK'
  <2>1. req[c].pc \in InFlight /\ req[c].id \in Execution
    BY <1>3, RequestFields DEF TryInsert, InFlight
  <2>2. CASE CreateAndEnqueue(c) /\ Reply(c, req[c].id, 202)
    BY <1>3, <2>1, <2>2, CreateStep, ReplyType DEF TryInsert
  <2>3. CASE /\ req' = [req EXCEPT ![c].pc = "refind"]
             /\ UNCHANGED <<rows, log, job>>
    BY <1>3, <2>3, RefindType DEF TryInsert, QueueTypeOK, storeVars
  <2> QED BY <1>3, <2>2, <2>3 DEF TryInsert
<1>4. ASSUME NEW c \in Client, Refind(c)
      PROVE  UNCHANGED <<rows, log, job, faults>> /\ ServiceTypeOK'
  <2>1. req[c].pc \in InFlight
    BY <1>4 DEF Refind, InFlight
  <2> QED BY <1>4, <2>1, ReplyType, RefuseType DEF Refind, FindByKey
<1>5. ASSUME NEW c \in Client, req[c].pc \in InFlight, LostInsert(c)
      PROVE  [StoreNext]_storeVars /\ QueueTypeOK'
  BY <1>5, CreateStep DEF LostInsert, storeVars, QueueTypeOK
<1>6. ASSUME NEW c \in Client, RequestDatabaseFault(c)
      PROVE  /\ [StoreNext]_storeVars
             /\ QueueTypeOK'
             /\ EnvironmentTypeOK'
             /\ ServiceTypeOK'
  BY <1>5, <1>6, FaultType, RefindType, RefuseType DEF RequestDatabaseFault
<1>7. ASSUME NEW c \in Client, RequestLost(c)
      PROVE  /\ [StoreNext]_storeVars
             /\ QueueTypeOK'
             /\ EnvironmentTypeOK'
             /\ ServiceTypeOK'
  BY <1>5, <1>7, FaultType, RefuseType DEF RequestLost
<1>8. ASSUME NEW e \in Execution, RequestCancel(e)
      PROVE  StoreNext /\ UNCHANGED <<job, faults, req>>
  BY <1>8 DEF RequestCancel, StoreNext, StoreUpdate
<1> QED
  BY <1>1, <1>2, <1>3, <1>4, <1>6, <1>7, <1>8
     DEF ServiceNext, Serve, storeVars, QueueTypeOK, EnvironmentTypeOK, ServiceTypeOK

-----------------------------------------------------------------------------
\* The workers.

\* A slot that is anywhere in process() has a job, a lease and an execution.
LEMMA BusyType ==
    ASSUME ProcessorTypeOK, NEW w \in Worker, proc[w].pc # "idle"
    PROVE  proc[w] \in Busy
BY DEF ProcessorTypeOK, Proc, Idle

LEMMA BusyFields ==
    ASSUME NEW r \in Busy
    PROVE  r.exec \in Execution /\ r.lease \in Nat /\ r.pc \in Pc
BY MaxAttemptsAssumption DEF Busy

LEMMA GotoType ==
    ASSUME ProcessorTypeOK, NEW w \in Worker, proc[w] \in Busy,
           NEW pc \in Pc, Goto(w, pc)
    PROVE  ProcessorTypeOK'
<1>1. proc'[w] \in Busy
  BY DEF Goto, ProcessorTypeOK, Busy
<1> QED BY <1>1 DEF Goto, ProcessorTypeOK, Proc

LEMMA CatchType ==
    ASSUME ProcessorTypeOK, NEW w \in Worker, proc[w] \in Busy,
           NEW retryable \in BOOLEAN, Catch(w, retryable)
    PROVE  ProcessorTypeOK'
<1>1. PICK pc \in {"cancel", "caught"} :
         proc' = [proc EXCEPT ![w] = [@ EXCEPT !.retryable = retryable, !.pc = pc]]
  BY DEF Catch
<1>2. proc'[w] \in Busy
  BY <1>1 DEF ProcessorTypeOK, Busy, Pc
<1> QED BY <1>1, <1>2 DEF ProcessorTypeOK, Proc

\* What process() writes is an operation of the store.
LEMMA WriteStep ==
    ASSUME NEW w \in Worker, proc[w] \in Busy, Write(w)
    PROVE  \E e \in Execution : StoreUpdate(e)
BY BusyFields DEF Write, StoreUpdate

\* A step of a worker is a step of the store or none, and keeps the types.
LEMMA ProcessorStep ==
    ASSUME TypeOK, ProcessorNext
    PROVE  /\ [\E e \in Execution : StoreUpdate(e)]_storeVars
           /\ QueueTypeOK'
           /\ EnvironmentTypeOK'
           /\ ProcessorTypeOK'
<1> USE DEF TypeOK
<1>1. ASSUME NEW w \in Worker, Fetch(w)
      PROVE  UNCHANGED <<rows, log, faults>> /\ QueueTypeOK' /\ ProcessorTypeOK'
  <2>1. PICK e \in Execution :
           /\ FetchJob(e)
           /\ proc' = [proc EXCEPT ![w] = Delivered(e, job'[e].attempts)]
    BY <1>1 DEF Fetch
  <2>2. job'[e] \in Job /\ job'[e].attempts \in 1 .. MaxAttempts /\ QueueTypeOK'
    BY <2>1, MaxAttemptsAssumption DEF FetchJob, Fetchable, QueueTypeOK, Job
  <2>3. ASSUME NEW lease \in 1 .. MaxAttempts
        PROVE  Delivered(e, lease) \in Busy
    BY ProcessorAssumption DEF Delivered, Busy, Pc
  <2>4. proc'[w] = Delivered(e, job'[e].attempts)
    BY <2>1 DEF ProcessorTypeOK
  <2>5. proc'[w] \in Busy
    BY <2>2, <2>3, <2>4, Zenon
  <2> QED BY <1>1, <2>1, <2>2, <2>5 DEF Fetch, ProcessorTypeOK, Proc
<1>2. ASSUME NEW w \in Worker, Claim(w)
      PROVE  [\E e \in Execution : StoreUpdate(e)]_storeVars /\ UNCHANGED <<job, faults>> /\ ProcessorTypeOK'
  <2>1. proc[w] \in Busy
    BY <1>2, BusyType DEF Claim
  <2>2. [\E e \in Execution : StoreUpdate(e)]_storeVars
    BY <1>2, <2>1, BusyFields DEF Claim, StoreUpdate
  <2>3. ProcessorTypeOK'
    BY <1>2, <2>1, GotoType DEF Claim, Pc
  <2> QED BY <1>2, <2>2, <2>3 DEF Claim
<1>3. ASSUME NEW w \in Worker, Check(w) \/ Recheck(w) \/ Caught(w)
      PROVE  UNCHANGED <<rows, log, job, faults>> /\ ProcessorTypeOK'
  <2>1. proc[w] \in Busy
    BY <1>3, BusyType DEF Check, Recheck, Caught
  <2> QED BY <1>3, <2>1, GotoType DEF Check, Recheck, Caught, Pc
<1>4. ASSUME NEW w \in Worker, Report(w)
      PROVE  [\E e \in Execution : StoreUpdate(e)]_storeVars /\ UNCHANGED <<job, faults>> /\ ProcessorTypeOK'
  <2>1. proc[w] \in Busy
    BY <1>4, BusyType DEF Report
  <2>2. CASE /\ proc[w].reports < MaxReports
             /\ UpdateProgress(proc[w].exec, proc[w].lease)
             /\ proc' = [proc EXCEPT ![w].reports = @ + 1]
    <3>1. \E e \in Execution : StoreUpdate(e)
      BY <2>1, <2>2, BusyFields DEF StoreUpdate
    <3>2. proc'[w] \in Busy
      BY <2>1, <2>2, ProcessorAssumption DEF ProcessorTypeOK, Busy
    <3> QED BY <1>4, <2>2, <3>1, <3>2 DEF Report, ProcessorTypeOK, Proc
  <2>3. CASE Catch(w, TRUE) /\ UNCHANGED storeVars
    BY <1>4, <2>1, <2>3, CatchType DEF Report
  <2> QED BY <1>4, <2>2, <2>3 DEF Report
<1>5. ASSUME NEW w \in Worker, HandlerReturns(w) \/ HandlerThrows(w)
      PROVE  UNCHANGED <<rows, log, job, faults>> /\ ProcessorTypeOK'
  <2>1. proc[w] \in Busy
    BY <1>5, BusyType DEF HandlerReturns, HandlerThrows
  <2> QED BY <1>5, <2>1, GotoType, CatchType DEF HandlerReturns, HandlerThrows, Pc
<1>6. ASSUME NEW w \in Worker, Settle(w) \/ PutBack(w)
      PROVE  [\E e \in Execution : StoreUpdate(e)]_storeVars /\ UNCHANGED <<job, faults>> /\ ProcessorTypeOK'
  <2>1. proc[w] \in Busy
    BY <1>6, BusyType DEF Settle, PutBack
  <2> QED BY <1>6, <2>1, GotoType, WriteStep DEF Settle, PutBack, Pc
<1>7. ASSUME NEW w \in Worker, SettleJob(w)
      PROVE  UNCHANGED <<rows, log, faults>> /\ QueueTypeOK' /\ ProcessorTypeOK'
  <2>1. proc[w].exec \in Execution
    BY <1>7, BusyType, BusyFields DEF SettleJob
  <2>2. QueueTypeOK'
    BY <1>7, <2>1 DEF SettleJob, CompleteJob, FailJob, QueueTypeOK, Job
  <2> QED BY <1>7, <2>2 DEF SettleJob, ProcessorTypeOK, Proc
<1>8. ASSUME NEW w \in Worker, Poll(w)
      PROVE  UNCHANGED <<rows, log, job, faults>> /\ ProcessorTypeOK'
  <2>1. proc[w] \in Busy
    BY <1>8, BusyType DEF Poll, Monitored
  <2>2. proc'[w] \in Busy
    BY <1>8, <2>1 DEF Poll, ProcessorTypeOK, Busy
  <2> QED BY <1>8, <2>2 DEF Poll, ProcessorTypeOK, Proc
<1>9. ASSUME NEW w \in Worker, Shutdown(w)
      PROVE  UNCHANGED <<rows, log, job>> /\ EnvironmentTypeOK' /\ ProcessorTypeOK'
  <2>1. proc[w] \in Busy
    BY <1>9, BusyType DEF Shutdown, Monitored
  <2>2. PICK aborted \in BOOLEAN : proc' = [proc EXCEPT ![w] =
                                     [@ EXCEPT !.signal = TRUE, !.aborted = aborted]]
    BY <1>9 DEF Shutdown
  <2>3. proc'[w] \in Busy
    BY <2>1, <2>2 DEF ProcessorTypeOK, Busy
  <2> QED BY <1>9, <2>2, <2>3, FaultType DEF Shutdown, ProcessorTypeOK, Proc
<1>10. ASSUME NEW w \in Worker, DatabaseFault(w)
       PROVE  /\ [\E e \in Execution : StoreUpdate(e)]_storeVars
              /\ UNCHANGED job
              /\ EnvironmentTypeOK'
              /\ ProcessorTypeOK'
  <2>1. proc[w] \in Busy
    BY <1>10, BusyType DEF DatabaseFault
  <2> QED BY <1>10, <2>1, FaultType, GotoType, CatchType, WriteStep
          DEF DatabaseFault, Pc
<1>11. ASSUME NEW w \in Worker, Crash(w)
       PROVE  UNCHANGED <<rows, log, job>> /\ EnvironmentTypeOK' /\ ProcessorTypeOK'
  BY <1>11, FaultType DEF Crash, ProcessorTypeOK, Proc
<1>12. ASSUME NEW e \in Execution, Release(e)
       PROVE  UNCHANGED <<rows, log, proc>> /\ EnvironmentTypeOK' /\ QueueTypeOK'
  <2>1. QueueTypeOK'
    BY <1>12 DEF Release, ReleaseJob, QueueTypeOK, Job
  <2>2. EnvironmentTypeOK'
    BY <1>12, FaultType DEF Release, EnvironmentTypeOK
  <2> QED BY <1>12, <2>1, <2>2 DEF Release
<1> QED
  BY <1>1, <1>2, <1>3, <1>4, <1>5, <1>6, <1>7, <1>8, <1>9, <1>10, <1>11, <1>12
     DEF ProcessorNext, Work, storeVars, QueueTypeOK, EnvironmentTypeOK, ProcessorTypeOK

-----------------------------------------------------------------------------

\* Types are kept, and whatever the runtime does to the rows and the events is
\* an operation of the store on one execution.
LEMMA RuntimeStep ==
    ASSUME TypeOK, [Next]_vars
    PROVE  TypeOK' /\ [StoreNext]_storeVars
<1>1. CASE UNCHANGED vars
  BY <1>1 DEF vars, storeVars, TypeOK, StoreTypeOK, QueueTypeOK,
              EnvironmentTypeOK, ServiceTypeOK, ProcessorTypeOK
<1>2. CASE ServiceNext /\ UNCHANGED proc
  <2>1. ProcessorTypeOK'
    BY <1>2 DEF TypeOK, ProcessorTypeOK
  <2> QED BY <1>2, <2>1, ServiceStep, StoreType DEF TypeOK
<1>3. CASE ProcessorNext /\ UNCHANGED req
  <2>1. ServiceTypeOK'
    BY <1>3 DEF TypeOK, ServiceTypeOK
  <2>2. [StoreNext]_storeVars
    BY <1>3, ProcessorStep DEF StoreNext
  <2> QED BY <1>3, <2>1, <2>2, ProcessorStep, StoreType DEF TypeOK
<1> QED BY <1>1, <1>2, <1>3 DEF Next

LEMMA InitType == ASSUME Init PROVE TypeOK
<1>1. StoreTypeOK
  BY DEF Init, StoreInit, StoreTypeOK, AbsentRow, Row, NoLease
<1>2. QueueTypeOK
  BY MaxAttemptsAssumption DEF Init, QueueInit, QueueTypeOK, Job
<1>3. EnvironmentTypeOK
  BY FaultAssumption DEF Init, EnvironmentInit, EnvironmentTypeOK
<1>4. ServiceTypeOK
  BY DEF Init, ServiceInit, ServiceTypeOK, Request
<1>5. ProcessorTypeOK
  BY DEF Init, ProcessorInit, ProcessorTypeOK, Proc
<1> QED BY <1>1, <1>2, <1>3, <1>4, <1>5 DEF TypeOK

\* Every variable has its type in every reachable state: in particular an attempt
\* is never delivered beyond MaxAttempts and only a known status is written.
THEOREM TypeCorrect == Spec => []TypeOK
<1>1. Init => TypeOK
  BY InitType
<1>2. TypeOK /\ [Next]_vars => TypeOK'
  BY RuntimeStep
<1> QED BY <1>1, <1>2, PTL DEF Spec

-----------------------------------------------------------------------------
\* What follows from the store's operations alone.

\* No operation of the store touches a terminal execution, and none but
\* cancelRunning touches one that is to be cancelled.
LEMMA StoreGuards ==
    ASSUME StoreTypeOK, StoreNext, NEW e \in Execution
    PROVE  /\ Terminal(e) => rows'[e] = rows[e] /\ log'[e] = log[e]
           /\ rows[e].status = "cancelling" =>
                 \/ rows'[e] = rows[e] /\ log'[e] = log[e]
                 \/ rows'[e].status = "cancelled"
<1>1. PICK f \in Execution :
         StoreUpdate(f) \/ \E k \in Key, kind \in Kind : Insert(f, k, kind)
  BY DEF StoreNext
<1> USE DEF StoreTypeOK, Commit, Terminal, TerminalStatus
<1>2. CASE f # e
  BY <1>1, <1>2 DEF StoreUpdate, Insert, MarkRunning, UpdateProgress, Finish,
                    Retry, CancelRunning, Cancel
<1>3. CASE f = e
  <2>1. ASSUME NEW lease \in Nat, CancelRunning(e, lease)
        PROVE  rows[e].status \in {"running", "cancelling"} /\ rows'[e].status = "cancelled"
    BY <2>1 DEF CancelRunning, HoldsCancel, Row
  <2>2. CASE \E lease \in Nat : CancelRunning(e, lease)
    BY <2>1, <2>2
  <2>3. CASE ~\E lease \in Nat : CancelRunning(e, lease)
    <3>1. rows[e].status \in {"absent", "queued", "running"}
      BY <1>1, <1>3, <2>3
         DEF StoreUpdate, Insert, Insertable, Exists, MarkRunning, Claimable,
             UpdateProgress, HoldsLease, Finish, Retry, Cancel
    <3> QED BY <3>1
  <2> QED BY <2>2, <2>3
<1> QED BY <1>2, <1>3

\* Terminal executions are final, under every interleaving of clients, workers,
\* duplicate deliveries and faults.
THEOREM TerminalStays == Spec => TerminalIsFinal
<1>1. TypeOK /\ [Next]_vars =>
        [\A e \in Execution : Terminal(e) => rows'[e] = rows[e] /\ log'[e] = log[e]]_vars
  BY RuntimeStep, StoreGuards DEF TypeOK, storeVars
<1> QED BY <1>1, TypeCorrect, PTL DEF Spec, TerminalIsFinal

\* Once a request to cancel is recorded the only write that can follow is the one
\* that cancels.
THEOREM CancelStays == Spec => CancelWins
<1>1. TypeOK /\ [Next]_vars =>
        [\A e \in Execution : rows[e].status = "cancelling" =>
            \/ rows'[e] = rows[e] /\ log'[e] = log[e]
            \/ rows'[e].status = "cancelled"]_vars
  BY RuntimeStep, StoreGuards DEF TypeOK, storeVars
<1> QED BY <1>1, TypeCorrect, PTL DEF Spec, CancelWins

-----------------------------------------------------------------------------
\* The refinement of the contract.



\* The statuses after a transaction, as the contract sees them.
LEMMA StatusAfter ==
    ASSUME NEW e \in Execution, NEW to, rows'[e].status = to,
           \A x \in Execution \ {e} : rows'[x] = rows[x]
    PROVE  [x \in Execution |-> rows[x].status]'
              = [[x \in Execution |-> rows[x].status] EXCEPT ![e] = to]
OBVIOUS

\* Every operation of the store is an action of the contract.
LEMMA StoreImplements ==
    ASSUME StoreTypeOK, StoreNext
    PROVE  Contract!Next
<1>1. PICK e \in Execution :
         StoreUpdate(e) \/ \E k \in Key, kind \in Kind : Insert(e, k, kind)
  BY DEF StoreNext
<1>2. rows[e] \in Row /\ \A x \in Execution \ {e} : rows'[x] = rows[x]
  BY <1>1 DEF StoreTypeOK, StoreUpdate, Commit, Insert, MarkRunning, UpdateProgress,
              Finish, Retry, CancelRunning, Cancel
<1> USE DEF Contract!Tell, Contract!Move
<1>3. ASSUME NEW k \in Key, NEW kind \in Kind, Insert(e, k, kind)
      PROVE  Contract!Accept(e)
  <2>1. rows'[e].status = "queued"
    BY <1>3 DEF Insert, Commit, StoreTypeOK
  <2> QED BY <1>2, <1>3, <2>1, StatusAfter
          DEF Insert, Insertable, Exists, Commit, Contract!Accept
<1>4. ASSUME NEW lease \in Nat, MarkRunning(e, lease)
      PROVE  Contract!Start(e)
  <2>1. rows'[e].status = "running"
    BY <1>2, <1>4 DEF MarkRunning, Commit, StoreTypeOK, Row
  <2> QED BY <1>2, <1>4, <2>1, StatusAfter
          DEF MarkRunning, Claimable, Commit, Contract!Start
<1>5. ASSUME NEW lease \in Nat, UpdateProgress(e, lease)
      PROVE  Contract!Progress(e)
  <2>1. rows'[e].status = "running"
    BY <1>2, <1>5 DEF UpdateProgress, HoldsLease, Commit, StoreTypeOK
  <2> QED BY <1>2, <1>5, <2>1, StatusAfter
          DEF UpdateProgress, HoldsLease, Commit, Contract!Progress
<1>6. ASSUME NEW lease \in Nat, Retry(e, lease)
      PROVE  Contract!Requeue(e)
  <2>1. rows'[e].status = "queued"
    BY <1>2, <1>6 DEF Retry, Commit, StoreTypeOK, Row
  <2> QED BY <1>2, <1>6, <2>1, StatusAfter
          DEF Retry, HoldsLease, Commit, Contract!Requeue
<1>7. ASSUME NEW lease \in Nat, NEW status \in {"succeeded", "failed"},
             Finish(e, lease, status)
      PROVE  Contract!Succeed(e) \/ Contract!Fail(e)
  <2>1. rows'[e].status = status
    BY <1>2, <1>7 DEF Finish, Commit, StoreTypeOK, Row
  <2> QED BY <1>2, <1>7, <2>1, StatusAfter
          DEF Finish, HoldsLease, Commit, Contract!Succeed, Contract!Fail
<1>8. ASSUME NEW lease \in Nat, CancelRunning(e, lease)
      PROVE  Contract!CancelNow(e)
  <2>1. rows'[e].status = "cancelled"
    BY <1>2, <1>8 DEF CancelRunning, Commit, StoreTypeOK, Row
  <2> QED BY <1>2, <1>8, <2>1, StatusAfter
          DEF CancelRunning, HoldsCancel, Commit, Contract!CancelNow
<1>9. ASSUME Cancel(e)
      PROVE  Contract!AskToCancel(e) \/ Contract!CancelNow(e)
  <2>1. CASE rows[e].status = "queued"
    <3>1. rows'[e].status = "cancelled"
      BY <1>2, <1>9, <2>1 DEF Cancel, Commit, StoreTypeOK, Row
    <3> QED BY <1>2, <1>9, <2>1, <3>1, StatusAfter
            DEF Cancel, Commit, Contract!CancelNow
  <2>2. CASE rows[e].status = "running"
    <3>1. rows'[e].status = "cancelling"
      BY <1>2, <1>9, <2>2 DEF Cancel, Commit, StoreTypeOK, Row
    <3> QED BY <1>2, <1>9, <2>2, <3>1, StatusAfter
            DEF Cancel, Commit, Contract!AskToCancel
  <2> QED BY <1>9, <2>1, <2>2 DEF Cancel
<1> QED
  BY <1>1, <1>3, <1>4, <1>5, <1>6, <1>7, <1>8, <1>9 DEF StoreUpdate, Contract!Next

\* The runtime, with all its clients, workers, deliveries and faults, implements
\* the contract an outside reader relies on.
THEOREM RuntimeImplementsContract == Spec => ImplementsContract
<1>1. Init => Contract!Init
  BY DEF Init, StoreInit, AbsentRow, Contract!Init
<1>2. TypeOK /\ [Next]_vars =>
        [Contract!Next]_<<[e \in Execution |-> rows[e].status], log>>
  BY RuntimeStep, StoreImplements DEF TypeOK, storeVars
<1> QED BY <1>1, <1>2, TypeCorrect, PTL DEF Spec, ImplementsContract, Contract!Spec

\* A change of status that the domain's table allows, or that of a retry, which tells
\* the error and the return to the queue.
TableOrRetry(e) ==
    \/ CanTransition(rows[e].status, rows'[e].status)
    \/ /\ rows[e].status = "running" /\ rows'[e].status = "queued"
       /\ log'[e] = Append(Append(log[e], "error"), "queued")

\* canTransitionExecution: no step changes a status against the table, but for
\* store.retry, which moves a running execution back to queued.
THEOREM TableIsFollowed ==
    Spec => [][\A e \in Execution : Exists(e) /\ rows'[e].status # rows[e].status
                 => TableOrRetry(e)]_<<[e \in Execution |-> rows[e].status], log>>
<1> DEFINE status == [e \in Execution |-> rows[e].status]
<1>1. ASSUME TypeOK, Contract!Next, NEW e \in Execution, Exists(e),
             rows'[e].status # rows[e].status
      PROVE  TableOrRetry(e)
  <2>1. log \in [Execution -> Seq(Event)]
    BY <1>1 DEF TypeOK, StoreTypeOK
  <2>2. PICK x \in Execution :
           \/ Contract!Accept(x)  \/ Contract!Start(x)   \/ Contract!Progress(x)
           \/ Contract!Requeue(x) \/ Contract!Succeed(x) \/ Contract!Fail(x)
           \/ Contract!AskToCancel(x) \/ Contract!CancelNow(x)
    BY <1>1 DEF Contract!Next
  <2>3. ASSUME NEW to, status' = [status EXCEPT ![x] = to]
        PROVE  x = e /\ rows[e].status = status[x] /\ rows'[e].status = to
    <3>1. \A y \in Execution : status[y] = rows[y].status /\ status'[y] = rows'[y].status
      OBVIOUS
    <3>2. \A y \in Execution : status'[y] = IF y = x THEN to ELSE status[y]
      BY <2>3
    <3> HIDE DEF status
    <3> QED
      BY <1>1, <3>1, <3>2
  <2> USE DEF Contract!Move, Contract!Tell
  <2>4. CASE Contract!Accept(x)
    <3>1. status[x] \in {"absent"} /\ status' = [status EXCEPT ![x] = "queued"]
      BY <2>4 DEF Contract!Accept
    <3>2. x = e /\ rows[e].status \in {"absent"} /\ rows'[e].status = "queued"
      BY <2>3, <3>1
    <3> QED
      BY <1>1, <3>2 DEF Exists
  <2>5. CASE Contract!Start(x)
    <3>1. status[x] \in {"queued"} /\ status' = [status EXCEPT ![x] = "running"]
      BY <2>5 DEF Contract!Start
    <3>2. x = e /\ rows[e].status \in {"queued"} /\ rows'[e].status = "running"
      BY <2>3, <3>1
    <3> QED
      BY <3>2 DEF TableOrRetry, CanTransition
  <2>6. CASE Contract!Progress(x)
    <3>1. status[x] \in {"running"} /\ status' = [status EXCEPT ![x] = "running"]
      BY <2>6 DEF Contract!Progress
    <3>2. x = e /\ rows[e].status \in {"running"} /\ rows'[e].status = "running"
      BY <2>3, <3>1
    <3> QED
      BY <1>1, <3>2
  <2>7. CASE Contract!Requeue(x)
    <3>1. status[x] \in {"running"} /\ status' = [status EXCEPT ![x] = "queued"]
      BY <2>7 DEF Contract!Requeue
    <3>2. x = e /\ rows[e].status \in {"running"} /\ rows'[e].status = "queued"
      BY <2>3, <3>1
    <3>3. log'[e] = Append(Append(log[e], "error"), "queued")
      BY <2>1, <2>7, <3>2 DEF Contract!Requeue
    <3> QED
      BY <3>2, <3>3 DEF TableOrRetry
  <2>8. CASE Contract!Succeed(x)
    <3>1. status[x] \in {"running"} /\ status' = [status EXCEPT ![x] = "succeeded"]
      BY <2>8 DEF Contract!Succeed
    <3>2. x = e /\ rows[e].status \in {"running"} /\ rows'[e].status = "succeeded"
      BY <2>3, <3>1
    <3> QED
      BY <3>2 DEF TableOrRetry, CanTransition, TerminalStatus
  <2>9. CASE Contract!Fail(x)
    <3>1. status[x] \in {"running"} /\ status' = [status EXCEPT ![x] = "failed"]
      BY <2>9 DEF Contract!Fail
    <3>2. x = e /\ rows[e].status \in {"running"} /\ rows'[e].status = "failed"
      BY <2>3, <3>1
    <3> QED
      BY <3>2 DEF TableOrRetry, CanTransition, TerminalStatus
  <2>10. CASE Contract!AskToCancel(x)
    <3>1. status[x] \in {"running"} /\ status' = [status EXCEPT ![x] = "cancelling"]
      BY <2>10 DEF Contract!AskToCancel
    <3>2. x = e /\ rows[e].status \in {"running"} /\ rows'[e].status = "cancelling"
      BY <2>3, <3>1
    <3> QED
      BY <3>2 DEF TableOrRetry, CanTransition
  <2>11. CASE Contract!CancelNow(x)
    <3>1. /\ status[x] \in {"queued", "running", "cancelling"}
          /\ status' = [status EXCEPT ![x] = "cancelled"]
      BY <2>11 DEF Contract!CancelNow
    <3> HIDE DEF status
    <3>2. /\ x = e /\ rows[e].status \in {"queued", "running", "cancelling"}
          /\ rows'[e].status = "cancelled"
      BY <2>3, <3>1
    <3> QED
      BY <3>2 DEF TableOrRetry, CanTransition, TerminalStatus
  <2> QED
    BY <2>2, <2>4, <2>5, <2>6, <2>7, <2>8, <2>9, <2>10, <2>11
<1>2. TypeOK /\ Contract!Next =>
         \A e \in Execution : Exists(e) /\ rows'[e].status # rows[e].status => TableOrRetry(e)
  BY <1>1
<1> QED
  BY <1>2, TypeCorrect, RuntimeImplementsContract, PTL DEF ImplementsContract, Contract!Spec

-----------------------------------------------------------------------------
\* Exclusive handlers.

\* The steps of a worker that no other claimed worker shares its execution with.
LEMMA OwnerStep ==
    ASSUME TypeOK, LeaseIsHeld, HandlersAreExclusive, NEW w \in Worker,
           \A v \in Worker \ {w} : proc'[v] = proc[v],
           \A v \in Worker \ {w} :
              proc[v].pc \in Claimed => proc[v].exec # proc[w].exec,
           \A x \in Execution \ {proc[w].exec} : rows'[x] = rows[x],
           proc'[w].pc \in Claimed => /\ proc'[w].exec = proc[w].exec
                                      /\ Held(proc[w].exec, proc[w].lease)'
    PROVE  LeaseIsHeld' /\ HandlersAreExclusive'
<1>1. ASSUME NEW v \in Worker, proc'[v].pc \in Claimed
      PROVE  Held(proc[v].exec, proc[v].lease)'
  <2>1. CASE v = w
    BY <1>1, <2>1
  <2>2. CASE v # w
    <3>1. proc'[v] = proc[v] /\ Held(proc[v].exec, proc[v].lease)
      BY <1>1, <2>2 DEF LeaseIsHeld
    <3>2. proc[v].exec \in Execution
      BY <1>1, <3>1, BusyType, BusyFields DEF Claimed, Pc, TypeOK
    <3>3. rows'[proc[v].exec] = rows[proc[v].exec]
      BY <1>1, <2>2, <3>1, <3>2
    <3> QED BY <3>1, <3>3 DEF Held, Terminal
  <2> QED BY <2>1, <2>2
<1>2. HandlersAreExclusive'
  BY DEF HandlersAreExclusive
<1> QED BY <1>1, <1>2 DEF LeaseIsHeld

\* The steps that leave the workers alone, and do not write what one of them holds.
LEMMA BystanderStep ==
    ASSUME TypeOK, LeaseIsHeld, HandlersAreExclusive, UNCHANGED proc,
           \A e \in Execution, lease \in Nat : Held(e, lease) =>
              \/ rows'[e] = rows[e]
              \/ rows'[e].lease = lease /\ rows'[e].status = "cancelling"
    PROVE  LeaseIsHeld' /\ HandlersAreExclusive'
<1>1. ASSUME NEW w \in Worker, proc[w].pc \in Claimed
      PROVE  Held(proc[w].exec, proc[w].lease)'
  <2>1. Held(proc[w].exec, proc[w].lease) /\ proc[w] \in Busy
    BY <1>1, BusyType DEF LeaseIsHeld, Claimed, Pc, TypeOK
  <2>2. proc[w].exec \in Execution /\ proc[w].lease \in Nat
    BY <2>1, BusyFields
  <2> QED BY <2>1, <2>2 DEF Held, Terminal
<1> QED BY <1>1 DEF LeaseIsHeld, HandlersAreExclusive

\* What a worker's own write leaves behind.
LEMMA WriteEffect ==
    ASSUME StoreTypeOK, NEW w \in Worker, proc[w] \in Busy, Write(w)
    PROVE  /\ \A x \in Execution \ {proc[w].exec} : rows'[x] = rows[x]
           /\ proc[w].pc = "claim" => /\ rows[proc[w].exec].status = "queued"
                                      /\ rows'[proc[w].exec].status = "running"
                                      /\ rows'[proc[w].exec].lease = proc[w].lease
           /\ proc[w].pc \in {"complete", "cancel_try"} =>
                 rows'[proc[w].exec].status \in TerminalStatus
<1>1. PICK e \in Execution : e = proc[w].exec
  BY BusyFields
<1>2. rows[e] \in Row
  BY DEF StoreTypeOK
<1>3. CASE proc[w].pc = "claim"
  <2>1. MarkRunning(e, proc[w].lease)
    BY <1>1, <1>3 DEF Write
  <2>2. /\ \A x \in Execution \ {e} : rows'[x] = rows[x]
        /\ rows[e].status = "queued"
        /\ rows'[e].status = "running"
        /\ rows'[e].lease = proc[w].lease
    BY <1>2, <2>1 DEF MarkRunning, Claimable, Commit, StoreTypeOK, Row
  <2> QED BY <1>1, <1>3, <2>2
<1>4. CASE proc[w].pc \in {"complete", "cancel_try"}
  <2>1. Finish(e, proc[w].lease, "succeeded") \/ CancelRunning(e, proc[w].lease)
    BY <1>1, <1>4 DEF Write
  <2>2. /\ \A x \in Execution \ {e} : rows'[x] = rows[x]
        /\ rows'[e].status \in {"succeeded", "cancelled"}
    <3>1. CASE Finish(e, proc[w].lease, "succeeded")
      BY <1>2, <3>1 DEF Finish, Commit, StoreTypeOK, Row
    <3>2. CASE CancelRunning(e, proc[w].lease)
      BY <1>2, <3>2 DEF CancelRunning, Commit, StoreTypeOK, Row
    <3> QED BY <2>1, <3>1, <3>2
  <2> QED BY <1>1, <1>4, <2>2 DEF TerminalStatus
<1>5. CASE proc[w].pc \notin {"claim", "complete", "cancel_try"}
  BY <1>1, <1>5 DEF Write, Finish, Retry, CancelRunning, Commit, StoreTypeOK
<1> QED BY <1>3, <1>4, <1>5

ExclusiveInv == TypeOK /\ LeaseIsHeld /\ HandlersAreExclusive

\* A request creates an execution that nobody can hold yet.
LEMMA ServiceExclusive ==
    ASSUME ExclusiveInv, ServiceNext, UNCHANGED proc
    PROVE  LeaseIsHeld' /\ HandlersAreExclusive'
<1> USE DEF ExclusiveInv
<1>1. ASSUME NEW c \in Client, LostInsert(c)
      PROVE  \A e \in Execution, lease \in Nat : Held(e, lease) => rows'[e] = rows[e]
  BY <1>1 DEF LostInsert, CreateAndEnqueue, Insert, Insertable, Exists, Commit,
              Held, Terminal, TerminalStatus, TypeOK, StoreTypeOK
<1>2. ASSUME NEW f \in Execution, Cancel(f)
      PROVE  \A e \in Execution, lease \in Nat : Held(e, lease) =>
                \/ rows'[e] = rows[e]
                \/ rows'[e].lease = lease /\ rows'[e].status = "cancelling"
  <2>1. rows[f] \in Row
    BY DEF TypeOK, StoreTypeOK
  <2>2. \A e \in Execution \ {f} : rows'[e] = rows[e]
    BY <1>2 DEF Cancel, Commit, TypeOK, StoreTypeOK
  <2>3. ASSUME NEW lease \in Nat, Held(f, lease)
        PROVE  rows'[f].lease = lease /\ rows'[f].status = "cancelling"
    <3>1. rows[f].status = "running" /\ rows[f].lease = lease
      BY <1>2, <2>3 DEF Cancel, Held, Terminal, TerminalStatus
    <3> QED BY <1>2, <2>1, <3>1 DEF Cancel, Commit, TypeOK, StoreTypeOK, Row
  <2> QED BY <2>2, <2>3
<1>3. \A e \in Execution, lease \in Nat : Held(e, lease) =>
         \/ rows'[e] = rows[e]
         \/ rows'[e].lease = lease /\ rows'[e].status = "cancelling"
  BY <1>1, <1>2
     DEF ServiceNext, Ask, Serve, Find, TryInsert, Refind, RequestDatabaseFault,
         RequestLost, RequestCancel, LostInsert
<1> QED BY <1>3, BystanderStep

\* A worker claims only what nobody holds, and keeps to what it claimed.
LEMMA ProcessorExclusive ==
    ASSUME ExclusiveInv, TypeOK', ProcessorNext
    PROVE  LeaseIsHeld' /\ HandlersAreExclusive'
<1> USE DEF ExclusiveInv
<1>1. ASSUME NEW w \in Worker, proc[w].pc \in Claimed
      PROVE  /\ proc[w] \in Busy
             /\ Held(proc[w].exec, proc[w].lease)
             /\ \A v \in Worker \ {w} :
                   proc[v].pc \in Claimed => proc[v].exec # proc[w].exec
  BY <1>1, BusyType DEF HandlersAreExclusive, LeaseIsHeld, Claimed, Pc, TypeOK
<1>2. ASSUME NEW w \in Worker, proc[w] \in Busy, rows[proc[w].exec].status = "queued"
      PROVE  \A v \in Worker \ {w} :
                proc[v].pc \in Claimed => proc[v].exec # proc[w].exec
  BY <1>2 DEF LeaseIsHeld, Held, Terminal, TerminalStatus
\* A step that leaves w outside of its claim and the rows alone.
<1>3. ASSUME NEW w \in Worker, UNCHANGED rows, proc'[w].pc \notin Claimed,
             \A v \in Worker \ {w} : proc'[v] = proc[v]
      PROVE  LeaseIsHeld' /\ HandlersAreExclusive'
  BY <1>3 DEF LeaseIsHeld, HandlersAreExclusive, Held, Terminal
\* A step within the claim of w that leaves the rows alone.
<1>4. ASSUME NEW w \in Worker, UNCHANGED rows, proc[w].pc \in Claimed,
             proc'[w].exec = proc[w].exec, proc'[w].lease = proc[w].lease,
             \A v \in Worker \ {w} : proc'[v] = proc[v]
      PROVE  LeaseIsHeld' /\ HandlersAreExclusive'
  BY <1>1, <1>4, OwnerStep DEF Held, Terminal
<1>5. ASSUME NEW w \in Worker, NEW pc \in Pc, Goto(w, pc), proc[w] \in Busy
      PROVE  /\ \A v \in Worker \ {w} : proc'[v] = proc[v]
             /\ proc'[w].pc = pc
             /\ proc'[w].exec = proc[w].exec
             /\ proc'[w].lease = proc[w].lease
  BY <1>5 DEF Goto, TypeOK, ProcessorTypeOK, Busy
<1>6. ASSUME NEW w \in Worker, NEW retryable \in BOOLEAN, Catch(w, retryable),
             proc[w] \in Busy
      PROVE  /\ \A v \in Worker \ {w} : proc'[v] = proc[v]
             /\ proc'[w].pc \in {"cancel", "caught"}
             /\ proc'[w].exec = proc[w].exec
             /\ proc'[w].lease = proc[w].lease
  BY <1>6 DEF Catch, TypeOK, ProcessorTypeOK, Busy
<1>7. ASSUME NEW w \in Worker, Fetch(w) \/ SettleJob(w) \/ Crash(w)
      PROVE  LeaseIsHeld' /\ HandlersAreExclusive'
  <2>1. /\ \A v \in Worker \ {w} : proc'[v] = proc[v]
        /\ proc'[w].pc \in {"idle", "claim"}
        /\ UNCHANGED rows
    BY <1>7 DEF Fetch, Delivered, SettleJob, Crash, Idle, TypeOK, ProcessorTypeOK
  <2> QED BY <1>3, <2>1 DEF Claimed, Pc
<1>8. ASSUME NEW w \in Worker, Claim(w)
      PROVE  LeaseIsHeld' /\ HandlersAreExclusive'
  <2>1. proc[w] \in Busy /\ proc[w].exec \in Execution
    BY <1>8, BusyType, BusyFields DEF Claim, TypeOK
  <2>2. CASE UNCHANGED storeVars /\ Goto(w, "resolved")
    BY <1>3, <1>5, <2>1, <2>2 DEF Claimed, Pc, storeVars
  <2>3. CASE MarkRunning(proc[w].exec, proc[w].lease)
    <3>1. Write(w) /\ proc[w].pc = "claim"
      BY <1>8, <2>3 DEF Write, Claim
    <3>2. PICK pc \in {"cancel", "check"} : Goto(w, pc)
      BY <1>8, <2>3 DEF Claim, MarkRunning
    <3>3. Held(proc[w].exec, proc[w].lease)'
      BY <1>5, <2>1, <3>1, <3>2, WriteEffect DEF Held, Pc, TypeOK
    <3> QED BY <1>2, <1>5, <2>1, <3>1, <3>2, <3>3, WriteEffect, OwnerStep
            DEF Pc, TypeOK
  <2> QED BY <1>8, <2>2, <2>3 DEF Claim
<1>9. ASSUME NEW w \in Worker,
             \/ Check(w) \/ Recheck(w) \/ Caught(w)
             \/ HandlerReturns(w) \/ HandlerThrows(w)
      PROVE  LeaseIsHeld' /\ HandlersAreExclusive'
  <2>1. proc[w].pc \in Claimed /\ UNCHANGED rows
    BY <1>9 DEF Check, Recheck, Caught, HandlerReturns, HandlerThrows, Claimed, Pc
  <2>2. \/ \E pc \in Pc : Goto(w, pc)
        \/ \E retryable \in BOOLEAN : Catch(w, retryable)
    BY <1>9 DEF Check, Recheck, Caught, HandlerReturns, HandlerThrows, Pc
  <2> QED BY <1>1, <1>4, <1>5, <1>6, <2>1, <2>2
<1>10. ASSUME NEW w \in Worker, Report(w)
       PROVE  LeaseIsHeld' /\ HandlersAreExclusive'
  <2>1. proc[w].pc \in Claimed /\ proc[w] \in Busy
    BY <1>1, <1>10 DEF Report, Claimed, Pc
  <2>2. UNCHANGED rows
    BY <1>10, <2>1, BusyFields
       DEF Report, UpdateProgress, Commit, storeVars, TypeOK, StoreTypeOK
  <2>3. CASE Catch(w, TRUE)
    BY <1>4, <1>6, <2>1, <2>2, <2>3
  <2>4. CASE proc' = [proc EXCEPT ![w].reports = @ + 1]
    BY <1>4, <2>1, <2>2, <2>4 DEF TypeOK, ProcessorTypeOK, Busy
  <2> QED BY <1>10, <2>3, <2>4 DEF Report
<1>11. ASSUME NEW w \in Worker, Settle(w) \/ PutBack(w)
       PROVE  LeaseIsHeld' /\ HandlersAreExclusive'
  <2>1. proc[w].pc \in Claimed
    BY <1>11 DEF Settle, PutBack, Claimed, Pc
  <2>2. PICK pc \in {"resolved", "rejected"} : Goto(w, pc)
    BY <1>11 DEF Settle, PutBack
  <2>3. \A x \in Execution \ {proc[w].exec} : rows'[x] = rows[x]
    BY <1>1, <1>11, <2>1, WriteEffect DEF Settle, PutBack, storeVars, TypeOK
  <2> QED BY <1>1, <1>5, <2>1, <2>2, <2>3, OwnerStep DEF Claimed, Pc
<1>12. ASSUME NEW w \in Worker, Poll(w) \/ Shutdown(w)
       PROVE  LeaseIsHeld' /\ HandlersAreExclusive'
  <2>1. proc[w] \in Busy
    BY <1>12, BusyType DEF Poll, Shutdown, Monitored, TypeOK
  <2>2. /\ \A v \in Worker \ {w} : proc'[v] = proc[v]
        /\ proc'[w].pc = proc[w].pc
        /\ proc'[w].exec = proc[w].exec
        /\ proc'[w].lease = proc[w].lease
        /\ UNCHANGED rows
    BY <1>12, <2>1 DEF Poll, Shutdown, TypeOK, ProcessorTypeOK, Busy
  <2> QED BY <1>3, <1>4, <2>2
<1>13. ASSUME NEW w \in Worker, DatabaseFault(w)
       PROVE  LeaseIsHeld' /\ HandlersAreExclusive'
  <2>1. proc[w] \in Busy
    BY <1>13, BusyType DEF DatabaseFault, TypeOK
  <2>2. CASE UNCHANGED storeVars
    <3>1. CASE proc[w].pc \in {"recheck", "complete", "cancel_try"}
      <4>1. Catch(w, TRUE) /\ proc[w].pc \in Claimed
        BY <1>13, <3>1 DEF DatabaseFault, Claimed, Pc
      <4> QED BY <1>4, <1>6, <2>1, <2>2, <4>1 DEF storeVars
    <3>2. CASE proc[w].pc \notin {"recheck", "complete", "cancel_try"}
      <4>1. Goto(w, "rejected")
        BY <1>13, <3>2 DEF DatabaseFault
      <4> QED BY <1>3, <1>5, <2>1, <2>2, <4>1 DEF storeVars, Claimed, Pc
    <3> QED BY <3>1, <3>2
  <2>3. CASE Write(w)
    <3>1. \A v \in Worker \ {w} :
             proc[v].pc \in Claimed => proc[v].exec # proc[w].exec
      <4>1. CASE proc[w].pc = "claim"
        BY <1>2, <2>1, <2>3, <4>1, WriteEffect DEF TypeOK
      <4>2. CASE proc[w].pc # "claim"
        BY <1>1, <2>3, <4>2 DEF Write, Claimed, Pc
      <4> QED BY <4>1, <4>2
    <3>2. CASE proc[w].pc \in {"complete", "cancel_try"}
      <4>1. Catch(w, TRUE)
        BY <1>13, <3>2 DEF DatabaseFault
      <4>2. Held(proc[w].exec, proc[w].lease)'
        BY <1>6, <2>1, <2>3, <3>2, <4>1, WriteEffect DEF Held, Terminal, TypeOK
      <4> QED BY <1>6, <2>1, <2>3, <3>1, <4>1, <4>2, WriteEffect, OwnerStep DEF TypeOK
    <3>3. CASE proc[w].pc \notin {"complete", "cancel_try"}
      <4>1. Goto(w, "rejected")
        BY <1>13, <2>3, <3>3 DEF DatabaseFault, Write
      <4> QED BY <1>5, <2>1, <2>3, <3>1, <4>1, WriteEffect, OwnerStep
              DEF Claimed, Pc, TypeOK
    <3> QED BY <3>2, <3>3
  <2> QED BY <1>13, <2>2, <2>3 DEF DatabaseFault
<1>14. ASSUME NEW e \in Execution, Release(e)
       PROVE  LeaseIsHeld' /\ HandlersAreExclusive'
  BY <1>14 DEF Release, LeaseIsHeld, HandlersAreExclusive, Held, Terminal
<1> QED
  BY <1>7, <1>8, <1>9, <1>10, <1>11, <1>12, <1>13, <1>14 DEF ProcessorNext, Work

LEMMA ExclusiveStays == Spec => []ExclusiveInv
<1>1. Init => ExclusiveInv
  BY InitType DEF Init, ProcessorInit, Idle, ExclusiveInv, LeaseIsHeld,
                  HandlersAreExclusive, Claimed, Pc
<1>2. ExclusiveInv /\ [Next]_vars => ExclusiveInv'
  <2> SUFFICES ASSUME ExclusiveInv, [Next]_vars PROVE ExclusiveInv'
    OBVIOUS
  <2>1. TypeOK'
    BY RuntimeStep DEF ExclusiveInv
  <2>2. CASE UNCHANGED vars
    BY <2>1, <2>2 DEF vars, ExclusiveInv, LeaseIsHeld, HandlersAreExclusive,
                      Held, Terminal
  <2>3. CASE ServiceNext /\ UNCHANGED proc
    BY <2>1, <2>3, ServiceExclusive DEF ExclusiveInv
  <2>4. CASE ProcessorNext
    BY <2>1, <2>4, ProcessorExclusive DEF ExclusiveInv
  <2> QED BY <2>2, <2>3, <2>4 DEF Next
<1> QED BY <1>1, <1>2, PTL DEF Spec

\* No two handlers ever run for one execution, whatever is delivered twice.
THEOREM HandlersExclude == Spec => []HandlersAreExclusive
<1>1. ExclusiveInv => HandlersAreExclusive
  BY DEF ExclusiveInv
<1> QED BY <1>1, ExclusiveStays, PTL

\* A worker past its claim holds the execution until it settles it: no other
\* delivery, retry or cancellation takes it away from under the handler.
THEOREM OwnerHolds == Spec => []LeaseIsHeld
<1>1. ExclusiveInv => LeaseIsHeld
  BY DEF ExclusiveInv
<1> QED BY <1>1, ExclusiveStays, PTL
=============================================================================
