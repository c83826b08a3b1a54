--------------------------- MODULE ExecutionService --------------------------
(***************************************************************************)
(* The API's side: POST /v1/executions through ExecutionService.create,    *)
(* a step for each database call it awaits, and DELETE /v1/executions/:id  *)
(* through cancel.  A Client is one connection at a time: it may ask again *)
(* with any key, the key of a lost request included.                       *)
(***************************************************************************)
EXTENDS ExecutionStore, GraphileQueue, Environment

CONSTANTS Client,
          Cancellable  \* the executions that some client may cancel

ASSUME CancellableAssumption == Cancellable \subseteq Execution

VARIABLE req  \* the create request of each client

InFlight == {"find", "insert", "refind"}

NoRequest == [pc |-> "idle", key |-> None, kind |-> None, id |-> None, status |-> None]

\* id is that of the new record, then of the record in the reply; status is the
\* reply's HTTP status.
Request ==
    {NoRequest}
    \cup [pc : {"find", "error"}, key : Key, kind : Kind, id : {None}, status : {None}]
    \cup [pc : {"insert", "refind"}, key : Key, kind : Kind, id : Execution, status : {None}]
    \cup [pc : {"replied"}, key : Key, kind : Kind, id : Execution, status : {200, 202}]

ServiceTypeOK == req \in [Client -> Request]

ServiceInit == req = [c \in Client |-> NoRequest]

\* Replayed records answer 200, the one this request created 202.
Reply(c, e, status) ==
    req' = [req EXCEPT ![c] =
               [@ EXCEPT !.pc = "replied", !.id = e, !.status = status]]

Refuse(c) == req' = [req EXCEPT ![c] = [@ EXCEPT !.pc = "error", !.id = None]]

\* ids.next() is a random UUID: nobody has it yet.
FreshId(e) == /\ ~Exists(e)
              /\ \A c \in Client : req[c].id # e

Ask(c, k, kind) ==
    /\ req[c].pc \notin InFlight
    /\ req' = [req EXCEPT ![c] = [NoRequest EXCEPT !.pc = "find", !.key = k,
                                                   !.kind = kind]]
    /\ UNCHANGED <<rows, log, job, faults>>

\* The first findByIdempotencyKey.
Find(c) ==
    /\ req[c].pc = "find"
    /\ \/ \E e \in FindByKey(req[c].key) : Reply(c, e, 200)
       \/ /\ FindByKey(req[c].key) = {}
          /\ \E e \in Execution :
                /\ FreshId(e)
                /\ req' = [req EXCEPT ![c] = [@ EXCEPT !.pc = "insert", !.id = e]]
    /\ UNCHANGED <<rows, log, job, faults>>

\* Regression: the job is not published with the row.
InsertOnly(c) == /\ Insert(req[c].id, req[c].key, req[c].kind)
                 /\ UNCHANGED job

\* createAndEnqueue: the row, its first event and its job in one transaction.
CreateAndEnqueue(c) == /\ Insert(req[c].id, req[c].key, req[c].kind)
                       /\ AddJob(req[c].id)

\* The insert commits, or the unique index refuses it.
TryInsert(c) ==
    /\ req[c].pc = "insert"
    /\ \/ CreateAndEnqueue(c) /\ Reply(c, req[c].id, 202)
       \/ /\ ~Insertable(req[c].id, req[c].key)
          /\ req' = [req EXCEPT ![c].pc = "refind"]
          /\ UNCHANGED <<rows, log, job>>
    /\ UNCHANGED faults

\* Regression: the answer after a lost race is the record that was not inserted.
RefindOwn(c) ==
    /\ req[c].pc = "refind"
    /\ IF FindByKey(req[c].key) # {} THEN Reply(c, req[c].id, 200) ELSE Refuse(c)
    /\ UNCHANGED <<rows, log, job, faults>>

\* The second findByIdempotencyKey, in the catch.
Refind(c) ==
    /\ req[c].pc = "refind"
    /\ \/ \E e \in FindByKey(req[c].key) : Reply(c, e, 200)
       \/ FindByKey(req[c].key) = {} /\ Refuse(c)
    /\ UNCHANGED <<rows, log, job, faults>>

\* The transaction of a call that fails was rolled back, or committed unseen.
LostInsert(c) == \/ UNCHANGED <<rows, log, job>>
                 \/ req[c].pc = "insert" /\ CreateAndEnqueue(c)

\* A database call throws: the catch around createAndEnqueue looks the key up.
RequestDatabaseFault(c) ==
    /\ req[c].pc \in InFlight
    /\ Fault("database")
    /\ LostInsert(c)
    /\ IF req[c].pc = "insert" THEN req' = [req EXCEPT ![c].pc = "refind"]
                               ELSE Refuse(c)

\* The API process dies, and the connection with it.
RequestLost(c) == /\ req[c].pc \in InFlight
                  /\ Fault("api")
                  /\ LostInsert(c)
                  /\ Refuse(c)

RequestCancel(e) == /\ e \in Cancellable
                    /\ Cancel(e)
                    /\ UNCHANGED <<job, faults, req>>

\* What the API does of itself once asked.
Serve(c) == Find(c) \/ TryInsert(c) \/ Refind(c)

ServiceNext == \/ \E c \in Client :
                    \/ \E k \in Key, kind \in Kind : Ask(c, k, kind)
                    \/ Serve(c)
                    \/ RequestDatabaseFault(c)
                    \/ RequestLost(c)
               \/ \E e \in Execution : RequestCancel(e)
=============================================================================
