----------------------- MODULE ExecutionAnswers_proofs ------------------------
(***************************************************************************)
(* Creating an execution is idempotent, for any number of racing clients.  *)
(***************************************************************************)
EXTENDS ExecutionRuntime_proofs

\* No update moves an execution to another key, adds or removes one.
LEMMA UpdateKeepsKeys ==
    ASSUME StoreTypeOK, NEW f \in Execution, StoreUpdate(f), NEW e \in Execution
    PROVE  rows'[e].key = rows[e].key /\ (Exists(e)' <=> Exists(e))
<1> USE DEF StoreTypeOK, Commit
<1>1. CASE e # f
  BY <1>1 DEF StoreUpdate, MarkRunning, UpdateProgress, Finish, Retry,
              CancelRunning, Cancel, Exists
<1>2. CASE e = f
  <2>1. rows[e] \in Row
    OBVIOUS
  <2>2. ASSUME NEW lease \in Nat, MarkRunning(e, lease)
        PROVE  rows'[e].key = rows[e].key /\ Exists(e)' /\ Exists(e)
    BY <2>1, <2>2 DEF MarkRunning, Claimable, Exists, Row
  <2>3. ASSUME NEW lease \in Nat, UpdateProgress(e, lease)
        PROVE  rows'[e].key = rows[e].key /\ Exists(e)' /\ Exists(e)
    BY <2>1, <2>3 DEF UpdateProgress, HoldsLease, Exists
  <2>4. ASSUME NEW lease \in Nat, NEW status \in {"succeeded", "failed"},
               Finish(e, lease, status)
        PROVE  rows'[e].key = rows[e].key /\ Exists(e)' /\ Exists(e)
    BY <2>1, <2>4 DEF Finish, HoldsLease, Exists, Row
  <2>5. ASSUME NEW lease \in Nat, Retry(e, lease)
        PROVE  rows'[e].key = rows[e].key /\ Exists(e)' /\ Exists(e)
    BY <2>1, <2>5 DEF Retry, HoldsLease, Exists, Row
  <2>6. ASSUME NEW lease \in Nat, CancelRunning(e, lease)
        PROVE  rows'[e].key = rows[e].key /\ Exists(e)' /\ Exists(e)
    BY <2>1, <2>6 DEF CancelRunning, HoldsCancel, Exists, Row
  <2>7. ASSUME Cancel(e)
        PROVE  rows'[e].key = rows[e].key /\ Exists(e)' /\ Exists(e)
    BY <2>1, <2>7 DEF Cancel, Exists, Row
  <2> QED BY <1>2, <2>2, <2>3, <2>4, <2>5, <2>6, <2>7 DEF StoreUpdate
<1> QED BY <1>1, <1>2

\* The queue never forgets that a job was published.
LEMMA JobsStayPublished ==
    ASSUME TypeOK, ProcessorNext, NEW e \in Execution, job[e].state # "absent"
    PROVE  job'[e].state # "absent"
<1> USE DEF TypeOK, QueueTypeOK, Job
<1>1. ASSUME NEW w \in Worker, Fetch(w)
      PROVE  job'[e].state # "absent"
  BY <1>1 DEF Fetch, FetchJob, Fetchable
<1>2. ASSUME NEW w \in Worker, SettleJob(w)
      PROVE  job'[e].state # "absent"
  BY <1>2 DEF SettleJob, CompleteJob, FailJob
<1>3. ASSUME NEW f \in Execution, Release(f)
      PROVE  job'[e].state # "absent"
  BY <1>3 DEF Release, ReleaseJob
<1> QED
  BY <1>1, <1>2, <1>3
     DEF ProcessorNext, Work, Claim, Check, Recheck, Caught, HandlerReturns,
         HandlerThrows, Settle, PutBack, Report, Poll, Shutdown, DatabaseFault, Crash

\* What a create request does to the rows and jobs, if anything.
LEMMA CreateEffect ==
    ASSUME TypeOK, NEW c \in Client, req[c].pc = "insert", CreateAndEnqueue(c)
    PROVE  \E e \in Execution, k \in Key :
              /\ e = req[c].id /\ k = req[c].key
              /\ FindByKey(k) = {} /\ ~Exists(e)
              /\ \A x \in Execution \ {e} : rows'[x] = rows[x] /\ job'[x] = job[x]
              /\ rows'[e].key = k /\ Exists(e)' /\ job'[e].state = "ready"
<1>1. req[c].key \in Key /\ req[c].id \in Execution
  BY RequestFields DEF TypeOK, InFlight
<1>2. PICK e \in Execution, k \in Key : e = req[c].id /\ k = req[c].key
  BY <1>1
<1>3. Insert(e, k, req[c].kind) /\ AddJob(e)
  BY <1>2 DEF CreateAndEnqueue
<1>4. /\ FindByKey(k) = {} /\ ~Exists(e)
      /\ \A x \in Execution \ {e} : rows'[x] = rows[x] /\ job'[x] = job[x]
      /\ rows'[e].key = k /\ Exists(e)' /\ job'[e].state = "ready"
  BY <1>3 DEF Insert, Insertable, Exists, Commit, AddJob, TypeOK, StoreTypeOK,
              QueueTypeOK
<1> QED BY <1>2, <1>4

\* A step of the runtime creates one execution under a key that named none, or
\* keeps all keys, rows and jobs.
LEMMA TableStep ==
    ASSUME TypeOK, [Next]_vars
    PROVE  \/ \A e \in Execution :
                 /\ rows'[e].key = rows[e].key
                 /\ Exists(e)' <=> Exists(e)
                 /\ job[e].state # "absent" => job'[e].state # "absent"
           \/ \E e \in Execution, k \in Key :
                 /\ FindByKey(k) = {} /\ ~Exists(e)
                 /\ \A x \in Execution \ {e} : rows'[x] = rows[x] /\ job'[x] = job[x]
                 /\ rows'[e].key = k /\ Exists(e)' /\ job'[e].state = "ready"
<1>1. CASE UNCHANGED <<rows, job>>
  BY <1>1 DEF Exists
<1>2. ASSUME NEW c \in Client, req[c].pc = "insert", CreateAndEnqueue(c)
      PROVE  \E e \in Execution, k \in Key :
                 /\ FindByKey(k) = {} /\ ~Exists(e)
                 /\ \A x \in Execution \ {e} : rows'[x] = rows[x] /\ job'[x] = job[x]
                 /\ rows'[e].key = k /\ Exists(e)' /\ job'[e].state = "ready"
  BY <1>2, CreateEffect
<1>3. ASSUME NEW e \in Execution, RequestCancel(e)
      PROVE  \A x \in Execution : /\ rows'[x].key = rows[x].key
                                  /\ Exists(x)' <=> Exists(x)
                                  /\ job' = job
  BY <1>3, UpdateKeepsKeys DEF RequestCancel, StoreUpdate, TypeOK
<1>4. CASE ServiceNext
  BY <1>1, <1>2, <1>3, <1>4
     DEF ServiceNext, Ask, Serve, Find, TryInsert, Refind, RequestDatabaseFault,
         RequestLost, LostInsert
<1>5. CASE ProcessorNext
  <2>1. \/ UNCHANGED storeVars
        \/ \E f \in Execution : StoreUpdate(f)
    BY <1>5, ProcessorStep
  <2>2. \A e \in Execution : rows'[e].key = rows[e].key /\ (Exists(e)' <=> Exists(e))
    BY <2>1, UpdateKeepsKeys DEF storeVars, Exists, TypeOK
  <2> QED BY <1>5, <2>2, JobsStayPublished
<1> QED BY <1>1, <1>4, <1>5 DEF Next, vars

\* The index survives a step, and no answer changes.
LEMMA IndexStep ==
    ASSUME TypeOK, KeysAreIndexed, [Next]_vars
    PROVE  /\ KeysAreIndexed'
           /\ \A k \in Key, e \in Execution : Answer(k, e) => Answer(k, e)'
<1> USE DEF Answer, FindByKey
<1>1. CASE \A e \in Execution :
              /\ rows'[e].key = rows[e].key
              /\ Exists(e)' <=> Exists(e)
              /\ job[e].state # "absent" => job'[e].state # "absent"
  BY <1>1 DEF KeysAreIndexed
<1>2. ASSUME NEW e \in Execution, NEW k \in Key,
             FindByKey(k) = {}, ~Exists(e),
             \A x \in Execution \ {e} : rows'[x] = rows[x] /\ job'[x] = job[x],
             rows'[e].key = k, Exists(e)', job'[e].state = "ready"
      PROVE  /\ KeysAreIndexed'
             /\ \A l \in Key, x \in Execution : Answer(l, x) => Answer(l, x)'
  <2>1. rows[e].key \notin Key
    BY <1>2 DEF KeysAreIndexed
  <2>2. ASSUME NEW l \in Key, NEW x \in Execution, Answer(l, x)
        PROVE  Answer(l, x)'
    BY <1>2, <2>1, <2>2
  <2>3. Answer(k, e)'
    BY <1>2
  <2>4. ASSUME NEW x \in Execution
        PROVE  /\ Exists(x)' <=> rows'[x].key \in Key
               /\ Exists(x)' => Answer(rows[x].key, x)'
    <3>1. CASE x = e
      BY <1>2, <2>3, <3>1
    <3>2. CASE x # e
      <4>1. rows'[x] = rows[x] /\ (Exists(x)' <=> Exists(x))
        BY <1>2, <3>2 DEF Exists
      <4>2. Exists(x) => rows[x].key \in Key /\ Answer(rows[x].key, x)
        BY DEF KeysAreIndexed
      <4>3. Exists(x) => \E l \in Key : l = rows[x].key /\ Answer(l, x)'
        BY <2>2, <4>2
      <4>4. Exists(x)' <=> rows'[x].key \in Key
        BY <4>1 DEF KeysAreIndexed
      <4> QED BY <4>1, <4>3, <4>4
    <3> QED BY <3>1, <3>2
  <2> QED BY <2>2, <2>4 DEF KeysAreIndexed
<1> QED BY <1>1, <1>2, TableStep

\* The new record of a client that is answered, whatever it was before.
LEMMA ReplyEffect ==
    ASSUME TypeOK, NEW c \in Client, req[c].pc \in InFlight,
           NEW e \in Execution, NEW status \in {200, 202}, Reply(c, e, status)
    PROVE  /\ req'[c].key = req[c].key /\ req[c].key \in Key
           /\ req'[c].id = e /\ req'[c].status = status
           /\ \A d \in Client \ {c} : req'[d] = req[d]
<1>1. /\ req'[c] = [req[c] EXCEPT !.pc = "replied", !.id = e, !.status = status]
      /\ \A d \in Client \ {c} : req'[d] = req[d]
  BY DEF Reply, TypeOK, ServiceTypeOK
<1>2. req[c] \in [pc : InFlight, key : Key, kind : Kind,
                  id : Execution \cup {None}, status : {None}]
  BY RequestFields DEF TypeOK
<1> QED BY <1>1, <1>2

\* Of the clients only the one that is served can be answered by a step: with the
\* execution of its key, or with the one it creates under a key that named none.
LEMMA ReplyStep ==
    ASSUME TypeOK, KeysAreIndexed, ServiceNext
    PROVE  \/ \A c \in Client : req'[c] # req[c] => req'[c].pc # "replied"
           \/ \E c \in Client :
                /\ \A d \in Client \ {c} : req'[d] = req[d]
                /\ req'[c].key \in Key /\ req'[c].id \in Execution
                /\ \/ /\ Answer(req'[c].key, req'[c].id)
                      /\ UNCHANGED <<rows, job>>
                      /\ req'[c].status = 200
                   \/ /\ FindByKey(req'[c].key) = {}
                      /\ Answer(req[c].key, req[c].id)'
<1>1. ASSUME NEW c \in Client, NEW e \in FindByKey(req[c].key),
             req[c].pc \in InFlight, Reply(c, e, 200), UNCHANGED <<rows, job>>
      PROVE  /\ \A d \in Client \ {c} : req'[d] = req[d]
             /\ req'[c].key \in Key /\ req'[c].id \in Execution
             /\ Answer(req'[c].key, req'[c].id)
             /\ req'[c].status = 200
  BY <1>1, ReplyEffect DEF FindByKey, KeysAreIndexed
<1>2. ASSUME NEW c \in Client, req[c].pc = "insert", CreateAndEnqueue(c),
             Reply(c, req[c].id, 202)
      PROVE  /\ \A d \in Client \ {c} : req'[d] = req[d]
             /\ req'[c].key \in Key /\ req'[c].id \in Execution
             /\ FindByKey(req'[c].key) = {}
             /\ Answer(req[c].key, req[c].id)'
  <2>1. req[c].id \in Execution /\ req[c].pc \in InFlight
    BY <1>2, RequestFields DEF TypeOK, InFlight
  <2>2. /\ \A d \in Client \ {c} : req'[d] = req[d]
        /\ req'[c].key = req[c].key /\ req[c].key \in Key
        /\ req'[c].id = req[c].id
    BY <1>2, <2>1, ReplyEffect
  <2>3. PICK e \in Execution, k \in Key :
              /\ e = req[c].id /\ k = req[c].key
              /\ FindByKey(k) = {} /\ ~Exists(e)
              /\ \A x \in Execution \ {e} : rows'[x] = rows[x] /\ job'[x] = job[x]
              /\ rows'[e].key = k /\ Exists(e)' /\ job'[e].state = "ready"
    BY <1>2, CreateEffect
  <2>4. Answer(k, e)'
    BY <2>3 DEF Answer, FindByKey
  <2>5. req'[c].key = k /\ req'[c].id = e
    BY <2>2, <2>3
  <2> QED BY <2>2, <2>3, <2>4, <2>5
<1>3. ASSUME NEW c \in Client,
             \/ \E pc \in {"find", "insert", "refind", "error"} :
                   req'[c].pc = pc /\ \A d \in Client \ {c} : req'[d] = req[d]
             \/ UNCHANGED req
      PROVE  \A d \in Client : req'[d] # req[d] => req'[d].pc # "replied"
  BY <1>3
<1>4. ASSUME NEW c \in Client, NEW k \in Key, NEW kind \in Kind, Ask(c, k, kind)
      PROVE  \A d \in Client : req'[d] # req[d] => req'[d].pc # "replied"
  BY <1>4 DEF Ask, NoRequest, TypeOK, ServiceTypeOK
<1>5. ASSUME NEW c \in Client, Refuse(c)
      PROVE  \A d \in Client : req'[d] # req[d] => req'[d].pc # "replied"
  <2>1. /\ req'[c] = [req[c] EXCEPT !.pc = "error", !.id = None]
        /\ \A d \in Client \ {c} : req'[d] = req[d]
    BY <1>5 DEF Refuse, TypeOK, ServiceTypeOK
  <2>2. req[c] \in Request
    BY DEF TypeOK, ServiceTypeOK
  <2>3. req'[c].pc = "error"
    BY <2>1, <2>2 DEF Request, NoRequest
  <2> QED BY <2>1, <2>3
<1>6. ASSUME NEW c \in Client, NEW e \in Execution, req[c].pc \in InFlight,
             req' = [req EXCEPT ![c] = [@ EXCEPT !.pc = "insert", !.id = e]]
      PROVE  \A d \in Client : req'[d] # req[d] => req'[d].pc # "replied"
  <2>1. /\ req'[c] = [req[c] EXCEPT !.pc = "insert", !.id = e]
        /\ \A d \in Client \ {c} : req'[d] = req[d]
    BY <1>6 DEF TypeOK, ServiceTypeOK
  <2>2. req[c] \in [pc : InFlight, key : Key, kind : Kind,
                    id : Execution \cup {None}, status : {None}]
    BY <1>6, RequestFields DEF TypeOK
  <2>3. req'[c].pc = "insert"
    BY <2>1, <2>2
  <2> QED BY <2>1, <2>3
<1>7. ASSUME NEW c \in Client, req' = [req EXCEPT ![c].pc = "refind"],
             req[c].pc \in InFlight
      PROVE  \A d \in Client : req'[d] # req[d] => req'[d].pc # "replied"
  <2>1. /\ req'[c] = [req[c] EXCEPT !.pc = "refind"]
        /\ \A d \in Client \ {c} : req'[d] = req[d]
    BY <1>7 DEF TypeOK, ServiceTypeOK
  <2>2. req[c] \in [pc : InFlight, key : Key, kind : Kind,
                    id : Execution \cup {None}, status : {None}]
    BY <1>7, RequestFields DEF TypeOK
  <2>3. req'[c].pc = "refind"
    BY <2>1, <2>2
  <2> QED BY <2>1, <2>3
<1>8. ASSUME NEW c \in Client, Find(c)
      PROVE  \/ \A d \in Client : req'[d] # req[d] => req'[d].pc # "replied"
             \/ \E e \in FindByKey(req[c].key) :
                   Reply(c, e, 200) /\ req[c].pc \in InFlight /\ UNCHANGED <<rows, job>>
  BY <1>6, <1>8 DEF Find, InFlight
<1>9. ASSUME NEW c \in Client, TryInsert(c)
      PROVE  \/ \A d \in Client : req'[d] # req[d] => req'[d].pc # "replied"
             \/ /\ req[c].pc = "insert" /\ CreateAndEnqueue(c)
                /\ Reply(c, req[c].id, 202)
  BY <1>7, <1>9 DEF TryInsert, InFlight
<1>10. ASSUME NEW c \in Client, Refind(c)
       PROVE  \/ \A d \in Client : req'[d] # req[d] => req'[d].pc # "replied"
              \/ \E e \in FindByKey(req[c].key) :
                   Reply(c, e, 200) /\ req[c].pc \in InFlight /\ UNCHANGED <<rows, job>>
  BY <1>5, <1>10 DEF Refind, InFlight
<1>11. ASSUME NEW c \in Client, RequestDatabaseFault(c) \/ RequestLost(c)
       PROVE  \A d \in Client : req'[d] # req[d] => req'[d].pc # "replied"
  BY <1>5, <1>7, <1>11 DEF RequestDatabaseFault, RequestLost
<1>12. ASSUME NEW e \in Execution, RequestCancel(e)
       PROVE  UNCHANGED req
  BY <1>12 DEF RequestCancel
<1> QED
  BY <1>1, <1>2, <1>4, <1>8, <1>9, <1>10, <1>11, <1>12 DEF ServiceNext, Serve

\* Idempotency, as an invariant of its own: the index, and that the answers given
\* are answers still.
KeysInv == TypeOK /\ KeysAreIndexed /\ AnswersAgree /\ OneAcceptance

LEMMA KeysStep ==
    ASSUME KeysInv, [Next]_vars
    PROVE  KeysInv'
<1> USE DEF KeysInv
<1>1. TypeOK'
  BY RuntimeStep
<1>2. /\ KeysAreIndexed'
      /\ \A k \in Key, e \in Execution : Answer(k, e) => Answer(k, e)'
  BY IndexStep
<1>3. ASSUME NEW c \in Client, req[c].pc = "replied"
      PROVE  req[c].key \in Key /\ req[c].id \in Execution
  BY <1>3 DEF TypeOK, ServiceTypeOK, Request, NoRequest
<1>4. \/ \A c \in Client : req'[c] # req[c] => req'[c].pc # "replied"
      \/ \E c \in Client :
                /\ \A d \in Client \ {c} : req'[d] = req[d]
                /\ req'[c].key \in Key /\ req'[c].id \in Execution
                /\ \/ /\ Answer(req'[c].key, req'[c].id)
                      /\ UNCHANGED <<rows, job>>
                      /\ req'[c].status = 200
                   \/ /\ FindByKey(req'[c].key) = {}
                      /\ Answer(req[c].key, req[c].id)'
  BY ReplyStep DEF Next, vars
<1>5. CASE \A c \in Client : req'[c] # req[c] => req'[c].pc # "replied"
  <2>1. AnswersAgree'
    <3> SUFFICES ASSUME NEW c \in Client, req'[c].pc = "replied"
                 PROVE  Answer(req[c].key, req[c].id)'
      BY DEF AnswersAgree
    <3>1. req'[c] = req[c]
      BY <1>5
    <3>2. \E k \in Key, e \in Execution : 
            k = req'[c].key /\ e = req'[c].id /\ Answer(k, e)
      BY <1>3, <3>1 DEF AnswersAgree
    <3> QED BY <1>2, <3>2
  <2>2. OneAcceptance'
    BY <1>5 DEF OneAcceptance
  <2> QED BY <1>1, <1>2, <2>1, <2>2
<1>6. ASSUME NEW c \in Client,
             \A d \in Client \ {c} : req'[d] = req[d],
             req'[c].key \in Key, req'[c].id \in Execution,
             \/ /\ Answer(req'[c].key, req'[c].id)
                /\ req'[c].status = 200
             \/ /\ FindByKey(req'[c].key) = {}
                /\ Answer(req[c].key, req[c].id)'
      PROVE  AnswersAgree' /\ OneAcceptance'
  <2>1. \E k \in Key, e \in Execution :
           k = req'[c].key /\ e = req'[c].id /\ Answer(k, e)'
    BY <1>2, <1>6
  <2>2. ASSUME NEW d \in Client \ {c}, req'[d].pc = "replied"
        PROVE  \E k \in Key, e \in Execution :
                 k = req'[d].key /\ e = req'[d].id /\ Answer(k, e) /\ Answer(k, e)'
    BY <1>2, <1>3, <1>6, <2>2 DEF AnswersAgree
  <2>3. AnswersAgree'
    BY <2>1, <2>2 DEF AnswersAgree
  <2>4. ASSUME req'[c].status = 202,
               NEW d \in Client \ {c}, req'[d].pc = "replied"
        PROVE  req'[d].key # req'[c].key
    BY <1>6, <2>2, <2>4 DEF Answer
  <2>5. OneAcceptance'
    BY <1>6, <2>4 DEF OneAcceptance
  <2> QED BY <2>3, <2>5
<1> QED BY <1>1, <1>2, <1>4, <1>5, <1>6

LEMMA KeysStay == Spec => []KeysInv
<1>1. Init => KeysInv
  <2> SUFFICES ASSUME Init PROVE KeysInv
    OBVIOUS
  <2>1. TypeOK
    BY InitType
  <2>2. KeysAreIndexed
    BY NoneAssumption DEF Init, StoreInit, AbsentRow, KeysAreIndexed, Exists
  <2>3. AnswersAgree /\ OneAcceptance
    BY DEF Init, ServiceInit, NoRequest, AnswersAgree, OneAcceptance
  <2> QED BY <2>1, <2>2, <2>3 DEF KeysInv
<1>2. KeysInv /\ [Next]_vars => KeysInv'
  BY KeysStep
<1> QED BY <1>1, <1>2, PTL DEF Spec

\* Whatever is raced, lost or asked again, every answer for a key names the one
\* execution of that key.
THEOREM Idempotent == Spec => []AnswersAgree
<1>1. KeysInv => AnswersAgree
  BY DEF KeysInv
<1> QED BY <1>1, KeysStay, PTL

\* A key names one execution, and an execution that has a row has had its job.
THEOREM OneExecutionPerKey == Spec => []KeysAreIndexed
<1>1. KeysInv => KeysAreIndexed
  BY DEF KeysInv
<1> QED BY <1>1, KeysStay, PTL

\* Of all the clients that use a key one at most is told that it created the execution.
THEOREM OneCreation == Spec => []OneAcceptance
<1>1. KeysInv => OneAcceptance
  BY DEF KeysInv
<1> QED BY <1>1, KeysStay, PTL
=============================================================================
