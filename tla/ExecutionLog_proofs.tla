-------------------------- MODULE ExecutionLog_proofs --------------------------
(***************************************************************************)
(* What the log of an execution tells: its status, a legal history, its    *)
(* claims; and that what is queued has a delivery to come.  For every      *)
(* number of clients, executions, workers, deliveries and faults.          *)
(***************************************************************************)
EXTENDS ExecutionRuntime_proofs, FiniteSetTheorems, SequenceTheorems

-----------------------------------------------------------------------------
\* The log as a history: it follows from the contract alone.

LegalLog(s) == \A i \in 1 .. Len(s) - 1 : <<s[i], s[i + 1]>> \in Follows

\* An event that may follow the last one keeps a log legal, and is its last.
LEMMA Appended ==
    ASSUME NEW s \in Seq(Event), NEW x \in Event, LegalLog(s),
           s # <<>> => <<s[Len(s)], x>> \in Follows
    PROVE  /\ Append(s, x) \in Seq(Event) /\ Append(s, x) # <<>>
           /\ Append(s, x)[Len(Append(s, x))] = x
           /\ LegalLog(Append(s, x))
<1> DEFINE t == Append(s, x)
<1>1. /\ t \in Seq(Event) /\ t # <<>> /\ Len(t) = Len(s) + 1 /\ Len(s) \in Nat
      /\ \A i \in 1 .. Len(s) : t[i] = s[i]
      /\ t[Len(s) + 1] = x
  BY AppendProperties
<1> HIDE DEF t
<1>2. ASSUME NEW i \in 1 .. Len(t) - 1
      PROVE  <<t[i], t[i + 1]>> \in Follows
  <2>1. CASE i = Len(s)
    <3>1. s # <<>>
      BY <2>1
    <3> QED
      BY <1>1, <2>1, <3>1
  <2>2. CASE i # Len(s)
    <3>1. i \in 1 .. Len(s) - 1
      BY <1>1, <2>2
    <3> QED
      BY <1>1, <3>1 DEF LegalLog
  <2> QED
    BY <2>1, <2>2
<1> QED
  BY <1>1, <1>2 DEF t, LegalLog

\* One execution's log tells its status and is legal.
Told(status, events) ==
    /\ IF status = "absent" THEN events = <<>>
       ELSE events # <<>> /\ events[Len(events)] \in LastEvent(status)
    /\ LegalLog(events)

\* A move that appends an event that may follow the last, and tells the new status.
LEMMA Tells ==
    ASSUME NEW s \in Seq(Event), NEW from, Told(from, s),
           NEW x \in Event, NEW to, to # "absent", x \in LastEvent(to),
           from # "absent" => \A y \in LastEvent(from) : <<y, x>> \in Follows
    PROVE  Told(to, Append(s, x))
BY Appended DEF Told

LEMMA ContractTells ==
    ASSUME StoreTypeOK, Contract!Next,
           \A e \in Execution : Told(rows[e].status, log[e])
    PROVE  \A e \in Execution : Told(rows'[e].status, log'[e])
<1> DEFINE status == [e \in Execution |-> rows[e].status]
<1>1. PICK e \in Execution :
         \/ Contract!Accept(e)  \/ Contract!Start(e)   \/ Contract!Progress(e)
         \/ Contract!Requeue(e) \/ Contract!Succeed(e) \/ Contract!Fail(e)
         \/ Contract!AskToCancel(e) \/ Contract!CancelNow(e)
  BY DEF Contract!Next
<1>2. /\ Told(rows[e].status, log[e]) /\ log[e] \in Seq(Event)
      /\ log \in [Execution -> Seq(Event)]
      /\ rows[e].status = status[e]
  BY DEF StoreTypeOK
\* A move of e to a status that its new log tells.
<1>3. ASSUME NEW to, status' = [status EXCEPT ![e] = to], Told(to, log'[e]),
             \A x \in Execution \ {e} : log'[x] = log[x]
      PROVE  \A x \in Execution : Told(rows'[x].status, log'[x])
  <2>1. \A x \in Execution : status[x] = rows[x].status /\ status'[x] = rows'[x].status
    OBVIOUS
  <2>2. \A x \in Execution : status'[x] = IF x = e THEN to ELSE status[x]
    BY <1>3
  <2> HIDE DEF status
  <2>3. ASSUME NEW x \in Execution PROVE Told(rows'[x].status, log'[x])
    <3>1. CASE x = e
      BY <1>3, <2>1, <2>2, <3>1
    <3>2. CASE x # e
      BY <1>3, <2>1, <2>2, <3>2
    <3> QED
      BY <3>1, <3>2
  <2> QED
    BY <2>3
\* The moves that append one event.
<1>12. ASSUME NEW x \in Event, NEW to, to # "absent", x \in LastEvent(to),
              status' = [status EXCEPT ![e] = to],
              log' = [log EXCEPT ![e] = Append(log[e], x)],
              status[e] # "absent" => \A y \in LastEvent(status[e]) : <<y, x>> \in Follows
       PROVE  \A z \in Execution : Told(rows'[z].status, log'[z])
  <2>1. Told(to, Append(log[e], x))
    BY <1>2, <1>12, Tells
  <2>2. log'[e] = Append(log[e], x) /\ \A z \in Execution \ {e} : log'[z] = log[z]
    BY <1>2, <1>12
  <2> HIDE DEF status
  <2> QED
    BY <1>3, <1>12, <2>1, <2>2
<1>4. CASE Contract!Accept(e)
  <2>1. /\ status[e] \in {"absent"} /\ status' = [status EXCEPT ![e] = "queued"]
        /\ log' = [log EXCEPT ![e] = Append(log[e], "queued")]
    BY <1>4 DEF Contract!Accept, Contract!Move, Contract!Tell
  <2>2. /\ "queued" \in Event /\ "queued" \in LastEvent("queued")
        /\ status[e] # "absent" =>
              \A y \in LastEvent(status[e]) : <<y, "queued">> \in Follows
    BY <2>1 DEF Event, LastEvent, Follows
  <2> HIDE DEF status
  <2> QED
    BY <1>12, <2>1, <2>2
<1>5. CASE Contract!Start(e)
  <2>1. /\ status[e] \in {"queued"} /\ status' = [status EXCEPT ![e] = "running"]
        /\ log' = [log EXCEPT ![e] = Append(log[e], "running")]
    BY <1>5 DEF Contract!Start, Contract!Move, Contract!Tell
  <2>2. /\ "running" \in Event /\ "running" \in LastEvent("running")
        /\ status[e] # "absent" =>
              \A y \in LastEvent(status[e]) : <<y, "running">> \in Follows
    BY <2>1 DEF Event, LastEvent, Follows
  <2> HIDE DEF status
  <2> QED
    BY <1>12, <2>1, <2>2
<1>6. CASE Contract!Progress(e)
  <2>1. /\ status[e] \in {"running"} /\ status' = [status EXCEPT ![e] = "running"]
        /\ log' = [log EXCEPT ![e] = Append(log[e], "progress")]
    BY <1>6 DEF Contract!Progress, Contract!Move, Contract!Tell
  <2>2. /\ "progress" \in Event /\ "progress" \in LastEvent("running")
        /\ status[e] # "absent" =>
              \A y \in LastEvent(status[e]) : <<y, "progress">> \in Follows
    BY <2>1 DEF Event, LastEvent, Follows
  <2> HIDE DEF status
  <2> QED
    BY <1>12, <2>1, <2>2
<1>7. CASE Contract!Requeue(e)
  <2>1. /\ status[e] = "running" /\ status' = [status EXCEPT ![e] = "queued"]
        /\ log' = [log EXCEPT ![e] = Append(Append(log[e], "error"), "queued")]
    BY <1>7 DEF Contract!Requeue, Contract!Move, Contract!Tell
  <2>2. /\ "error" \in Event /\ "error" \in LastEvent("failed")
        /\ "queued" \in Event /\ "queued" \in LastEvent("queued")
        /\ \A y \in LastEvent("running") : <<y, "error">> \in Follows
        /\ \A y \in LastEvent("failed") : <<y, "queued">> \in Follows
    BY DEF Event, LastEvent, Follows
  <2> HIDE DEF status
  <2>3. Told("running", log[e])
    BY <1>2, <2>1
  <2>4. Told("failed", Append(log[e], "error")) /\ Append(log[e], "error") \in Seq(Event)
    BY <1>2, <2>2, <2>3, Tells
  <2>5. Told("queued", Append(Append(log[e], "error"), "queued"))
    BY <2>2, <2>4, Tells
  <2>6. /\ log'[e] = Append(Append(log[e], "error"), "queued")
        /\ \A x \in Execution \ {e} : log'[x] = log[x]
    BY <1>2, <2>1
  <2> QED
    BY <1>3, <2>1, <2>5, <2>6
<1>8. CASE Contract!Succeed(e)
  <2>1. /\ status[e] \in {"running"} /\ status' = [status EXCEPT ![e] = "succeeded"]
        /\ log' = [log EXCEPT ![e] = Append(log[e], "complete")]
    BY <1>8 DEF Contract!Succeed, Contract!Move, Contract!Tell
  <2>2. /\ "complete" \in Event /\ "complete" \in LastEvent("succeeded")
        /\ status[e] # "absent" =>
              \A y \in LastEvent(status[e]) : <<y, "complete">> \in Follows
    BY <2>1 DEF Event, LastEvent, Follows
  <2> HIDE DEF status
  <2> QED
    BY <1>12, <2>1, <2>2
<1>9. CASE Contract!Fail(e)
  <2>1. /\ status[e] \in {"running"} /\ status' = [status EXCEPT ![e] = "failed"]
        /\ log' = [log EXCEPT ![e] = Append(log[e], "error")]
    BY <1>9 DEF Contract!Fail, Contract!Move, Contract!Tell
  <2>2. /\ "error" \in Event /\ "error" \in LastEvent("failed")
        /\ status[e] # "absent" =>
              \A y \in LastEvent(status[e]) : <<y, "error">> \in Follows
    BY <2>1 DEF Event, LastEvent, Follows
  <2> HIDE DEF status
  <2> QED
    BY <1>12, <2>1, <2>2
<1>10. CASE Contract!AskToCancel(e)
  <2>1. /\ status[e] \in {"running"} /\ status' = [status EXCEPT ![e] = "cancelling"]
        /\ log' = [log EXCEPT ![e] = Append(log[e], "cancelling")]
    BY <1>10 DEF Contract!AskToCancel, Contract!Move, Contract!Tell
  <2>2. /\ "cancelling" \in Event /\ "cancelling" \in LastEvent("cancelling")
        /\ status[e] # "absent" =>
              \A y \in LastEvent(status[e]) : <<y, "cancelling">> \in Follows
    BY <2>1 DEF Event, LastEvent, Follows
  <2> HIDE DEF status
  <2> QED
    BY <1>12, <2>1, <2>2
<1>11. CASE Contract!CancelNow(e)
  <2>1. /\ status[e] \in {"queued", "running", "cancelling"} /\ status' = [status EXCEPT ![e] = "cancelled"]
        /\ log' = [log EXCEPT ![e] = Append(log[e], "cancelled")]
    BY <1>11 DEF Contract!CancelNow, Contract!Move, Contract!Tell
  <2>2. /\ "cancelled" \in Event /\ "cancelled" \in LastEvent("cancelled")
        /\ status[e] # "absent" =>
              \A y \in LastEvent(status[e]) : <<y, "cancelled">> \in Follows
    BY <2>1 DEF Event, LastEvent, Follows
  <2> HIDE DEF status
  <2> QED
    BY <1>12, <2>1, <2>2
<1> QED
  BY <1>1, <1>4, <1>5, <1>6, <1>7, <1>8, <1>9, <1>10, <1>11

LogInv == \A e \in Execution : Told(rows[e].status, log[e])

LEMMA LogsTold == Spec => []LogInv
<1>1. Init => LogInv
  BY DEF Init, StoreInit, AbsentRow, LogInv, Told, LegalLog
<1>2. TypeOK /\ LogInv /\ [Next]_vars => LogInv'
  <2> SUFFICES ASSUME TypeOK, LogInv, [Next]_vars PROVE LogInv'
    OBVIOUS
  <2>1. CASE StoreNext
    BY <2>1, StoreImplements, ContractTells DEF TypeOK, LogInv
  <2>2. CASE UNCHANGED storeVars
    BY <2>2 DEF storeVars, LogInv
  <2> QED
    BY <2>1, <2>2, RuntimeStep
<1> QED
  BY <1>1, <1>2, TypeCorrect, PTL DEF Spec

\* Replaying the log and reading the row tell the same status, after every
\* transaction of every process.
THEOREM LogTells == Spec => []LogTellsStatus
<1>1. LogInv => LogTellsStatus
  BY DEF LogInv, Told, LogTellsStatus, Exists
<1> QED
  BY <1>1, LogsTold, PTL

\* The log of an execution reads as attempts one after the other, each opened by a
\* claim, and nothing follows its end.
THEOREM HistoryStaysLegal == Spec => []HistoryIsLegal
<1>1. LogInv => HistoryIsLegal
  BY DEF LogInv, Told, LegalLog, HistoryIsLegal
<1> QED
  BY <1>1, LogsTold, PTL

-----------------------------------------------------------------------------
\* The attempts of a row are the claims of its log.

\* The claims of a log are finitely many, and an event adds one if it is a claim.
LEMMA ClaimsAppended ==
    ASSUME NEW s \in Seq(Event), NEW x \in Event
    PROVE  /\ Claims(s) \in Nat
           /\ Claims(Append(s, x)) = IF x = "running" THEN Claims(s) + 1 ELSE Claims(s)
<1> DEFINE t == Append(s, x)
           S == {i \in DOMAIN s : s[i] = "running"}
           T == {i \in DOMAIN t : t[i] = "running"}
<1>1. /\ DOMAIN t = 1 .. Len(s) + 1 /\ DOMAIN s = 1 .. Len(s) /\ Len(s) \in Nat
      /\ \A i \in 1 .. Len(s) : t[i] = s[i]
      /\ t[Len(s) + 1] = x
  BY AppendProperties, LenProperties
<1>2. IsFiniteSet(S) /\ Cardinality(S) \in Nat
  <2>1. IsFiniteSet(1 .. Len(s)) /\ S \subseteq 1 .. Len(s)
    BY <1>1, FS_Interval
  <2> HIDE DEF S
  <2> QED
    BY <2>1, FS_Subset, FS_CardinalityType
<1>3. Len(s) + 1 \notin S
  BY <1>1
<1> HIDE DEF t
<1>4. T = IF x = "running" THEN S \cup {Len(s) + 1} ELSE S
  BY <1>1
<1> HIDE DEF S, T
<1>5. Cardinality(T) = IF x = "running" THEN Cardinality(S) + 1 ELSE Cardinality(S)
  BY <1>2, <1>3, <1>4, FS_AddElement
<1> QED
  BY <1>2, <1>5 DEF Claims, S, T, t

\* No claim in an empty log.
LEMMA NoClaims == Claims(<<>>) = 0
<1>1. {i \in DOMAIN <<>> : <<>>[i] = "running"} = {}
  OBVIOUS
<1> QED
  BY <1>1, FS_EmptySet DEF Claims

\* An update of the store counts an attempt when it writes a claim, and only then.
LEMMA AttemptEffect ==
    ASSUME StoreTypeOK, NEW e \in Execution, StoreUpdate(e)
    PROVE  /\ \A x \in Execution \ {e} : rows'[x] = rows[x] /\ log'[x] = log[x]
           /\ \/ /\ rows'[e].attempt = rows[e].attempt
                 /\ Claims(log'[e]) = Claims(log[e])
              \/ /\ rows[e].status = "queued"
                 /\ rows'[e].attempt = rows[e].attempt + 1
                 /\ Claims(log'[e]) = Claims(log[e]) + 1
<1>1. /\ rows[e] \in Row /\ rows \in [Execution -> Row]
      /\ log[e] \in Seq(Event) /\ log \in [Execution -> Seq(Event)]
  BY DEF StoreTypeOK
<1>2. ASSUME NEW x \in Event \ {"running"}
      PROVE  Claims(Append(log[e], x)) = Claims(log[e]) /\ Append(log[e], x) \in Seq(Event)
  BY <1>1, <1>2, ClaimsAppended
<1> DEFINE Kept == /\ rows'[e].attempt = rows[e].attempt
                   /\ Claims(log'[e]) = Claims(log[e])
           Raised == /\ rows[e].status = "queued"
                     /\ rows'[e].attempt = rows[e].attempt + 1
                     /\ Claims(log'[e]) = Claims(log[e]) + 1
           Others == \A x \in Execution \ {e} : rows'[x] = rows[x] /\ log'[x] = log[x]
<1>3. ASSUME NEW lease \in Nat, MarkRunning(e, lease)
      PROVE  Others /\ Raised
  <2>1. rows[e].status = "queued" /\ Others /\ log'[e] = Append(log[e], "running")
    BY <1>1, <1>3 DEF MarkRunning, Claimable, Commit
  <2>2. rows'[e].attempt = rows[e].attempt + 1
    BY <1>1, <1>3 DEF MarkRunning, Commit, Row
  <2>3. Claims(Append(log[e], "running")) = Claims(log[e]) + 1
    BY <1>1, ClaimsAppended DEF Event
  <2> QED
    BY <2>1, <2>2, <2>3
<1>4. ASSUME NEW lease \in Nat, UpdateProgress(e, lease)
      PROVE  Others /\ Kept
  <2>1. /\ Others /\ log'[e] = Append(log[e], "progress")
        /\ rows'[e].attempt = rows[e].attempt
    BY <1>1, <1>4 DEF UpdateProgress, Commit
  <2> QED
    BY <1>2, <2>1 DEF Event
<1>5. ASSUME NEW lease \in Nat, NEW status \in {"succeeded", "failed"},
             Finish(e, lease, status)
      PROVE  Others /\ Kept
  <2>1. PICK x \in {"complete", "error"} : log'[e] = Append(log[e], x)
    BY <1>1, <1>5 DEF Finish, Commit
  <2>2. Others /\ rows'[e].attempt = rows[e].attempt
    BY <1>1, <1>5 DEF Finish, Commit, Row
  <2> QED
    BY <1>2, <2>1, <2>2 DEF Event
<1>6. ASSUME NEW lease \in Nat, Retry(e, lease)
      PROVE  Others /\ Kept
  <2>1. log'[e] = Append(Append(log[e], "error"), "queued")
    BY <1>1, <1>6 DEF Retry, Commit
  <2>2. Others /\ rows'[e].attempt = rows[e].attempt
    BY <1>1, <1>6 DEF Retry, Commit, Row
  <2>3. /\ Claims(Append(log[e], "error")) = Claims(log[e])
        /\ Append(log[e], "error") \in Seq(Event)
    BY <1>2 DEF Event
  <2>4. Claims(Append(Append(log[e], "error"), "queued")) = Claims(log[e])
    BY <2>3, ClaimsAppended DEF Event
  <2> QED
    BY <2>1, <2>2, <2>4
<1>7. ASSUME NEW lease \in Nat, CancelRunning(e, lease)
      PROVE  Others /\ Kept
  <2>1. Others /\ log'[e] = Append(log[e], "cancelled")
    BY <1>1, <1>7 DEF CancelRunning, Commit
  <2>2. rows'[e].attempt = rows[e].attempt
    BY <1>1, <1>7 DEF CancelRunning, Commit, Row
  <2> QED
    BY <1>2, <2>1, <2>2 DEF Event
<1>8. ASSUME Cancel(e)
      PROVE  Others /\ Kept
  <2>1. PICK x \in {"cancelled", "cancelling"} : log'[e] = Append(log[e], x)
    BY <1>1, <1>8 DEF Cancel, Commit
  <2>2. Others /\ rows'[e].attempt = rows[e].attempt
    BY <1>1, <1>8 DEF Cancel, Commit, Row
  <2> QED
    BY <1>2, <2>1, <2>2 DEF Event
<1> HIDE DEF Kept, Raised, Others
<1>9. Others /\ (Kept \/ Raised)
  BY <1>3, <1>4, <1>5, <1>6, <1>7, <1>8 DEF StoreUpdate
<1> QED
  BY <1>9 DEF Kept, Raised, Others

Counted == \A e \in Execution : rows[e].attempt = Claims(log[e])

LEMMA CountedStep ==
    ASSUME StoreTypeOK, LogInv, Counted, StoreNext
    PROVE  Counted'
<1>1. ASSUME NEW e \in Execution, StoreUpdate(e)
      PROVE  Counted'
  <2>1. rows[e].attempt \in Nat
    BY DEF StoreTypeOK, Row
  <2> QED
    BY <1>1, <2>1, AttemptEffect DEF Counted
<1>2. ASSUME NEW e \in Execution, NEW k \in Key, NEW kind \in Kind, Insert(e, k, kind)
      PROVE  Counted'
  <2>1. log[e] = <<>>
    BY <1>2 DEF Insert, Insertable, Exists, LogInv, Told
  <2>2. /\ \A x \in Execution \ {e} : rows'[x] = rows[x] /\ log'[x] = log[x]
        /\ rows'[e].attempt = 0 /\ log'[e] = Append(log[e], "queued")
    BY <1>2 DEF Insert, Commit, StoreTypeOK
  <2>3. Claims(Append(log[e], "queued")) = Claims(log[e])
    BY ClaimsAppended DEF StoreTypeOK, Event
  <2> QED
    BY <2>1, <2>2, <2>3, NoClaims DEF Counted
<1> QED
  BY <1>1, <1>2 DEF StoreNext

-----------------------------------------------------------------------------
\* The deliveries of a job and the claims they may still make.

\* The deliveries of e that have had their try at the claim.
Spent(e) == {l \in 1 .. job[e].attempts :
               \A w \in Worker : proc[w].pc = "claim" /\ proc[w].exec = e
                                  => proc[w].lease # l}

LeaseInv ==
    /\ \A e \in Execution : job[e].state = "absent" => job[e].attempts = 0
    /\ \A w \in Worker : proc[w].pc # "idle" =>
          proc[w].lease <= job[proc[w].exec].attempts
    /\ \A v, w \in Worker :
          /\ proc[v].pc # "idle" /\ proc[w].pc # "idle"
          /\ proc[v].exec = proc[w].exec /\ proc[v].lease = proc[w].lease
          => v = w
    /\ \A e \in Execution : rows[e].attempt <= Cardinality(Spent(e))

\* A set of delivery numbers is no larger than their range.
LEMMA NumbersSize ==
    ASSUME NEW n \in Nat, NEW S \in SUBSET (1 .. n)
    PROVE  IsFiniteSet(S) /\ Cardinality(S) \in 0 .. n
<1>1. IsFiniteSet(1 .. n) /\ Cardinality(1 .. n) = IF 1 > n THEN 0 ELSE n - 1 + 1
  BY FS_Interval
<1>2. IsFiniteSet(1 .. n) /\ Cardinality(1 .. n) = n
  <2>1. (IF 1 > n THEN 0 ELSE n - 1 + 1) = n
    OBVIOUS
  <2> QED
    BY <1>1, <2>1
<1>3. IsFiniteSet(S) /\ Cardinality(S) <= n
  BY <1>2, FS_Subset
<1> QED
  BY <1>3, FS_CardinalityType

\* No more deliveries than the job counts have been spent, each one once.
LEMMA SpentSize ==
    ASSUME QueueTypeOK, NEW e \in Execution
    PROVE  IsFiniteSet(Spent(e)) /\ Cardinality(Spent(e)) \in 0 .. job[e].attempts
<1>1. job[e].attempts \in Nat
  BY MaxAttemptsAssumption DEF QueueTypeOK, Job
<1>2. Spent(e) \subseteq 1 .. job[e].attempts
  BY DEF Spent
<1> QED
  BY <1>1, <1>2, NumbersSize

\* What a worker has when it is busy, for a step that may end its delivery.
Onward(w) ==
    proc'[w].pc # "idle" =>
       /\ proc[w].pc # "idle"
       /\ proc'[w].exec = proc[w].exec /\ proc'[w].lease = proc[w].lease
       /\ proc'[w].pc = "claim" => proc[w].pc = "claim"

\* The step of a worker that claims e, or that tries to.
ClaimsNow(w, e) ==
    /\ proc[w].pc = "claim" /\ proc'[w].pc # "claim"
    /\ proc[w].exec = e
    /\ rows'[e].attempt = rows[e].attempt + 1

\* No delivery is counted, and every attempt counted spends one.
LEMMA LeaseKept ==
    ASSUME TypeOK, TypeOK', LeaseInv,
           \A e \in Execution :
              /\ job'[e].attempts = job[e].attempts
              /\ job'[e].state = "absent" => job[e].state = "absent",
           \A w \in Worker : Onward(w),
           \A e \in Execution : \/ rows'[e].attempt <= rows[e].attempt
                                \/ \E w \in Worker : ClaimsNow(w, e)
    PROVE  LeaseInv'
<1>1. ASSUME NEW w \in Worker, proc'[w].pc # "idle"
      PROVE  /\ proc[w].pc # "idle" /\ proc[w] \in Busy
             /\ proc'[w].exec = proc[w].exec /\ proc'[w].lease = proc[w].lease
             /\ proc'[w].exec \in Execution
             /\ proc'[w].pc = "claim" => proc[w].pc = "claim"
  <2>1. proc[w].pc # "idle"
    BY <1>1 DEF Onward
  <2> QED
    BY <1>1, <2>1, BusyType, BusyFields DEF Onward, TypeOK
<1>2. \A w \in Worker : proc'[w].pc # "idle" =>
         proc'[w].lease <= job'[proc'[w].exec].attempts
  BY <1>1 DEF LeaseInv
<1>3. \A v, w \in Worker :
         /\ proc'[v].pc # "idle" /\ proc'[w].pc # "idle"
         /\ proc'[v].exec = proc'[w].exec /\ proc'[v].lease = proc'[w].lease
         => v = w
  BY <1>1 DEF LeaseInv
<1>4. ASSUME NEW e \in Execution
      PROVE  rows'[e].attempt <= Cardinality(Spent(e)')
  <2>1. /\ rows[e].attempt \in Nat /\ rows'[e].attempt \in Nat
        /\ IsFiniteSet(Spent(e)) /\ IsFiniteSet(Spent(e)')
        /\ Cardinality(Spent(e)) \in Nat /\ Cardinality(Spent(e)') \in Nat
    <3>1. /\ IsFiniteSet(Spent(e)) /\ Cardinality(Spent(e)) \in 0 .. job[e].attempts
      BY SpentSize DEF TypeOK
    <3>2. IsFiniteSet(Spent(e)')
      <4>1. job'[e].attempts \in Nat
        BY MaxAttemptsAssumption DEF TypeOK, QueueTypeOK, Job
      <4>2. Spent(e)' \subseteq 1 .. job'[e].attempts
        BY DEF Spent
      <4> QED
        BY <4>1, <4>2, NumbersSize
    <3> QED
      BY <3>1, <3>2, FS_CardinalityType DEF TypeOK, StoreTypeOK, Row
  <2>2. Spent(e) \subseteq Spent(e)'
    <3> SUFFICES ASSUME NEW l \in Spent(e) PROVE l \in Spent(e)'
      OBVIOUS
    <3>1. l \in 1 .. job'[e].attempts
      BY DEF Spent
    <3>2. ASSUME NEW w \in Worker, proc'[w].pc = "claim", proc'[w].exec = e
          PROVE  proc'[w].lease # l
      BY <1>1, <3>2 DEF Spent
    <3> QED
      BY <3>1, <3>2 DEF Spent
  <2>3. rows[e].attempt <= Cardinality(Spent(e))
    BY DEF LeaseInv
  <2>4. CASE rows'[e].attempt <= rows[e].attempt
    <3>1. Cardinality(Spent(e)) <= Cardinality(Spent(e)')
      BY <2>1, <2>2, FS_Subset
    <3> QED
      BY <2>1, <2>3, <2>4, <3>1
  <2>5. CASE \E w \in Worker : ClaimsNow(w, e)
    <3>1. PICK w \in Worker : ClaimsNow(w, e)
      BY <2>5
    <3>2. /\ proc[w].pc = "claim" /\ proc'[w].pc # "claim" /\ proc[w].exec = e
          /\ rows'[e].attempt = rows[e].attempt + 1
          /\ proc[w] \in Busy
      BY <3>1, BusyType DEF ClaimsNow, TypeOK
    <3>3. proc[w].lease \in 1 .. job[e].attempts
      BY <3>2, MaxAttemptsAssumption DEF LeaseInv, Busy, TypeOK, QueueTypeOK, Job
    <3>4. proc[w].lease \notin Spent(e)
      BY <3>2 DEF Spent
    <3>5. proc[w].lease \in Spent(e)'
      <4>1. ASSUME NEW v \in Worker, proc'[v].pc = "claim", proc'[v].exec = e
            PROVE  proc'[v].lease # proc[w].lease
        <5>1. /\ v # w /\ proc[v].pc # "idle" /\ proc[v].exec = e
              /\ proc'[v].lease = proc[v].lease
          BY <1>1, <3>2, <4>1
        <5> QED
          BY <3>2, <5>1 DEF LeaseInv
      <4> QED
        BY <3>3, <4>1 DEF Spent
    <3>6. Cardinality(Spent(e) \cup {proc[w].lease}) = Cardinality(Spent(e)) + 1
      BY <2>1, <3>4, FS_AddElement
    <3>7. Cardinality(Spent(e) \cup {proc[w].lease}) <= Cardinality(Spent(e)')
      <4>1. Spent(e) \cup {proc[w].lease} \subseteq Spent(e)'
        BY <2>2, <3>5
      <4> QED
        BY <2>1, <4>1, FS_Subset
    <3> QED
      BY <2>1, <2>3, <3>2, <3>6, <3>7
  <2> QED
    BY <2>4, <2>5
<1>5. \A e \in Execution : job'[e].state = "absent" => job'[e].attempts = 0
  BY DEF LeaseInv
<1> QED
  BY <1>2, <1>3, <1>4, <1>5 DEF LeaseInv

\* A delivery is new: its number has been given to nobody.
LEMMA LeaseDrawn ==
    ASSUME TypeOK, TypeOK', LeaseInv, NEW w \in Worker, Fetch(w)
    PROVE  LeaseInv'
<1>1. PICK e \in Execution :
         /\ FetchJob(e)
         /\ proc' = [proc EXCEPT ![w] = Delivered(e, job'[e].attempts)]
         /\ UNCHANGED rows
  BY DEF Fetch
<1>2. /\ job[e].state = "ready" /\ job[e].attempts \in Nat
      /\ job'[e].attempts = job[e].attempts + 1 /\ job'[e].state = "locked"
      /\ \A x \in Execution \ {e} : job'[x] = job[x]
  BY <1>1, MaxAttemptsAssumption DEF FetchJob, Fetchable, TypeOK, QueueTypeOK, Job
<1>3. /\ proc'[w].pc = "claim" /\ proc'[w].exec = e
      /\ proc'[w].lease = job[e].attempts + 1
      /\ \A v \in Worker \ {w} : proc'[v] = proc[v]
  BY <1>1, <1>2 DEF TypeOK, ProcessorTypeOK, Delivered
<1>4. ASSUME NEW v \in Worker \ {w}, proc[v].pc # "idle"
      PROVE  /\ proc[v].exec \in Execution /\ proc[v].lease \in Nat
             /\ proc[v].lease <= job[proc[v].exec].attempts
  BY <1>4, BusyType, BusyFields DEF TypeOK, LeaseInv
<1>5. \A v \in Worker : proc'[v].pc # "idle" =>
         proc'[v].lease <= job'[proc'[v].exec].attempts
  <2>1. ASSUME NEW v \in Worker \ {w}, proc[v].pc # "idle"
        PROVE  proc[v].lease <= job'[proc[v].exec].attempts
    <3>1. CASE proc[v].exec = e
      BY <1>2, <1>4, <2>1, <3>1
    <3>2. CASE proc[v].exec # e
      BY <1>2, <1>4, <2>1, <3>2
    <3> QED
      BY <3>1, <3>2
  <2>2. proc'[w].lease <= job'[proc'[w].exec].attempts
    BY <1>2, <1>3
  <2> QED
    BY <1>3, <2>1, <2>2
<1>6. ASSUME NEW u \in Worker, NEW v \in Worker,
             proc'[u].pc # "idle", proc'[v].pc # "idle",
             proc'[u].exec = proc'[v].exec, proc'[u].lease = proc'[v].lease
      PROVE  u = v
  <2>1. ASSUME NEW x \in Worker \ {w}, proc[x].pc # "idle", proc[x].exec = e
        PROVE  proc[x].lease # job[e].attempts + 1
    BY <1>2, <1>4, <2>1
  <2>2. CASE u # w /\ v # w
    BY <1>3, <1>6, <2>2 DEF LeaseInv
  <2>3. CASE u = w
    BY <1>3, <1>6, <2>1, <2>3
  <2>4. CASE v = w
    BY <1>3, <1>6, <2>1, <2>4
  <2> QED
    BY <2>2, <2>3, <2>4
<1>7. ASSUME NEW x \in Execution
      PROVE  rows'[x].attempt <= Cardinality(Spent(x)')
  <2>1. Spent(x) \subseteq Spent(x)'
    <3> SUFFICES ASSUME NEW l \in Spent(x) PROVE l \in Spent(x)'
      OBVIOUS
    <3>1. l \in 1 .. job[x].attempts
      BY DEF Spent
    <3>2. l \in 1 .. job'[x].attempts /\ (x = e => l # job[e].attempts + 1)
      BY <1>2, <3>1
    <3>3. ASSUME NEW v \in Worker, proc'[v].pc = "claim", proc'[v].exec = x
          PROVE  proc'[v].lease # l
      BY <1>3, <3>2, <3>3 DEF Spent
    <3> QED
      BY <3>2, <3>3 DEF Spent
  <2>2. /\ IsFiniteSet(Spent(x)') /\ Cardinality(Spent(x)) \in Nat
        /\ Cardinality(Spent(x)') \in Nat
    <3>1. Cardinality(Spent(x)) \in 0 .. job[x].attempts
      BY SpentSize DEF TypeOK
    <3>2. IsFiniteSet(Spent(x)')
      <4>1. job'[x].attempts \in Nat
        BY MaxAttemptsAssumption DEF TypeOK, QueueTypeOK, Job
      <4>2. Spent(x)' \subseteq 1 .. job'[x].attempts
        BY DEF Spent
      <4> QED
        BY <4>1, <4>2, NumbersSize
    <3> QED
      BY <3>1, <3>2, FS_CardinalityType DEF TypeOK
  <2>3. Cardinality(Spent(x)) <= Cardinality(Spent(x)')
    BY <2>1, <2>2, FS_Subset
  <2>4. rows[x].attempt <= Cardinality(Spent(x)) /\ rows[x].attempt \in Nat
    BY DEF LeaseInv, TypeOK, StoreTypeOK, Row
  <2> QED
    BY <1>1, <2>2, <2>3, <2>4
<1>8. \A x \in Execution : job'[x].state = "absent" => job'[x].attempts = 0
  BY <1>2 DEF LeaseInv
<1> QED
  BY <1>5, <1>6, <1>7, <1>8 DEF LeaseInv

\* An update of an execution that is not queued counts no attempt.
LEMMA AttemptsKept ==
    ASSUME StoreTypeOK, NEW e \in Execution, StoreUpdate(e), rows[e].status # "queued"
    PROVE  \A x \in Execution : rows'[x].attempt = rows[x].attempt
BY AttemptEffect

\* A step of the API: a new execution starts at zero, and its job too.
LEMMA ServiceLease ==
    ASSUME TypeOK, TypeOK', LeaseInv, ServiceNext, UNCHANGED proc
    PROVE  LeaseInv'
<1> DEFINE Jobs == \A e \in Execution :
                      /\ job'[e].attempts = job[e].attempts
                      /\ job'[e].state = "absent" => job[e].state = "absent"
           Rows == \A e \in Execution : rows'[e].attempt <= rows[e].attempt
<1>1. /\ \A e \in Execution : rows[e].attempt \in Nat
      /\ rows \in [Execution -> Row] /\ job \in [Execution -> Job]
  BY DEF TypeOK, StoreTypeOK, QueueTypeOK, Row
<1>2. ASSUME NEW c \in Client, req[c].pc = "insert", CreateAndEnqueue(c)
      PROVE  Jobs /\ Rows
  <2>1. PICK e \in Execution : e = req[c].id
    BY <1>2, RequestFields DEF TypeOK
  <2>2. /\ \A x \in Execution \ {e} : rows'[x] = rows[x]
        /\ rows'[e].attempt = 0
    BY <1>1, <1>2, <2>1 DEF CreateAndEnqueue, Insert, Commit
  <2>3. /\ job[e].state = "absent" /\ job'[e].attempts = 0 /\ job'[e].state = "ready"
        /\ \A x \in Execution \ {e} : job'[x] = job[x]
    BY <1>1, <1>2, <2>1 DEF CreateAndEnqueue, AddJob
  <2> QED
    BY <1>1, <2>2, <2>3 DEF LeaseInv
<1>3. ASSUME UNCHANGED <<rows, log, job>>
      PROVE  Jobs /\ Rows
  BY <1>1, <1>3
<1>4. ASSUME NEW c \in Client, LostInsert(c)
      PROVE  Jobs /\ Rows
  BY <1>2, <1>3, <1>4 DEF LostInsert
<1>5. ASSUME NEW e \in Execution, RequestCancel(e)
      PROVE  Jobs /\ Rows
  <2>1. Cancel(e) /\ UNCHANGED job
    BY <1>5 DEF RequestCancel
  <2>2. \A x \in Execution : rows'[x].attempt = rows[x].attempt
    BY <1>1, <2>1 DEF Cancel, Commit, Row
  <2> QED
    BY <1>1, <2>1, <2>2
<1> HIDE DEF Jobs, Rows
<1>6. ASSUME NEW c \in Client, TryInsert(c)
      PROVE  Jobs /\ Rows
  BY <1>2, <1>3, <1>6 DEF TryInsert
<1>7. Jobs /\ Rows
  BY <1>3, <1>4, <1>5, <1>6
     DEF ServiceNext, Ask, Serve, Find, Refind, RequestDatabaseFault, RequestLost
<1>8. \A w \in Worker : Onward(w)
  BY DEF Onward
<1> QED
  BY <1>7, <1>8, LeaseKept DEF Jobs, Rows

\* A worker's step other than a fetch, by what it does to the rows.
LEMMA SlotLease ==
    ASSUME TypeOK, TypeOK', LeaseInv, NEW w \in Worker,
           \A v \in Worker \ {w} : proc'[v] = proc[v], Onward(w),
           \A e \in Execution :
              /\ job'[e].attempts = job[e].attempts
              /\ job'[e].state = "absent" => job[e].state = "absent",
           \A e \in Execution : \/ rows'[e].attempt = rows[e].attempt
                                \/ ClaimsNow(w, e)
    PROVE  LeaseInv'
<1>1. \A v \in Worker : Onward(v)
  BY DEF Onward
<1>2. \A e \in Execution : \/ rows'[e].attempt <= rows[e].attempt
                           \/ \E v \in Worker : ClaimsNow(v, e)
  BY DEF TypeOK, StoreTypeOK, Row
<1> QED
  BY <1>1, <1>2, LeaseKept

\* What process() writes counts an attempt at the claim only.
LEMMA WriteAttempts ==
    ASSUME StoreTypeOK, NEW w \in Worker, proc[w] \in Busy, Write(w)
    PROVE  /\ \A x \in Execution \ {proc[w].exec} : rows'[x].attempt = rows[x].attempt
           /\ \/ rows'[proc[w].exec].attempt = rows[proc[w].exec].attempt
              \/ /\ proc[w].pc = "claim"
                 /\ rows'[proc[w].exec].attempt = rows[proc[w].exec].attempt + 1
<1>1. PICK e \in Execution : e = proc[w].exec
  BY BusyFields
<1>2. StoreUpdate(e)
  BY <1>1, BusyFields DEF Write, StoreUpdate
<1>3. CASE proc[w].pc = "claim"
  BY <1>1, <1>2, <1>3, AttemptEffect
<1>4. CASE proc[w].pc # "claim"
  <2>1. rows[e].status # "queued"
    BY <1>1, <1>4 DEF Write, Finish, Retry, CancelRunning, HoldsLease, HoldsCancel
  <2> QED
    BY <1>1, <1>2, <2>1, AttemptsKept
<1> QED
  BY <1>3, <1>4

\* A step of the workers spends the delivery that claims, and draws new ones.
LEMMA ProcessorLease ==
    ASSUME TypeOK, TypeOK', LeaseInv, ProcessorNext
    PROVE  LeaseInv'
<1> DEFINE Others(w) == \A v \in Worker \ {w} : proc'[v] = proc[v]
           Jobs == \A e \in Execution :
                      /\ job'[e].attempts = job[e].attempts
                      /\ job'[e].state = "absent" => job[e].state = "absent"
           Rows(w) == \A e \in Execution : \/ rows'[e].attempt = rows[e].attempt
                                           \/ ClaimsNow(w, e)
<1> USE DEF TypeOK
<1>1. ASSUME NEW w \in Worker, NEW pc \in Pc, Goto(w, pc), proc[w] \in Busy
      PROVE  /\ Others(w) /\ proc'[w].pc = pc
             /\ proc'[w].exec = proc[w].exec /\ proc'[w].lease = proc[w].lease
             /\ pc # "claim" => Onward(w)
  <2>1. /\ Others(w) /\ proc'[w].pc = pc
        /\ proc'[w].exec = proc[w].exec /\ proc'[w].lease = proc[w].lease
    BY <1>1 DEF Goto, ProcessorTypeOK, Busy
  <2>2. proc[w].pc # "idle"
    BY <1>1 DEF Busy, Pc
  <2> QED
    BY <2>1, <2>2 DEF Onward
<1>2. ASSUME NEW w \in Worker, NEW retryable \in BOOLEAN, Catch(w, retryable),
             proc[w] \in Busy
      PROVE  /\ Others(w) /\ Onward(w) /\ proc'[w].pc \in {"cancel", "caught"}
  <2>1. /\ Others(w) /\ proc'[w].pc \in {"cancel", "caught"}
        /\ proc'[w].exec = proc[w].exec /\ proc'[w].lease = proc[w].lease
    BY <1>2 DEF Catch, ProcessorTypeOK, Busy
  <2>2. proc[w].pc # "idle"
    BY <1>2 DEF Busy, Pc
  <2> QED
    BY <2>1, <2>2 DEF Onward
<1>3. ASSUME NEW w \in Worker, UNCHANGED rows PROVE Rows(w)
  BY <1>3
<1>4. ASSUME UNCHANGED job PROVE Jobs
  BY <1>4
<1>5. ASSUME NEW w \in Worker, proc[w] \in Busy, Write(w), proc'[w].pc # "claim"
      PROVE  Rows(w)
  BY <1>5, WriteAttempts DEF ClaimsNow
<1>6. ASSUME NEW w \in Worker, Others(w), Onward(w), Jobs, Rows(w)
      PROVE  LeaseInv'
  BY <1>6, SlotLease
<1> HIDE DEF Others, Jobs, Rows, TypeOK
<1>7. ASSUME NEW w \in Worker, Claim(w)
      PROVE  LeaseInv'
  <2>1. proc[w] \in Busy /\ Jobs
    BY <1>4, <1>7, BusyType DEF Claim, TypeOK
  <2>2. PICK pc \in {"cancel", "check", "resolved"} : Goto(w, pc)
    BY <1>7 DEF Claim
  <2>3. Write(w) \/ UNCHANGED storeVars
    BY <1>7 DEF Claim, Write
  <2>4. Others(w) /\ Onward(w) /\ proc'[w].pc # "claim"
    BY <1>1, <2>1, <2>2 DEF Pc
  <2>5. Rows(w)
    BY <1>3, <1>5, <2>1, <2>3, <2>4 DEF storeVars
  <2> QED
    BY <1>6, <2>1, <2>4, <2>5
<1>8. ASSUME NEW w \in Worker,
             \/ Check(w) \/ Recheck(w) \/ Caught(w)
             \/ HandlerReturns(w) \/ HandlerThrows(w)
      PROVE  LeaseInv'
  <2>1. proc[w] \in Busy /\ UNCHANGED <<rows, job>>
    BY <1>8, BusyType
       DEF Check, Recheck, Caught, HandlerReturns, HandlerThrows, TypeOK
  <2>2. \/ \E pc \in Pc \ {"claim"} : Goto(w, pc)
        \/ \E retryable \in BOOLEAN : Catch(w, retryable)
    BY <1>8 DEF Check, Recheck, Caught, HandlerReturns, HandlerThrows, Pc
  <2>3. Others(w) /\ Onward(w)
    BY <1>1, <1>2, <2>1, <2>2
  <2> QED
    BY <1>3, <1>4, <1>6, <2>1, <2>3
<1>9. ASSUME NEW w \in Worker, Report(w)
      PROVE  LeaseInv'
  <2>1. proc[w] \in Busy /\ Jobs
    BY <1>4, <1>9, BusyType DEF Report, TypeOK
  <2>2. UNCHANGED rows
    BY <1>9, <2>1, BusyFields
       DEF Report, UpdateProgress, Commit, storeVars, TypeOK, StoreTypeOK
  <2>3. CASE Catch(w, TRUE)
    BY <1>2, <1>3, <1>6, <2>1, <2>2, <2>3
  <2>4. CASE proc' = [proc EXCEPT ![w].reports = @ + 1]
    <3>1. Others(w)
      BY <2>4 DEF Others, TypeOK, ProcessorTypeOK
    <3>2. Onward(w)
      BY <2>1, <2>4 DEF Onward, TypeOK, ProcessorTypeOK, Busy, Pc
    <3> QED
      BY <1>3, <1>6, <2>1, <2>2, <3>1, <3>2
  <2> QED
    BY <1>9, <2>3, <2>4 DEF Report
<1>10. ASSUME NEW w \in Worker, Settle(w) \/ PutBack(w)
       PROVE  LeaseInv'
  <2>1. proc[w] \in Busy /\ Jobs
    BY <1>4, <1>10, BusyType DEF Settle, PutBack, TypeOK
  <2>2. PICK pc \in {"resolved", "rejected"} : Goto(w, pc)
    BY <1>10 DEF Settle, PutBack
  <2>3. Others(w) /\ Onward(w) /\ proc'[w].pc # "claim"
    BY <1>1, <2>1, <2>2 DEF Pc
  <2>4. Rows(w)
    BY <1>3, <1>5, <1>10, <2>1, <2>3 DEF Settle, PutBack, storeVars
  <2> QED
    BY <1>6, <2>1, <2>3, <2>4
<1>11. ASSUME NEW w \in Worker, SettleJob(w) \/ Crash(w)
       PROVE  LeaseInv'
  <2>1. Others(w) /\ Onward(w)
    BY <1>11 DEF SettleJob, Crash, Idle, Others, Onward, TypeOK, ProcessorTypeOK
  <2>2. Jobs
    BY <1>11 DEF SettleJob, Crash, CompleteJob, FailJob, Jobs, TypeOK, QueueTypeOK, Job
  <2> QED
    BY <1>3, <1>6, <1>11, <2>1, <2>2 DEF SettleJob, Crash
<1>12. ASSUME NEW w \in Worker, Poll(w) \/ Shutdown(w)
       PROVE  LeaseInv'
  <2>1. proc[w] \in Busy /\ UNCHANGED <<rows, job>>
    BY <1>12, BusyType DEF Poll, Shutdown, Monitored, TypeOK
  <2>2. /\ Others(w) /\ proc'[w].pc = proc[w].pc
        /\ proc'[w].exec = proc[w].exec /\ proc'[w].lease = proc[w].lease
    BY <1>12, <2>1 DEF Poll, Shutdown, Others, TypeOK, ProcessorTypeOK, Busy
  <2>3. Onward(w)
    BY <2>2 DEF Onward
  <2> QED
    BY <1>3, <1>4, <1>6, <2>1, <2>2, <2>3
<1>13. ASSUME NEW w \in Worker, DatabaseFault(w)
       PROVE  LeaseInv'
  <2>1. proc[w] \in Busy /\ Jobs
    BY <1>4, <1>13, BusyType DEF DatabaseFault, TypeOK
  <2>2. Goto(w, "rejected") \/ Catch(w, TRUE)
    BY <1>13 DEF DatabaseFault
  <2>3. Others(w) /\ Onward(w) /\ proc'[w].pc # "claim"
    BY <1>1, <1>2, <2>1, <2>2 DEF Pc
  <2>4. Rows(w)
    BY <1>3, <1>5, <1>13, <2>1, <2>3 DEF DatabaseFault, storeVars
  <2> QED
    BY <1>6, <2>1, <2>3, <2>4
<1>14. ASSUME NEW e \in Execution, Release(e)
       PROVE  LeaseInv'
  <2>1. Jobs /\ UNCHANGED <<rows, proc>>
    BY <1>14 DEF Release, ReleaseJob, Jobs, TypeOK, QueueTypeOK, Job
  <2>2. \A w \in Worker : Onward(w)
    BY <2>1 DEF Onward
  <2>3. \A x \in Execution : rows'[x].attempt <= rows[x].attempt
    BY <2>1 DEF TypeOK, StoreTypeOK, Row
  <2> QED
    BY <2>1, <2>2, <2>3, LeaseKept DEF Jobs
<1> QED
  BY <1>7, <1>8, <1>9, <1>10, <1>11, <1>12, <1>13, <1>14, LeaseDrawn
     DEF ProcessorNext, Work

AttemptsInv == LogInv /\ Counted /\ LeaseInv

LEMMA AttemptsStay == Spec => []AttemptsInv
<1>1. Init => AttemptsInv
  <2> SUFFICES ASSUME Init PROVE AttemptsInv
    OBVIOUS
  <2>1. \A e \in Execution : /\ rows[e].status = "absent" /\ rows[e].attempt = 0
                             /\ log[e] = <<>> /\ job[e].attempts = 0
    BY DEF Init, StoreInit, QueueInit, AbsentRow
  <2>2. \A w \in Worker : proc[w].pc = "idle"
    BY DEF Init, ProcessorInit, Idle
  <2>3. LogInv /\ Counted
    BY <2>1, NoClaims DEF LogInv, Told, LegalLog, Counted
  <2>4. \A e \in Execution : Cardinality(Spent(e)) \in 0 .. 0
    BY <2>1, SpentSize, InitType DEF TypeOK
  <2> QED
    BY <2>1, <2>2, <2>3, <2>4 DEF AttemptsInv, LeaseInv
<1>2. TypeOK /\ TypeOK' /\ LogInv' /\ AttemptsInv /\ [Next]_vars => AttemptsInv'
  <2> SUFFICES ASSUME TypeOK, TypeOK', LogInv', AttemptsInv, [Next]_vars
               PROVE  AttemptsInv'
    OBVIOUS
  <2>1. Counted'
    <3>1. CASE StoreNext
      BY <3>1, CountedStep DEF TypeOK, AttemptsInv
    <3>2. CASE UNCHANGED storeVars
      BY <3>2 DEF storeVars, AttemptsInv, Counted
    <3> QED
      BY <3>1, <3>2, RuntimeStep
  <2>2. LeaseInv'
    <3>1. CASE ServiceNext /\ UNCHANGED proc
      BY <3>1, ServiceLease DEF AttemptsInv
    <3>2. CASE ProcessorNext
      BY <3>2, ProcessorLease DEF AttemptsInv
    <3>3. CASE UNCHANGED vars
      BY <3>3 DEF vars, AttemptsInv, LeaseInv, Spent
    <3> QED
      BY <3>1, <3>2, <3>3 DEF Next
  <2> QED
    BY <2>1, <2>2 DEF AttemptsInv
<1> QED
  BY <1>1, <1>2, TypeCorrect, LogsTold, PTL DEF Spec

\* The attempts of a row are the claims its log tells of, and at most one for every
\* delivery of its job: no lost answer, crash or second delivery claims twice.
THEOREM AttemptsCount == Spec => []AttemptsAreLogged
<1>1. TypeOK /\ AttemptsInv => AttemptsAreLogged
  <2> SUFFICES ASSUME TypeOK, AttemptsInv, NEW e \in Execution
               PROVE  rows[e].attempt = Claims(log[e]) /\ rows[e].attempt <= job[e].attempts
    BY DEF AttemptsAreLogged
  <2>1. rows[e].attempt <= Cardinality(Spent(e)) /\ rows[e].attempt \in Nat
    BY DEF AttemptsInv, LeaseInv, TypeOK, StoreTypeOK, Row
  <2>2. Cardinality(Spent(e)) \in 0 .. job[e].attempts /\ job[e].attempts \in Nat
    BY SpentSize, MaxAttemptsAssumption DEF TypeOK, QueueTypeOK, Job
  <2> QED
    BY <2>1, <2>2 DEF AttemptsInv, Counted
<1> QED
  BY <1>1, TypeCorrect, AttemptsStay, PTL

-----------------------------------------------------------------------------
\* What is queued has a delivery, as long as no lock is freed under its worker.

\* Every delivery under way has the lock of its job.
Alone == \A w \in Worker : proc[w].pc # "idle" => Locked(proc[w].exec, proc[w].lease)

\* A delivery whose promise resolved leaves nothing in the queue.
NothingLeft == \A w \in Worker :
                  proc[w].pc = "resolved" => rows[proc[w].exec].status # "queued"

\* What is queued has its job.
JobIsKept == \A e \in Execution :
                 rows[e].status = "queued" => job[e].state \in {"ready", "locked"}

DispatchInv == Alone /\ NothingLeft /\ JobIsKept

\* A step of a delivery under way, by what it does to its own execution and job.
LEMMA DeliveryStep ==
    ASSUME TypeOK, LeaseInv, DispatchInv, NEW w \in Worker, proc[w] \in Busy,
           \A v \in Worker \ {w} : proc'[v] = proc[v],
           \A x \in Execution \ {proc[w].exec} :
              rows'[x] = rows[x] /\ job'[x] = job[x],
           proc'[w].pc # "idle" =>
              /\ proc'[w].exec = proc[w].exec /\ proc'[w].lease = proc[w].lease
              /\ job'[proc[w].exec] = job[proc[w].exec],
           proc'[w].pc = "resolved" => rows'[proc[w].exec].status # "queued",
           rows'[proc[w].exec].status = "queued" =>
              job'[proc[w].exec].state \in {"ready", "locked"}
    PROVE  DispatchInv'
<1>1. PICK e \in Execution : e = proc[w].exec
  BY BusyFields
<1>2. Locked(e, proc[w].lease) /\ proc[w].pc # "idle"
  BY <1>1 DEF DispatchInv, Alone, Busy, Pc
<1>3. ASSUME NEW v \in Worker \ {w}, proc[v].pc # "idle"
      PROVE  /\ proc[v].exec \in Execution \ {e} /\ Locked(proc[v].exec, proc[v].lease)
             /\ rows'[proc[v].exec] = rows[proc[v].exec]
             /\ job'[proc[v].exec] = job[proc[v].exec]
  <2>1. proc[v].exec \in Execution /\ Locked(proc[v].exec, proc[v].lease)
    BY <1>3, BusyType, BusyFields DEF TypeOK, DispatchInv, Alone
  <2>2. proc[v].exec # e
    BY <1>1, <1>2, <1>3, <2>1 DEF Locked, LeaseInv
  <2> QED
    BY <1>1, <2>1, <2>2
<1>4. Alone'
  BY <1>1, <1>2, <1>3 DEF Alone, Locked
<1>5. NothingLeft'
  BY <1>1, <1>3 DEF DispatchInv, NothingLeft
<1>6. JobIsKept'
  BY <1>1 DEF DispatchInv, JobIsKept
<1> QED
  BY <1>4, <1>5, <1>6 DEF DispatchInv

\* A step of a delivery that stays under way, or dies, and leaves its job alone.
LEMMA DeliveryGoesOn ==
    ASSUME TypeOK, LeaseInv, DispatchInv, NEW w \in Worker, proc[w] \in Busy,
           \A v \in Worker \ {w} : proc'[v] = proc[v], UNCHANGED job,
           \A x \in Execution \ {proc[w].exec} : rows'[x] = rows[x],
           proc'[w].pc # "idle" =>
              proc'[w].exec = proc[w].exec /\ proc'[w].lease = proc[w].lease,
           proc'[w].pc = "resolved" => rows'[proc[w].exec].status # "queued"
    PROVE  DispatchInv'
<1>1. job[proc[w].exec].state = "locked"
  <2>1. proc[w].pc # "idle"
    BY DEF Busy, Pc
  <2>2. Locked(proc[w].exec, proc[w].lease)
    BY <2>1 DEF DispatchInv, Alone
  <2> QED
    BY <2>2 DEF Locked
<1> QED
  BY <1>1, DeliveryStep

\* A step of the API publishes the job of the execution it creates.
LEMMA ServiceDispatches ==
    ASSUME TypeOK, DispatchInv, ServiceNext, UNCHANGED proc
    PROVE  DispatchInv'
<1>1. /\ rows \in [Execution -> Row] /\ job \in [Execution -> Job]
  BY DEF TypeOK, StoreTypeOK, QueueTypeOK
<1>2. ASSUME NEW c \in Client, req[c].pc = "insert", CreateAndEnqueue(c)
      PROVE  DispatchInv'
  <2>1. PICK e \in Execution : e = req[c].id
    BY <1>2, RequestFields DEF TypeOK
  <2>2. /\ \A x \in Execution \ {e} : rows'[x] = rows[x] /\ job'[x] = job[x]
        /\ job[e].state = "absent" /\ job'[e].state = "ready"
    BY <1>1, <1>2, <2>1 DEF CreateAndEnqueue, Insert, Commit, AddJob
  <2>3. ASSUME NEW w \in Worker, proc[w].pc # "idle"
        PROVE  proc[w].exec \in Execution \ {e}
    <3>1. proc[w].exec \in Execution /\ Locked(proc[w].exec, proc[w].lease)
      BY <2>3, BusyType, BusyFields DEF TypeOK, DispatchInv, Alone
    <3> QED
      BY <2>2, <3>1 DEF Locked
  <2>4. Alone' /\ NothingLeft'
    BY <2>2, <2>3 DEF DispatchInv, Alone, NothingLeft, Locked
  <2>5. JobIsKept'
    BY <2>2 DEF DispatchInv, JobIsKept
  <2> QED
    BY <2>4, <2>5 DEF DispatchInv
<1>3. ASSUME UNCHANGED <<rows, log, job>>
      PROVE  DispatchInv'
  BY <1>3 DEF DispatchInv, Alone, NothingLeft, JobIsKept, Locked
<1>4. ASSUME NEW e \in Execution, RequestCancel(e)
      PROVE  DispatchInv'
  <2>1. /\ \A x \in Execution \ {e} : rows'[x] = rows[x]
        /\ rows'[e].status # "queued" /\ UNCHANGED job
    BY <1>1, <1>4 DEF RequestCancel, Cancel, Commit, Row
  <2>2. ASSUME NEW w \in Worker, proc[w].pc = "resolved"
        PROVE  rows'[proc[w].exec].status # "queued"
    <3>1. proc[w].exec \in Execution
      BY <2>2, BusyType, BusyFields DEF TypeOK
    <3> QED
      BY <2>1, <2>2, <3>1 DEF DispatchInv, NothingLeft
  <2> QED
    BY <2>1, <2>2 DEF DispatchInv, Alone, NothingLeft, JobIsKept, Locked
<1> QED
  BY <1>2, <1>3, <1>4
     DEF ServiceNext, Ask, Serve, Find, TryInsert, Refind, RequestDatabaseFault,
         RequestLost, LostInsert

\* A delivery is drawn from a job that nobody has.
LEMMA FetchDispatches ==
    ASSUME TypeOK, DispatchInv, NEW w \in Worker, Fetch(w)
    PROVE  DispatchInv'
<1>1. PICK e \in Execution :
         /\ FetchJob(e)
         /\ proc' = [proc EXCEPT ![w] = Delivered(e, job'[e].attempts)]
         /\ UNCHANGED rows
  BY DEF Fetch
<1>2. /\ job[e].state = "ready" /\ job'[e].state = "locked"
      /\ job'[e] = [state |-> "locked", attempts |-> job'[e].attempts]
      /\ \A x \in Execution \ {e} : job'[x] = job[x]
  BY <1>1 DEF FetchJob, Fetchable, TypeOK, QueueTypeOK
<1>3. /\ proc'[w].pc = "claim" /\ proc'[w].exec = e /\ proc'[w].lease = job'[e].attempts
      /\ \A v \in Worker \ {w} : proc'[v] = proc[v]
  BY <1>1 DEF TypeOK, ProcessorTypeOK, Delivered
<1>4. ASSUME NEW v \in Worker, proc[v].pc # "idle"
      PROVE  proc[v].exec \in Execution \ {e} /\ Locked(proc[v].exec, proc[v].lease)
  <2>1. proc[v].exec \in Execution /\ Locked(proc[v].exec, proc[v].lease)
    BY <1>4, BusyType, BusyFields DEF TypeOK, DispatchInv, Alone
  <2> QED
    BY <1>2, <2>1 DEF Locked
<1>5. Alone'
  BY <1>2, <1>3, <1>4 DEF Alone, Locked
<1>6. NothingLeft'
  BY <1>1, <1>3 DEF DispatchInv, NothingLeft
<1>7. JobIsKept'
  BY <1>1, <1>2 DEF DispatchInv, JobIsKept
<1> QED
  BY <1>5, <1>6, <1>7 DEF DispatchInv

\* What ends a delivery as resolved leaves its execution out of the queue: the write
\* took it further, or was refused to a worker whose execution is over or cancelling.
LEMMA SettledNotQueued ==
    ASSUME ExclusiveInv, NEW w \in Worker, proc[w] \in Busy, Settle(w)
    PROVE  rows'[proc[w].exec].status # "queued"
<1>1. PICK e \in Execution : e = proc[w].exec
  BY BusyFields
<1>2. rows[e] \in Row /\ rows \in [Execution -> Row]
  BY DEF ExclusiveInv, TypeOK, StoreTypeOK
<1>3. proc[w].pc \in {"complete", "fail", "cancel", "cancel_try"}
  BY DEF Settle
<1>4. CASE UNCHANGED storeVars
  <2>1. Held(e, proc[w].lease)
    BY <1>1, <1>3 DEF ExclusiveInv, LeaseIsHeld, Claimed, Pc
  <2> QED
    BY <1>1, <1>4, <2>1 DEF Held, Terminal, TerminalStatus, storeVars
<1>5. CASE Write(w)
  <2>1. \/ \E status \in {"succeeded", "failed"} : Finish(e, proc[w].lease, status)
        \/ CancelRunning(e, proc[w].lease)
    BY <1>1, <1>3, <1>5 DEF Write
  <2>2. rows'[e].status \in {"succeeded", "failed", "cancelled"}
    <3>1. ASSUME NEW status \in {"succeeded", "failed"}, Finish(e, proc[w].lease, status)
          PROVE  rows'[e].status = status
      BY <1>2, <3>1 DEF Finish, Commit, Row
    <3>2. CASE CancelRunning(e, proc[w].lease)
      BY <1>2, <3>2 DEF CancelRunning, Commit, Row
    <3> QED
      BY <2>1, <3>1, <3>2
  <2> QED
    BY <1>1, <2>2
<1> QED
  BY <1>4, <1>5 DEF Settle

\* A step of the workers; a lock is freed only where no worker has it.
LEMMA ProcessorDispatches ==
    ASSUME "overrun" \notin Faults, ExclusiveInv, LeaseInv, DispatchInv, ProcessorNext
    PROVE  DispatchInv'
<1> DEFINE Others(w) == \A v \in Worker \ {w} : proc'[v] = proc[v]
           OtherRows(w) == \A x \in Execution \ {proc[w].exec} : rows'[x] = rows[x]
           SameJob(w) == proc'[w].exec = proc[w].exec /\ proc'[w].lease = proc[w].lease
<1> USE DEF ExclusiveInv
<1>1. ASSUME NEW w \in Worker, NEW pc \in Pc, Goto(w, pc), proc[w] \in Busy
      PROVE  Others(w) /\ SameJob(w) /\ proc'[w].pc = pc
  BY <1>1 DEF Goto, TypeOK, ProcessorTypeOK, Busy
<1>2. ASSUME NEW w \in Worker, NEW retryable \in BOOLEAN, Catch(w, retryable),
             proc[w] \in Busy
      PROVE  Others(w) /\ SameJob(w) /\ proc'[w].pc \in {"cancel", "caught"}
  BY <1>2 DEF Catch, TypeOK, ProcessorTypeOK, Busy
<1>3. ASSUME NEW w \in Worker, proc[w] \in Busy, UNCHANGED job,
             Others(w), OtherRows(w), SameJob(w),
             proc'[w].pc = "resolved" => rows'[proc[w].exec].status # "queued"
      PROVE  DispatchInv'
  BY <1>3, DeliveryGoesOn
<1>4. ASSUME NEW w \in Worker, proc[w] \in Busy, Write(w) \/ UNCHANGED storeVars
      PROVE  OtherRows(w)
  BY <1>4, WriteEffect DEF TypeOK, storeVars
<1>5. ASSUME NEW w \in Worker, UNCHANGED rows
      PROVE  OtherRows(w)
  BY <1>5
<1> HIDE DEF Others, OtherRows, SameJob, ExclusiveInv
<1>6. ASSUME NEW w \in Worker, Claim(w)
      PROVE  DispatchInv'
  <2>1. proc[w] \in Busy /\ UNCHANGED job
    BY <1>6, BusyType DEF Claim, ExclusiveInv, TypeOK
  <2>2. Write(w) \/ UNCHANGED storeVars
    BY <1>6 DEF Claim, Write
  <2>3. \/ \E pc \in {"cancel", "check"} : Goto(w, pc)
        \/ /\ Goto(w, "resolved") /\ UNCHANGED storeVars
           /\ rows[proc[w].exec].status # "queued"
    BY <1>6 DEF Claim, Claimable
  <2>4. /\ Others(w) /\ SameJob(w)
        /\ proc'[w].pc = "resolved" => rows'[proc[w].exec].status # "queued"
    BY <1>1, <2>1, <2>3 DEF Pc, storeVars
  <2> QED
    BY <1>3, <1>4, <2>1, <2>2, <2>4
<1>7. ASSUME NEW w \in Worker,
             \/ Check(w) \/ Recheck(w) \/ Caught(w)
             \/ HandlerReturns(w) \/ HandlerThrows(w)
      PROVE  DispatchInv'
  <2>1. proc[w] \in Busy /\ UNCHANGED <<rows, job>>
    BY <1>7, BusyType
       DEF Check, Recheck, Caught, HandlerReturns, HandlerThrows, ExclusiveInv, TypeOK
  <2>2. \/ \E pc \in Pc \ {"resolved"} : Goto(w, pc)
        \/ \E retryable \in BOOLEAN : Catch(w, retryable)
    BY <1>7 DEF Check, Recheck, Caught, HandlerReturns, HandlerThrows, Pc
  <2>3. Others(w) /\ SameJob(w) /\ proc'[w].pc # "resolved"
    BY <1>1, <1>2, <2>1, <2>2
  <2> QED
    BY <1>3, <1>5, <2>1, <2>3
<1>8. ASSUME NEW w \in Worker, Report(w)
      PROVE  DispatchInv'
  <2>1. proc[w] \in Busy /\ UNCHANGED job
    BY <1>8, BusyType DEF Report, ExclusiveInv, TypeOK
  <2>2. UNCHANGED rows
    BY <1>8, <2>1, BusyFields
       DEF Report, UpdateProgress, Commit, storeVars, ExclusiveInv, TypeOK, StoreTypeOK
  <2>3. CASE Catch(w, TRUE)
    BY <1>2, <1>3, <1>5, <2>1, <2>2, <2>3
  <2>4. CASE proc' = [proc EXCEPT ![w].reports = @ + 1]
    <3>1. Others(w)
      BY <2>4 DEF Others, ExclusiveInv, TypeOK, ProcessorTypeOK
    <3>2. SameJob(w) /\ proc'[w].pc = "handler"
      BY <1>8, <2>1, <2>4 DEF SameJob, Report, ExclusiveInv, TypeOK, ProcessorTypeOK, Busy
    <3> QED
      BY <1>3, <1>5, <2>1, <2>2, <3>1, <3>2
  <2> QED
    BY <1>8, <2>3, <2>4 DEF Report
<1>9. ASSUME NEW w \in Worker, Settle(w)
      PROVE  DispatchInv'
  <2>1. proc[w] \in Busy /\ UNCHANGED job /\ (Write(w) \/ UNCHANGED storeVars)
    BY <1>9, BusyType DEF Settle, ExclusiveInv, TypeOK
  <2>2. Others(w) /\ SameJob(w)
    BY <1>1, <1>9, <2>1 DEF Settle, Pc
  <2> QED
    BY <1>3, <1>4, <1>9, <2>1, <2>2, SettledNotQueued
<1>10. ASSUME NEW w \in Worker, PutBack(w)
       PROVE  DispatchInv'
  <2>1. proc[w] \in Busy /\ UNCHANGED job /\ (Write(w) \/ UNCHANGED storeVars)
    BY <1>10, BusyType DEF PutBack, ExclusiveInv, TypeOK
  <2>2. Others(w) /\ SameJob(w) /\ proc'[w].pc = "rejected"
    BY <1>1, <1>10, <2>1 DEF PutBack, Pc
  <2> QED
    BY <1>3, <1>4, <2>1, <2>2
<1>11. ASSUME NEW w \in Worker, SettleJob(w)
       PROVE  DispatchInv'
  <2>1. proc[w] \in Busy /\ UNCHANGED rows /\ proc'[w].pc = "idle" /\ Others(w)
    BY <1>11, BusyType
       DEF SettleJob, Idle, Others, ExclusiveInv, TypeOK, ProcessorTypeOK
  <2>2. PICK e \in Execution : e = proc[w].exec
    BY <2>1, BusyFields
  <2>3. job \in [Execution -> Job]
    BY DEF ExclusiveInv, TypeOK, QueueTypeOK
  <2>4. CASE proc[w].pc = "resolved"
    <3>1. \A x \in Execution \ {e} : job'[x] = job[x]
      BY <1>11, <2>2, <2>3, <2>4 DEF SettleJob, CompleteJob
    <3>2. rows'[e].status # "queued"
      BY <2>1, <2>2, <2>4 DEF DispatchInv, NothingLeft
    <3> QED
      BY <1>5, <2>1, <2>2, <3>1, <3>2, DeliveryStep DEF Others, OtherRows, ExclusiveInv
  <2>5. CASE proc[w].pc = "rejected"
    <3>1. Locked(e, proc[w].lease)
      BY <2>2, <2>5 DEF DispatchInv, Alone
    <3>2. job' = [job EXCEPT ![e].state = "ready"]
      BY <1>11, <2>2, <2>5, <3>1 DEF SettleJob, FailJob
    <3>3. job'[e].state = "ready" /\ \A x \in Execution \ {e} : job'[x] = job[x]
      BY <2>3, <3>2 DEF Job
    <3> QED
      BY <1>5, <2>1, <2>2, <3>3, DeliveryStep DEF Others, OtherRows, ExclusiveInv
  <2> QED
    BY <1>11, <2>4, <2>5 DEF SettleJob
<1>12. ASSUME NEW w \in Worker, Crash(w)
       PROVE  DispatchInv'
  <2>1. /\ proc[w] \in Busy /\ UNCHANGED <<rows, job>> /\ proc'[w].pc = "idle"
        /\ Others(w)
    BY <1>12, BusyType DEF Crash, Idle, Others, ExclusiveInv, TypeOK, ProcessorTypeOK
  <2> QED
    BY <1>5, <2>1, DeliveryGoesOn DEF Others, OtherRows, ExclusiveInv
<1>13. ASSUME NEW w \in Worker, Poll(w) \/ Shutdown(w)
       PROVE  DispatchInv'
  <2>1. /\ proc[w] \in Busy /\ UNCHANGED <<rows, job>> /\ proc[w].pc # "resolved"
    BY <1>13, BusyType DEF Poll, Shutdown, Monitored, ExclusiveInv, TypeOK
  <2>2. Others(w) /\ SameJob(w) /\ proc'[w].pc = proc[w].pc
    BY <1>13, <2>1
       DEF Poll, Shutdown, Others, SameJob, ExclusiveInv, TypeOK, ProcessorTypeOK, Busy
  <2> QED
    BY <1>3, <1>5, <2>1, <2>2
<1>14. ASSUME NEW w \in Worker, DatabaseFault(w)
       PROVE  DispatchInv'
  <2>1. proc[w] \in Busy /\ UNCHANGED job /\ (Write(w) \/ UNCHANGED storeVars)
    BY <1>14, BusyType DEF DatabaseFault, ExclusiveInv, TypeOK
  <2>2. Goto(w, "rejected") \/ Catch(w, TRUE)
    BY <1>14 DEF DatabaseFault
  <2>3. Others(w) /\ SameJob(w) /\ proc'[w].pc # "resolved"
    BY <1>1, <1>2, <2>1, <2>2 DEF Pc
  <2> QED
    BY <1>3, <1>4, <2>1, <2>3
<1>15. ASSUME NEW e \in Execution, Release(e)
       PROVE  DispatchInv'
  <2>1. /\ ~HasWorker(e) /\ UNCHANGED <<rows, proc>>
        /\ job' = [job EXCEPT ![e].state = "ready"]
    BY <1>15 DEF Release, ReleaseJob, Fault
  <2>2. /\ job'[e].state = "ready"
        /\ \A x \in Execution \ {e} : job'[x] = job[x]
    BY <2>1 DEF ExclusiveInv, TypeOK, QueueTypeOK, Job
  <2>3. ASSUME NEW w \in Worker, proc[w].pc # "idle"
        PROVE  proc[w].exec \in Execution \ {e} /\ Locked(proc[w].exec, proc[w].lease)
    BY <2>1, <2>3, BusyType, BusyFields
       DEF HasWorker, ExclusiveInv, TypeOK, DispatchInv, Alone
  <2>4. Alone'
    BY <2>1, <2>2, <2>3 DEF Alone, Locked
  <2>5. NothingLeft' /\ JobIsKept'
    BY <2>1, <2>2 DEF DispatchInv, NothingLeft, JobIsKept
  <2> QED
    BY <2>4, <2>5 DEF DispatchInv
<1>16. ASSUME NEW w \in Worker, Fetch(w)
       PROVE  DispatchInv'
  BY <1>16, FetchDispatches DEF ExclusiveInv
<1> QED
  BY <1>6, <1>7, <1>8, <1>9, <1>10, <1>11, <1>12, <1>13, <1>14, <1>15, <1>16
     DEF ProcessorNext, Work

\* Every delivery under way has its lock, and what is queued has its job.
LEMMA QueuesStay ==
    ASSUME "overrun" \notin Faults
    PROVE  Spec => []DispatchInv
<1>1. Init => DispatchInv
  BY DEF Init, StoreInit, AbsentRow, ProcessorInit, Idle, DispatchInv, Alone,
         NothingLeft, JobIsKept
<1>2. ExclusiveInv /\ AttemptsInv /\ DispatchInv /\ [Next]_vars => DispatchInv'
  <2> SUFFICES ASSUME ExclusiveInv, AttemptsInv, DispatchInv, [Next]_vars
               PROVE  DispatchInv'
    OBVIOUS
  <2>1. CASE ServiceNext /\ UNCHANGED proc
    BY <2>1, ServiceDispatches DEF ExclusiveInv
  <2>2. CASE ProcessorNext
    BY <2>2, ProcessorDispatches DEF AttemptsInv
  <2>3. CASE UNCHANGED vars
    BY <2>3 DEF vars, DispatchInv, Alone, NothingLeft, JobIsKept, Locked
  <2> QED
    BY <2>1, <2>2, <2>3 DEF Next
<1> QED
  BY <1>1, <1>2, ExclusiveStays, AttemptsStay, PTL DEF Spec

-----------------------------------------------------------------------------
\* What was given up was tried, under the same assumption; and so what is queued is
\* dispatched.

\* The deliveries of e are accounted for by its claims and by faults; one that is
\* still to claim is accounted for by its claim to come.
Tried(e) == job[e].attempts <= rows[e].attempt + faults
Due(e) == /\ job[e].attempts <= rows[e].attempt + faults + 1
          /\ \E w \in Worker : proc[w].pc = "claim" /\ proc[w].exec = e

TriedInv ==
    /\ \A e \in Execution : rows[e].status = "queued" => Tried(e) \/ Due(e)
    /\ \A w \in Worker, e \in Execution :
          proc[w].pc \in Claimed /\ proc[w].exec = e => Tried(e)

\* No delivery is counted: what holds of an execution goes on to hold, as long as no
\* delivery passes the claim, and none of a queued execution ends before it.
LEMMA TriedKept ==
    ASSUME TypeOK, TypeOK', TriedInv, faults <= faults',
           \A e \in Execution : /\ job'[e].attempts = job[e].attempts
                                /\ rows[e].attempt <= rows'[e].attempt,
           \A w \in Worker, e \in Execution :
              proc'[w].pc \in Claimed /\ proc'[w].exec = e
                 => Tried(e)' \/ (proc[w].pc \in Claimed /\ proc[w].exec = e),
           \A e \in Execution : rows'[e].status = "queued" =>
              \/ Tried(e)'
              \/ /\ rows[e].status = "queued"
                 /\ \A w \in Worker : proc[w].pc = "claim" /\ proc[w].exec = e
                       => proc'[w].pc = "claim" /\ proc'[w].exec = e
    PROVE  TriedInv'
<1>1. ASSUME NEW e \in Execution
      PROVE  /\ rows[e].attempt \in Nat /\ rows'[e].attempt \in Nat
             /\ faults \in Nat /\ faults' \in Nat /\ job[e].attempts \in Nat
  BY FaultAssumption, MaxAttemptsAssumption
     DEF TypeOK, StoreTypeOK, Row, EnvironmentTypeOK, QueueTypeOK, Job
<1>2. ASSUME NEW e \in Execution, Tried(e)
      PROVE  Tried(e)'
  BY <1>1, <1>2 DEF Tried
<1>3. ASSUME NEW e \in Execution, rows'[e].status = "queued"
      PROVE  Tried(e)' \/ Due(e)'
  <2>1. CASE Tried(e)'
    BY <2>1
  <2>2. CASE /\ rows[e].status = "queued"
             /\ \A w \in Worker : proc[w].pc = "claim" /\ proc[w].exec = e
                   => proc'[w].pc = "claim" /\ proc'[w].exec = e
    <3>1. CASE Tried(e)
      BY <1>2, <3>1
    <3>2. CASE Due(e)
      BY <1>1, <2>2, <3>2 DEF Due
    <3> QED
      BY <2>2, <3>1, <3>2 DEF TriedInv
  <2> QED
    BY <1>3, <2>1, <2>2
<1>4. ASSUME NEW w \in Worker, NEW e \in Execution,
             proc'[w].pc \in Claimed, proc'[w].exec = e
      PROVE  Tried(e)'
  BY <1>2, <1>4 DEF TriedInv
<1> QED
  BY <1>3, <1>4 DEF TriedInv

\* A step of a delivery under way, by what becomes of its claim.
LEMMA SlotTried ==
    ASSUME TypeOK, TypeOK', TriedInv, faults <= faults',
           NEW w \in Worker, NEW e \in Execution, proc[w].exec = e,
           \A v \in Worker \ {w} : proc'[v] = proc[v],
           proc'[w].pc # "idle" => proc'[w].exec = e,
           \A x \in Execution : job'[x].attempts = job[x].attempts,
           \A x \in Execution \ {e} : rows'[x] = rows[x],
           rows[e].attempt <= rows'[e].attempt,
           \/ proc[w].pc \in Claimed
           \/ Tried(e)'
           \/ /\ proc'[w].pc \notin Claimed
              /\ rows'[e].status = "queued" =>
                    /\ rows[e].status = "queued"
                    /\ proc[w].pc = "claim" => proc'[w].pc = "claim"
    PROVE  TriedInv'
<1>1. ASSUME NEW x \in Execution
      PROVE  /\ rows[x].attempt \in Nat /\ rows'[x].attempt \in Nat
             /\ faults \in Nat /\ faults' \in Nat /\ job[x].attempts \in Nat
  BY FaultAssumption, MaxAttemptsAssumption
     DEF TypeOK, StoreTypeOK, Row, EnvironmentTypeOK, QueueTypeOK, Job
<1>2. \A x \in Execution : rows[x].attempt <= rows'[x].attempt
  BY <1>1
<1>3. proc[w].pc \in Claimed => Tried(e)'
  BY <1>1 DEF TriedInv, Tried
<1>4. ASSUME NEW v \in Worker, NEW x \in Execution,
             proc'[v].pc \in Claimed, proc'[v].exec = x
      PROVE  Tried(x)' \/ (proc[v].pc \in Claimed /\ proc[v].exec = x)
  <2>1. CASE v # w
    BY <1>4, <2>1
  <2>2. CASE v = w
    <3>1. x = e
      BY <1>4, <2>2 DEF Claimed, Pc
    <3> QED
      BY <1>3, <1>4, <2>2, <3>1
  <2> QED
    BY <2>1, <2>2
<1>5. ASSUME NEW x \in Execution, rows'[x].status = "queued"
      PROVE  \/ Tried(x)'
             \/ /\ rows[x].status = "queued"
                /\ \A v \in Worker : proc[v].pc = "claim" /\ proc[v].exec = x
                      => proc'[v].pc = "claim" /\ proc'[v].exec = x
  <2>1. CASE x # e
    BY <1>5, <2>1
  <2>2. CASE x = e
    BY <1>3, <1>5, <2>2
  <2> QED
    BY <2>1, <2>2
<1> QED
  BY <1>2, <1>4, <1>5, TriedKept

\* A step of the API is a fault or not.
LEMMA ServiceFaults ==
    ASSUME ServiceNext
    PROVE  UNCHANGED faults \/ \E kind \in Faults : Fault(kind)
<1>1. ASSUME NEW c \in Client, NEW k \in Key, NEW kind \in Kind, Ask(c, k, kind)
      PROVE  UNCHANGED faults
  BY <1>1 DEF Ask
<1>2. ASSUME NEW c \in Client, Find(c) \/ TryInsert(c) \/ Refind(c)
      PROVE  UNCHANGED faults
  BY <1>2 DEF Find, TryInsert, Refind
<1>3. ASSUME NEW c \in Client, RequestDatabaseFault(c) \/ RequestLost(c)
      PROVE  \E kind \in Faults : Fault(kind)
  BY <1>3 DEF RequestDatabaseFault, RequestLost, Fault
<1>4. ASSUME NEW e \in Execution, RequestCancel(e)
      PROVE  UNCHANGED faults
  BY <1>4 DEF RequestCancel
<1> QED
  BY <1>1, <1>2, <1>3, <1>4 DEF ServiceNext, Serve

\* A step of the API: a new execution has a job that was never delivered.
LEMMA ServiceTried ==
    ASSUME TypeOK, TypeOK', LeaseInv, TriedInv, ServiceNext, UNCHANGED proc
    PROVE  TriedInv'
<1> DEFINE Same == \A e \in Execution : /\ job'[e].attempts = job[e].attempts
                                        /\ rows[e].attempt <= rows'[e].attempt
           Queued == \A e \in Execution : rows'[e].status = "queued" =>
                        Tried(e)' \/ rows[e].status = "queued"
<1>1. /\ \A e \in Execution : rows[e].attempt \in Nat
      /\ rows \in [Execution -> Row] /\ job \in [Execution -> Job]
      /\ faults \in Nat /\ faults' \in Nat
  BY FaultAssumption DEF TypeOK, StoreTypeOK, QueueTypeOK, Row, EnvironmentTypeOK
<1>2. ASSUME NEW c \in Client, req[c].pc = "insert", CreateAndEnqueue(c)
      PROVE  Same /\ Queued
  <2>1. PICK e \in Execution : e = req[c].id
    BY <1>2, RequestFields DEF TypeOK
  <2>2. /\ \A x \in Execution \ {e} : rows'[x] = rows[x]
        /\ rows'[e].attempt = 0
    BY <1>1, <1>2, <2>1 DEF CreateAndEnqueue, Insert, Commit
  <2>3. /\ job[e].state = "absent" /\ job'[e].attempts = 0
        /\ \A x \in Execution \ {e} : job'[x] = job[x]
    BY <1>1, <1>2, <2>1 DEF CreateAndEnqueue, AddJob
  <2>4. job[e].attempts = 0
    BY <2>3 DEF LeaseInv
  <2>5. rows[e].attempt = 0
    <3>1. rows[e].attempt <= Cardinality(Spent(e))
      BY DEF LeaseInv
    <3>2. Cardinality(Spent(e)) \in 0 .. 0
      BY <2>4, SpentSize DEF TypeOK
    <3> QED
      BY <1>1, <3>1, <3>2
  <2>6. Tried(e)'
    <3>1. rows'[e].attempt \in Nat /\ job'[e].attempts <= rows'[e].attempt
      BY <2>2, <2>3
    <3>2. job'[e].attempts \in Nat
      BY <2>3
    <3> QED
      BY <1>1, <3>1, <3>2 DEF Tried
  <2> QED
    BY <1>1, <2>2, <2>3, <2>4, <2>5, <2>6
<1>3. ASSUME UNCHANGED <<rows, log, job>>
      PROVE  Same /\ Queued
  BY <1>1, <1>3
<1>4. ASSUME NEW e \in Execution, RequestCancel(e)
      PROVE  Same /\ Queued
  <2>1. Cancel(e) /\ UNCHANGED job
    BY <1>4 DEF RequestCancel
  <2>2. \A x \in Execution : /\ rows'[x].attempt = rows[x].attempt
                             /\ rows'[x].status = "queued" => rows[x].status = "queued"
    BY <1>1, <2>1 DEF Cancel, Commit, Row
  <2> QED
    BY <1>1, <2>1, <2>2
<1> HIDE DEF Same, Queued
<1>5. Same /\ Queued
  BY <1>2, <1>3, <1>4
     DEF ServiceNext, Ask, Serve, Find, TryInsert, Refind, RequestDatabaseFault,
         RequestLost, LostInsert
<1>6. faults <= faults'
  <2>1. \/ UNCHANGED faults
        \/ \E kind \in Faults : Fault(kind)
    BY ServiceFaults
  <2>2. UNCHANGED faults \/ faults' = faults + 1
    BY <2>1 DEF Fault
  <2> QED
    BY <1>1, <2>2
<1> QED
  BY <1>5, <1>6, TriedKept DEF Same, Queued

\* A fetch counts a delivery of a job that nobody has, and that is to claim.
LEMMA FetchTried ==
    ASSUME TypeOK, TypeOK', Alone, TriedInv, NEW w \in Worker, Fetch(w)
    PROVE  TriedInv'
<1>1. PICK e \in Execution :
         /\ FetchJob(e)
         /\ proc' = [proc EXCEPT ![w] = Delivered(e, job'[e].attempts)]
         /\ UNCHANGED <<rows, faults>>
  BY DEF Fetch
<1>2. /\ job[e].state = "ready" /\ job[e].attempts \in Nat
      /\ job'[e].attempts = job[e].attempts + 1
      /\ \A x \in Execution \ {e} : job'[x] = job[x]
  BY <1>1, MaxAttemptsAssumption DEF FetchJob, Fetchable, TypeOK, QueueTypeOK, Job
<1>3. /\ proc[w].pc = "idle" /\ proc'[w].pc = "claim" /\ proc'[w].exec = e
      /\ \A v \in Worker \ {w} : proc'[v] = proc[v]
  BY <1>1 DEF Fetch, TypeOK, ProcessorTypeOK, Delivered
<1>4. ASSUME NEW v \in Worker, proc[v].pc # "idle"
      PROVE  proc[v].exec # e
  <2>1. Locked(proc[v].exec, proc[v].lease)
    BY <1>4 DEF Alone
  <2> QED
    BY <1>2, <2>1 DEF Locked
<1>5. rows[e].attempt \in Nat /\ faults \in Nat
  BY FaultAssumption DEF TypeOK, StoreTypeOK, Row, EnvironmentTypeOK
<1>6. ASSUME NEW x \in Execution, rows'[x].status = "queued"
      PROVE  Tried(x)' \/ Due(x)'
  <2>1. CASE x = e
    <3>1. ~Due(e)
      BY <1>4 DEF Due
    <3>2. job[e].attempts <= rows[e].attempt + faults
      BY <1>1, <1>6, <2>1, <3>1 DEF TriedInv, Tried
    <3> QED
      BY <1>1, <1>2, <1>3, <1>5, <2>1, <3>2 DEF Due
  <2>2. CASE x # e
    <3>1. Tried(x) \/ Due(x)
      BY <1>1, <1>6 DEF TriedInv
    <3>2. Tried(x) => Tried(x)'
      BY <1>1, <1>2, <2>2 DEF Tried
    <3>3. ASSUME Due(x) PROVE Due(x)'
      <4>1. PICK v \in Worker : proc[v].pc = "claim" /\ proc[v].exec = x
        BY <3>3 DEF Due
      <4>2. proc'[v].pc = "claim" /\ proc'[v].exec = x
        BY <1>3, <4>1
      <4> QED
        BY <1>1, <1>2, <2>2, <3>3, <4>2 DEF Due
    <3> QED
      BY <3>1, <3>2, <3>3
  <2> QED
    BY <2>1, <2>2
<1>7. ASSUME NEW v \in Worker, NEW x \in Execution,
             proc'[v].pc \in Claimed, proc'[v].exec = x
      PROVE  Tried(x)'
  <2>1. v # w /\ proc[v].pc \in Claimed /\ proc[v].exec = x
    BY <1>3, <1>7 DEF Claimed
  <2>2. x # e
    BY <1>4, <2>1 DEF Claimed, Pc
  <2> QED
    BY <1>1, <1>2, <2>1, <2>2 DEF TriedInv, Tried
<1> QED
  BY <1>6, <1>7 DEF TriedInv

\* A step of the workers: a claim accounts for its delivery, and so does the fault
\* that keeps a delivery of a queued execution from its claim.
LEMMA ProcessorTried ==
    ASSUME TypeOK, TypeOK', Alone, TriedInv, ProcessorNext
    PROVE  TriedInv'
<1> DEFINE Others(w) == \A v \in Worker \ {w} : proc'[v] = proc[v]
           Jobs == \A x \in Execution : job'[x].attempts = job[x].attempts
           SameJob(w) == proc'[w].pc # "idle" => proc'[w].exec = proc[w].exec
           Rows(w) == /\ \A x \in Execution \ {proc[w].exec} : rows'[x] = rows[x]
                      /\ rows[proc[w].exec].attempt <= rows'[proc[w].exec].attempt
           Counts(w, e) == \/ proc[w].pc \in Claimed
                           \/ Tried(e)'
                           \/ /\ proc'[w].pc \notin Claimed
                              /\ rows'[e].status = "queued" =>
                                    /\ rows[e].status = "queued"
                                    /\ proc[w].pc = "claim" => proc'[w].pc = "claim"
<1> USE DEF TypeOK
<1>1. ASSUME NEW e \in Execution
      PROVE  /\ rows[e].attempt \in Nat /\ rows'[e].attempt \in Nat
             /\ faults \in Nat /\ faults' \in Nat /\ job[e].attempts \in Nat
  BY FaultAssumption, MaxAttemptsAssumption
     DEF StoreTypeOK, Row, EnvironmentTypeOK, QueueTypeOK, Job
<1>2. ASSUME NEW w \in Worker, NEW pc \in Pc, Goto(w, pc), proc[w] \in Busy
      PROVE  Others(w) /\ SameJob(w) /\ proc'[w].pc = pc
  BY <1>2 DEF Goto, ProcessorTypeOK, Busy
<1>3. ASSUME NEW w \in Worker, NEW retryable \in BOOLEAN, Catch(w, retryable),
             proc[w] \in Busy
      PROVE  Others(w) /\ SameJob(w)
  BY <1>3 DEF Catch, ProcessorTypeOK, Busy
<1>4. ASSUME NEW w \in Worker, proc[w] \in Busy, Write(w) \/ UNCHANGED rows
      PROVE  Rows(w)
  <2>1. proc[w].exec \in Execution
    BY <1>4, BusyFields
  <2>2. CASE Write(w)
    BY <1>1, <1>4, <2>1, <2>2, WriteEffect, WriteAttempts
  <2>3. CASE UNCHANGED rows
    BY <1>1, <2>1, <2>3
  <2> QED
    BY <1>4, <2>2, <2>3
<1>5. ASSUME UNCHANGED job PROVE Jobs
  BY <1>5
<1>6. ASSUME NEW w \in Worker, NEW e \in Execution, proc[w].exec = e, faults <= faults',
             Others(w), SameJob(w), Jobs, Rows(w), Counts(w, e)
      PROVE  TriedInv'
  BY <1>6, SlotTried
<1>7. UNCHANGED faults => faults <= faults'
  BY FaultAssumption DEF EnvironmentTypeOK
<1>8. ASSUME NEW w \in Worker, NEW e \in Execution, proc[w].exec = e,
             proc[w].pc \in Claimed
      PROVE  Counts(w, e)
  BY <1>8
<1> HIDE DEF Others, Jobs, SameJob, Rows, TypeOK
<1>9. ASSUME NEW w \in Worker, Claim(w)
      PROVE  TriedInv'
  <2>1. proc[w] \in Busy /\ Jobs /\ faults <= faults'
    BY <1>5, <1>7, <1>9, BusyType DEF Claim, TypeOK
  <2>2. PICK e \in Execution : proc[w].exec = e
    BY <2>1, BusyFields
  <2>3. PICK pc \in {"cancel", "check", "resolved"} : Goto(w, pc)
    BY <1>9 DEF Claim
  <2>4. Others(w) /\ SameJob(w) /\ proc'[w].pc = pc
    BY <1>2, <2>1, <2>3 DEF Pc
  <2>5. Rows(w)
    <3>1. Write(w) \/ UNCHANGED rows
      BY <1>9 DEF Claim, Write, storeVars
    <3> QED
      BY <1>4, <2>1, <3>1
  <2>6. Counts(w, e)
    <3>1. CASE MarkRunning(e, proc[w].lease)
      <4>1. rows[e].status = "queued" /\ rows'[e].attempt = rows[e].attempt + 1
        BY <3>1 DEF MarkRunning, Claimable, Commit, TypeOK, StoreTypeOK, Row
      <4>2. job[e].attempts <= rows[e].attempt + faults + 1
        BY <1>1, <4>1 DEF TriedInv, Tried, Due
      <4>3. faults' = faults /\ job'[e].attempts = job[e].attempts
        BY <1>9 DEF Claim
      <4> QED
        BY <1>1, <4>1, <4>2, <4>3 DEF Tried
    <3>2. CASE ~Claimable(e) /\ Goto(w, "resolved") /\ UNCHANGED storeVars
      <4>1. proc'[w].pc = "resolved"
        BY <1>2, <2>1, <3>2 DEF Pc
      <4> QED
        BY <3>2, <4>1 DEF Claimable, Claimed, storeVars
    <3> QED
      BY <1>9, <2>2, <3>1, <3>2 DEF Claim
  <2> QED
    BY <1>6, <2>1, <2>2, <2>4, <2>5, <2>6
<1>10. ASSUME NEW w \in Worker,
              \/ Check(w) \/ Recheck(w) \/ Caught(w)
              \/ HandlerReturns(w) \/ HandlerThrows(w)
              \/ Settle(w) \/ PutBack(w)
       PROVE  TriedInv'
  <2>1. proc[w] \in Busy /\ Jobs /\ faults <= faults' /\ proc[w].pc \in Claimed
    BY <1>5, <1>7, <1>10, BusyType
       DEF Check, Recheck, Caught, HandlerReturns, HandlerThrows, Settle, PutBack,
           TypeOK, Claimed, Pc
  <2>2. \/ \E pc \in Pc : Goto(w, pc)
        \/ \E retryable \in BOOLEAN : Catch(w, retryable)
    BY <1>10
       DEF Check, Recheck, Caught, HandlerReturns, HandlerThrows, Settle, PutBack, Pc
  <2>3. Others(w) /\ SameJob(w)
    BY <1>2, <1>3, <2>1, <2>2
  <2>4. Rows(w)
    <3>1. Write(w) \/ UNCHANGED rows
      BY <1>10 DEF Check, Recheck, Caught, HandlerReturns, HandlerThrows, Settle,
                   PutBack, storeVars
    <3> QED
      BY <1>4, <2>1, <3>1
  <2> QED
    BY <1>6, <1>8, <2>1, <2>3, <2>4, BusyFields
<1>11. ASSUME NEW w \in Worker, Report(w)
       PROVE  TriedInv'
  <2>1. proc[w] \in Busy /\ Jobs /\ faults <= faults' /\ proc[w].pc \in Claimed
    BY <1>5, <1>7, <1>11, BusyType DEF Report, TypeOK, Claimed, Pc
  <2>2. UNCHANGED rows
    BY <1>11, <2>1, BusyFields
       DEF Report, UpdateProgress, Commit, storeVars, TypeOK, StoreTypeOK
  <2>3. Others(w) /\ SameJob(w)
    <3>1. CASE Catch(w, TRUE)
      BY <1>3, <2>1, <3>1
    <3>2. CASE proc' = [proc EXCEPT ![w].reports = @ + 1]
      BY <2>1, <3>2 DEF Others, SameJob, TypeOK, ProcessorTypeOK, Busy
    <3> QED
      BY <1>11, <3>1, <3>2 DEF Report
  <2> QED
    BY <1>4, <1>6, <1>8, <2>1, <2>2, <2>3, BusyFields
<1>12. ASSUME NEW w \in Worker, SettleJob(w)
       PROVE  TriedInv'
  <2>1. /\ proc[w] \in Busy /\ faults <= faults' /\ UNCHANGED rows
        /\ proc[w].pc # "claim" /\ proc'[w].pc = "idle" /\ Others(w)
    BY <1>7, <1>12, BusyType
       DEF SettleJob, Idle, Others, TypeOK, ProcessorTypeOK
  <2>2. Jobs
    BY <1>12 DEF SettleJob, CompleteJob, FailJob, Jobs, TypeOK, QueueTypeOK, Job
  <2>3. PICK e \in Execution : proc[w].exec = e
    BY <2>1, BusyFields
  <2>4. SameJob(w) /\ Counts(w, e)
    BY <2>1 DEF SameJob, Claimed, Pc
  <2> QED
    BY <1>4, <1>6, <2>1, <2>2, <2>3, <2>4
<1>13. ASSUME NEW w \in Worker, NEW e \in Execution, proc[w].exec = e,
              proc[w] \in Busy, faults' = faults + 1, UNCHANGED job, Rows(w),
              rows'[e].status = "queued" => rows[e].status = "queued",
              proc[w].pc = "claim"
       PROVE  Tried(e)' \/ rows'[e].status # "queued"
  <2>1. rows[e].attempt <= rows'[e].attempt
    BY <1>13 DEF Rows
  <2>2. rows[e].status = "queued" => job[e].attempts <= rows[e].attempt + faults + 1
    BY <1>1 DEF TriedInv, Tried, Due
  <2> QED
    BY <1>1, <1>13, <2>1, <2>2 DEF Tried
<1>14. ASSUME NEW w \in Worker, Crash(w)
       PROVE  TriedInv'
  <2>1. /\ proc[w] \in Busy /\ UNCHANGED <<rows, job>> /\ faults' = faults + 1
        /\ proc'[w].pc = "idle" /\ Others(w) /\ SameJob(w)
    BY <1>14, BusyType
       DEF Crash, Fault, Idle, Others, SameJob, TypeOK, ProcessorTypeOK
  <2>2. PICK e \in Execution : proc[w].exec = e
    BY <2>1, BusyFields
  <2>3. Rows(w) /\ Jobs /\ faults <= faults'
    BY <1>1, <1>4, <1>5, <2>1, <2>2
  <2>4. Counts(w, e)
    <3>1. CASE proc[w].pc = "claim"
      <4>1. Tried(e)' \/ rows'[e].status # "queued"
        BY <1>13, <2>1, <2>2, <2>3, <3>1
      <4> QED
        BY <2>1, <4>1 DEF Claimed, Pc
    <3>2. CASE proc[w].pc # "claim"
      BY <2>1, <3>2 DEF Claimed, Pc
    <3> QED
      BY <3>1, <3>2
  <2> QED
    BY <1>6, <2>1, <2>2, <2>3, <2>4
<1>15. ASSUME NEW w \in Worker, Poll(w) \/ Shutdown(w)
       PROVE  TriedInv'
  <2>1. proc[w] \in Busy /\ UNCHANGED <<rows, job>> /\ faults <= faults'
    <3>1. proc[w] \in Busy
      BY <1>15, BusyType DEF Poll, Shutdown, Monitored, TypeOK
    <3>2. faults <= faults'
      BY <1>1, <1>7, <1>15, <3>1, BusyFields DEF Poll, Shutdown, Fault
    <3> QED
      BY <1>15, <3>1, <3>2 DEF Poll, Shutdown
  <2>2. Others(w) /\ SameJob(w) /\ proc'[w].pc = proc[w].pc
    BY <1>15, <2>1 DEF Poll, Shutdown, Others, SameJob, TypeOK, ProcessorTypeOK, Busy
  <2>3. PICK e \in Execution : proc[w].exec = e
    BY <2>1, BusyFields
  <2>4. Counts(w, e)
    BY <2>1, <2>2
  <2> QED
    BY <1>4, <1>5, <1>6, <2>1, <2>2, <2>3, <2>4
<1>16. ASSUME NEW w \in Worker, DatabaseFault(w)
       PROVE  TriedInv'
  <2>1. /\ proc[w] \in Busy /\ UNCHANGED job /\ faults' = faults + 1
        /\ proc[w].pc \in {"claim"} \cup Claimed /\ (Write(w) \/ UNCHANGED rows)
    BY <1>16, BusyType DEF DatabaseFault, Fault, TypeOK, Busy, Claimed, storeVars
  <2>2. PICK e \in Execution : proc[w].exec = e
    BY <2>1, BusyFields
  <2>3. Rows(w) /\ Jobs /\ faults <= faults'
    BY <1>1, <1>4, <1>5, <2>1, <2>2
  <2>4. Others(w) /\ SameJob(w)
    <3>1. Goto(w, "rejected") \/ Catch(w, TRUE)
      BY <1>16 DEF DatabaseFault
    <3> QED
      BY <1>2, <1>3, <2>1, <3>1 DEF Pc
  <2>5. Counts(w, e)
    <3>1. CASE proc[w].pc = "claim"
      <4>1. proc'[w].pc = "rejected"
        <5>1. Goto(w, "rejected")
          BY <1>16, <3>1 DEF DatabaseFault
        <5> QED
          BY <1>2, <2>1, <5>1 DEF Pc
      <4>2. rows'[e].status = "queued" => rows[e].status = "queued"
        BY <2>1, <2>2, <3>1, WriteEffect DEF TypeOK
      <4>3. Tried(e)' \/ rows'[e].status # "queued"
        BY <1>13, <2>1, <2>2, <2>3, <3>1, <4>2
      <4> QED
        BY <4>1, <4>3 DEF Claimed
    <3>2. CASE proc[w].pc # "claim"
      BY <2>1, <3>2
    <3> QED
      BY <3>1, <3>2
  <2> QED
    BY <1>6, <2>2, <2>3, <2>4, <2>5
<1>17. ASSUME NEW x \in Execution, Release(x)
       PROVE  TriedInv'
  <2>1. Jobs /\ UNCHANGED <<rows, proc>>
    BY <1>17 DEF Release, ReleaseJob, Jobs, TypeOK, QueueTypeOK, Job
  <2>2. faults <= faults'
    BY <1>1, <1>7, <1>17 DEF Release, Fault
  <2>3. \A y \in Execution : rows[y].attempt <= rows'[y].attempt
    BY <1>1, <2>1
  <2> QED
    BY <2>1, <2>2, <2>3, TriedKept DEF Jobs
<1> QED
  BY <1>9, <1>10, <1>11, <1>12, <1>14, <1>15, <1>16, <1>17, FetchTried
     DEF ProcessorNext, Work

\* A queued execution has a job that is to be fetched, locked, or exhausted by as many
\* attempts and faults as it had deliveries, through crashes, retries and lost
\* answers, unless a lock is freed while its worker still runs: the retry of that
\* worker would put back an execution whose job another delivery has deleted.
THEOREM QueuedHasDelivery ==
    ASSUME "overrun" \notin Faults
    PROVE  Spec => []QueuedIsDispatched
<1>1. Init => TriedInv
  <2>1. Init => \A e \in Execution : rows[e].status = "absent"
    BY DEF Init, StoreInit, AbsentRow
  <2>2. Init => \A w \in Worker : proc[w].pc = "idle"
    BY DEF Init, ProcessorInit, Idle
  <2> QED
    BY <2>1, <2>2 DEF TriedInv, Claimed, Pc
<1>2. /\ TypeOK /\ TypeOK' /\ AttemptsInv /\ DispatchInv /\ TriedInv /\ [Next]_vars
      => TriedInv'
  <2> SUFFICES ASSUME TypeOK, TypeOK', AttemptsInv, DispatchInv, TriedInv, [Next]_vars
               PROVE  TriedInv'
    OBVIOUS
  <2>1. CASE ServiceNext /\ UNCHANGED proc
    BY <2>1, ServiceTried DEF AttemptsInv
  <2>2. CASE ProcessorNext
    BY <2>2, ProcessorTried DEF DispatchInv
  <2>3. CASE UNCHANGED vars
    BY <2>3 DEF vars, TriedInv, Tried, Due
  <2> QED
    BY <2>1, <2>2, <2>3 DEF Next
<1>3. ASSUME TypeOK, DispatchInv, TriedInv
      PROVE  QueuedIsDispatched
  <2> SUFFICES ASSUME NEW e \in Execution, rows[e].status = "queued",
                      ~Fetchable(e), job[e].state # "locked"
               PROVE  GivenUp(e)
    BY DEF QueuedIsDispatched
  <2>1. Exhausted(e)
    <3>1. job[e].attempts \in 0 .. MaxAttempts /\ job[e].state = "ready"
      BY <1>3 DEF TypeOK, QueueTypeOK, Job, DispatchInv, JobIsKept
    <3> QED
      BY <3>1, MaxAttemptsAssumption DEF Fetchable, Exhausted
  <2>2. ASSUME NEW w \in Worker, proc[w].pc = "claim"
        PROVE  proc[w].exec # e
    <3>1. Locked(proc[w].exec, proc[w].lease)
      BY <1>3, <2>2 DEF DispatchInv, Alone
    <3>2. job[e].state = "ready"
      BY <2>1 DEF Exhausted
    <3> QED
      BY <3>1, <3>2 DEF Locked
  <2>3. Tried(e)
    <3>1. Tried(e) \/ Due(e)
      BY <1>3 DEF TriedInv
    <3> QED
      BY <2>2, <3>1 DEF Due
  <2>4. rows[e].attempt \in Nat /\ faults \in Nat /\ MaxAttempts \in Nat
    BY <1>3, FaultAssumption, MaxAttemptsAssumption
       DEF TypeOK, StoreTypeOK, Row, EnvironmentTypeOK
  <2> QED
    BY <2>1, <2>3, <2>4 DEF Tried, Exhausted, GivenUp
<1> QED
  BY <1>1, <1>2, <1>3, TypeCorrect, AttemptsStay, QueuesStay, PTL DEF Spec
=============================================================================
