----------------------------- MODULE EventStream ------------------------------
(***************************************************************************)
(* GET /v1/executions/:id/events: one server-sent event stream for each    *)
(* connection of a reader, which polls the database for what follows the   *)
(* last event it wrote.  The executions are those of ExecutionContract,    *)
(* which the runtime implements.  A poll makes two calls, the events and   *)
(* then the status, and the execution goes on between them.                *)
(*                                                                         *)
(* A reader whose stream ended or was cut opens the next one: with         *)
(* ?after=<sequence> of the last event it holds or, as a browser's         *)
(* EventSource does, with the id of that event in Last-Event-ID.           *)
(***************************************************************************)
EXTENDS Naturals, Sequences, ExecutionDomain, Environment

CONSTANTS Reader,
          ByHeader,   \* the readers that resume by Last-Event-ID
          MaxEvents,  \* bound on the events of an execution
          MaxOpens    \* bound on the connections a reader opens

ASSUME StreamAssumption == /\ ByHeader \subseteq Reader
                           /\ MaxEvents \in Nat
                           /\ MaxOpens \in Nat

VARIABLES status, history,  \* what the database says of the executions
          conn,             \* the connection of each reader
          held              \* the sequence numbers it received, over all connections

vars == <<status, history, conn, held, faults>>

Executions == INSTANCE ExecutionContract

(***************************************************************************)
(* closed    no connection                                                 *)
(* events    awaiting listEvents(last)                                     *)
(* status    awaiting the status                                           *)
(* waiting   for the tick of the interval                                  *)
(* ended     the server ended the response                                 *)
(***************************************************************************)
Conn == [pc      : {"closed", "events", "status", "waiting", "ended"},
         exec    : Execution,
         last    : Nat,        \* lastSequence
         drained : BOOLEAN,    \* events.length === 0
         opens   : 0 .. MaxOpens]

TypeOK == /\ status \in [Execution -> ExecutionStatus \cup {"absent"}]
          /\ history \in [Execution -> Seq(Event)]
          /\ \A e \in Execution : Len(history[e]) <= MaxEvents
          /\ conn \in [Reader -> Conn]
          /\ held \in [Reader -> Seq(1 .. MaxEvents)]
          /\ EnvironmentTypeOK

Init == /\ Executions!Init
        /\ conn \in [Reader -> [pc : {"closed"}, exec : Execution, last : {0},
                                drained : {FALSE}, opens : {0}]]
        /\ held = [r \in Reader |-> <<>>]
        /\ EnvironmentInit

Log(r) == history[conn[r].exec]

Terminal(r) == status[conn[r].exec] \in TerminalStatus

\* Regression: one event more than there is.
NumbersPast(a, b) == [i \in 1 .. b - a + 1 |-> a + i]

\* The sequence numbers after a, up to b.
Numbers(a, b) == [i \in 1 .. b - a |-> a + i]

Latest(r) == IF held[r] = <<>> THEN 0 ELSE held[r][Len(held[r])]

\* Regression: a stream starts with what happens next.
CursorAtEnd(r) == Len(Log(r))

\* Number(after ?? Last-Event-ID ?? 0), NaN taken as 0: the id of an event is
\* '<execution>:<sequence>', which is no number.
Cursor(r) == IF r \in ByHeader THEN 0 ELSE Latest(r)

-----------------------------------------------------------------------------

\* 404 for an execution that has no row; the first poll starts at once.
Open(r) ==
    /\ conn[r].pc \in {"closed", "ended"}
    /\ conn[r].opens < MaxOpens
    /\ status[conn[r].exec] # "absent"
    /\ conn' = [conn EXCEPT ![r] = [@ EXCEPT !.pc = "events", !.last = Cursor(r),
                                             !.opens = conn[r].opens + 1]]
    /\ UNCHANGED <<status, history, held, faults>>

Tick(r) == /\ conn[r].pc = "waiting"
           /\ conn' = [conn EXCEPT ![r].pc = "events"]
           /\ UNCHANGED <<status, history, held, faults>>

\* Regression: WHERE sequence >= $2.
ReadInclusive(r) ==
    LET last == IF conn[r].last = 0 THEN 0 ELSE conn[r].last - 1
    IN  /\ conn[r].pc = "events"
        /\ held' = [held EXCEPT ![r] = @ \o Numbers(last, Len(Log(r)))]
        /\ conn' = [conn EXCEPT ![r] = [@ EXCEPT !.pc = "status", !.last = Len(Log(r)),
                                                 !.drained = last >= Len(Log(r))]]
        /\ UNCHANGED <<status, history, faults>>

\* listEvents: WHERE sequence > last ORDER BY sequence; all of it is written.
Read(r) ==
    /\ conn[r].pc = "events"
    /\ held' = [held EXCEPT ![r] = @ \o Numbers(conn[r].last, Len(Log(r)))]
    /\ conn' = [conn EXCEPT ![r] =
                  [@ EXCEPT !.pc = "status",
                            !.drained = conn[r].last >= Len(Log(r)),
                            !.last = IF conn[r].last < Len(Log(r)) THEN Len(Log(r))
                                                                   ELSE conn[r].last]]
    /\ UNCHANGED <<status, history, faults>>

\* Regression: the stream ends as soon as there is nothing more to write.
AskNothing(r) ==
    /\ conn[r].pc = "status"
    /\ conn' = [conn EXCEPT ![r].pc = IF conn[r].drained THEN "ended" ELSE "waiting"]
    /\ UNCHANGED <<status, history, held, faults>>

\* Regression: the stream ends only after a batch of events.
AskAfterEvents(r) ==
    /\ conn[r].pc = "status"
    /\ conn' = [conn EXCEPT ![r].pc = IF Terminal(r) /\ ~conn[r].drained
                                      THEN "ended" ELSE "waiting"]
    /\ UNCHANGED <<status, history, held, faults>>

\* Regression: the cursor is moved to the row's next_event_sequence.
AskAndCatchUp(r) ==
    /\ conn[r].pc = "status"
    /\ conn' = [conn EXCEPT ![r] =
                  [@ EXCEPT !.pc = IF Terminal(r) /\ conn[r].drained
                                   THEN "ended" ELSE "waiting",
                            !.last = Len(Log(r))]]
    /\ UNCHANGED <<status, history, held, faults>>

\* The status; response.end() if it is terminal and the poll read no event.
Ask(r) ==
    /\ conn[r].pc = "status"
    /\ conn' = [conn EXCEPT ![r].pc = IF Terminal(r) /\ conn[r].drained
                                      THEN "ended" ELSE "waiting"]
    /\ UNCHANGED <<status, history, held, faults>>

\* A call of the poll throws: response.destroy().
PollFails(r) ==
    /\ conn[r].pc \in {"events", "status"}
    /\ Fault("database")
    /\ conn' = [conn EXCEPT ![r].pc = "closed"]
    /\ UNCHANGED <<status, history, held>>

\* The connection is cut, perhaps in the middle of what was being written.
Cut(r) ==
    /\ conn[r].pc \in {"events", "status", "waiting"}
    /\ Fault("network")
    /\ \/ UNCHANGED held
       \/ \E n \in 1 .. Len(Log(r)) :
             /\ conn[r].pc = "events"
             /\ held' = [held EXCEPT ![r] = @ \o Numbers(conn[r].last, n)]
    /\ conn' = [conn EXCEPT ![r].pc = "closed"]
    /\ UNCHANGED <<status, history>>

\* The execution goes on.
Execute == /\ Executions!Next
           /\ \A e \in Execution : Len(history'[e]) <= MaxEvents
           /\ UNCHANGED <<conn, held, faults>>

Serve(r) == Tick(r) \/ Read(r) \/ Ask(r)

Next == \/ Execute
        \/ \E r \in Reader : Open(r) \/ Serve(r) \/ PollFails(r) \/ Cut(r)

Spec == Init /\ [][Next]_vars

(***************************************************************************)
(* Fairness.  The interval ticks and the database answers; a reader opens  *)
(* a stream again when it is left without one.                             *)
(***************************************************************************)
FairSpec == Spec /\ \A r \in Reader : WF_vars(Serve(r)) /\ WF_vars(Open(r))

-----------------------------------------------------------------------------

\* No event reaches a reader before all those that precede it in the log, in
\* whatever pieces and over however many connections it is read.
NothingSkipped ==
    \A r \in Reader : \A i \in 1 .. Len(held[r]) :
        \A n \in 1 .. held[r][i] - 1 : \E j \in 1 .. i - 1 : held[r][j] = n

ToldOnce(r) == \A i, j \in 1 .. Len(held[r]) : held[r][i] = held[r][j] => i = j

\* A reader that resumes by ?after holds no event twice (that none is missing in the
\* end is ToldInTheEnd).
NothingTwice == \A r \in Reader \ ByHeader : ToldOnce(r)

\* The server ends a stream only when the execution is over.
EndsAreTerminal == \A r \in Reader : conn[r].pc = "ended" => Terminal(r)

\* The stream of an execution that is over does not stay open.
StreamsEnd ==
    \A r \in Reader : (conn[r].pc = "waiting" /\ Terminal(r))
                      ~> conn[r].pc \in {"ended", "closed"}

HoldsAll(r) == \A n \in 1 .. Len(Log(r)) : \E i \in 1 .. Len(held[r]) : held[r][i] = n

\* A reader that keeps coming back is told the whole log of an execution that is
\* over, although a stream may end or be cut before its last event.
ToldInTheEnd ==
    \A r \in Reader : Terminal(r) ~> HoldsAll(r)

-----------------------------------------------------------------------------
\* What the documents and the scripts of the repository say and the code does not do.

\* verify-ivory-runtime.mjs: a stream read to its end holds the terminal event.
EndedIsTold == \A r \in Reader : conn[r].pc = "ended" => HoldsAll(r)

\* ADR-002: "Client reconnects through status and Last-Event-ID", to a stream that
\* replays by sequence: what the header names is not told again.
HeaderResumes == \A r \in Reader : ToldOnce(r)
=============================================================================
