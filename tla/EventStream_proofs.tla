-------------------------- MODULE EventStream_proofs --------------------------
(***************************************************************************)
(* What a reader of the event stream holds, for any number of readers,     *)
(* executions, events and connections.                                     *)
(***************************************************************************)
EXTENDS EventStream, Integers, SequenceTheorems, TLAPS

\* A step of the contract keeps the types, and an execution that is over is over.
LEMMA ContractStep ==
    ASSUME status \in [Execution -> ExecutionStatus \cup {"absent"}],
           history \in [Execution -> Seq(Event)],
           Executions!Next
    PROVE  /\ status' \in [Execution -> ExecutionStatus \cup {"absent"}]
           /\ history' \in [Execution -> Seq(Event)]
           /\ \A e \in Execution : status[e] \in TerminalStatus => status'[e] = status[e]
<1>1. PICK e \in Execution :
         \/ Executions!Accept(e)  \/ Executions!Start(e)   \/ Executions!Progress(e)
         \/ Executions!Requeue(e) \/ Executions!Succeed(e) \/ Executions!Fail(e)
         \/ Executions!AskToCancel(e) \/ Executions!CancelNow(e)
  BY DEF Executions!Next
<1>2. \A event \in Event : Append(history[e], event) \in Seq(Event)
  OBVIOUS
<1>3. history[e] \in Seq(Event)
  OBVIOUS
<1> USE DEF Executions!Move, Executions!Tell, ExecutionStatus, TerminalStatus, Event
<1>4. CASE Executions!Accept(e)
  BY <1>2, <1>4 DEF Executions!Accept
<1>5. CASE Executions!Start(e)
  BY <1>2, <1>5 DEF Executions!Start
<1>6. CASE Executions!Progress(e)
  BY <1>2, <1>6 DEF Executions!Progress
<1>7. CASE Executions!Requeue(e)
  <2>1. Append(Append(history[e], "error"), "queued") \in Seq(Event)
    BY <1>2, <1>3
  <2> QED BY <1>7, <2>1 DEF Executions!Requeue
<1>8. CASE Executions!Succeed(e)
  BY <1>2, <1>8 DEF Executions!Succeed
<1>9. CASE Executions!Fail(e)
  BY <1>2, <1>9 DEF Executions!Fail
<1>10. CASE Executions!AskToCancel(e)
  BY <1>2, <1>10 DEF Executions!AskToCancel
<1>11. CASE Executions!CancelNow(e)
  BY <1>2, <1>11 DEF Executions!CancelNow
<1> QED BY <1>1, <1>4, <1>5, <1>6, <1>7, <1>8, <1>9, <1>10, <1>11

\* What listEvents returns: the numbers after a up to b, none if there are none.
LEMMA NumbersIs ==
    ASSUME NEW a \in Nat, NEW b \in Nat
    PROVE  /\ Numbers(a, b) \in Seq(Nat)
           /\ a < b => Len(Numbers(a, b)) = b - a
           /\ b <= a => Len(Numbers(a, b)) = 0
           /\ \A i \in 1 .. Len(Numbers(a, b)) : Numbers(a, b)[i] = a + i
<1>1. CASE a < b
  BY <1>1 DEF Numbers
<1>2. CASE ~(a < b)
  <2>1. 1 .. b - a = {}
    BY <1>2
  <2>2. Numbers(a, b) = <<>>
    BY <2>1 DEF Numbers
  <2> QED BY <1>2, <2>2
<1> QED BY <1>1, <1>2

\* The sequence g is h and, after it, the numbers after a up to b.
IsJoined(g, h, a, b) ==
    /\ g \in Seq(Nat)
    /\ Len(h) \in Nat /\ Len(g) \in Nat /\ Len(h) <= Len(g)
    /\ a < b => Len(g) = Len(h) + (b - a)
    /\ b <= a => Len(g) = Len(h)
    /\ \A i \in 1 .. Len(h) : g[i] = h[i]
    /\ \A i \in Len(h) + 1 .. Len(g) : g[i] = a + (i - Len(h))

LEMMA Joined ==
    ASSUME NEW h \in Seq(Nat), NEW a \in Nat, NEW b \in Nat
    PROVE  IsJoined(h \o Numbers(a, b), h, a, b)
<1>1. PICK n \in Seq(Nat) :
         /\ n = Numbers(a, b)
         /\ a < b => Len(n) = b - a
         /\ b <= a => Len(n) = 0
         /\ \A i \in 1 .. Len(n) : n[i] = a + i
  BY NumbersIs
<1> DEFINE g == h \o n
<1>2. /\ g \in Seq(Nat)
      /\ Len(h) \in Nat /\ Len(n) \in Nat
      /\ Len(g) = Len(h) + Len(n)
      /\ \A i \in 1 .. Len(h) : g[i] = h[i]
      /\ \A i \in Len(h) + 1 .. Len(g) : g[i] = n[i - Len(h)]
  OBVIOUS
<1> HIDE DEF g
<1>3. ASSUME NEW i \in Len(h) + 1 .. Len(g)
      PROVE  g[i] = a + (i - Len(h))
  <2>1. i - Len(h) \in 1 .. Len(n)
    BY <1>2
  <2>2. n[i - Len(h)] = a + (i - Len(h))
    BY <1>1, <2>1
  <2> QED BY <1>2, <2>2
<1>4. Len(g) \in Nat /\ Len(h) <= Len(g)
  BY <1>2
<1>5. a < b => Len(g) = Len(h) + (b - a)
  <2>1. ASSUME NEW l \in Nat, NEW m \in Nat, NEW k \in Nat, l = m + k,
               a < b => k = b - a
        PROVE  a < b => l = m + (b - a)
    BY <2>1
  <2> QED BY <1>1, <1>2, <1>4, <2>1, Zenon
<1>6. b <= a => Len(g) = Len(h)
  <2>1. ASSUME NEW l \in Nat, NEW m \in Nat, NEW k \in Nat, l = m + k,
               b <= a => k = 0
        PROVE  b <= a => l = m
    BY <2>1
  <2> QED BY <1>1, <1>2, <1>4, <2>1, Zenon
<1>7. IsJoined(g, h, a, b)
  BY <1>2, <1>3, <1>4, <1>5, <1>6, Zenon DEF IsJoined
<1> QED BY <1>1, <1>7, Zenon DEF g

-----------------------------------------------------------------------------
\* What a sequence of received numbers is: without gaps, and the first ones in order.

Gapless(h) == \A i \in 1 .. Len(h) : \A n \in 1 .. h[i] - 1 :
                 \E j \in 1 .. i - 1 : h[j] = n

Covers(h, last) == \A n \in 1 .. last : \E j \in 1 .. Len(h) : h[j] = n

InOrder(h) == \A i \in 1 .. Len(h) : h[i] = i

\* Reading on after the last of what is covered leaves no gap.
LEMMA JoinedGapless ==
    ASSUME NEW h \in Seq(Nat), NEW a \in Nat, NEW b \in Nat, Gapless(h), Covers(h, a),
           NEW g, IsJoined(g, h, a, b)
    PROVE  Gapless(g) /\ Covers(g, a) /\ Covers(g, b)
<1>1. PICK m \in Nat, l \in Nat :
         /\ m = Len(h) /\ l = Len(g) /\ m <= l
         /\ a < b => l = m + (b - a)
         /\ b <= a => l = m
         /\ \A i \in 1 .. m : g[i] = h[i]
         /\ \A i \in m + 1 .. l : g[i] = a + (i - m)
  BY DEF IsJoined
<1>2. \A i \in 1 .. m : h[i] \in Nat
  BY <1>1
<1>3. ASSUME NEW n \in 1 .. a
      PROVE  \E j \in 1 .. m : g[j] = n
  <2>1. PICK j \in 1 .. m : h[j] = n
    BY <1>1 DEF Covers
  <2> QED BY <1>1, <2>1
<1>4. ASSUME NEW n \in Nat, a < n, n <= a + (l - m)
      PROVE  /\ m + (n - a) \in m + 1 .. l
             /\ g[m + (n - a)] = n
  <2>1. PICK i \in Int : i = m + (n - a)
    OBVIOUS
  <2>2. i \in m + 1 .. l /\ a + (i - m) = n
    BY <1>4, <2>1
  <2>3. g[i] = n
    BY <1>1, <2>2
  <2> QED BY <2>1, <2>2, <2>3
<1>5. ASSUME NEW i \in 1 .. l, NEW n \in 1 .. g[i] - 1
      PROVE  \E j \in 1 .. i - 1 : g[j] = n
  <2>1. CASE i \in 1 .. m
    <3>1. n \in 1 .. h[i] - 1
      BY <1>1, <2>1
    <3>2. PICK j \in 1 .. i - 1 : h[j] = n
      BY <1>1, <2>1, <3>1 DEF Gapless
    <3>3. j \in 1 .. m
      BY <2>1
    <3> QED BY <1>1, <3>2, <3>3
  <2>2. CASE i \in m + 1 .. l /\ n <= a
    <3>1. PICK j \in 1 .. m : g[j] = n
      BY <1>3, <2>2
    <3> QED BY <2>2, <3>1
  <2>3. CASE i \in m + 1 .. l /\ a < n
    <3>1. g[i] = a + (i - m)
      BY <1>1, <2>3
    <3>2. n \in Nat /\ n < a + (i - m) /\ n <= a + (l - m)
      BY <2>3, <3>1
    <3>3. g[m + (n - a)] = n
      BY <1>4, <2>3, <3>2
    <3>4. m + (n - a) \in 1 .. i - 1
      BY <2>3, <3>2
    <3> QED BY <3>3, <3>4
  <2> QED BY <2>1, <2>2, <2>3
<1>6. ASSUME NEW n \in 1 .. b
      PROVE  \E j \in 1 .. l : g[j] = n
  <2>1. CASE n <= a
    <3>1. PICK j \in 1 .. m : g[j] = n
      BY <1>3, <2>1
    <3> QED BY <1>1, <3>1
  <2>2. CASE a < n
    <3>1. n <= a + (l - m)
      BY <1>1, <2>2
    <3>2. m + (n - a) \in m + 1 .. l /\ g[m + (n - a)] = n
      BY <1>4, <2>2, <3>1
    <3>3. m + (n - a) \in 1 .. l
      BY <3>2
    <3> QED BY <3>2, <3>3
  <2> QED BY <2>1, <2>2
<1>7. Gapless(g)
  BY <1>1, <1>5 DEF Gapless
<1>8. Covers(g, a)
  <2>1. ASSUME NEW n \in 1 .. a
        PROVE  \E j \in 1 .. l : g[j] = n
    <3>1. PICK j \in 1 .. m : g[j] = n
      BY <1>3
    <3> QED BY <1>1, <3>1
  <2> QED BY <1>1, <2>1 DEF Covers
<1>9. Covers(g, b)
  BY <1>1, <1>6 DEF Covers
<1> QED BY <1>7, <1>8, <1>9

\* Reading on after the last of the first ones gives the first ones.
LEMMA JoinedInOrder ==
    ASSUME NEW h \in Seq(Nat), NEW b \in Nat, InOrder(h),
           NEW g, IsJoined(g, h, Len(h), b)
    PROVE  /\ InOrder(g)
           /\ Len(h) < b => Len(g) = b
           /\ b <= Len(h) => Len(g) = Len(h)
<1>1. PICK m \in Nat, l \in Nat :
         /\ m = Len(h) /\ l = Len(g) /\ m <= l
         /\ m < b => l = m + (b - m)
         /\ b <= m => l = m
         /\ \A i \in 1 .. m : g[i] = h[i]
         /\ \A i \in m + 1 .. l : g[i] = m + (i - m)
  BY DEF IsJoined
<1>2. \A i \in 1 .. m : g[i] = i
  BY <1>1 DEF InOrder
<1>3. \A i \in m + 1 .. l : g[i] = i
  BY <1>1
<1>4. \A i \in 1 .. l : i \in 1 .. m \/ i \in m + 1 .. l
  BY <1>1
<1>5. \A i \in 1 .. l : g[i] = i
  BY <1>2, <1>3, <1>4, Zenon
<1>6. InOrder(g)
  BY <1>1, <1>5 DEF InOrder
<1>7. m < b => l = b
  BY <1>1
<1> QED BY <1>1, <1>6, <1>7

-----------------------------------------------------------------------------
\* The inductive invariant.  While a stream is open every number up to lastSequence
\* was received; a reader that resumes by ?after received exactly those, in order.

Connected(c) == c.pc \in {"events", "status", "waiting"}

Followed(h, c) == Gapless(h) /\ (Connected(c) => Covers(h, c.last))

Counted(h, c) == InOrder(h) /\ (Connected(c) => c.last = Len(h))

StreamTypes == /\ status \in [Execution -> ExecutionStatus \cup {"absent"}]
               /\ history \in [Execution -> Seq(Event)]
               /\ conn \in [Reader -> Conn]
               /\ held \in [Reader -> Seq(Nat)]

StreamInv == /\ StreamTypes
             /\ \A r \in Reader : Followed(held[r], conn[r])
             /\ \A r \in Reader \ ByHeader : Counted(held[r], conn[r])
             /\ EndsAreTerminal

LEMMA StreamInit == Init => StreamInv
<1> SUFFICES ASSUME Init PROVE StreamInv
  OBVIOUS
<1> USE DEF Init
<1>1. MaxOpens \in Nat
  BY StreamAssumption DEF StreamAssumption
<1>2. /\ status \in [Execution -> ExecutionStatus \cup {"absent"}]
      /\ history \in [Execution -> Seq(Event)]
  BY DEF Executions!Init
<1>3. ASSUME NEW r \in Reader
      PROVE  conn[r] \in Conn /\ conn[r].pc = "closed" /\ held[r] = <<>>
  <2>1. conn[r] \in [pc : {"closed"}, exec : Execution, last : {0},
                     drained : {FALSE}, opens : {0}]
    OBVIOUS
  <2>2. ASSUME NEW c \in [pc : {"closed"}, exec : Execution, last : {0},
                          drained : {FALSE}, opens : {0}]
        PROVE  c \in Conn /\ c.pc = "closed"
    <3>1. /\ c = [pc |-> c.pc, exec |-> c.exec, last |-> c.last,
                  drained |-> c.drained, opens |-> c.opens]
          /\ c.pc = "closed" /\ c.exec \in Execution /\ c.last = 0 /\ c.opens = 0
      OBVIOUS
    <3>2. c.drained \in BOOLEAN
      BY Zenon
    <3>3. c.last \in Nat /\ c.opens \in 0 .. MaxOpens
      BY <1>1, <3>1
    <3> QED BY <3>1, <3>2, <3>3, Zenon DEF Conn
  <2> QED BY <2>1, <2>2
<1>4. conn \in [Reader -> Conn] /\ held \in [Reader -> Seq(Nat)]
  BY <1>3
<1> QED
  BY <1>2, <1>3, <1>4
     DEF StreamInv, StreamTypes, Followed, Counted, Connected, Gapless, InOrder,
         EndsAreTerminal

\* The cursor of a new connection: nothing or the last number that was received.
LEMMA CursorCovers ==
    ASSUME StreamInv, NEW r \in Reader
    PROVE  /\ Cursor(r) \in Nat
           /\ Covers(held[r], Cursor(r))
           /\ r \notin ByHeader => Cursor(r) = Len(held[r])
<1>1. PICK h \in Seq(Nat), m \in Nat : h = held[r] /\ m = Len(h)
  BY DEF StreamInv, StreamTypes
<1>2. Gapless(h)
  BY <1>1 DEF StreamInv, Followed
<1>3. CASE m = 0
  <2>1. h = <<>>
    BY <1>1, <1>3, EmptySeq
  <2>2. Cursor(r) = 0
    BY <1>1, <2>1, Zenon DEF Cursor, Latest
  <2> QED BY <1>1, <1>3, <2>2 DEF Covers
<1>4. CASE m # 0
  <2>1. m \in 1 .. m /\ h # <<>> /\ h[m] \in Nat
    BY <1>1, <1>4
  <2>2. Cursor(r) = IF r \in ByHeader THEN 0 ELSE h[m]
    BY <1>1, <2>1 DEF Cursor, Latest
  <2>3. ASSUME NEW n \in 1 .. h[m]
        PROVE  \E j \in 1 .. m : h[j] = n
    <3>1. CASE n = h[m]
      BY <2>1, <3>1
    <3>2. CASE n # h[m]
      <4>1. n \in 1 .. h[m] - 1
        BY <2>1, <3>2
      <4>2. PICK j \in 1 .. m - 1 : h[j] = n
        BY <1>1, <1>2, <2>1, <4>1 DEF Gapless
      <4>3. j \in 1 .. m
        OBVIOUS
      <4> QED BY <4>2, <4>3
    <3> QED BY <3>1, <3>2
  <2>4. r \notin ByHeader => h[m] = m
    BY <1>1, <2>1 DEF StreamInv, Counted, InOrder
  <2>5. Covers(h, 0) /\ Covers(h, h[m])
    BY <1>1, <2>3 DEF Covers
  <2> QED BY <1>1, <2>1, <2>2, <2>4, <2>5
<1> QED BY <1>3, <1>4

\* A batch that is written after lastSequence keeps what the reader holds whole.
LEMMA BatchFollows ==
    ASSUME StreamInv, NEW r \in Reader, Connected(conn[r]), NEW b \in Nat,
           NEW g, g = held[r] \o Numbers(conn[r].last, b)
    PROVE  /\ g \in Seq(Nat) /\ Gapless(g)
           /\ Covers(g, conn[r].last) /\ Covers(g, b)
           /\ r \notin ByHeader => /\ InOrder(g)
                                   /\ conn[r].last < b => Len(g) = b
                                   /\ b <= conn[r].last => Len(g) = conn[r].last
<1>1. held[r] \in Seq(Nat) /\ conn[r].last \in Nat
  BY DEF StreamInv, StreamTypes, Conn
<1>2. Gapless(held[r]) /\ Covers(held[r], conn[r].last)
  BY DEF StreamInv, Followed
<1>3. IsJoined(g, held[r], conn[r].last, b)
  BY <1>1, Joined
<1>4. Gapless(g) /\ Covers(g, conn[r].last) /\ Covers(g, b)
  BY <1>1, <1>2, <1>3, JoinedGapless
<1>5. ASSUME r \notin ByHeader
      PROVE  /\ InOrder(g)
             /\ conn[r].last < b => Len(g) = b
             /\ b <= conn[r].last => Len(g) = conn[r].last
  <2>1. InOrder(held[r]) /\ conn[r].last = Len(held[r])
    BY <1>5 DEF StreamInv, Counted
  <2>2. IsJoined(g, held[r], Len(held[r]), b)
    BY <1>3, <2>1
  <2>3. /\ InOrder(g)
        /\ Len(held[r]) < b => Len(g) = b
        /\ b <= Len(held[r]) => Len(g) = Len(held[r])
    BY <1>1, <2>1, <2>2, JoinedInOrder
  <2> QED BY <2>1, <2>3, Zenon
<1>6. g \in Seq(Nat)
  BY <1>3 DEF IsJoined
<1> QED BY <1>4, <1>5, <1>6

\* What is left to show of a step that concerns one reader.
LEMMA OneReader ==
    ASSUME StreamInv, NEW r \in Reader, UNCHANGED <<status, history>>,
           NEW c \in Conn, conn' = [conn EXCEPT ![r] = c],
           NEW g \in Seq(Nat), held' = [held EXCEPT ![r] = g],
           c.exec = conn[r].exec,
           Followed(g, c), r \notin ByHeader => Counted(g, c),
           c.pc = "ended" => status[c.exec] \in TerminalStatus
    PROVE  StreamInv'
<1>1. StreamTypes'
  BY DEF StreamInv, StreamTypes
<1>2. \A q \in Reader : /\ conn'[q] = IF q = r THEN c ELSE conn[q]
                        /\ held'[q] = IF q = r THEN g ELSE held[q]
  BY DEF StreamInv, StreamTypes
<1>3. \A q \in Reader : Followed(held'[q], conn'[q])
  BY <1>2, Zenon DEF StreamInv
<1>4. \A q \in Reader \ ByHeader : Counted(held'[q], conn'[q])
  BY <1>2, Zenon DEF StreamInv
<1>5. EndsAreTerminal'
  BY <1>2 DEF StreamInv, EndsAreTerminal, Terminal
<1> QED BY <1>1, <1>3, <1>4, <1>5 DEF StreamInv

\* A step that leaves alone what the reader holds and where it stands in the log.
LEMMA Elsewhere ==
    ASSUME StreamInv, NEW r \in Reader, UNCHANGED <<status, history, held>>,
           NEW pc \in {"closed", "events", "status", "waiting", "ended"},
           conn' = [conn EXCEPT ![r] = [conn[r] EXCEPT !.pc = pc]],
           pc \in {"closed", "ended"} \/ Connected(conn[r]),
           pc = "ended" => Terminal(r)
    PROVE  StreamInv'
<1> DEFINE c == [conn[r] EXCEPT !.pc = pc]
<1>1. conn[r] \in Conn /\ held[r] \in Seq(Nat)
  BY DEF StreamInv, StreamTypes
<1>2. /\ c \in Conn /\ c.pc = pc /\ c.last = conn[r].last /\ c.exec = conn[r].exec
  BY <1>1 DEF Conn
<1>3. Connected(c) => Connected(conn[r])
  BY <1>2 DEF Connected
<1>4. held' = [held EXCEPT ![r] = held[r]]
  BY DEF StreamInv, StreamTypes
<1>5. Followed(held[r], c) /\ (r \notin ByHeader => Counted(held[r], c))
  BY <1>2, <1>3 DEF StreamInv, Followed, Counted
<1>6. c.pc = "ended" => status[c.exec] \in TerminalStatus
  BY <1>2 DEF Terminal
<1> QED BY <1>1, <1>2, <1>4, <1>5, <1>6, OneReader

LEMMA OpenKeeps ==
    ASSUME StreamInv, NEW r \in Reader, Open(r)
    PROVE  StreamInv'
<1> DEFINE c == [conn[r] EXCEPT !.pc = "events", !.last = Cursor(r),
                             !.opens = conn[r].opens + 1]
<1>1. conn[r] \in Conn /\ held[r] \in Seq(Nat)
  BY DEF StreamInv, StreamTypes
<1>2. conn[r].opens + 1 \in 0 .. MaxOpens
  BY <1>1, StreamAssumption DEF StreamAssumption, Open, Conn
<1>3. Cursor(r) \in Nat
  BY CursorCovers
<1>4. /\ c \in Conn /\ c.pc = "events" /\ c.last = Cursor(r) /\ c.exec = conn[r].exec
  BY <1>1, <1>2, <1>3 DEF Conn
<1>5. /\ UNCHANGED <<status, history>>
      /\ conn' = [conn EXCEPT ![r] = c]
      /\ held' = [held EXCEPT ![r] = held[r]]
  <2>1. UNCHANGED <<status, history, held>> /\ conn' = [conn EXCEPT ![r] = c]
    BY Zenon DEF Open
  <2>2. held = [held EXCEPT ![r] = held[r]]
    BY DEF StreamInv, StreamTypes
  <2> HIDE DEF c
  <2> QED BY <2>1, <2>2
<1>6. Followed(held[r], c) /\ (r \notin ByHeader => Counted(held[r], c))
  BY <1>4, CursorCovers DEF StreamInv, Followed, Counted
<1>7. c.pc # "ended"
  BY <1>4
<1> QED BY <1>1, <1>4, <1>5, <1>6, <1>7, OneReader

LEMMA ReadKeeps ==
    ASSUME StreamInv, NEW r \in Reader, Read(r)
    PROVE  StreamInv'
<1> DEFINE b == Len(Log(r))
           last == IF conn[r].last < b THEN b ELSE conn[r].last
           c == [conn[r] EXCEPT !.pc = "status", !.drained = conn[r].last >= b,
                                !.last = last]
           g == held[r] \o Numbers(conn[r].last, b)
<1>1. conn[r] \in Conn /\ b \in Nat /\ Connected(conn[r])
  BY DEF StreamInv, StreamTypes, Conn, Log, Read, Connected
<1>2. conn[r].last \in Nat /\ last \in Nat
  BY <1>1 DEF Conn
<1>3. (conn[r].last >= b) \in BOOLEAN
  BY <1>1, <1>2
<1>4. c \in Conn /\ c.pc = "status" /\ c.last = last /\ c.exec = conn[r].exec
  <2> HIDE DEF b, last
  <2> QED BY <1>1, <1>2, <1>3 DEF Conn
<1>5. /\ UNCHANGED <<status, history>>
      /\ conn' = [conn EXCEPT ![r] = c]
      /\ held' = [held EXCEPT ![r] = g]
  BY DEF Read
<1>6. /\ g \in Seq(Nat) /\ Gapless(g)
      /\ Covers(g, conn[r].last) /\ Covers(g, b)
      /\ r \notin ByHeader => /\ InOrder(g)
                              /\ conn[r].last < b => Len(g) = b
                              /\ b <= conn[r].last => Len(g) = conn[r].last
  <2> HIDE DEF b
  <2>1. g = held[r] \o Numbers(conn[r].last, b)
    OBVIOUS
  <2> HIDE DEF g
  <2> QED BY <1>1, <2>1, BatchFollows
<1> HIDE DEF b, g, c
<1>7. Covers(g, last) /\ (r \notin ByHeader => Len(g) = last)
  BY <1>1, <1>2, <1>6
<1>8. Followed(g, c) /\ (r \notin ByHeader => Counted(g, c))
  BY <1>4, <1>6, <1>7 DEF Followed, Counted
<1> HIDE DEF last
<1>9. c.pc # "ended"
  BY <1>4
<1> QED BY <1>4, <1>5, <1>6, <1>8, <1>9, OneReader

LEMMA AskKeeps ==
    ASSUME StreamInv, NEW r \in Reader, Ask(r)
    PROVE  StreamInv'
<1>1. Connected(conn[r])
  BY DEF Ask, Connected
<1>2. PICK pc \in {"ended", "waiting"} :
         /\ conn' = [conn EXCEPT ![r] = [conn[r] EXCEPT !.pc = pc]]
         /\ pc = "ended" => Terminal(r)
  BY DEF Ask
<1> QED BY <1>1, <1>2, Elsewhere DEF Ask

LEMMA CutKeeps ==
    ASSUME StreamInv, NEW r \in Reader, Cut(r)
    PROVE  StreamInv'
<1> DEFINE c == [conn[r] EXCEPT !.pc = "closed"]
<1>1. conn[r] \in Conn /\ Connected(conn[r]) /\ Len(Log(r)) \in Nat
  BY DEF StreamInv, StreamTypes, Conn, Log, Cut, Connected
<1>2. conn' = [conn EXCEPT ![r] = c]
  BY DEF Cut
<1>3. c \in Conn /\ c.pc = "closed" /\ c.exec = conn[r].exec
  BY <1>1 DEF Conn
<1>4. CASE UNCHANGED held
  BY <1>1, <1>2, <1>4, Elsewhere DEF Cut
<1>5. CASE \E n \in 1 .. Len(Log(r)) :
             held' = [held EXCEPT ![r] = held[r] \o Numbers(conn[r].last, n)]
  <2> PICK n \in 1 .. Len(Log(r)) :
             held' = [held EXCEPT ![r] = held[r] \o Numbers(conn[r].last, n)]
    BY <1>5
  <2> DEFINE g == held[r] \o Numbers(conn[r].last, n)
  <2>1. /\ g = held[r] \o Numbers(conn[r].last, n)
        /\ held' = [held EXCEPT ![r] = g]
    OBVIOUS
  <2> HIDE DEF g
  <2>2. n \in Nat
    BY <1>1
  <2>3. g \in Seq(Nat) /\ Gapless(g) /\ (r \notin ByHeader => InOrder(g))
    BY <1>1, <2>1, <2>2, BatchFollows
  <2>4. Followed(g, c) /\ (r \notin ByHeader => Counted(g, c)) /\ c.pc # "ended"
    BY <1>3, <2>3 DEF Followed, Counted, Connected
  <2> QED BY <1>2, <1>3, <2>1, <2>3, <2>4, OneReader DEF Cut
<1> QED BY <1>4, <1>5 DEF Cut

LEMMA ExecuteKeeps ==
    ASSUME StreamInv, Execute
    PROVE  StreamInv'
<1>1. /\ status' \in [Execution -> ExecutionStatus \cup {"absent"}]
      /\ history' \in [Execution -> Seq(Event)]
      /\ \A e \in Execution : status[e] \in TerminalStatus => status'[e] = status[e]
  BY ContractStep DEF StreamInv, StreamTypes, Execute
<1>2. UNCHANGED <<conn, held>>
  BY DEF Execute
<1>3. StreamTypes'
  BY <1>1, <1>2 DEF StreamInv, StreamTypes
<1>4. EndsAreTerminal'
  BY <1>1, <1>2 DEF StreamInv, StreamTypes, Conn, EndsAreTerminal, Terminal
<1> QED BY <1>2, <1>3, <1>4 DEF StreamInv

LEMMA StreamStep == StreamInv /\ [Next]_vars => StreamInv'
<1> SUFFICES ASSUME StreamInv, [Next]_vars PROVE StreamInv'
  OBVIOUS
<1>1. CASE Execute
  BY <1>1, ExecuteKeeps
<1>2. ASSUME NEW r \in Reader, Open(r) PROVE StreamInv'
  BY <1>2, OpenKeeps
<1>3. ASSUME NEW r \in Reader, Serve(r) PROVE StreamInv'
  <2>1. CASE Tick(r)
    BY <2>1, Elsewhere DEF Tick, Connected
  <2>2. CASE Read(r)
    BY <2>2, ReadKeeps
  <2>3. CASE Ask(r)
    BY <2>3, AskKeeps
  <2> QED BY <1>3, <2>1, <2>2, <2>3 DEF Serve
<1>4. ASSUME NEW r \in Reader, PollFails(r) PROVE StreamInv'
  BY <1>4, Elsewhere DEF PollFails
<1>5. ASSUME NEW r \in Reader, Cut(r) PROVE StreamInv'
  BY <1>5, CutKeeps
<1>6. CASE UNCHANGED vars
  BY <1>6 DEF vars, StreamInv, StreamTypes, EndsAreTerminal, Terminal
<1> QED BY <1>1, <1>2, <1>3, <1>4, <1>5, <1>6 DEF Next

-----------------------------------------------------------------------------

LEMMA Streams == Spec => []StreamInv
BY StreamInit, StreamStep, PTL DEF Spec

\* Whatever is read in whatever pieces, nothing reaches a reader before what precedes
\* it in the log of the execution: NothingSkipped, of GET /v1/executions/:id/events.
THEOREM StreamSkipsNothing == Spec => []NothingSkipped
<1>1. StreamInv => NothingSkipped
  BY DEF StreamInv, Followed, Gapless, NothingSkipped
<1> QED BY <1>1, Streams, PTL

\* A reader that resumes by ?after receives no event twice: NothingTwice, of the cursor
\* and of listEvents.  What it has received are the first events of the log, in order
\* (StreamInv); that it receives them all in the end is for ToldInTheEnd.
THEOREM StreamTellsOnce == Spec => []NothingTwice
<1>1. ASSUME StreamInv PROVE NothingTwice
  BY <1>1 DEF StreamInv, Counted, InOrder, NothingTwice, ToldOnce
<1> QED BY <1>1, Streams, PTL

\* A stream that the server ended is one of an execution that is over and stays so:
\* EndsAreTerminal, of the status that the poll reads.
THEOREM StreamEndsWithExecution == Spec => []EndsAreTerminal
BY Streams, PTL DEF StreamInv

-----------------------------------------------------------------------------
\* The bounds of the model, and with them the whole of its types.

InLog(h) == \A i \in 1 .. Len(h) : h[i] \in 1 .. MaxEvents

Bounded == /\ \A e \in Execution : Len(history[e]) <= MaxEvents
           /\ \A r \in Reader : InLog(held[r])
           /\ EnvironmentTypeOK

\* What is written up to a number of the log are numbers of the log.
LEMMA BatchInLog ==
    ASSUME StreamTypes, NEW r \in Reader, InLog(held[r]),
           NEW b \in Nat, b <= MaxEvents
    PROVE  InLog(held[r] \o Numbers(conn[r].last, b))
<1> DEFINE g == held[r] \o Numbers(conn[r].last, b)
<1>1. held[r] \in Seq(Nat) /\ conn[r].last \in Nat
  BY DEF StreamTypes, Conn
<1>2. IsJoined(g, held[r], conn[r].last, b)
  BY <1>1, Joined
<1> HIDE DEF g
<1>3. PICK m \in Nat, l \in Nat, a \in Nat :
         /\ m = Len(held[r]) /\ l = Len(g) /\ a = conn[r].last /\ m <= l
         /\ a < b => l = m + (b - a)
         /\ b <= a => l = m
         /\ \A i \in 1 .. m : g[i] = held[r][i]
         /\ \A i \in m + 1 .. l : g[i] = a + (i - m)
  BY <1>1, <1>2 DEF IsJoined
<1>4. ASSUME NEW i \in 1 .. m PROVE g[i] \in 1 .. MaxEvents
  BY <1>3, <1>4 DEF InLog
<1>5. ASSUME NEW i \in m + 1 .. l PROVE g[i] \in 1 .. MaxEvents
  <2>1. a < b /\ l = m + (b - a)
    BY <1>3, <1>5
  <2>2. MaxEvents \in Nat /\ g[i] = a + (i - m)
    BY <1>3, <1>5, StreamAssumption DEF StreamAssumption
  <2> QED
    BY <1>5, <2>1, <2>2
<1>6. \A i \in 1 .. l : i \in 1 .. m \/ i \in m + 1 .. l
  OBVIOUS
<1>7. \A i \in 1 .. l : g[i] \in 1 .. MaxEvents
  BY <1>4, <1>5, <1>6, Zenon
<1> QED
  BY <1>3, <1>7 DEF InLog, g

LEMMA BoundedStep ==
    ASSUME StreamTypes, Bounded, [Next]_vars
    PROVE  Bounded'
<1> USE DEF StreamTypes, Bounded
<1>1. CASE Execute
  BY <1>1 DEF Execute, EnvironmentTypeOK
<1>2. ASSUME NEW r \in Reader, Open(r) \/ Tick(r) \/ Ask(r) PROVE Bounded'
  BY <1>2 DEF Open, Tick, Ask, EnvironmentTypeOK
<1>3. ASSUME NEW r \in Reader, PollFails(r) \/ Cut(r)
      PROVE  UNCHANGED history /\ EnvironmentTypeOK'
  BY <1>3, FaultAssumption DEF PollFails, Cut, Fault, EnvironmentTypeOK
<1>4. ASSUME NEW r \in Reader, NEW b \in Nat, b <= MaxEvents,
             held' = [held EXCEPT ![r] = held[r] \o Numbers(conn[r].last, b)]
      PROVE  \A q \in Reader : InLog(held'[q])
  <2>1. InLog(held[r] \o Numbers(conn[r].last, b))
    BY <1>4, BatchInLog
  <2>2. \A q \in Reader : held'[q] = IF q = r THEN held[r] \o Numbers(conn[r].last, b)
                                             ELSE held[q]
    BY <1>4
  <2> QED
    BY <2>1, <2>2, Zenon
<1>5. ASSUME NEW r \in Reader
      PROVE  Len(Log(r)) \in Nat /\ Len(Log(r)) <= MaxEvents
  BY DEF Log, Conn
<1>6. ASSUME NEW r \in Reader, Read(r) PROVE Bounded'
  <2>1. /\ held' = [held EXCEPT ![r] = held[r] \o Numbers(conn[r].last, Len(Log(r)))]
        /\ UNCHANGED <<history, faults>>
    BY <1>6 DEF Read
  <2> QED
    BY <1>4, <1>5, <2>1 DEF EnvironmentTypeOK
<1>7. ASSUME NEW r \in Reader, Cut(r) PROVE Bounded'
  <2>1. CASE UNCHANGED held
    BY <1>3, <1>7, <2>1
  <2>2. CASE \E n \in 1 .. Len(Log(r)) :
               held' = [held EXCEPT ![r] = held[r] \o Numbers(conn[r].last, n)]
    <3>1. PICK n \in 1 .. Len(Log(r)) :
             held' = [held EXCEPT ![r] = held[r] \o Numbers(conn[r].last, n)]
      BY <2>2
    <3>2. n \in Nat /\ n <= MaxEvents
      BY <1>5, StreamAssumption DEF StreamAssumption
    <3> QED
      BY <1>3, <1>4, <1>7, <3>1, <3>2
  <2> QED
    BY <1>7, <2>1, <2>2 DEF Cut
<1>8. ASSUME NEW r \in Reader, PollFails(r) PROVE Bounded'
  BY <1>3, <1>8 DEF PollFails
<1>9. CASE UNCHANGED vars
  BY <1>9 DEF vars, EnvironmentTypeOK
<1> QED
  BY <1>1, <1>2, <1>6, <1>7, <1>8, <1>9 DEF Next, Serve

\* No reader is ever sent a number beyond the log, whatever it asks to resume after,
\* and every variable has its type: TypeOK, of the event stream.
THEOREM StreamTypeCorrect == Spec => []TypeOK
<1>1. Init => Bounded
  <2> SUFFICES ASSUME Init PROVE Bounded
    OBVIOUS
  <2>1. EnvironmentTypeOK
    BY FaultAssumption DEF Init, EnvironmentInit, EnvironmentTypeOK
  <2>2. \A r \in Reader : InLog(held[r])
    BY DEF Init, InLog
  <2>3. \A e \in Execution : Len(history[e]) <= MaxEvents
    <3>1. \A e \in Execution : history[e] = <<>>
      BY DEF Init, Executions!Init
    <3>2. Len(<<>>) = 0
      OBVIOUS
    <3>3. \A e \in Execution : Len(history[e]) = 0
      BY <3>1, <3>2, Zenon
    <3>4. 0 <= MaxEvents
      BY StreamAssumption DEF StreamAssumption
    <3> QED
      BY <3>3, <3>4
  <2> QED
    BY <2>1, <2>2, <2>3 DEF Bounded
<1>2. StreamInv /\ Bounded /\ [Next]_vars => Bounded'
  BY BoundedStep DEF StreamInv
<1>3. ASSUME StreamInv, Bounded PROVE TypeOK
  <2>1. ASSUME NEW r \in Reader PROVE held[r] \in Seq(1 .. MaxEvents)
    <3>1. held[r] \in Seq(Nat) /\ InLog(held[r])
      BY <1>3 DEF StreamInv, StreamTypes, Bounded
    <3>2. held[r] \in [1 .. Len(held[r]) -> 1 .. MaxEvents] /\ Len(held[r]) \in Nat
      BY <3>1 DEF InLog
    <3> QED
      BY <3>2, SeqDef
  <2> QED
    BY <1>3, <2>1 DEF TypeOK, StreamInv, StreamTypes, Bounded
<1> QED
  BY <1>1, <1>2, <1>3, Streams, PTL DEF Spec
=============================================================================
