---------------------- MODULE FrontendConnection_proofs ----------------------
(* What holds of a front end's connection however many links break and       *)
(* whatever is requested: the types, that the back end's open contexts are   *)
(* exactly those it can still reach, that who waits waits on an open         *)
(* channel, that no context does the requests of another, and that a message *)
(* whose context is kept is in one place, once.                              *)
EXTENDS FrontendConnection, FiniteSetTheorems, SequenceTheorems, TLAPS

USE DEF None

ContextType ==
  [Context -> [state : {"none", "open", "closed"}, page : Page,
               socket : Socket \cup {None},
               buffer : Seq(Request), working : SUBSET Request]]
TimerType  == [Page -> [set : BOOLEAN, orphans : Nat]]
SocketType == [Socket -> [page : Page, link : {"none", "up", "broken"},
                          connected : BOOLEAN, greeted : BOOLEAN,
                          serves : Context \cup {None}]]
FrontType  == [page : Page, socket : Socket \cup {None}, connected : BOOLEAN,
               greeting : BOOLEAN, channel : Context \cup {None},
               open : BOOLEAN, buffer : Seq(Request)]
RequestType == [Request -> [state : {"idle", "pending", "settled"},
                            channel : Context \cup {None}]]

-----------------------------------------------------------------------------
\* Messages.

LEMMA SaidType ==
  ASSUME NEW Kind, NEW kind \in Kind
  PROVE  Said(kind) \in Message(Kind)
BY DEF Said, Message

LEMMA CarryingType ==
  ASSUME NEW Kind, NEW rs \in Seq(Request), rs # <<>>
  PROVE  Carrying(rs) \in Message(Kind)
BY DEF Carrying, Message

LEMMA FlushedType ==
  ASSUME NEW Kind, NEW buffer \in Seq(Request)
  PROVE  Flushed(buffer) \in Seq(Message(Kind))
<1>1. CASE buffer = <<>>
  BY <1>1 DEF Flushed
<1>2. CASE buffer # <<>>
  <2>1. Carrying(buffer) \in Message(Kind)
    BY <1>2, CarryingType
  <2> QED
    BY <1>2, <2>1 DEF Flushed
<1> QED
  BY <1>1, <1>2

LEMMA LoadType ==
  ASSUME NEW Kind, NEW message \in Message(Kind)
  PROVE  message.load \in Seq(Request)
<1>1. CASE message \in [kind : Kind, load : {<<>>}]
  <2>1. message.load \in {<<>>}
    BY <1>1
  <2> QED
    BY <2>1, EmptySeq
<1>2. CASE message \in [kind : {"data"}, load : Seq(Request) \ {<<>>}]
  <2>1. message.load \in Seq(Request) \ {<<>>}
    BY <1>2
  <2> QED
    BY <2>1
<1> QED
  BY <1>1, <1>2 DEF Message

LEMMA LoadsType ==
  ASSUME NEW Kind, NEW messages \in Seq(Message(Kind))
  PROVE  Loads(messages) \subseteq Request
<1>1. ASSUME NEW i \in DOMAIN messages
      PROVE  Range(messages[i].load) \subseteq Request
  <2>1. messages[i] \in Message(Kind)
    BY ElementOfSeq, <1>1
  <2>2. messages[i].load \in Seq(Request)
    BY <2>1, LoadType
  <2> QED
    BY <2>2 DEF Range
<1> QED
  BY <1>1 DEF Loads

\* The message at the head of a link, and what it carries.
LEMMA HeadType ==
  ASSUME NEW Kind, "data" \notin Kind,
         NEW messages \in Seq(Message(Kind)), messages # <<>>
  PROVE  /\ Head(messages) \in Message(Kind)
         /\ Head(messages).load \in Seq(Request)
         /\ Range(Head(messages).load) \subseteq Request
         /\ Tail(messages) \in Seq(Message(Kind))
         /\ Head(messages).kind = "data" =>
              /\ Head(Head(messages).load) \in Request
              /\ Range(Tail(Head(messages).load)) \subseteq Request
<1>1. /\ Head(messages) \in Message(Kind)
      /\ Tail(messages) \in Seq(Message(Kind))
  BY HeadTailProperties
<1> DEFINE load == Head(messages).load
<1>2. load \in Seq(Request)
  BY <1>1, LoadType
<1>3. \A rs \in Seq(Request) : Range(rs) \subseteq Request
  BY DEF Range
<1>4. ASSUME Head(messages).kind = "data"
      PROVE  /\ Head(load) \in Request
             /\ Tail(load) \in Seq(Request)
  <2>1. load # <<>>
    BY <1>1, <1>4 DEF Message
  <2> HIDE DEF load
  <2> QED
    BY <1>2, <2>1, HeadTailProperties
<1> QED
  BY <1>1, <1>2, <1>3, <1>4

-----------------------------------------------------------------------------
\* The types.

LEMMA ClosedType ==
  ASSUME NEW contexts \in ContextType, NEW c \in Context \cup {None}
  PROVE  Closed(contexts, c) \in ContextType
BY EmptySeq DEF Closed, Drained, ContextType

LEMMA ClearedType ==
  ASSUME NEW timers \in TimerType, NEW p \in Page
  PROVE  Cleared(timers, p) \in TimerType
BY DEF Cleared, TimerType

LEMMA BackGetsType ==
  ASSUME TypeOK, NEW s \in Socket, NEW messages \in Seq(Message(Greeting)),
         BackGets(s, messages)
  PROVE  /\ toBack' \in [Socket -> Seq(Message(Greeting))]
         /\ lost' \in SUBSET Request
<1>1. Loads(messages) \subseteq Request
  BY LoadsType
<1>2. toBack[s] \o messages \in Seq(Message(Greeting))
  BY ConcatProperties DEF TypeOK
<1>3. toBack \in [Socket -> Seq(Message(Greeting))] /\ lost \in SUBSET Request
  BY DEF TypeOK
<1> QED
  BY <1>1, <1>2, <1>3 DEF BackGets

LEMMA FrontGetsType ==
  ASSUME TypeOK, NEW s \in Socket, NEW messages \in Seq(Message(Answer)),
         FrontGets(s, messages)
  PROVE  /\ toFront' \in [Socket -> Seq(Message(Answer))]
         /\ lost' \in SUBSET Request
<1>1. Loads(messages) \subseteq Request
  BY LoadsType
<1>2. toFront[s] \o messages \in Seq(Message(Answer))
  BY ConcatProperties DEF TypeOK
<1>3. toFront \in [Socket -> Seq(Message(Answer))] /\ lost \in SUBSET Request
  BY DEF TypeOK
<1> QED
  BY <1>1, <1>2, <1>3 DEF FrontGets

LEMMA FrontLeavesType ==
  ASSUME TypeOK, NEW s \in Socket, NEW links \in SocketType,
         FrontLeaves(s, links)
  PROVE  /\ toFront' \in [Socket -> Seq(Message(Answer))]
         /\ lost' \in SUBSET Request
         /\ socket' \in SocketType
<1>1. Loads(toFront[s]) \subseteq Request
  BY LoadsType DEF TypeOK
<1>2. toFront \in [Socket -> Seq(Message(Answer))] /\ lost \in SUBSET Request
  BY DEF TypeOK
<1>3. <<>> \in Seq(Message(Answer))
  BY EmptySeq
<1> QED
  BY <1>1, <1>2, <1>3 DEF FrontLeaves

LEMMA ConnectionClosedType ==
  ASSUME TypeOK, NEW contexts \in ContextType, NEW timers \in TimerType,
         NEW p \in Page, ConnectionClosed(contexts, timers, p)
  PROVE  /\ context' \in ContextType
         /\ byFrontend' \in [Page -> Context \cup {None}]
         /\ timer' \in TimerType
<1>1. byFrontend \in [Page -> Context \cup {None}]
  BY DEF TypeOK
<1> QED
  BY <1>1, ClosedType, ClearedType DEF ConnectionClosed

LEMMA AskedType ==
  ASSUME TypeOK, NEW s \in Socket, NEW kind, Asked(s, kind)
  PROVE  toBack' \in [Socket -> Seq(Message(Greeting))]
<1>1. Tail(toBack[s]) \in Seq(Message(Greeting))
  BY HeadTailProperties DEF TypeOK, Asked
<1>2. toBack \in [Socket -> Seq(Message(Greeting))]
  BY DEF TypeOK
<1> QED
  BY <1>1, <1>2 DEF Asked

LEMMA TakenType ==
  ASSUME TypeOK, NEW kind, Heard(kind), front.socket \in Socket,
         Taken(front.socket)
  PROVE  toFront' \in [Socket -> Seq(Message(Answer))]
<1>1. Tail(toFront[front.socket]) \in Seq(Message(Answer))
  BY HeadTailProperties DEF TypeOK, Heard
<1>2. toFront \in [Socket -> Seq(Message(Answer))]
  BY DEF TypeOK
<1> QED
  BY <1>1, <1>2 DEF Taken

\* TypeOK, with the types named.
ConfigType == [reload : BOOLEAN, timeout : {"zero", "positive", "negative"}]

LEMMA TypesNamed ==
  TypeOK <=> /\ config \in ConfigType
             /\ front \in FrontType
             /\ request \in RequestType
             /\ socket \in SocketType
             /\ toBack \in [Socket -> Seq(Message(Greeting))]
             /\ toFront \in [Socket -> Seq(Message(Answer))]
             /\ byFrontend \in [Page -> Context \cup {None}]
             /\ context \in ContextType
             /\ timer \in TimerType
             /\ marked \in SUBSET Page
             /\ breaks \in 0 .. MaxBreaks
             /\ lost \in SUBSET Request
             /\ late \in BOOLEAN
BY DEF TypeOK, ConfigType, FrontType, RequestType, SocketType, ContextType,
       TimerType

LEMMA InitTypes == Init => TypeOK
<1> SUFFICES ASSUME Init PROVE TypeOK
  OBVIOUS
<1>1. <<>> \in Seq(Request) /\ <<>> \in Seq(Message(Greeting))
      /\ <<>> \in Seq(Message(Answer))
  BY EmptySeq
<1>2. 0 \in 0 .. MaxBreaks
  BY BreaksAssumption
<1> QED
  BY <1>1, <1>2, TypesNamed
  DEF Init, Page, ConfigType, FrontType, RequestType, SocketType, ContextType,
      TimerType

LEMMA RejectedType ==
  ASSUME TypeOK
  PROVE  Rejected \in RequestType
BY TypesNamed DEF Rejected, RequestType

\* A front end that is connected has a socket.
Linked == front.connected => front.socket \in Socket

\* The types after a step, the changed ones named by who changes them.
LEMMA FrontTypes ==
  ASSUME TypeOK, Linked,
         \/ FrontConnects \/ FrontNotices \/ FrontHears \/ MarkForClose
         \/ \E r \in Request : Send(r)
         \/ \E s \in Socket : Break(s)
  PROVE  TypeOK'
<1> DEFINE Types ==
      /\ config' \in ConfigType
      /\ front' \in FrontType
      /\ request' \in RequestType
      /\ socket' \in SocketType
      /\ toBack' \in [Socket -> Seq(Message(Greeting))]
      /\ toFront' \in [Socket -> Seq(Message(Answer))]
      /\ byFrontend' \in [Page -> Context \cup {None}]
      /\ context' \in ContextType
      /\ timer' \in TimerType
      /\ marked' \in SUBSET Page
      /\ breaks' \in 0 .. MaxBreaks
      /\ lost' \in SUBSET Request
      /\ late' \in BOOLEAN
<1>1. SUFFICES Types
  BY DEF TypeOK, ConfigType, FrontType, RequestType, SocketType, ContextType,
         TimerType
<1>2. /\ config \in ConfigType
      /\ front \in FrontType
      /\ request \in RequestType
      /\ socket \in SocketType
      /\ toBack \in [Socket -> Seq(Message(Greeting))]
      /\ toFront \in [Socket -> Seq(Message(Answer))]
      /\ byFrontend \in [Page -> Context \cup {None}]
      /\ context \in ContextType
      /\ timer \in TimerType
      /\ marked \in SUBSET Page
      /\ breaks \in 0 .. MaxBreaks
      /\ lost \in SUBSET Request
      /\ late \in BOOLEAN
  BY TypesNamed
<1>3. /\ front.socket \in Socket \cup {None}
      /\ front.page \in Page
      /\ front.buffer \in Seq(Request)
      /\ front.channel \in Context \cup {None}
  BY <1>2 DEF FrontType
<1>4. front.connected => front.socket \in Socket
  BY DEF Linked
<1>5. CASE FrontConnects
  <2>1. PICK s \in Socket :
          /\ socket' = [socket EXCEPT ![s] =
                           [@ EXCEPT !.page = front.page, !.link = "up",
                                     !.connected = TRUE]]
          /\ front' = [front EXCEPT !.socket = s, !.connected = TRUE,
                                    !.greeting = FALSE]
          /\ toBack' = [toBack EXCEPT ![s] = Greetings]
          /\ UNCHANGED <<config, request, toFront, back_vars, breaks, lost>>
    BY <1>5 DEF FrontConnects
  <2>2. socket' \in SocketType
    BY <1>2, <1>3, <2>1 DEF SocketType
  <2>3. front' \in FrontType
    BY <1>2, <2>1 DEF FrontType
  <2>4. Greetings \in Seq(Message(Greeting))
    <3>1. /\ Said("initialConnection") \in Message(Greeting)
          /\ Said(Negotiation) \in Message(Greeting)
      BY SaidType DEF Greeting, Negotiation
    <3> QED
      BY <3>1, ConcatProperties, EmptySeq DEF Greetings
  <2> QED
    BY <1>2, <2>1, <2>2, <2>3, <2>4 DEF back_vars
<1>6. CASE FrontNotices
  <2>1. front.socket \in Socket /\ FrontLeaves(front.socket, socket)
    BY <1>4, <1>6 DEF FrontNotices
  <2>2. front' \in FrontType
    BY <1>2, <1>6 DEF FrontNotices, FrontType
  <2> QED
    BY <1>2, <1>6, <2>1, <2>2, FrontLeavesType DEF FrontNotices, back_vars
<1>7. CASE ConnectNewChannel
  <2>1. front.socket \in Socket
    BY <1>4, <1>7 DEF ConnectNewChannel, Heard
  <2>2. socket[front.socket].serves \in Context \cup {None}
    BY <1>2, <2>1 DEF SocketType
  <2>3. front' \in FrontType
    BY <1>2, <1>7, <2>2, EmptySeq DEF ConnectNewChannel, FrontType, Drained
  <2>4. request' \in RequestType
    BY <1>7, RejectedType DEF ConnectNewChannel
  <2>5. toFront' \in [Socket -> Seq(Message(Answer))]
    BY <1>7, <2>1, TakenType DEF ConnectNewChannel
  <2> QED
    BY <1>2, <1>7, <2>3, <2>4, <2>5 DEF ConnectNewChannel, back_vars
<1>8. CASE ReconnectSucceeded
  <2>1. front.socket \in Socket
    BY <1>4, <1>8 DEF ReconnectSucceeded, Heard
  <2>2. Flushed(front.buffer) \in Seq(Message(Greeting))
    BY <1>3, FlushedType
  <2>3. /\ toBack' \in [Socket -> Seq(Message(Greeting))]
        /\ lost' \in SUBSET Request
    BY <1>8, <2>1, <2>2, BackGetsType DEF ReconnectSucceeded
  <2>4. toFront' \in [Socket -> Seq(Message(Answer))]
    BY <1>8, <2>1, TakenType DEF ReconnectSucceeded
  <2>5. front' \in FrontType
    BY <1>2, <1>8, EmptySeq DEF ReconnectSucceeded, FrontType, AfterFlush
  <2> QED
    BY <1>2, <1>8, <2>3, <2>4, <2>5 DEF ReconnectSucceeded, back_vars
<1>9. CASE ReconnectFailed
  <2>1. front.socket \in Socket
    BY <1>4, <1>9 DEF ReconnectFailed, Heard
  <2>2. [socket EXCEPT ![front.socket].link = "broken"] \in SocketType
    BY <2>1, <1>2 DEF SocketType
  <2>3. /\ toFront' \in [Socket -> Seq(Message(Answer))]
        /\ lost' \in SUBSET Request
        /\ socket' \in SocketType
    BY <1>9, <2>1, <2>2, FrontLeavesType DEF ReconnectFailed
  <2>4. front' \in FrontType
    <3>1. front.socket \in Page
      BY <2>1 DEF Page
    <3>2. CASE config.reload
      BY <1>2, <1>9, <3>1, <3>2, EmptySeq DEF ReconnectFailed, FrontType
    <3>3. CASE ~ config.reload
      BY <1>2, <1>9, <3>3, EmptySeq DEF ReconnectFailed, FrontType, Drained
    <3> QED
      BY <3>2, <3>3
  <2>5. request' \in RequestType
    BY <1>9, RejectedType DEF ReconnectFailed
  <2> QED
    BY <1>2, <1>9, <2>3, <2>4, <2>5 DEF ReconnectFailed, back_vars
<1>10. CASE ReplyArrives
  <2>1. front.socket \in Socket
    BY <1>4, <1>10 DEF ReplyArrives, Heard
  <2>2. toFront' \in [Socket -> Seq(Message(Answer))]
    BY <1>10, <2>1, TakenType DEF ReplyArrives
  <2> DEFINE messages == toFront[front.socket]
  <2>3. /\ Head(Head(messages).load) \in Request
        /\ Range(Tail(Head(messages).load)) \subseteq Request
    <3>1. /\ messages \in Seq(Message(Answer))
          /\ messages # <<>>
          /\ Head(messages).kind = "data"
      BY <1>2, <1>10, <2>1 DEF ReplyArrives, Heard
    <3>2. "data" \notin Answer
      BY DEF Answer
    <3> HIDE DEF messages
    <3> QED
      BY <3>1, <3>2, HeadType
  <2>4. lost' \in SUBSET Request
    BY <1>2, <1>10, <2>3 DEF ReplyArrives
  <2>5. request' \in RequestType
    BY <1>2, <1>10, <2>3 DEF ReplyArrives, RequestType
  <2> QED
    BY <1>2, <1>10, <2>2, <2>4, <2>5 DEF ReplyArrives, back_vars
<1>11. CASE MarkForClose
  BY <1>2, <1>3, <1>11 DEF MarkForClose, front_vars
<1>12. ASSUME NEW r \in Request, Send(r)
       PROVE  Types
  <2>1. Append(front.buffer, r) \in Seq(Request)
    BY <1>3, AppendProperties
  <2>2. /\ [state |-> "pending", channel |-> front.channel] \in
             [state : {"idle", "pending", "settled"},
              channel : Context \cup {None}]
        /\ [state |-> "settled", channel |-> front.channel] \in
             [state : {"idle", "pending", "settled"},
              channel : Context \cup {None}]
    BY <1>3
  <2>3. request' \in RequestType
    BY <1>2, <1>12, <2>2 DEF Send, RequestType
  <2>4. front' \in FrontType
    BY <1>2, <1>12, <2>1 DEF Send, FrontType, Buffered
  <2>5. /\ toBack' \in [Socket -> Seq(Message(Greeting))]
        /\ lost' \in SUBSET Request
    <3>1. CASE front.connected
      <4>1. <<Carrying(<<r>>)>> \in Seq(Message(Greeting))
        <5>1. <<r>> \in Seq(Request) /\ <<r>> # <<>>
          OBVIOUS
        <5>2. Carrying(<<r>>) \in Message(Greeting)
          BY <5>1, CarryingType
        <5> QED
          BY <5>2
      <4>2. BackGets(front.socket, <<Carrying(<<r>>)>>)
        BY <1>12, <3>1 DEF Send
      <4> QED
        BY <1>4, <3>1, <4>1, <4>2, BackGetsType
    <3>2. CASE ~ front.connected
      BY <1>2, <1>12, <3>2 DEF Send
    <3> QED
      BY <3>1, <3>2
  <2> QED
    BY <1>2, <1>12, <2>3, <2>4, <2>5 DEF Send, back_vars
<1>13. ASSUME NEW s \in Socket, Break(s)
       PROVE  Types
  <2>1. socket' \in SocketType
    <3>1. [socket EXCEPT ![s].link = "broken"] \in SocketType
      BY <1>2 DEF SocketType
    <3> QED
      BY <1>13, <3>1 DEF Break
  <2>2. breaks' \in 0 .. MaxBreaks
    BY <1>2, <1>13, BreaksAssumption DEF Break
  <2> QED
    BY <1>2, <1>13, <2>1, <2>2 DEF Break, back_vars
<1> QED
  BY <1>5, <1>6, <1>7, <1>8, <1>9, <1>10, <1>11, <1>12, <1>13 DEF FrontHears

LEMMA BackTypes ==
  ASSUME TypeOK,
         \/ \E s \in Socket : BackHears(s) \/ SocketDisconnects(s)
         \/ \E c \in Context, r \in Request : Reply(c, r)
         \/ \E p \in Page : TimeoutCloses(p)
  PROVE  TypeOK'
<1> DEFINE Types ==
      /\ config' \in ConfigType
      /\ front' \in FrontType
      /\ request' \in RequestType
      /\ socket' \in SocketType
      /\ toBack' \in [Socket -> Seq(Message(Greeting))]
      /\ toFront' \in [Socket -> Seq(Message(Answer))]
      /\ byFrontend' \in [Page -> Context \cup {None}]
      /\ context' \in ContextType
      /\ timer' \in TimerType
      /\ marked' \in SUBSET Page
      /\ breaks' \in 0 .. MaxBreaks
      /\ lost' \in SUBSET Request
      /\ late' \in BOOLEAN
<1>1. SUFFICES Types
  BY DEF TypeOK, ConfigType, FrontType, RequestType, SocketType, ContextType,
         TimerType
<1>2. /\ config \in ConfigType
      /\ front \in FrontType
      /\ request \in RequestType
      /\ socket \in SocketType
      /\ toBack \in [Socket -> Seq(Message(Greeting))]
      /\ toFront \in [Socket -> Seq(Message(Answer))]
      /\ byFrontend \in [Page -> Context \cup {None}]
      /\ context \in ContextType
      /\ timer \in TimerType
      /\ marked \in SUBSET Page
      /\ breaks \in 0 .. MaxBreaks
      /\ lost \in SUBSET Request
      /\ late \in BOOLEAN
  BY TypesNamed
<1>3. ASSUME NEW s \in Socket
      PROVE  socket[s].page \in Page /\ socket[s].serves \in Context \cup {None}
  BY <1>2 DEF SocketType
<1>4. ASSUME NEW c \in Context
      PROVE  /\ context[c].buffer \in Seq(Request)
             /\ context[c].socket \in Socket \cup {None}
             /\ context[c].working \in SUBSET Request
  BY <1>2 DEF ContextType
<1>5. /\ \A kind \in Answer :
           <<Said(kind)>> \in Seq(Message(Answer))
  <2>1. ASSUME NEW kind \in Answer
        PROVE  Said(kind) \in Message(Answer)
    BY SaidType
  <2> QED
    BY <2>1
<1>6. ASSUME NEW s \in Socket, InitialConnect(s)
      PROVE  Types
  <2>1. toBack' \in [Socket -> Seq(Message(Greeting))]
    BY <1>6, AskedType DEF InitialConnect
  <2>2. /\ toFront' \in [Socket -> Seq(Message(Answer))]
        /\ lost' \in SUBSET Request
    BY <1>5, <1>6, FrontGetsType DEF InitialConnect, Answer
  <2>3. context' \in ContextType
    <3>1. Discarded(socket[s].page) \in ContextType
      BY <1>2, <1>3, ClosedType DEF Discarded
    <3>2. Created(Discarded(socket[s].page), s, socket[s].page) \in ContextType
      <4> DEFINE contexts == Discarded(socket[s].page)
      <4> HIDE DEF contexts
      <4>1. contexts \in ContextType
        BY <3>1 DEF contexts
      <4>2. Created(contexts, s, socket[s].page) \in ContextType
        BY <1>3, <4>1, EmptySeq DEF Created, ContextType, Context
      <4> QED
        BY <4>2 DEF contexts
    <3> QED
      BY <1>6, <3>2 DEF InitialConnect
  <2>4. byFrontend' \in [Page -> Context \cup {None}]
    BY <1>2, <1>6 DEF InitialConnect, Context
  <2>5. timer' \in TimerType
    BY <1>2, <1>3, <1>6, ClearedType DEF InitialConnect
  <2>6. socket' \in SocketType
    <3>1. [socket EXCEPT ![s] = [@ EXCEPT !.greeted = TRUE, !.serves = s]]
            \in SocketType
      BY <1>2 DEF SocketType, Context
    <3> QED
      BY <1>6, <3>1 DEF InitialConnect
  <2>7. late' \in BOOLEAN
    BY <1>2, <1>6 DEF InitialConnect
  <2> QED
    BY <1>2, <1>6, <2>1, <2>2, <2>3, <2>4, <2>5, <2>6, <2>7
    DEF InitialConnect, front_vars
<1>7. ASSUME NEW s \in Socket, Reconnect(s)
      PROVE  Types
  <2> DEFINE p == socket[s].page
             c == byFrontend[p]
  <2>1. toBack' \in [Socket -> Seq(Message(Greeting))]
    BY <1>7, AskedType DEF Reconnect
  <2>2. c \in Context \cup {None}
    BY <1>2, <1>3
  <2>3. late' \in BOOLEAN
    BY <1>2, <1>7 DEF Reconnect
  <2>4. CASE c # None
    <3>1. c \in Context
      BY <2>2, <2>4
    <3>2. FrontGets(s, <<Said("reconnected")>> \o Flushed(context[c].buffer))
      BY <1>7, <2>4 DEF Reconnect
    <3>3. <<Said("reconnected")>> \o Flushed(context[c].buffer)
            \in Seq(Message(Answer))
      <4>1. <<Said("reconnected")>> \in Seq(Message(Answer))
        BY <1>5 DEF Answer
      <4>2. Flushed(context[c].buffer) \in Seq(Message(Answer))
        BY <1>4, <3>1, FlushedType
      <4> QED
        BY <4>1, <4>2, ConcatProperties
    <3>4. /\ toFront' \in [Socket -> Seq(Message(Answer))]
          /\ lost' \in SUBSET Request
      BY <3>2, <3>3, FrontGetsType
    <3>5. context' \in ContextType
      <4>1. [context EXCEPT ![c] =
               [@ EXCEPT !.socket = s,
                         !.buffer = AfterFlush(context[c].buffer)]] \in ContextType
        <5> HIDE DEF c
        <5> QED
          BY <1>2, <3>1, EmptySeq DEF ContextType, AfterFlush
      <4> QED
        BY <1>7, <2>4, <4>1 DEF Reconnect
    <3>6. timer' \in TimerType
      BY <1>2, <1>3, <1>7, <2>4, ClearedType DEF Reconnect
    <3>7. socket' \in SocketType
      <4>1. [socket EXCEPT ![s] = [@ EXCEPT !.greeted = TRUE, !.serves = c]]
              \in SocketType
        <5> HIDE DEF c
        <5> QED
          BY <1>2, <2>2 DEF SocketType
      <4> QED
        BY <1>7, <2>4, <4>1 DEF Reconnect
    <3> QED
      BY <1>2, <1>7, <2>1, <2>3, <3>4, <3>5, <3>6, <3>7
      DEF Reconnect, front_vars
  <2>5. CASE c = None
    <3>1. FrontGets(s, <<Said("refused")>>)
      BY <1>7, <2>5 DEF Reconnect
    <3>2. /\ toFront' \in [Socket -> Seq(Message(Answer))]
          /\ lost' \in SUBSET Request
      BY <1>5, <3>1, FrontGetsType DEF Answer
    <3>3. socket' \in SocketType
      <4>1. [socket EXCEPT ![s].greeted = TRUE] \in SocketType
        BY <1>2 DEF SocketType
      <4> QED
        BY <1>7, <2>5, <4>1 DEF Reconnect
    <3>4. UNCHANGED <<config, front_vars, byFrontend, marked, breaks, context, timer>>
      BY <1>7, <2>5 DEF Reconnect
    <3> QED
      BY <1>2, <2>1, <2>3, <3>2, <3>3, <3>4 DEF front_vars
  <2> QED
    BY <2>4, <2>5
<1>8. ASSUME NEW s \in Socket, GreetingIgnored(s)
      PROVE  Types
  <2>1. toBack' \in [Socket -> Seq(Message(Greeting))]
    BY <1>8, AskedType DEF GreetingIgnored
  <2> QED
    BY <1>2, <1>8, <2>1 DEF GreetingIgnored, front_vars, back_vars
<1>9. ASSUME NEW s \in Socket, RequestArrives(s)
      PROVE  Types
  <2> DEFINE load == Head(toBack[s]).load
             c == socket[s].serves
  <2>1. toBack' \in [Socket -> Seq(Message(Greeting))]
    BY <1>9, AskedType DEF RequestArrives
  <2>2. /\ Head(load) \in Request
        /\ Range(load) \subseteq Request
        /\ Range(Tail(load)) \subseteq Request
    <3>1. /\ toBack[s] \in Seq(Message(Greeting)) /\ toBack[s] # <<>>
          /\ Head(toBack[s]).kind = "data"
      BY <1>2, <1>9 DEF RequestArrives, Asked
    <3>2. "data" \notin Greeting
      BY DEF Greeting
    <3> QED
      BY <3>1, <3>2, HeadType
  <2>3. lost' \in SUBSET Request
    BY <1>2, <1>9, <2>2 DEF RequestArrives
  <2>4. context' \in ContextType
    <3>1. CASE Listens(s)
      <4>1. c \in Context
        BY <1>3, <3>1 DEF Listens
      <4>2. [context EXCEPT ![c].working = @ \cup {Head(load)}] \in ContextType
        <5> HIDE DEF c, load
        <5> QED
          BY <1>2, <2>2, <4>1 DEF ContextType
      <4> QED
        BY <1>9, <3>1, <4>2 DEF RequestArrives
    <3>2. CASE ~ Listens(s)
      BY <1>2, <1>9, <3>2 DEF RequestArrives
    <3> QED
      BY <3>1, <3>2
  <2> QED
    BY <1>2, <1>9, <2>1, <2>3, <2>4 DEF RequestArrives, front_vars
<1>10. ASSUME NEW c \in Context, NEW r \in Request, Reply(c, r)
       PROVE  Types
  <2> DEFINE done == [context EXCEPT ![c].working = @ \ {r}]
             s == context[c].socket
             connected == s # None /\ (s = None \/ socket[s].connected)
  <2>1. done \in ContextType
    BY <1>2 DEF ContextType
  <2>2. [done EXCEPT ![c].buffer = Buffered(@, r)] \in ContextType
    <3>1. done[c].buffer \in Seq(Request)
      BY <2>1 DEF ContextType
    <3>2. Append(done[c].buffer, r) \in Seq(Request)
      BY <3>1, AppendProperties
    <3> HIDE DEF done
    <3> QED
      BY <2>1, <3>2 DEF ContextType, Buffered
  <2>3. context' \in ContextType
    BY <1>10, <2>1, <2>2 DEF Reply
  <2>4. /\ toFront' \in [Socket -> Seq(Message(Answer))]
        /\ lost' \in SUBSET Request
    <3>1. CASE connected
      <4>1. s \in Socket
        BY <1>4, <3>1
      <4>2. <<Carrying(<<r>>)>> \in Seq(Message(Answer))
        <5>1. <<r>> \in Seq(Request) /\ <<r>> # <<>>
          OBVIOUS
        <5>2. Carrying(<<r>>) \in Message(Answer)
          BY <5>1, CarryingType
        <5> QED
          BY <5>2
      <4>3. FrontGets(s, <<Carrying(<<r>>)>>)
        BY <1>10, <3>1 DEF Reply
      <4> HIDE DEF s
      <4> QED
        BY <4>1, <4>2, <4>3, FrontGetsType
    <3>2. CASE ~ connected
      BY <1>2, <1>10, <3>2 DEF Reply
    <3> QED
      BY <3>1, <3>2
  <2> QED
    BY <1>2, <1>10, <2>3, <2>4 DEF Reply, front_vars
<1>11. ASSUME NEW s \in Socket, SocketDisconnects(s)
       PROVE  Types
  <2> DEFINE p == socket[s].page
             c == socket[s].serves
  <2>1. socket' \in SocketType
    <3>1. [socket EXCEPT ![s].connected = FALSE] \in SocketType
      BY <1>2 DEF SocketType
    <3> QED
      BY <1>11, <3>1 DEF SocketDisconnects
  <2>2. toBack' \in [Socket -> Seq(Message(Greeting))]
    <3>1. <<>> \in Seq(Message(Greeting))
      BY EmptySeq
    <3> QED
      BY <1>2, <1>11, <3>1 DEF SocketDisconnects
  <2>3. lost' \in SUBSET Request
    <3>1. Loads(toBack[s]) \subseteq Request
      BY <1>2, LoadsType
    <3> QED
      BY <1>2, <1>11, <3>1 DEF SocketDisconnects
  <2>4. late' \in BOOLEAN
    BY <1>2, <1>11 DEF SocketDisconnects
  <2>5. /\ marked' \in SUBSET Page
        /\ byFrontend' \in [Page -> Context \cup {None}]
        /\ context' \in ContextType
        /\ timer' \in TimerType
    <3>1. CASE c = None
      BY <1>2, <1>11, <3>1 DEF SocketDisconnects
    <3>2. CASE c # None
      <4>1. c \in Context
        BY <1>3, <3>2
      <4>2. Detached(c) \in ContextType
        <5> HIDE DEF c
        <5> QED
          BY <1>2, <4>1 DEF Detached, ContextType
      <4>3. TimeoutSet(p) \in TimerType
        <5>1. p \in Page
          BY <1>3
        <5> HIDE DEF p
        <5>2. timer[p].orphans + (IF timer[p].set THEN 1 ELSE 0) \in Nat
          BY <1>2, <5>1 DEF TimerType
        <5> QED
          BY <1>2, <5>1, <5>2 DEF TimeoutSet, TimerType
      <4>4. marked' \in SUBSET Page
        BY <1>2, <1>11, <3>2 DEF SocketDisconnects
      <4>5. CASE ConnectionClosed(Detached(c), timer, p)
        BY <1>2, <1>3, <4>2, <4>4, <4>5, ConnectionClosedType
      <4>6. CASE context' = Detached(c) /\ timer' = TimeoutSet(p) /\ UNCHANGED byFrontend
        BY <1>2, <4>2, <4>3, <4>4, <4>6
      <4>7. CASE context' = Detached(c) /\ UNCHANGED <<timer, byFrontend>>
        BY <1>2, <4>2, <4>4, <4>7
      <4> QED
        BY <1>11, <3>2, <4>5, <4>6, <4>7 DEF SocketDisconnects
    <3> QED
      BY <3>1, <3>2
  <2> QED
    BY <1>2, <1>11, <2>1, <2>2, <2>3, <2>4, <2>5 DEF SocketDisconnects, front_vars
<1>12. ASSUME NEW p \in Page, TimeoutCloses(p)
       PROVE  Types
  <2>1. timer[p].orphans > 0 =>
          [timer EXCEPT ![p].orphans = @ - 1] \in TimerType
    <3>1. timer[p].orphans > 0 => timer[p].orphans - 1 \in Nat
      BY <1>2 DEF TimerType
    <3> QED
      BY <1>2, <3>1 DEF TimerType
  <2>2. /\ context' \in ContextType
        /\ byFrontend' \in [Page -> Context \cup {None}]
        /\ timer' \in TimerType
    <3>1. CASE ConnectionClosed(context, timer, p)
      BY <1>2, <3>1, ConnectionClosedType
    <3>2. CASE /\ timer[p].orphans > 0
               /\ ConnectionClosed(context, [timer EXCEPT ![p].orphans = @ - 1], p)
      BY <1>2, <2>1, <3>2, ConnectionClosedType
    <3> QED
      BY <1>12, <3>1, <3>2 DEF TimeoutCloses
  <2> QED
    BY <1>2, <1>12, <2>2 DEF TimeoutCloses, front_vars
<1> QED
  BY <1>6, <1>7, <1>8, <1>9, <1>10, <1>11, <1>12 DEF BackHears

-----------------------------------------------------------------------------
\* The contexts.  A context the map leads to is open and under the id that
\* led to it; a socket that has not been greeted has no context yet.
MapIsRight ==
  \A p \in Page : byFrontend[p] # None =>
                     /\ context[byFrontend[p]].state = "open"
                     /\ context[byFrontend[p]].page = p

NoneBeforeGreeting ==
  \A s \in Socket : ~ socket[s].greeted => context[s].state = "none"

PendingIsOpen ==
  \A r \in Request :
    request[r].state = "pending" =>
      front.open /\ request[r].channel = front.channel

IInv == /\ TypeOK
        /\ Linked
        /\ OneContext /\ MapIsRight /\ NoneBeforeGreeting
        /\ PendingIsOpen

LEMMA InitIInv == Init => IInv
<1> SUFFICES ASSUME Init PROVE IInv
  OBVIOUS
<1>1. TypeOK
  BY InitTypes
<1>2. Linked /\ PendingIsOpen
  BY DEF Init, Linked, PendingIsOpen
<1>3. OneContext /\ MapIsRight /\ NoneBeforeGreeting
  <2>1. /\ \A p \in Page : byFrontend[p] = None
        /\ \A c \in Context : context[c].state = "none" /\ context[c].page = 0
    BY DEF Init
  <2>2. 0 \in Page /\ \A c \in Context : c # None
    BY DEF Page, Context, Socket
  <2> QED
    BY <2>1, <2>2 DEF OneContext, MapIsRight, NoneBeforeGreeting, Context
<1> QED
  BY <1>1, <1>2, <1>3 DEF IInv

\* What the back end knows of contexts does not depend on their sockets,
\* buffers and requests.
SameContexts ==
  /\ byFrontend' = byFrontend
  /\ \A c \in Context : /\ context'[c].state = context[c].state
                         /\ context'[c].page = context[c].page
  /\ \A s \in Socket : socket[s].greeted => socket'[s].greeted

LEMMA SameContextsKeep ==
  ASSUME IInv, SameContexts
  PROVE  (OneContext /\ MapIsRight /\ NoneBeforeGreeting)'
<1>1. byFrontend \in [Page -> Context \cup {None}]
  BY DEF IInv, TypeOK
<1> QED
  BY <1>1 DEF IInv, SameContexts, OneContext, MapIsRight, NoneBeforeGreeting,
              Context

LEMMA ClosingKeeps ==
  ASSUME IInv, NEW contexts \in ContextType,
         \A c \in Context : /\ contexts[c].state = context[c].state
                            /\ contexts[c].page = context[c].page,
         NEW timers, NEW p \in Page,
         ConnectionClosed(contexts, timers, p),
         \A s \in Socket : socket'[s].greeted = socket[s].greeted
  PROVE  (OneContext /\ MapIsRight /\ NoneBeforeGreeting)'
<1> DEFINE at == byFrontend[p]
<1>1. byFrontend \in [Page -> Context \cup {None}]
  BY DEF IInv, TypeOK
<1>2. byFrontend' = [byFrontend EXCEPT ![p] = None]
  BY DEF ConnectionClosed
<1>3. \A c \in Context :
        /\ context'[c].page = context[c].page
        /\ context'[c].state = IF c = at THEN "closed" ELSE context[c].state
  <2>1. context' = Closed(contexts, at)
    BY DEF ConnectionClosed
  <2>2. CASE at = None
    BY <2>1, <2>2 DEF Closed, Context, Socket
  <2>3. CASE at # None
    <3>1. context' = [contexts EXCEPT ![at] =
                        [@ EXCEPT !.state = "closed",
                                  !.buffer = Drained(contexts[at].buffer)]]
      BY <2>1, <2>3 DEF Closed
    <3> HIDE DEF at
    <3> QED
      BY <3>1 DEF ContextType
  <2> QED
    BY <2>2, <2>3
<1>4. at # None => context[at].page = p /\ at \in Context
  BY <1>1 DEF IInv, MapIsRight
<1>5. /\ \A c \in Context : context[c].page \in Page
      /\ \A c \in Context : context[c].state = "open" <=>
                              byFrontend[context[c].page] = c
      /\ \A c \in Context : c # None
  <2>1. \A c \in Context : c # None
    BY DEF Context, Socket
  <2>2. \A c \in Context : context[c].page \in Page
    BY TypesNamed DEF IInv, ContextType
  <2> QED
    BY <2>1, <2>2 DEF IInv, OneContext
<1>6. OneContext'
  <2> SUFFICES ASSUME NEW c \in Context
               PROVE  context'[c].state = "open" <=>
                        byFrontend'[context'[c].page] = c
    BY DEF OneContext
  <2>1. CASE context[c].page = p
    BY <1>1, <1>2, <1>3, <1>5, <2>1
  <2>2. CASE context[c].page # p
    <3>1. c # at
      BY <1>4, <1>5, <2>2
    <3> QED
      BY <1>1, <1>2, <1>3, <1>5, <2>2, <3>1
  <2> QED
    BY <2>1, <2>2
<1>7. MapIsRight'
  <2> SUFFICES ASSUME NEW q \in Page, byFrontend'[q] # None
               PROVE  /\ context'[byFrontend'[q]].state = "open"
                      /\ context'[byFrontend'[q]].page = q
    BY DEF MapIsRight
  <2>1. q # p /\ byFrontend'[q] = byFrontend[q]
    BY <1>1, <1>2
  <2>2. /\ context[byFrontend[q]].state = "open"
        /\ context[byFrontend[q]].page = q
        /\ byFrontend[q] \in Context
    BY <1>1, <2>1 DEF IInv, MapIsRight
  <2>3. byFrontend[q] # at
    BY <1>4, <2>1, <2>2
  <2> QED
    BY <1>3, <2>1, <2>2, <2>3
<1>8. NoneBeforeGreeting'
  <2>1. \A s \in Socket : ~ socket[s].greeted => context[s].state = "none"
    BY DEF IInv, NoneBeforeGreeting
  <2>2. at # None => context[at].state = "open"
    BY DEF IInv, MapIsRight
  <2> QED
    BY <1>3, <1>5, <2>1, <2>2 DEF NoneBeforeGreeting, Context
<1> QED
  BY <1>6, <1>7, <1>8

LEMMA CreatingKeeps ==
  ASSUME IInv, NEW s \in Socket, InitialConnect(s)
  PROVE  (OneContext /\ MapIsRight /\ NoneBeforeGreeting)'
<1> DEFINE p == socket[s].page
           at == byFrontend[p]
<1>1. /\ byFrontend \in [Page -> Context \cup {None}]
      /\ socket \in SocketType
      /\ context \in ContextType
      /\ p \in Page
  BY TypesNamed DEF IInv, SocketType
<1>2. /\ byFrontend' = [byFrontend EXCEPT ![p] = s]
      /\ s \in Context /\ s # None
      /\ \A c \in Context : c # None
  BY DEF InitialConnect, Context, Socket
<1>3. context[s].state = "none"
  BY DEF IInv, NoneBeforeGreeting, InitialConnect
<1>4. at # None => /\ at \in Context /\ context[at].page = p
                   /\ context[at].state = "open"
  BY <1>1 DEF IInv, MapIsRight
<1>5. \A c \in Context :
        /\ context'[c].page = IF c = s THEN p ELSE context[c].page
        /\ context'[c].state = IF c = s THEN "open"
                               ELSE IF c = at THEN "closed" ELSE context[c].state
  <2>1. context' = Created(Closed(context, at), s, p)
    BY DEF InitialConnect, Discarded
  <2> HIDE DEF p, at
  <2>2. \A c \in Context :
          /\ Closed(context, at)[c].page = context[c].page
          /\ Closed(context, at)[c].state =
               IF c = at THEN "closed" ELSE context[c].state
    BY <1>1, <1>2 DEF Closed, ContextType
  <2>3. Closed(context, at) \in ContextType
    <3>1. at \in Context \cup {None}
      BY <1>1 DEF at
    <3> QED
      BY <1>1, <3>1, ClosedType
  <2> QED
    BY <1>2, <2>1, <2>2, <2>3 DEF Created, ContextType
<1>6. /\ \A c \in Context : context[c].page \in Page
      /\ \A c \in Context : context[c].state = "open" <=>
                              byFrontend[context[c].page] = c
  BY <1>1 DEF IInv, OneContext, ContextType
<1>7. OneContext'
  <2> SUFFICES ASSUME NEW c \in Context
               PROVE  context'[c].state = "open" <=>
                        byFrontend'[context'[c].page] = c
    BY DEF OneContext
  <2>1. CASE c = s
    BY <1>1, <1>2, <1>5, <2>1
  <2>2. CASE c # s /\ context[c].page = p
    <3>1. byFrontend'[p] = s
      BY <1>1, <1>2
    <3>2. context[c].state = "open" <=> at = c
      BY <1>6, <2>2
    <3> QED
      BY <1>5, <2>2, <3>1, <3>2
  <2>3. CASE c # s /\ context[c].page # p
    <3>1. c # at
      BY <1>2, <1>4, <2>3
    <3>2. byFrontend'[context[c].page] = byFrontend[context[c].page]
      BY <1>1, <1>2, <1>6, <2>3
    <3> QED
      BY <1>5, <1>6, <2>3, <3>1, <3>2
  <2> QED
    BY <2>1, <2>2, <2>3
<1>8. MapIsRight'
  <2> SUFFICES ASSUME NEW q \in Page, byFrontend'[q] # None
               PROVE  /\ context'[byFrontend'[q]].state = "open"
                      /\ context'[byFrontend'[q]].page = q
    BY DEF MapIsRight
  <2>1. CASE q = p
    BY <1>1, <1>2, <1>5, <2>1
  <2>2. CASE q # p
    <3>1. byFrontend'[q] = byFrontend[q]
      BY <1>1, <1>2, <2>2
    <3>2. /\ context[byFrontend[q]].state = "open"
          /\ context[byFrontend[q]].page = q
          /\ byFrontend[q] \in Context
      BY <1>1, <3>1 DEF IInv, MapIsRight
    <3>3. byFrontend[q] # at /\ byFrontend[q] # s
      BY <1>2, <1>3, <1>4, <2>2, <3>2
    <3> QED
      BY <1>5, <3>1, <3>2, <3>3
  <2> QED
    BY <2>1, <2>2
<1>9. NoneBeforeGreeting'
  <2> SUFFICES ASSUME NEW t \in Socket, ~ socket'[t].greeted
               PROVE  context'[t].state = "none"
    BY DEF NoneBeforeGreeting
  <2>1. t # s /\ ~ socket[t].greeted
    BY <1>1 DEF InitialConnect, SocketType
  <2>2. context[t].state = "none" /\ t # at
    BY <1>2, <1>4, <2>1 DEF IInv, NoneBeforeGreeting, Context
  <2> QED
    BY <1>5, <2>1, <2>2 DEF Context
<1> QED
  BY <1>7, <1>8, <1>9

\* The steps of the front end and the link leave the contexts alone, and
\* those of the back end the requests that are pending.
LEMMA FrontStep ==
  ASSUME IInv,
         \/ FrontConnects \/ FrontNotices \/ FrontHears \/ MarkForClose
         \/ \E r \in Request : Send(r)
         \/ \E s \in Socket : Break(s)
  PROVE  IInv'
<1>1. TypeOK'
  BY FrontTypes DEF IInv
<1>2. /\ front \in FrontType
      /\ request \in RequestType
      /\ socket \in SocketType
      /\ Linked /\ PendingIsOpen
  BY TypesNamed DEF IInv
<1> DEFINE Rest ==
      /\ byFrontend' = byFrontend /\ context' = context
      /\ \A s \in Socket : socket[s].greeted => socket'[s].greeted
<1>3. Rest /\ Linked' /\ PendingIsOpen'
  <2>1. CASE FrontConnects
    <3>1. PICK s \in Socket :
            /\ socket' = [socket EXCEPT ![s] =
                             [@ EXCEPT !.page = front.page, !.link = "up",
                                       !.connected = TRUE]]
            /\ front' = [front EXCEPT !.socket = s, !.connected = TRUE,
                                      !.greeting = FALSE]
            /\ UNCHANGED <<request, back_vars>>
      BY <2>1 DEF FrontConnects
    <3>2. front'.socket \in Socket /\ front'.open = front.open
          /\ front'.channel = front.channel
      BY <1>2, <3>1 DEF FrontType
    <3> QED
      BY <1>2, <3>1, <3>2 DEF back_vars, Linked, PendingIsOpen, SocketType
  <2>2. CASE FrontNotices
    <3>1. /\ front' = [front EXCEPT !.connected = FALSE]
          /\ UNCHANGED <<request, back_vars, socket>>
      BY <2>2 DEF FrontNotices, FrontLeaves
    <3> QED
      BY <1>2, <3>1 DEF back_vars, Linked, PendingIsOpen, FrontType
  <2>3. CASE ConnectNewChannel
    <3>1. /\ request' = Rejected
          /\ front' = [front EXCEPT !.channel = socket[front.socket].serves,
                                    !.open = TRUE, !.buffer = Drained(@)]
          /\ UNCHANGED <<back_vars, socket>>
      BY <2>3 DEF ConnectNewChannel
    <3>2. \A r \in Request : request'[r].state # "pending"
      BY <1>2, <3>1 DEF Rejected, RequestType
    <3>3. front'.socket = front.socket /\ front'.connected = front.connected
      BY <1>2, <3>1 DEF FrontType
    <3> QED
      BY <1>2, <3>1, <3>2, <3>3 DEF back_vars, Linked, PendingIsOpen
  <2>4. CASE ReconnectSucceeded
    <3>1. /\ front' = [front EXCEPT !.buffer = AfterFlush(@)]
          /\ UNCHANGED <<request, back_vars, socket>>
      BY <2>4 DEF ReconnectSucceeded
    <3> QED
      BY <1>2, <3>1 DEF back_vars, Linked, PendingIsOpen, FrontType
  <2>5. CASE ReconnectFailed
    <3>1. /\ request' = Rejected
          /\ UNCHANGED back_vars
          /\ socket' = [socket EXCEPT ![front.socket].link = "broken"]
      BY <2>5 DEF ReconnectFailed, FrontLeaves
    <3>2. \A r \in Request : request'[r].state # "pending"
      BY <1>2, <3>1 DEF Rejected, RequestType
    <3>3. ~ front'.connected
      BY <1>2, <2>5 DEF ReconnectFailed, FrontType
    <3> QED
      BY <1>2, <3>1, <3>2, <3>3 DEF back_vars, Linked, PendingIsOpen, SocketType
  <2>6. CASE ReplyArrives
    <3>1. UNCHANGED <<front, back_vars, socket>>
      BY <2>6 DEF ReplyArrives
    <3>2. \A r \in Request :
            request'[r].state = "pending" => request'[r] = request[r]
      BY <1>2, <2>6 DEF ReplyArrives, RequestType
    <3> QED
      BY <1>2, <3>1, <3>2 DEF back_vars, Linked, PendingIsOpen
  <2>7. CASE MarkForClose
    BY <1>2, <2>7 DEF MarkForClose, front_vars, Linked, PendingIsOpen
  <2>8. ASSUME NEW r \in Request, Send(r)
        PROVE  Rest /\ Linked' /\ PendingIsOpen'
    <3>1. UNCHANGED <<socket, back_vars>> /\ front.open
      BY <2>8 DEF Send
    <3>2. /\ front'.open = front.open /\ front'.channel = front.channel
          /\ front'.socket = front.socket
          /\ front'.connected = front.connected
      BY <1>2, <2>8 DEF Send, FrontType
    <3>3. \A q \in Request :
            request'[q].state = "pending" =>
              request'[q].channel = front.channel
      <4>1. request'[r].channel = front.channel
        BY <1>2, <2>8 DEF Send, RequestType
      <4>2. \A q \in Request : q # r => request'[q] = request[q]
        BY <1>2, <2>8 DEF Send, RequestType
      <4> QED
        BY <1>2, <4>1, <4>2 DEF PendingIsOpen
    <3> QED
      BY <1>2, <3>1, <3>2, <3>3 DEF back_vars, Linked, PendingIsOpen
  <2>9. ASSUME NEW s \in Socket, Break(s)
        PROVE  Rest /\ Linked' /\ PendingIsOpen'
    BY <1>2, <2>9 DEF Break, back_vars, Linked, PendingIsOpen, SocketType
  <2> QED
    BY <2>1, <2>2, <2>3, <2>4, <2>5, <2>6, <2>7, <2>8, <2>9 DEF FrontHears
<1>4. SameContexts
  BY <1>3 DEF SameContexts
<1> QED
  BY <1>1, <1>3, <1>4, SameContextsKeep DEF IInv

LEMMA BackStep ==
  ASSUME IInv,
         \/ \E s \in Socket : BackHears(s) \/ SocketDisconnects(s)
         \/ \E c \in Context, r \in Request : Reply(c, r)
         \/ \E p \in Page : TimeoutCloses(p)
  PROVE  IInv'
<1>1. TypeOK'
  BY BackTypes DEF IInv
<1>2. /\ socket \in SocketType
      /\ context \in ContextType
      /\ timer \in TimerType
      /\ byFrontend \in [Page -> Context \cup {None}]
      /\ Linked /\ PendingIsOpen
      /\ \A s \in Socket : /\ socket[s].page \in Page
                            /\ socket[s].serves \in Context \cup {None}
  BY TypesNamed DEF IInv, SocketType
<1>3. UNCHANGED front_vars
  BY DEF BackHears, InitialConnect, Reconnect, GreetingIgnored, RequestArrives,
         SocketDisconnects, Reply, TimeoutCloses
<1>4. Linked' /\ PendingIsOpen'
  BY <1>2, <1>3 DEF Linked, PendingIsOpen, front_vars
<1> DEFINE Contexts == OneContext /\ MapIsRight /\ NoneBeforeGreeting
<1>5. ASSUME NEW s \in Socket, InitialConnect(s)
      PROVE  Contexts'
  BY <1>5, CreatingKeeps
<1>6. ASSUME NEW s \in Socket, Reconnect(s)
      PROVE  Contexts'
  <2> DEFINE c == byFrontend[socket[s].page]
  <2>1. byFrontend' = byFrontend
    BY <1>6 DEF Reconnect
  <2>2. \A t \in Socket : socket[t].greeted => socket'[t].greeted
    BY <1>2, <1>6 DEF Reconnect, SocketType
  <2>3. \A d \in Context : /\ context'[d].state = context[d].state
                           /\ context'[d].page = context[d].page
    <3>1. \/ context' = context
          \/ c \in Context /\ context' =
               [context EXCEPT ![c] =
                  [context[c] EXCEPT !.socket = s,
                                     !.buffer = AfterFlush(context[c].buffer)]]
      BY <1>2, <1>6 DEF Reconnect
    <3> HIDE DEF c
    <3>2. CASE context' = context
      BY <3>2
    <3>3. ASSUME c \in Context,
                 context' =
                   [context EXCEPT ![c] =
                      [context[c] EXCEPT !.socket = s,
                                     !.buffer = AfterFlush(context[c].buffer)]]
          PROVE  \A d \in Context : /\ context'[d].state = context[d].state
                                    /\ context'[d].page = context[d].page
      <4> DEFINE new == [context[c] EXCEPT !.socket = s,
                                     !.buffer = AfterFlush(context[c].buffer)]
      <4>1. new.state = context[c].state /\ new.page = context[c].page
        BY <1>2, <3>3 DEF ContextType
      <4> HIDE DEF new
      <4>2. context' = [context EXCEPT ![c] = new]
        BY <3>3 DEF new
      <4> QED
        BY <1>2, <3>3, <4>1, <4>2 DEF ContextType
    <3> QED
      BY <3>1, <3>2, <3>3
  <2> QED
    BY <2>1, <2>2, <2>3, SameContextsKeep DEF SameContexts
<1>7. ASSUME NEW s \in Socket, GreetingIgnored(s)
      PROVE  Contexts'
  BY <1>7, SameContextsKeep DEF GreetingIgnored, back_vars, SameContexts
<1>8. ASSUME NEW s \in Socket, RequestArrives(s)
      PROVE  Contexts'
  <2>1. \A d \in Context : /\ context'[d].state = context[d].state
                           /\ context'[d].page = context[d].page
    <3> DEFINE c == socket[s].serves
               r == Head(Head(toBack[s]).load)
    <3>1. \/ context' = context
          \/ c \in Context /\ context' = [context EXCEPT ![c].working = @ \cup {r}]
      BY <1>2, <1>8 DEF RequestArrives, Listens
    <3> HIDE DEF c, r
    <3>2. ASSUME c \in Context, context' = [context EXCEPT ![c].working = @ \cup {r}],
                 NEW d \in Context
          PROVE  context'[d].state = context[d].state /\ context'[d].page = context[d].page
      <4>1. context[c] \in [state : {"none", "open", "closed"}, page : Page,
                            socket : Socket \cup {None}, buffer : Seq(Request),
                            working : SUBSET Request]
        BY <1>2, <3>2 DEF ContextType
      <4>2. CASE d = c
        BY <1>2, <3>2, <4>1, <4>2 DEF ContextType
      <4>3. CASE d # c
        BY <1>2, <3>2, <4>3 DEF ContextType
      <4> QED
        BY <4>2, <4>3
    <3> QED
      BY <3>1, <3>2
  <2> QED
    BY <1>8, <2>1, SameContextsKeep DEF RequestArrives, SameContexts
<1>9. ASSUME NEW c \in Context, NEW r \in Request, Reply(c, r)
      PROVE  Contexts'
  <2> DEFINE done == [context EXCEPT ![c].working = @ \ {r}]
  <2>1. \/ context' = done
        \/ context' = [done EXCEPT ![c].buffer = Buffered(@, r)]
    BY <1>9 DEF Reply
  <2>2. \A d \in Context : /\ context'[d].state = context[d].state
                           /\ context'[d].page = context[d].page
    <3>1. /\ done \in [Context -> [state : {"none", "open", "closed"},
                                   page : Page, socket : Socket \cup {None},
                                   buffer : Seq(Request),
                                   working : SUBSET Request]]
          /\ \A d \in Context : /\ done[d].state = context[d].state
                                 /\ done[d].page = context[d].page
      BY <1>2 DEF ContextType
    <3> HIDE DEF done
    <3> QED
      BY <2>1, <3>1
  <2> QED
    BY <1>9, <2>2, SameContextsKeep DEF Reply, SameContexts
<1>10. ASSUME NEW s \in Socket, SocketDisconnects(s)
       PROVE  Contexts'
  <2> DEFINE p == socket[s].page
             c == socket[s].serves
  <2>1. \A t \in Socket : socket'[t].greeted = socket[t].greeted
    BY <1>2, <1>10 DEF SocketDisconnects, SocketType
  <2>2. CASE UNCHANGED <<byFrontend, context>>
    BY <2>1, <2>2, SameContextsKeep DEF SameContexts
  <2>3. ASSUME c # None
        PROVE  /\ Detached(c) \in ContextType
               /\ \A d \in Context :
                    /\ Detached(c)[d].state = context[d].state
                    /\ Detached(c)[d].page = context[d].page
    <3>1. c \in Context
      BY <1>2, <2>3
    <3> HIDE DEF c
    <3> QED
      BY <1>2, <3>1 DEF Detached, ContextType
  <2>4. CASE c # None /\ context' = Detached(c) /\ UNCHANGED byFrontend
    BY <2>1, <2>3, <2>4, SameContextsKeep DEF SameContexts
  <2>5. CASE c # None /\ ConnectionClosed(Detached(c), timer, p)
    BY <1>2, <2>1, <2>3, <2>5, ClosingKeeps
  <2> QED
    BY <1>10, <2>2, <2>4, <2>5 DEF SocketDisconnects
<1>11. ASSUME NEW p \in Page, TimeoutCloses(p)
       PROVE  Contexts'
  <2>1. PICK timers : ConnectionClosed(context, timers, p)
    BY <1>11 DEF TimeoutCloses
  <2> QED
    BY <1>2, <1>11, <2>1, ClosingKeeps DEF TimeoutCloses
<1> QED
  BY <1>1, <1>4, <1>5, <1>6, <1>7, <1>8, <1>9, <1>10, <1>11 DEF BackHears, IInv

LEMMA Inductive == Spec => []IInv
<1>1. IInv /\ [Next]_vars => IInv'
  <2> SUFFICES ASSUME IInv, [Next]_vars PROVE IInv'
    OBVIOUS
  <2>1. CASE Next
    BY <2>1, FrontStep, BackStep DEF Next
  <2>2. CASE UNCHANGED vars
    BY <2>2 DEF vars, IInv, TypeOK, Linked, OneContext, MapIsRight,
                NoneBeforeGreeting, PendingIsOpen
  <2> QED
    BY <2>1, <2>2
<1> QED
  BY InitIInv, <1>1, PTL DEF Spec

\* Every variable keeps its type, whatever is sent and however often links
\* break.
THEOREM ConnectionTypes == Spec => []TypeOK
BY Inductive, PTL DEF IInv

\* The back end's open contexts are those of connectionsByFrontend, however
\* greetings, disconnects and timeouts interleave (closeConnection and
\* createConnection).
THEOREM ContextsAreReachable == Spec => []OneContext
BY Inductive, PTL DEF IInv

\* Whoever waits for a request waits on the channel that is open: closing a
\* channel has settled all that were pending on it (negogiateReconnect and
\* connectNewChannel fire onClose before they close).
THEOREM NobodyWaitsOnAClosedChannel == Spec => []PendingIsOpen
BY Inductive, PTL DEF IInv

-----------------------------------------------------------------------------
\* Whose request it is.  A channel is the front end's own as long as nothing
\* introduces its front end again on a later socket: this is what keeps the
\* requests of two contexts apart.

Kinds(messages) == {messages[i].kind : i \in DOMAIN messages}

Opened(s) == socket[s].link # "none"

\* The sockets are opened one after another, the front end is on the last.
InOrder ==
  /\ \A s \in Socket :
       /\ Opened(s) <=> s <= front.socket
       /\ ~ Opened(s) => ~ socket[s].connected /\ ~ socket[s].greeted
       /\ socket[s].serves # None => socket[s].greeted
  /\ front.connected => /\ socket[front.socket].page = front.page
                        /\ ~ front.greeting

\* The answer to an introduction is said where there was one.
Introduced ==
  \A s \in Socket : "initialConnection" \in Kinds(toFront[s]) =>
                      socket[s].serves = s

\* The map leads to a context that its own front end introduced, and unless
\* a socket was late, to the last of them.
MapIsTheirs ==
  \A p \in Page : byFrontend[p] # None =>
                    /\ socket[byFrontend[p]].serves = byFrontend[p]
                    /\ socket[byFrontend[p]].page = p

Latest ==
  late \/ \A s \in Socket :
            LET b == byFrontend[socket[s].page]
            IN  socket[s].serves = s /\ b # None => s <= b

\* Nothing introduces the front end of c again, on any socket up to s.
Quiet(c, s) ==
  \A t \in Socket : c < t /\ t <= s =>
                      /\ socket[t].serves # t
                      /\ "initialConnection" \notin Kinds(toBack[t])

\* What the socket s serves, if anything, is the context c.
Heir(c, s) ==
  /\ c \in Context /\ s \in Socket /\ c <= s
  /\ socket[c].serves = c /\ socket[c].page = socket[s].page
  /\ Quiet(c, s)
  /\ late \/ socket[s].serves \in {None, c}

OpenChannel ==
  front.open => /\ Heir(front.channel, front.socket)
                /\ socket[front.channel].page = front.page
                /\ ~ front.greeting

\* Requests, where they may be: on channels of their own.
InBuffer ==
  \A r \in Range(front.buffer) : /\ front.open
                                 /\ request[r].state # "idle"
                                 /\ request[r].channel = front.channel

OnTheWay ==
  \A s \in Socket : \A r \in Loads(toBack[s]) :
    Opened(s) /\ request[r].state # "idle" /\ Heir(request[r].channel, s)

AtWork ==
  \A c \in Context : \A r \in context[c].working \cup Range(context[c].buffer) :
    request[r].state # "idle" /\ (late \/ request[r].channel = c)

OwnInv == /\ InOrder /\ Introduced /\ MapIsTheirs /\ Latest
          /\ OpenChannel /\ InBuffer /\ OnTheWay /\ AtWork

-----------------------------------------------------------------------------
\* What is left on a link, and what is added to it.

LEMMA TailHolds ==
  ASSUME NEW S, NEW messages \in Seq(S), messages # <<>>
  PROVE  /\ Loads(Tail(messages)) \subseteq Loads(messages)
         /\ Kinds(Tail(messages)) \subseteq Kinds(messages)
         /\ Head(messages).kind \in Kinds(messages)
         /\ Range(Head(messages).load) \subseteq Loads(messages)
<1>1. /\ Len(messages) \in Nat \ {0}
      /\ DOMAIN messages = 1 .. Len(messages)
      /\ Head(messages) = messages[1]
  BY EmptySeq
<1>2. /\ DOMAIN Tail(messages) = 1 .. Len(messages) - 1
      /\ \A i \in 1 .. Len(messages) - 1 : Tail(messages)[i] = messages[i + 1]
  BY HeadTailProperties
<1>3. 1 \in DOMAIN messages
  BY <1>1
<1>4. \A i \in DOMAIN Tail(messages) :
        i + 1 \in DOMAIN messages /\ Tail(messages)[i] = messages[i + 1]
  BY <1>1, <1>2
<1> QED
  BY <1>1, <1>3, <1>4 DEF Loads, Kinds

LEMMA ConcatHolds ==
  ASSUME NEW S, NEW messages \in Seq(S), NEW more \in Seq(S)
  PROVE  /\ Loads(messages \o more) = Loads(messages) \cup Loads(more)
         /\ Kinds(messages \o more) = Kinds(messages) \cup Kinds(more)
<1> DEFINE all == messages \o more
<1>1. /\ Len(messages) \in Nat /\ Len(more) \in Nat
      /\ DOMAIN messages = 1 .. Len(messages) /\ DOMAIN more = 1 .. Len(more)
  OBVIOUS
<1>2. /\ DOMAIN all = 1 .. Len(messages) + Len(more)
      /\ \A i \in 1 .. Len(messages) + Len(more) :
           all[i] = IF i <= Len(messages) THEN messages[i]
                    ELSE more[i - Len(messages)]
  BY ConcatProperties
<1> HIDE DEF all
<1>3. \A i \in DOMAIN all :
        \/ i \in DOMAIN messages /\ all[i] = messages[i]
        \/ i - Len(messages) \in DOMAIN more /\ all[i] = more[i - Len(messages)]
  BY <1>1, <1>2
<1>4. \A i \in DOMAIN messages : i \in DOMAIN all /\ all[i] = messages[i]
  BY <1>1, <1>2
<1>5. \A i \in DOMAIN more :
        i + Len(messages) \in DOMAIN all /\ all[i + Len(messages)] = more[i]
  BY <1>1, <1>2
<1>6. Loads(all) = Loads(messages) \cup Loads(more)
  BY <1>3, <1>4, <1>5 DEF Loads
<1>7. Kinds(all) = Kinds(messages) \cup Kinds(more)
  BY <1>3, <1>4, <1>5 DEF Kinds
<1> QED
  BY <1>6, <1>7 DEF all

\* An empty link, and one with one message.
LEMMA OneHolds ==
  /\ Loads(<<>>) = {} /\ Kinds(<<>>) = {}
  /\ \A m : Loads(<<m>>) = Range(m.load) /\ Kinds(<<m>>) = {m.kind}
<1>1. ASSUME NEW m
      PROVE  Loads(<<m>>) = Range(m.load) /\ Kinds(<<m>>) = {m.kind}
  <2>1. DOMAIN <<m>> = {1} /\ <<m>>[1] = m
    OBVIOUS
  <2> HIDE DEF Range
  <2> QED
    BY <2>1 DEF Loads, Kinds
<1>2. Loads(<<>>) = {} /\ Kinds(<<>>) = {}
  BY DEF Loads, Kinds
<1> QED
  BY <1>1, <1>2

LEMMA SaidHolds ==
  ASSUME NEW kind
  PROVE  Loads(<<Said(kind)>>) = {} /\ Kinds(<<Said(kind)>>) = {kind}
<1>1. Said(kind).load = <<>> /\ Said(kind).kind = kind
  BY DEF Said
<1>2. Range(<<>>) = {}
  BY DEF Range
<1> QED
  BY <1>1, <1>2, OneHolds

LEMMA CarryingHolds ==
  ASSUME NEW rs \in Seq(Request)
  PROVE  /\ Loads(<<Carrying(rs)>>) = Range(rs)
         /\ Kinds(<<Carrying(rs)>>) = {"data"}
         /\ Loads(Flushed(rs)) = Range(rs)
         /\ Kinds(Flushed(rs)) \subseteq {"data"}
<1>1. Carrying(rs).load = rs /\ Carrying(rs).kind = "data"
  BY DEF Carrying
<1>2. Loads(<<Carrying(rs)>>) = Range(rs) /\ Kinds(<<Carrying(rs)>>) = {"data"}
  BY <1>1, OneHolds
<1>3. Range(<<>>) = {}
  BY DEF Range
<1>4. CASE rs = <<>>
  BY <1>2, <1>3, <1>4, OneHolds DEF Flushed
<1>5. CASE rs # <<>>
  BY <1>2, <1>5 DEF Flushed
<1> QED
  BY <1>2, <1>4, <1>5

LEMMA BufferedHolds ==
  ASSUME NEW buffer \in Seq(Request), NEW r \in Request
  PROVE  Range(Buffered(buffer, r)) = Range(buffer) \cup {r}
<1> DEFINE all == Append(buffer, r)
<1>1. /\ Len(buffer) \in Nat /\ DOMAIN buffer = 1 .. Len(buffer)
      /\ DOMAIN all = 1 .. Len(buffer) + 1
      /\ \A i \in 1 .. Len(buffer) : all[i] = buffer[i]
      /\ all[Len(buffer) + 1] = r
  BY AppendProperties
<1> HIDE DEF all
<1>2. Range(all) = Range(buffer) \cup {r}
  BY <1>1 DEF Range
<1> QED
  BY <1>2 DEF all, Buffered

\* What a client says when it reconnects.
LEMMA GreetingsHold ==
  /\ Loads(Greetings) = {}
  /\ ~ front.greeting /\ front.channel # None =>
       "initialConnection" \notin Kinds(Greetings)
<1> DEFINE S == Message(Greeting)
           before == IF front.greeting THEN <<Said("initialConnection")>> ELSE <<>>
<1>1. before \in Seq(S) /\ <<Said(Negotiation)>> \in Seq(S)
  <2>1. Said("initialConnection") \in S /\ Said(Negotiation) \in S
    BY SaidType DEF Greeting, Negotiation
  <2> HIDE DEF S
  <2> QED
    BY <2>1
<1>2. Loads(before) = {}
  BY SaidHolds, OneHolds
<1>3. ~ front.greeting => Kinds(before) = {}
  BY OneHolds
<1>4. front.channel # None => Kinds(<<Said(Negotiation)>>) = {"reconnect"}
  BY SaidHolds DEF Negotiation
<1>5. Loads(<<Said(Negotiation)>>) = {}
  BY SaidHolds
<1>6. Greetings = before \o <<Said(Negotiation)>>
  BY DEF Greetings
<1> DEFINE last == <<Said(Negotiation)>>
<1>7. before \in Seq(S) /\ last \in Seq(S) /\ Greetings = before \o last
  BY <1>1, <1>6
<1>8. Loads(last) = {} /\ (front.channel # None => Kinds(last) = {"reconnect"})
  BY <1>4, <1>5
<1> HIDE DEF before, last, S
<1>9. /\ Loads(Greetings) = Loads(before) \cup Loads(last)
      /\ Kinds(Greetings) = Kinds(before) \cup Kinds(last)
  BY <1>7, ConcatHolds
<1> QED
  BY <1>2, <1>3, <1>8, <1>9

-----------------------------------------------------------------------------
\* What a step does to a socket, to a link and to a request.

Unmoved(s) ==
  /\ socket'[s].page = socket[s].page /\ socket'[s].serves = socket[s].serves
  /\ socket'[s].greeted = socket[s].greeted
  /\ socket'[s].connected => socket[s].connected
  /\ Opened(s)' <=> Opened(s)

Connects(s) ==
  /\ FrontConnects
  /\ ~ Opened(s) /\ Opened(s)'
  /\ \A t \in Socket : t < s => Opened(t)
  /\ socket'[s].page = front.page /\ socket'[s].serves = socket[s].serves
  /\ socket'[s].greeted = socket[s].greeted
  /\ front' = [front EXCEPT !.socket = s, !.connected = TRUE, !.greeting = FALSE]
  /\ toBack'[s] = Greetings

Introduces(s) ==
  /\ ~ socket[s].greeted /\ socket'[s].greeted /\ socket[s].connected
  /\ socket'[s].page = socket[s].page
  /\ Opened(s)' <=> Opened(s)
  /\ late' = (late \/ Overtaken(s))
  /\ \/ InitialConnect(s) /\ socket'[s].serves = s
     \/ Reconnect(s) /\ socket'[s].serves = byFrontend[socket[s].page]

LEMMA SocketStep ==
  ASSUME IInv, InOrder, [Next]_vars, NEW s \in Socket
  PROVE  Unmoved(s) \/ Connects(s) \/ Introduces(s)
<1>1. /\ socket \in SocketType /\ socket[s].page \in Page
      /\ toBack \in [Socket -> Seq(Message(Greeting))]
      /\ byFrontend \in [Page -> Context \cup {None}]
  BY TypesNamed DEF IInv, SocketType
<1>2. CASE UNCHANGED socket
  BY <1>2 DEF Unmoved, Opened
<1>3. CASE FrontConnects
  <2>1. PICK t \in Socket :
          /\ socket[t].link = "none"
          /\ \A u \in Socket : u < t => socket[u].link # "none"
          /\ socket' = [socket EXCEPT ![t] =
                           [@ EXCEPT !.page = front.page, !.link = "up",
                                     !.connected = TRUE]]
          /\ front' = [front EXCEPT !.socket = t, !.connected = TRUE,
                                    !.greeting = FALSE]
          /\ toBack' = [toBack EXCEPT ![t] = Greetings]
    BY <1>3 DEF FrontConnects
  <2>2. CASE s = t
    BY <1>1, <1>3, <2>1, <2>2 DEF Connects, Opened, SocketType
  <2>3. CASE s # t
    BY <1>1, <2>1, <2>3 DEF Unmoved, Opened, SocketType
  <2> QED
    BY <2>2, <2>3
<1>4. ASSUME NEW t \in Socket,
             \/ socket' = [socket EXCEPT ![t].link = "broken"] /\ Opened(t)
             \/ socket' = [socket EXCEPT ![t].connected = FALSE]
      PROVE  Unmoved(s)
  <2>1. CASE s # t
    BY <1>1, <1>4, <2>1 DEF Unmoved, Opened, SocketType
  <2>2. CASE s = t /\ socket' = [socket EXCEPT ![t].link = "broken"] /\ Opened(t)
    BY <1>1, <2>2 DEF Unmoved, Opened, SocketType
  <2>3. CASE s = t /\ socket' = [socket EXCEPT ![t].connected = FALSE]
    BY <1>1, <2>3 DEF Unmoved, Opened, SocketType
  <2> QED
    BY <1>4, <2>1, <2>2, <2>3
<1>5. ASSUME NEW t \in Socket, Break(t)
      PROVE  Unmoved(s)
  BY <1>4, <1>5 DEF Break, Opened
<1>6. ASSUME NEW t \in Socket, SocketDisconnects(t)
      PROVE  Unmoved(s)
  BY <1>4, <1>6 DEF SocketDisconnects
<1>7. CASE ReconnectFailed
  <2>1. /\ front.connected /\ front.socket \in Socket
        /\ socket' = [socket EXCEPT ![front.socket].link = "broken"]
    BY <1>7 DEF ReconnectFailed, FrontLeaves, Heard, IInv, Linked
  <2>2. Opened(front.socket)
    BY <2>1 DEF InOrder, Socket
  <2> QED
    BY <1>4, <2>1, <2>2
<1>8. ASSUME NEW t \in Socket, InitialConnect(t)
      PROVE  Unmoved(s) \/ Introduces(s)
  <2>1. socket' = [socket EXCEPT ![t] = [@ EXCEPT !.greeted = TRUE, !.serves = t]]
    BY <1>8 DEF InitialConnect
  <2>2. CASE s = t
    BY <1>1, <1>8, <2>1, <2>2 DEF Introduces, Opened, SocketType, InitialConnect, Asked
  <2>3. CASE s # t
    BY <1>1, <2>1, <2>3 DEF Unmoved, Opened, SocketType
  <2> QED
    BY <2>2, <2>3
<1>9. ASSUME NEW t \in Socket, Reconnect(t)
      PROVE  Unmoved(s) \/ Introduces(s)
  <2> DEFINE c == byFrontend[socket[t].page]
  <2>1. /\ ~ socket[t].greeted /\ socket[t].connected
        /\ late' = (late \/ Overtaken(t))
        /\ \/ socket' = [socket EXCEPT ![t] = [@ EXCEPT !.greeted = TRUE, !.serves = c]]
           \/ c = None /\ socket' = [socket EXCEPT ![t].greeted = TRUE]
    BY <1>9 DEF Reconnect, Asked
  <2>2. CASE socket' = [socket EXCEPT ![t] = [@ EXCEPT !.greeted = TRUE, !.serves = c]]
    <3> HIDE DEF c
    <3>1. CASE s = t
      <4>1. /\ socket'[s].greeted /\ socket'[s].serves = c
            /\ socket'[s].page = socket[s].page /\ socket'[s].link = socket[s].link
        BY <1>1, <2>2, <3>1 DEF SocketType
      <4> QED
        BY <1>9, <2>1, <3>1, <4>1 DEF Introduces, Opened, c
    <3>2. CASE s # t
      BY <1>1, <2>2, <3>2 DEF Unmoved, Opened, SocketType
    <3> QED
      BY <3>1, <3>2
  <2>3. CASE c = None /\ socket' = [socket EXCEPT ![t].greeted = TRUE]
    <3>1. CASE s = t
      <4>1. /\ socket'[s].greeted /\ socket'[s].serves = socket[s].serves
            /\ socket'[s].page = socket[s].page /\ socket'[s].link = socket[s].link
        BY <1>1, <2>3, <3>1 DEF SocketType
      <4> QED
        BY <1>9, <2>1, <2>3, <3>1, <4>1 DEF Introduces, Opened, InOrder
    <3>2. CASE s # t
      BY <1>1, <2>3, <3>2 DEF Unmoved, Opened, SocketType
    <3> QED
      BY <3>1, <3>2
  <2> QED
    BY <2>1, <2>2, <2>3
<1>10. \/ FrontNotices \/ ConnectNewChannel \/ ReconnectSucceeded \/ ReplyArrives
       \/ MarkForClose \/ \E r \in Request : Send(r)
       \/ \E t \in Socket : GreetingIgnored(t) \/ RequestArrives(t)
       \/ \E c \in Context, r \in Request : Reply(c, r)
       \/ \E p \in Page : TimeoutCloses(p)
       => UNCHANGED socket
  BY DEF FrontNotices, FrontLeaves, ConnectNewChannel, ReconnectSucceeded, ReplyArrives,
         MarkForClose, Send, GreetingIgnored, RequestArrives, Reply, TimeoutCloses
<1>11. UNCHANGED vars => UNCHANGED socket
  BY DEF vars
<1> QED
  BY <1>2, <1>3, <1>5, <1>6, <1>7, <1>8, <1>9, <1>10, <1>11
  DEF Next, FrontHears, BackHears

\* What the front end says it says last on its own link.
LEMMA SaysOnItsLink ==
  ASSUME IInv, NEW t \in Socket, NEW rs \in Seq(Request),
         NEW messages \in {<<Carrying(rs)>>, Flushed(rs)},
         messages = <<Carrying(rs)>> => rs # <<>>,
         BackGets(t, messages), NEW s \in Socket
  PROVE  /\ "initialConnection" \in Kinds(toBack'[s]) =>
              "initialConnection" \in Kinds(toBack[s])
         /\ \A r \in Loads(toBack'[s]) :
              r \in Loads(toBack[s]) \/ (s = t /\ r \in Range(rs))
<1>1. toBack \in [Socket -> Seq(Message(Greeting))]
  BY DEF IInv, TypeOK
<1>2. /\ messages \in Seq(Message(Greeting))
      /\ Loads(messages) = Range(rs) /\ Kinds(messages) \subseteq {"data"}
  <2>1. CASE messages = <<Carrying(rs)>>
    <3>1. Carrying(rs) \in Message(Greeting)
      BY <2>1, CarryingType
    <3>2. messages \in Seq(Message(Greeting))
      BY <2>1, <3>1
    <3> QED
      BY <2>1, <3>2, CarryingHolds
  <2>2. CASE messages = Flushed(rs)
    BY <2>2, FlushedType, CarryingHolds
  <2> QED
    BY <2>1, <2>2
<1>3. CASE toBack' = toBack
  BY <1>3
<1>4. CASE toBack' = [toBack EXCEPT ![t] = @ \o messages]
  <2>1. CASE s = t
    <3>1. toBack'[s] = toBack[s] \o messages /\ toBack[s] \in Seq(Message(Greeting))
      BY <1>1, <1>4, <2>1
    <3>2. /\ Loads(toBack'[s]) = Loads(toBack[s]) \cup Range(rs)
          /\ Kinds(toBack'[s]) \subseteq Kinds(toBack[s]) \cup {"data"}
      BY <1>2, <3>1, ConcatHolds
    <3> QED
      BY <2>1, <3>2
  <2>2. CASE s # t
    BY <1>1, <1>4, <2>2
  <2> QED
    BY <2>1, <2>2
<1> QED
  BY <1>3, <1>4 DEF BackGets

\* A link to the back end, but for one that is just opened.
LEMMA LinkStep ==
  ASSUME IInv, [Next]_vars, NEW s \in Socket, ~ Connects(s)
  PROVE  /\ "initialConnection" \in Kinds(toBack'[s]) =>
              "initialConnection" \in Kinds(toBack[s])
         /\ \A r \in Loads(toBack'[s]) :
              \/ r \in Loads(toBack[s])
              \/ /\ front.connected /\ s = front.socket
                 /\ \/ r \in Request /\ Send(r)
                    \/ ReconnectSucceeded /\ r \in Range(front.buffer)
<1> DEFINE Kept == /\ "initialConnection" \in Kinds(toBack'[s]) =>
                        "initialConnection" \in Kinds(toBack[s])
                   /\ Loads(toBack'[s]) \subseteq Loads(toBack[s])
<1>1. /\ toBack \in [Socket -> Seq(Message(Greeting))]
      /\ socket \in SocketType
      /\ front.buffer \in Seq(Request)
      /\ front.connected => front.socket \in Socket
  BY TypesNamed DEF IInv, Linked, FrontType
<1>2. CASE UNCHANGED toBack
  BY <1>2
<1>3. ASSUME NEW t \in Socket, NEW kind, Asked(t, kind)
      PROVE  Kept
  <2>1. toBack[t] # <<>> /\ toBack' = [toBack EXCEPT ![t] = Tail(@)]
    BY <1>3 DEF Asked
  <2>2. CASE s = t
    <3>1. toBack'[s] = Tail(toBack[s]) /\ toBack[s] # <<>>
          /\ toBack[s] \in Seq(Message(Greeting))
      BY <1>1, <2>1, <2>2
    <3> QED
      BY <3>1, TailHolds
  <2>3. CASE s # t
    BY <1>1, <2>1, <2>3
  <2> QED
    BY <2>2, <2>3
<1>4. ASSUME NEW t \in Socket, SocketDisconnects(t)
      PROVE  Kept
  <2>1. toBack'[s] = <<>> \/ toBack'[s] = toBack[s]
    BY <1>1, <1>4 DEF SocketDisconnects
  <2> QED
    BY <2>1, OneHolds
<1>5. CASE FrontConnects
  <2>1. PICK t \in Socket :
          /\ socket[t].link = "none"
          /\ \A u \in Socket : u < t => socket[u].link # "none"
          /\ socket' = [socket EXCEPT ![t] =
                           [@ EXCEPT !.page = front.page, !.link = "up",
                                     !.connected = TRUE]]
          /\ front' = [front EXCEPT !.socket = t, !.connected = TRUE,
                                    !.greeting = FALSE]
          /\ toBack' = [toBack EXCEPT ![t] = Greetings]
    BY <1>5 DEF FrontConnects
  <2>2. t # s
    BY <1>1, <1>5, <2>1 DEF Connects, Opened, SocketType
  <2> QED
    BY <1>1, <2>1, <2>2
<1>6. CASE ReconnectSucceeded
  <2>1. front.connected /\ BackGets(front.socket, Flushed(front.buffer))
    BY <1>6 DEF ReconnectSucceeded, Heard
  <2>2. Flushed(front.buffer) # <<Carrying(front.buffer)>> \/ front.buffer # <<>>
    BY DEF Flushed
  <2> QED
    BY <1>1, <1>6, <2>1, <2>2, SaysOnItsLink
<1>7. ASSUME NEW r \in Request, Send(r), ~ UNCHANGED toBack
      PROVE  /\ "initialConnection" \in Kinds(toBack'[s]) =>
                  "initialConnection" \in Kinds(toBack[s])
             /\ \A q \in Loads(toBack'[s]) :
                  \/ q \in Loads(toBack[s])
                  \/ front.connected /\ s = front.socket /\ q = r
  <2>1. front.connected /\ BackGets(front.socket, <<Carrying(<<r>>)>>)
    BY <1>7 DEF Send
  <2>2. <<r>> \in Seq(Request) /\ <<r>> # <<>> /\ Range(<<r>>) = {r}
    BY DEF Range
  <2> QED
    BY <1>1, <2>1, <2>2, SaysOnItsLink
<1>8. \/ FrontNotices \/ ConnectNewChannel \/ ReconnectFailed \/ ReplyArrives
      \/ MarkForClose \/ \E t \in Socket : Break(t)
      \/ \E c \in Context, r \in Request : Reply(c, r)
      \/ \E p \in Page : TimeoutCloses(p)
      => UNCHANGED toBack
  BY DEF FrontNotices, ConnectNewChannel, ReconnectFailed, ReplyArrives,
         MarkForClose, Break, Reply, TimeoutCloses
<1>9. ASSUME NEW t \in Socket, BackHears(t)
      PROVE  Kept
  <2>1. \E kind : Asked(t, kind)
    BY <1>9 DEF BackHears, InitialConnect, Reconnect, GreetingIgnored, RequestArrives
  <2> QED
    BY <1>3, <2>1
<1>10. UNCHANGED vars => UNCHANGED toBack
  BY DEF vars
<1> QED
  BY <1>2, <1>4, <1>5, <1>6, <1>7, <1>8, <1>9, <1>10 DEF Next, FrontHears

\* What the back end says it says last.
LEMMA AnswersLast ==
  ASSUME IInv, NEW t \in Socket, NEW messages \in Seq(Message(Answer)),
         FrontGets(t, messages), NEW s \in Socket
  PROVE  \/ toFront'[s] = toFront[s]
         \/ s = t /\ Kinds(toFront'[s]) = Kinds(toFront[s]) \cup Kinds(messages)
<1>1. toFront \in [Socket -> Seq(Message(Answer))]
  BY DEF IInv, TypeOK
<1>2. CASE toFront' = toFront
  BY <1>2
<1>3. CASE toFront' = [toFront EXCEPT ![t] = @ \o messages]
  <2>1. CASE s = t
    <3>1. toFront'[s] = toFront[s] \o messages /\ toFront[s] \in Seq(Message(Answer))
      BY <1>1, <1>3, <2>1
    <3>2. Kinds(toFront'[s]) = Kinds(toFront[s]) \cup Kinds(messages)
      BY <3>1, ConcatHolds
    <3> QED
      BY <2>1, <3>2
  <2>2. CASE s # t
    BY <1>1, <1>3, <2>2
  <2> QED
    BY <2>1, <2>2
<1> QED
  BY <1>2, <1>3 DEF FrontGets

\* Only an introduction is answered as one.
LEMMA AnswerStep ==
  ASSUME IInv, [Next]_vars, NEW s \in Socket,
         "initialConnection" \in Kinds(toFront'[s])
  PROVE  "initialConnection" \in Kinds(toFront[s]) \/ InitialConnect(s)
<1> DEFINE Kept == \/ "initialConnection" \in Kinds(toFront[s])
                   \/ InitialConnect(s)
<1>1. /\ toFront \in [Socket -> Seq(Message(Answer))]
      /\ front.connected => front.socket \in Socket
      /\ \A c \in Context : context[c].buffer \in Seq(Request)
      /\ byFrontend \in [Page -> Context \cup {None}]
      /\ \A t \in Socket : socket[t].page \in Page
      /\ \A c \in Context : context[c].socket \in Socket \cup {None}
  BY TypesNamed DEF IInv, Linked, ContextType, SocketType
<1>2. CASE toFront'[s] = toFront[s]
  BY <1>2
<1>3. ASSUME NEW kind, Heard(kind), Taken(front.socket)
      PROVE  Kept
  <2>1. front.socket \in Socket /\ toFront[front.socket] # <<>>
        /\ toFront' = [toFront EXCEPT ![front.socket] = Tail(@)]
    BY <1>1, <1>3 DEF Heard, Taken
  <2>2. CASE s = front.socket
    <3>1. toFront'[s] = Tail(toFront[s]) /\ toFront[s] # <<>>
          /\ toFront[s] \in Seq(Message(Answer))
      BY <1>1, <2>1, <2>2
    <3> QED
      BY <3>1, TailHolds
  <2>3. CASE s # front.socket
    BY <1>1, <2>1, <2>3
  <2> QED
    BY <2>2, <2>3
<1>4. ASSUME FrontNotices \/ ReconnectFailed
      PROVE  Kept
  <2>1. toFront' = [toFront EXCEPT ![front.socket] = <<>>]
    BY <1>4 DEF FrontNotices, ReconnectFailed, FrontLeaves
  <2>2. toFront'[s] = <<>> \/ toFront'[s] = toFront[s]
    BY <1>1, <2>1
  <2> QED
    BY <2>2, OneHolds
<1>5. ASSUME NEW t \in Socket, NEW kind \in Answer, kind # "initialConnection",
             NEW rs \in Seq(Request),
             \/ FrontGets(t, <<Said(kind)>>)
             \/ FrontGets(t, <<Said(kind)>> \o Flushed(rs))
      PROVE  Kept
  <2> DEFINE first == <<Said(kind)>>
             all == first \o Flushed(rs)
  <2>1. first \in Seq(Message(Answer)) /\ Kinds(first) = {kind}
    <3>1. Said(kind) \in Message(Answer)
      BY SaidType
    <3> QED
      BY <3>1, SaidHolds
  <2>2. Flushed(rs) \in Seq(Message(Answer)) /\ Kinds(Flushed(rs)) \subseteq {"data"}
    BY FlushedType, CarryingHolds
  <2> DEFINE rest == Flushed(rs)
  <2>3. rest \in Seq(Message(Answer)) /\ Kinds(rest) \subseteq {"data"}
    BY <2>2
  <2>4. FrontGets(t, first) \/ FrontGets(t, all)
    BY <1>5
  <2>5. all = first \o rest
    OBVIOUS
  <2> HIDE DEF first, rest, all
  <2>6. all \in Seq(Message(Answer))
    BY <2>1, <2>3, <2>5, ConcatProperties
  <2>7. Kinds(all) = Kinds(first) \cup Kinds(rest)
    BY <2>1, <2>3, <2>5, ConcatHolds
  <2>8. "initialConnection" \notin Kinds(first) /\ "initialConnection" \notin Kinds(all)
    BY <1>5, <2>1, <2>3, <2>7
  <2>9. CASE FrontGets(t, first)
    BY <2>1, <2>8, <2>9, AnswersLast
  <2>10. CASE FrontGets(t, all)
    BY <2>6, <2>8, <2>10, AnswersLast
  <2> QED
    BY <2>4, <2>9, <2>10
<1>6. ASSUME NEW t \in Socket, Reconnect(t)
      PROVE  Kept
  <2> DEFINE c == byFrontend[socket[t].page]
  <2>1. CASE FrontGets(t, <<Said("refused")>>)
    BY <1>5, <2>1, EmptySeq DEF Answer
  <2>2. CASE c # None /\ FrontGets(t, <<Said("reconnected")>> \o Flushed(context[c].buffer))
    <3>1. context[c].buffer \in Seq(Request)
      BY <1>1, <2>2
    <3> QED
      BY <1>5, <2>2, <3>1 DEF Answer
  <2> QED
    BY <1>6, <2>1, <2>2 DEF Reconnect
<1>7. ASSUME NEW t \in Socket, InitialConnect(t)
      PROVE  Kept
  <2> DEFINE m == <<Said("initialConnection")>>
  <2>1. m \in Seq(Message(Answer))
    <3>1. Said("initialConnection") \in Message(Answer)
      BY SaidType DEF Answer
    <3> QED
      BY <3>1
  <2>2. FrontGets(t, m)
    BY <1>7 DEF InitialConnect
  <2> HIDE DEF m
  <2>3. toFront'[s] = toFront[s] \/ s = t
    BY <2>1, <2>2, AnswersLast
  <2> QED
    BY <1>7, <2>3
<1>8. ASSUME NEW c \in Context, NEW r \in Request, Reply(c, r)
      PROVE  Kept
  <2>1. CASE UNCHANGED toFront
    BY <2>1
  <2>2. CASE context[c].socket # None /\ FrontGets(context[c].socket, <<Carrying(<<r>>)>>)
    <3> DEFINE t == context[c].socket
               m == <<Carrying(<<r>>)>>
    <3>1. <<r>> \in Seq(Request) /\ <<r>> # <<>>
      OBVIOUS
    <3>2. Carrying(<<r>>) \in Message(Answer)
      BY <3>1, CarryingType
    <3>3. m \in Seq(Message(Answer)) /\ Kinds(m) = {"data"}
      <4>1. m \in Seq(Message(Answer))
        BY <3>2
      <4> QED
        BY <3>1, <4>1, CarryingHolds
    <3>4. t \in Socket /\ FrontGets(t, m)
      BY <1>1, <2>2
    <3> HIDE DEF t, m
    <3> QED
      BY <3>3, <3>4, AnswersLast
  <2> QED
    BY <1>8, <2>1, <2>2 DEF Reply
<1>9. \/ FrontConnects \/ MarkForClose
      \/ \E r \in Request : Send(r)
      \/ \E t \in Socket : Break(t) \/ GreetingIgnored(t) \/ RequestArrives(t)
                           \/ SocketDisconnects(t)
      \/ \E p \in Page : TimeoutCloses(p)
      => UNCHANGED toFront
  BY DEF FrontConnects, MarkForClose, Send, Break, GreetingIgnored, RequestArrives,
         SocketDisconnects, TimeoutCloses
<1>10. ConnectNewChannel \/ ReconnectSucceeded \/ ReplyArrives => Kept
  BY <1>3 DEF ConnectNewChannel, ReconnectSucceeded, ReplyArrives
<1>11. UNCHANGED vars => UNCHANGED toFront
  BY DEF vars
<1> HIDE DEF Kept
<1>12. Kept
  BY <1>2, <1>4, <1>6, <1>7, <1>8, <1>9, <1>10, <1>11 DEF Next, FrontHears, BackHears, Kept
<1> QED
  BY <1>12 DEF Kept

\* A request that was made stays on its channel.
LEMMA RequestStep ==
  ASSUME IInv, [Next]_vars, NEW q \in Request
  PROVE  /\ request[q].state # "idle" =>
              request'[q].state # "idle" /\ request'[q].channel = request[q].channel
         /\ Send(q) => request'[q].state # "idle" /\ request'[q].channel = front.channel
<1>1. request \in RequestType
  BY TypesNamed DEF IInv
<1>2. CASE UNCHANGED request
  <2>1. ~ Send(q) \/ request'[q].state # "idle"
    BY <1>1 DEF Send, RequestType
  <2> QED
    BY <1>1, <1>2, <2>1 DEF Send
<1>3. ASSUME NEW r \in Request, Send(r)
      PROVE  /\ request[q].state # "idle" => request'[q] = request[q]
             /\ q = r => request'[q].state # "idle" /\ request'[q].channel = front.channel
  BY <1>1, <1>3 DEF Send, RequestType
<1>4. ASSUME request' = Rejected
      PROVE  /\ request[q].state # "idle" =>
                  request'[q].state # "idle" /\ request'[q].channel = request[q].channel
             /\ ~ Send(q)
  <2>1. request'[q] = IF request[q].state = "pending"
                      THEN [request[q] EXCEPT !.state = "settled"] ELSE request[q]
    BY <1>4 DEF Rejected
  <2> QED
    BY <1>1, <2>1 DEF Send, RequestType
<1>5. ASSUME ReplyArrives
      PROVE  /\ request[q].state # "idle" =>
                  request'[q].state # "idle" /\ request'[q].channel = request[q].channel
             /\ ~ Send(q)
  <2> DEFINE r == Head(Head(toFront[front.socket]).load)
  <2>1. \/ request' = request
        \/ request[r].state = "pending" /\ request' = [request EXCEPT ![r].state = "settled"]
    BY <1>5 DEF ReplyArrives
  <2> HIDE DEF r
  <2>2. /\ request[q].state # "idle" =>
             request'[q].state # "idle" /\ request'[q].channel = request[q].channel
        /\ request[q].state = "idle" => request'[q] = request[q]
    BY <1>1, <2>1 DEF RequestType
  <2> QED
    BY <1>1, <2>2 DEF Send, RequestType
<1>6. \/ FrontConnects \/ FrontNotices \/ ReconnectSucceeded \/ MarkForClose
      \/ \E s \in Socket : Break(s) \/ BackHears(s) \/ SocketDisconnects(s)
      \/ \E c \in Context, r \in Request : Reply(c, r)
      \/ \E p \in Page : TimeoutCloses(p)
      => UNCHANGED request
  BY DEF FrontConnects, FrontNotices, ReconnectSucceeded, MarkForClose, Break, BackHears,
         InitialConnect, Reconnect, GreetingIgnored, RequestArrives, SocketDisconnects,
         Reply, TimeoutCloses, front_vars
<1>7. ConnectNewChannel \/ ReconnectFailed => request' = Rejected
  BY DEF ConnectNewChannel, ReconnectFailed
<1>8. UNCHANGED vars => UNCHANGED request
  BY DEF vars
<1> QED
  BY <1>2, <1>3, <1>4, <1>5, <1>6, <1>7, <1>8 DEF Next, FrontHears

\* What was late stays late.
LEMMA LateStays ==
  ASSUME [Next]_vars
  PROVE  late => late'
<1>1. \/ FrontConnects \/ FrontNotices \/ FrontHears \/ MarkForClose
      \/ \E r \in Request : Send(r)
      \/ \E s \in Socket : Break(s) \/ GreetingIgnored(s) \/ RequestArrives(s)
      \/ \E c \in Context, r \in Request : Reply(c, r)
      \/ \E p \in Page : TimeoutCloses(p)
      => UNCHANGED late
  BY DEF FrontConnects, FrontNotices, FrontHears, ConnectNewChannel, ReconnectSucceeded,
         ReconnectFailed, ReplyArrives, MarkForClose, Send, Break, GreetingIgnored,
         RequestArrives, Reply, TimeoutCloses, back_vars
<1>2. \A s \in Socket : InitialConnect(s) \/ Reconnect(s) \/ SocketDisconnects(s)
                          => (late => late')
  BY DEF InitialConnect, Reconnect, SocketDisconnects
<1>3. UNCHANGED vars => UNCHANGED late
  BY DEF vars
<1> QED
  BY <1>1, <1>2, <1>3 DEF Next, BackHears

\* An entry of the map goes, or is a new one.
LEMMA MapStep ==
  ASSUME IInv, [Next]_vars, NEW p \in Page
  PROVE  \/ byFrontend'[p] \in {byFrontend[p], None}
         \/ \E s \in Socket : /\ InitialConnect(s)
                              /\ p = socket[s].page /\ byFrontend'[p] = s
<1>1. byFrontend \in [Page -> Context \cup {None}]
  BY DEF IInv, TypeOK
<1>2. ASSUME NEW contexts, NEW timers, NEW q, ConnectionClosed(contexts, timers, q)
      PROVE  byFrontend'[p] \in {byFrontend[p], None}
  BY <1>1, <1>2 DEF ConnectionClosed
<1>3. \/ FrontConnects \/ FrontNotices \/ FrontHears \/ MarkForClose
      \/ \E r \in Request : Send(r)
      \/ \E s \in Socket : Break(s) \/ Reconnect(s) \/ GreetingIgnored(s)
                           \/ RequestArrives(s)
      \/ \E c \in Context, r \in Request : Reply(c, r)
      => UNCHANGED byFrontend
  BY DEF FrontConnects, FrontNotices, FrontHears, ConnectNewChannel, ReconnectSucceeded,
         ReconnectFailed, ReplyArrives, MarkForClose, Send, Break, Reconnect,
         GreetingIgnored, RequestArrives, Reply, back_vars
<1>4. ASSUME NEW s \in Socket, InitialConnect(s)
      PROVE  \/ byFrontend'[p] = byFrontend[p]
             \/ p = socket[s].page /\ byFrontend'[p] = s
  BY <1>1, <1>4 DEF InitialConnect
<1>5. ASSUME NEW s \in Socket, SocketDisconnects(s)
      PROVE  byFrontend'[p] \in {byFrontend[p], None}
  BY <1>2, <1>5 DEF SocketDisconnects
<1>6. ASSUME NEW q \in Page, TimeoutCloses(q)
      PROVE  byFrontend'[p] \in {byFrontend[p], None}
  BY <1>2, <1>6 DEF TimeoutCloses
<1>7. UNCHANGED vars => UNCHANGED byFrontend
  BY DEF vars
<1> QED
  BY <1>3, <1>4, <1>5, <1>6, <1>7 DEF Next, BackHears

\* Once greeted, a socket serves what it serves; once opened, it is of its page.
LEMMA SocketKeeps ==
  ASSUME IInv, InOrder, [Next]_vars, NEW s \in Socket
  PROVE  /\ Opened(s) => Opened(s)' /\ socket'[s].page = socket[s].page /\ ~ Connects(s)
         /\ socket[s].serves # None =>
              /\ Opened(s) /\ socket[s].greeted
              /\ socket'[s].serves = socket[s].serves
         /\ socket[s].greeted => Opened(s) /\ socket'[s].greeted
BY SocketStep DEF InOrder, Unmoved, Connects, Introduces

\* The heir of a socket stays its heir.
LEMMA HeirStays ==
  ASSUME IInv, InOrder, MapIsTheirs, Latest, [Next]_vars,
         NEW c, NEW s \in Socket, Heir(c, s), Opened(s)
  PROVE  Heir(c, s)'
<1>1. /\ c \in Context /\ c \in Socket /\ c <= s /\ c # None
      /\ socket[c].serves = c /\ socket[c].page = socket[s].page
      /\ \A t \in Socket : t \in Nat /\ t # None
      /\ socket[s].page \in Page
      /\ byFrontend \in [Page -> Context \cup {None}]
      /\ front.socket \in Socket \cup {None}
      /\ toBack \in [Socket -> Seq(Message(Greeting))]
  BY TypesNamed, BreaksAssumption DEF IInv, Heir, Context, Socket, SocketType, FrontType
<1>2. \A t \in Socket : t <= s => Opened(t)
  BY <1>1, BreaksAssumption DEF InOrder, Socket
<1>3. /\ Opened(c) /\ socket'[c].serves = c /\ socket[c].greeted
      /\ socket'[c].page = socket[c].page /\ socket'[s].page = socket[s].page
  BY <1>1, SocketKeeps
<1>4. ASSUME NEW t \in Socket, c < t, t <= s
      PROVE  /\ socket'[t].serves # t
             /\ "initialConnection" \notin Kinds(toBack'[t])
             /\ ~ InitialConnect(t)
  <2>1. /\ Opened(t) /\ socket[t].serves # t
        /\ "initialConnection" \notin Kinds(toBack[t])
    BY <1>2, <1>4 DEF Heir, Quiet
  <2>2. "initialConnection" \notin Kinds(toBack'[t])
    BY <2>1, LinkStep, SocketKeeps
  <2>3. ~ InitialConnect(t)
    <3>1. Asked(t, "initialConnection") => "initialConnection" \in Kinds(toBack[t])
      <4>1. toBack[t] \in Seq(Message(Greeting))
        BY <1>1
      <4> QED
        BY <4>1, TailHolds DEF Asked
    <3> QED
      BY <2>1, <3>1 DEF InitialConnect
  <2>4. socket'[t].serves # t
    <3>1. CASE Unmoved(t)
      BY <2>1, <3>1 DEF Unmoved
    <3>2. CASE Introduces(t) /\ Reconnect(t)
               /\ socket'[t].serves = byFrontend[socket[t].page]
      <4>1. socket[t].page \in Page
        BY TypesNamed DEF IInv, SocketType
      <4> QED
        BY <1>1, <2>1, <3>2, <4>1 DEF MapIsTheirs
    <3> QED
      BY <2>1, <2>3, <3>1, <3>2, SocketStep DEF Introduces, Connects
  <2> QED
    BY <2>2, <2>3, <2>4
<1>5. late' \/ socket'[s].serves \in {None, c}
  <2> SUFFICES ASSUME ~ late' PROVE socket'[s].serves \in {None, c}
    OBVIOUS
  <2>1. ~ late /\ socket[s].serves \in {None, c}
    BY LateStays DEF Heir
  <2>2. CASE Unmoved(s)
    BY <2>1, <2>2 DEF Unmoved
  <2>3. ~ Connects(s)
    BY DEF Connects
  <2>4. CASE Introduces(s)
    <3>1. ~ socket[s].greeted /\ ~ Overtaken(s)
      BY <2>4 DEF Introduces
    <3>2. c # s /\ c < s
      BY <1>1, <1>3, <3>1
    <3>3. ~ InitialConnect(s)
      BY <1>1, <1>4, <3>2
    <3> DEFINE b == byFrontend[socket[s].page]
    <3>4. socket'[s].serves = b
      BY <2>4, <3>3 DEF Introduces
    <3>5. CASE b # None
      <4>1. /\ b \in Socket /\ socket[b].serves = b /\ socket[b].page = socket[s].page
        BY <1>1, <3>5 DEF MapIsTheirs, Context
      <4>2. socket[b].greeted
        BY <3>5, <4>1 DEF InOrder
      <4>3. b <= s
        BY <1>1, <3>1, <4>1, <4>2 DEF Overtaken
      <4>4. c <= b
        BY <1>1, <2>1, <3>5 DEF Latest
      <4>5. ~ (c < b)
        BY <4>1, <4>3 DEF Heir, Quiet
      <4>6. b = c
        BY <1>1, <4>1, <4>4, <4>5
      <4> QED
        BY <3>4, <4>6
    <3> QED
      BY <3>4, <3>5
  <2> QED
    BY <2>2, <2>3, <2>4, SocketStep
<1> QED
  BY <1>1, <1>3, <1>4, <1>5 DEF Heir, Quiet

-----------------------------------------------------------------------------
\* What a step does to the front end.

SameFront ==
  /\ front'.page = front.page /\ front'.socket = front.socket
  /\ front'.channel = front.channel /\ front'.open = front.open
  /\ front'.greeting = front.greeting
  /\ front'.connected => front.connected

Reopens ==
  /\ ConnectNewChannel
  /\ front'.page = front.page /\ front'.socket = front.socket
  /\ front'.greeting = front.greeting /\ front'.connected = front.connected
  /\ front'.channel = socket[front.socket].serves /\ front'.open
  /\ front'.buffer = <<>>

GivesUp ==
  /\ front'.socket = front.socket
  /\ ~ front'.connected /\ ~ front'.open
  /\ front'.buffer = <<>>

\* What its buffer holds was there, or is sent.
BufferGrows ==
  \A r \in Range(front'.buffer) :
    r \in Range(front.buffer) \/ (r \in Request /\ Send(r))

LEMMA FrontShape ==
  ASSUME IInv, InOrder, [Next]_vars
  PROVE  \/ SameFront /\ BufferGrows
         \/ (\E s \in Socket : Connects(s)) /\ BufferGrows
         \/ Reopens
         \/ GivesUp
<1>1. /\ front \in FrontType /\ front.buffer \in Seq(Request)
      /\ socket \in SocketType
      /\ toBack \in [Socket -> Seq(Message(Greeting))]
  BY TypesNamed DEF IInv, FrontType
<1>2. front'.buffer = front.buffer => BufferGrows
  BY DEF BufferGrows
<1>3. CASE UNCHANGED front
  BY <1>2, <1>3 DEF SameFront
<1>4. CASE FrontConnects
  <2>1. PICK t \in Socket :
          /\ socket[t].link = "none"
          /\ \A u \in Socket : u < t => socket[u].link # "none"
          /\ socket' = [socket EXCEPT ![t] =
                           [@ EXCEPT !.page = front.page, !.link = "up",
                                     !.connected = TRUE]]
          /\ front' = [front EXCEPT !.socket = t, !.connected = TRUE,
                                    !.greeting = FALSE]
          /\ toBack' = [toBack EXCEPT ![t] = Greetings]
    BY <1>4 DEF FrontConnects
  <2>2. Connects(t)
    BY <1>1, <1>4, <2>1 DEF Connects, Opened, SocketType
  <2>3. front'.buffer = front.buffer
    BY <1>1, <2>1 DEF FrontType
  <2> QED
    BY <1>2, <2>2, <2>3
<1>5. CASE FrontNotices
  <2>1. SameFront /\ front'.buffer = front.buffer
    BY <1>1, <1>5 DEF FrontNotices, SameFront, FrontType
  <2> QED
    BY <1>2, <2>1
<1>6. CASE ConnectNewChannel
  BY <1>1, <1>6 DEF ConnectNewChannel, Reopens, FrontType, Drained
<1>7. CASE ReconnectSucceeded
  <2>1. SameFront /\ front'.buffer = <<>>
    BY <1>1, <1>7 DEF ReconnectSucceeded, SameFront, FrontType, AfterFlush
  <2>2. BufferGrows
    BY <2>1 DEF BufferGrows, Range
  <2> QED
    BY <2>1, <2>2
<1>8. CASE ReconnectFailed
  BY <1>1, <1>8 DEF ReconnectFailed, GivesUp, FrontType, Drained
<1>9. ASSUME NEW r \in Request, Send(r)
      PROVE  SameFront /\ BufferGrows
  <2>1. front' = front \/ front' = [front EXCEPT !.buffer = Buffered(@, r)]
    BY <1>9 DEF Send
  <2>2. SameFront
    BY <1>1, <2>1 DEF SameFront, FrontType
  <2>3. front'.buffer = front.buffer \/ front'.buffer = Buffered(front.buffer, r)
    BY <1>1, <2>1 DEF FrontType
  <2>4. BufferGrows
    BY <1>1, <1>9, <2>3, BufferedHolds DEF BufferGrows
  <2> QED
    BY <2>2, <2>4
<1>10. \/ ReplyArrives \/ MarkForClose
       \/ \E s \in Socket : Break(s) \/ BackHears(s) \/ SocketDisconnects(s)
       \/ \E c \in Context, r \in Request : Reply(c, r)
       \/ \E p \in Page : TimeoutCloses(p)
       => UNCHANGED front
  BY DEF ReplyArrives, MarkForClose, Break, BackHears, InitialConnect, Reconnect,
         GreetingIgnored, RequestArrives, SocketDisconnects, Reply, TimeoutCloses, front_vars
<1>11. UNCHANGED vars => UNCHANGED front
  BY DEF vars
<1> QED
  BY <1>3, <1>4, <1>5, <1>6, <1>7, <1>8, <1>9, <1>10, <1>11 DEF Next, FrontHears

-----------------------------------------------------------------------------
\* Every step keeps what is said of sockets, of the map and of the channel.

LEMMA InOrderNext ==
  ASSUME IInv, InOrder, [Next]_vars
  PROVE  InOrder'
<1>1. /\ front.socket \in Socket \cup {None}
      /\ \A t \in Socket : t \in Nat /\ t # None
      /\ front.connected => front.socket \in Socket
      /\ front \in FrontType
  BY TypesNamed, BreaksAssumption DEF IInv, Linked, Socket, FrontType
<1>2. \A s \in Socket : /\ Opened(s) <=> s <= front.socket
                        /\ ~ Opened(s) => ~ socket[s].connected /\ ~ socket[s].greeted
                        /\ socket[s].serves # None => socket[s].greeted
  BY DEF InOrder
<1>3. front.connected => /\ socket[front.socket].page = front.page
                         /\ ~ front.greeting /\ Opened(front.socket)
  BY <1>1, <1>2 DEF InOrder, Socket
<1>4. ASSUME NEW s \in Socket
      PROVE  /\ ~ Opened(s)' => ~ socket'[s].connected /\ ~ socket'[s].greeted
             /\ socket'[s].serves # None => socket'[s].greeted
  BY <1>2, <1>4, SocketStep DEF Unmoved, Connects, Introduces
<1>5. ASSUME NEW s \in Socket
      PROVE  Opened(s)' <=> s <= front'.socket
  <2>1. CASE FrontConnects /\ \E t \in Socket : Connects(t)
    <3>1. PICK t \in Socket : Connects(t)
      BY <2>1
    <3>2. /\ front'.socket = t /\ ~ Opened(t) /\ Opened(t)'
          /\ \A u \in Socket : u < t => Opened(u)
      BY <1>1, <3>1 DEF Connects, FrontType
    <3>3. Opened(s) => s < t
      BY <1>1, <1>2, <3>2
    <3>4. CASE s = t
      BY <1>1, <3>2, <3>4
    <3>5. CASE s # t
      <4>1. ~ Connects(s)
        BY <1>1, <3>2, <3>5 DEF Connects, FrontType
      <4>2. Opened(s)' <=> Opened(s)
        BY <4>1, SocketStep DEF Unmoved, Introduces
      <4> QED
        BY <1>1, <3>2, <3>3, <3>5, <4>2
    <3> QED
      BY <3>4, <3>5
  <2>2. CASE front'.socket = front.socket /\ ~ \E t \in Socket : Connects(t)
    <3>1. Opened(s)' <=> Opened(s)
      BY <2>2, SocketStep DEF Unmoved, Introduces
    <3> QED
      BY <1>2, <2>2, <3>1
  <2>3. CASE (SameFront \/ Reopens \/ GivesUp) /\ \E t \in Socket : Connects(t)
    BY <2>1, <2>3 DEF Connects
  <2> QED
    BY <2>1, <2>2, <2>3, FrontShape DEF SameFront, Reopens, GivesUp, Connects
<1>6. front'.connected => /\ socket'[front'.socket].page = front'.page
                          /\ ~ front'.greeting
  <2>1. CASE SameFront \/ Reopens
    <3>1. /\ front'.connected => front.connected
          /\ front'.socket = front.socket /\ front'.page = front.page
          /\ front'.greeting = front.greeting
      BY <2>1 DEF SameFront, Reopens
    <3>2. front.connected => socket'[front.socket].page = socket[front.socket].page
      BY <1>1, <1>3, SocketKeeps
    <3> QED
      BY <1>3, <3>1, <3>2
  <2>2. CASE GivesUp
    BY <2>2 DEF GivesUp
  <2>3. ASSUME NEW t \in Socket, Connects(t)
        PROVE  /\ socket'[front'.socket].page = front'.page
               /\ ~ front'.greeting
    BY <1>1, <2>3 DEF Connects, FrontType
  <2> QED
    BY <2>1, <2>2, <2>3, FrontShape
<1> QED
  BY <1>4, <1>5, <1>6 DEF InOrder

LEMMA MapNext ==
  ASSUME IInv, InOrder, Introduced, MapIsTheirs, Latest, [Next]_vars
  PROVE  Introduced' /\ MapIsTheirs' /\ Latest'
<1>1. /\ \A t \in Socket : t \in Nat /\ t # None /\ socket[t].page \in Page
      /\ byFrontend \in [Page -> Context \cup {None}]
      /\ socket \in SocketType
      /\ Context = Socket
  BY TypesNamed, BreaksAssumption DEF IInv, Socket, SocketType, Context
<1>2. ASSUME NEW s \in Socket, InitialConnect(s)
      PROVE  /\ socket'[s].serves = s /\ socket'[s].page = socket[s].page
             /\ \A t \in Socket : t # s => socket'[t] = socket[t]
             /\ late' = (late \/ Overtaken(s))
  BY <1>1, <1>2 DEF InitialConnect, SocketType
<1>3. Introduced'
  <2> SUFFICES ASSUME NEW s \in Socket, "initialConnection" \in Kinds(toFront'[s])
               PROVE  socket'[s].serves = s
    BY DEF Introduced
  <2>1. CASE "initialConnection" \in Kinds(toFront[s])
    BY <1>1, <2>1, SocketKeeps DEF Introduced
  <2> QED
    BY <1>2, <2>1, AnswerStep
<1>4. MapIsTheirs'
  <2> SUFFICES ASSUME NEW p \in Page, byFrontend'[p] # None
               PROVE  /\ socket'[byFrontend'[p]].serves = byFrontend'[p]
                      /\ socket'[byFrontend'[p]].page = p
    BY DEF MapIsTheirs
  <2>1. CASE byFrontend'[p] = byFrontend[p]
    <3>1. byFrontend[p] \in Socket /\ socket[byFrontend[p]].serves = byFrontend[p]
          /\ socket[byFrontend[p]].page = p
      BY <1>1, <2>1 DEF MapIsTheirs
    <3> QED
      BY <1>1, <2>1, <3>1, SocketKeeps
  <2> QED
    BY <1>2, <2>1, MapStep
<1>5. Latest'
  <2> SUFFICES ASSUME ~ late', NEW s \in Socket, socket'[s].serves = s,
                      byFrontend'[socket'[s].page] # None
               PROVE  s <= byFrontend'[socket'[s].page]
    BY DEF Latest
  <2> DEFINE p == socket'[s].page
  <2>1. ~ late
    BY LateStays
  <2>2. socket[s].serves = s \/ Introduces(s)
    <3>1. socket'[s].serves = socket[s].serves \/ Introduces(s)
      BY SocketStep DEF Unmoved, Connects
    <3> QED
      BY <3>1
  <2>3. Opened(s) /\ p = socket[s].page
    BY <1>1, <2>2, SocketKeeps DEF Introduces, InOrder
  <2>4. p \in Page
    BY <1>1, <2>3
  <2>5. CASE byFrontend'[p] = byFrontend[p]
    <3>1. CASE socket[s].serves = s
      BY <2>1, <2>3, <2>5, <3>1 DEF Latest
    <3>2. CASE Introduces(s) /\ Reconnect(s)
      <4>1. byFrontend[socket[s].page] = s
        BY <1>1, <2>5, <3>2, <2>3 DEF Introduces, Reconnect, InitialConnect, SocketType
      <4> QED
        BY <1>1, <2>3, <2>5, <4>1
    <3>3. CASE InitialConnect(s)
      <4>1. byFrontend'[socket[s].page] = s
        BY <1>1, <3>3 DEF InitialConnect
      <4> QED
        BY <1>1, <2>3, <4>1
    <3> QED
      BY <2>2, <3>1, <3>2, <3>3 DEF Introduces
  <2>6. ASSUME NEW t \in Socket, InitialConnect(t), p = socket[t].page, byFrontend'[p] = t
        PROVE  s <= t
    <3>1. CASE s = t
      BY <1>1, <3>1
    <3>2. CASE s # t
      <4>1. socket[s].serves = s /\ socket[s].page = socket[t].page
        BY <1>2, <2>3, <2>6, <3>2
      <4>2. socket[s].greeted
        BY <1>1, <4>1 DEF InOrder
      <4>3. ~ Overtaken(t)
        BY <1>2, <2>6
      <4>4. ~ (s > t)
        BY <4>1, <4>2, <4>3 DEF Overtaken
      <4> QED
        BY <1>1, <4>4
    <3> QED
      BY <3>1, <3>2
  <2> QED
    BY <2>4, <2>5, <2>6, MapStep
<1> QED
  BY <1>3, <1>4, <1>5

LEMMA OpenChannelNext ==
  ASSUME IInv, OwnInv, [Next]_vars
  PROVE  OpenChannel'
<1>1. /\ InOrder /\ MapIsTheirs /\ Latest /\ OpenChannel /\ Introduced
      /\ front.socket \in Socket \cup {None}
      /\ \A t \in Socket : t \in Nat /\ t # None
      /\ front.connected => front.socket \in Socket
      /\ front \in FrontType /\ Context = Socket
      /\ toFront \in [Socket -> Seq(Message(Answer))]
  BY TypesNamed, BreaksAssumption DEF IInv, OwnInv, Linked, Socket, Context, FrontType
<1>2. \A s \in Socket : Opened(s) <=> s <= front.socket
  BY <1>1 DEF InOrder
<1> SUFFICES ASSUME front'.open
             PROVE  /\ Heir(front.channel, front.socket)'
                    /\ socket'[front'.channel].page = front'.page
                    /\ ~ front'.greeting
  BY DEF OpenChannel
<1>3. ASSUME front.open
      PROVE  /\ front.socket \in Socket /\ Opened(front.socket)
             /\ Heir(front.channel, front.socket)
             /\ socket[front.channel].page = front.page
             /\ ~ front.greeting
             /\ front.channel \in Socket /\ Opened(front.channel)
             /\ Heir(front.channel, front.socket)'
                 \/ front'.channel # front.channel \/ front'.socket # front.socket
  <2>1. /\ Heir(front.channel, front.socket) /\ ~ front.greeting
        /\ socket[front.channel].page = front.page
    BY <1>1, <1>3 DEF OpenChannel
  <2>2. /\ front.socket \in Socket /\ front.channel \in Socket
        /\ front.channel <= front.socket
    BY <1>1, <2>1 DEF Heir
  <2>3. Opened(front.socket) /\ Opened(front.channel)
    BY <1>1, <1>2, <2>2
  <2> DEFINE c == front.channel
             s == front.socket
  <2>4. ASSUME NEW d, NEW t \in Socket, Heir(d, t), Opened(t)
        PROVE  Heir(d, t)'
    BY <1>1, <2>4, HeirStays
  <2>5. PICK d : d = front.channel
    OBVIOUS
  <2>6. PICK t \in Socket : t = front.socket
    BY <2>2
  <2>7. Heir(d, t)'
    BY <2>1, <2>3, <2>4, <2>5, <2>6
  <2>8. front'.channel = d /\ front'.socket = t => Heir(front.channel, front.socket)'
    BY <2>7
  <2> QED
    BY <2>1, <2>2, <2>3, <2>5, <2>6, <2>8
<1>4. CASE SameFront
  <2>1. front.open
    BY <1>4 DEF SameFront
  <2>2. socket'[front.channel].page = socket[front.channel].page
    BY <1>1, <1>3, <2>1, SocketKeeps
  <2> QED
    BY <1>3, <1>4, <2>1, <2>2 DEF SameFront
<1>5. ASSUME NEW t \in Socket, Connects(t)
      PROVE  /\ Heir(front.channel, front.socket)'
             /\ socket'[front'.channel].page = front'.page
             /\ ~ front'.greeting
  <2>1. /\ front'.socket = t /\ front'.channel = front.channel /\ front'.page = front.page
        /\ ~ front'.greeting /\ front.open
    BY <1>1, <1>5 DEF Connects, FrontType
  <2>2. PICK c : c = front.channel
    OBVIOUS
  <2>3. PICK n \in Socket : n = front.socket
    BY <1>3, <2>1
  <2>4. Heir(c, n) /\ Opened(n) /\ c \in Socket /\ c # None /\ Opened(c)
        /\ ~ front.greeting /\ socket[c].page = front.page
    BY <1>1, <1>3, <2>1, <2>2, <2>3
  <2>5. Heir(c, n)'
    BY <1>1, <2>4, HeirStays
  <2>6. \A u \in Socket : u < t => u <= n
    BY <1>2, <1>5, <2>3 DEF Connects
  <2>7. n < t
    BY <1>1, <1>2, <1>5, <2>3 DEF Connects
  <2>8. /\ socket'[t].page = front.page
        /\ socket'[t].serves = None
    BY <1>1, <1>5 DEF Connects, InOrder
  <2>9. "initialConnection" \notin Kinds(toBack'[t])
    BY <1>5, <2>2, <2>4, GreetingsHold DEF Connects
  <2>10. socket'[c].page = socket[c].page
    BY <1>1, <2>4, SocketKeeps
  <2>11. c <= t
    BY <1>1, <2>4, <2>7 DEF Heir
  <2>12. ASSUME NEW u \in Socket, c < u, u <= t
         PROVE  /\ socket'[u].serves # u
                /\ "initialConnection" \notin Kinds(toBack'[u])
    <3>1. CASE u = t
      BY <1>1, <2>8, <2>9, <3>1
    <3>2. CASE u # t
      <4>1. u <= n
        BY <1>1, <2>6, <2>12, <3>2
      <4> QED
        BY <2>5, <2>12, <4>1 DEF Heir, Quiet
    <3> QED
      BY <3>1, <3>2
  <2>13. Heir(c, t)'
    BY <1>1, <2>4, <2>5, <2>8, <2>10, <2>11, <2>12 DEF Heir, Quiet
  <2>14. front'.channel = c
    BY <2>1, <2>2
  <2> QED
    BY <2>1, <2>4, <2>10, <2>13, <2>14
<1>6. CASE Reopens
  <2>1. PICK n \in Socket : n = front.socket
    BY <1>1, <1>6 DEF Reopens, ConnectNewChannel, Heard
  <2>2. /\ front.connected /\ toFront[n] # <<>>
        /\ Head(toFront[n]).kind = "initialConnection"
        /\ toFront[n] \in Seq(Message(Answer))
    BY <1>1, <1>6, <2>1 DEF Reopens, ConnectNewChannel, Heard
  <2>3. "initialConnection" \in Kinds(toFront[n])
    BY <2>2, TailHolds
  <2>4. socket[n].serves = n /\ n # None
    BY <1>1, <2>3 DEF Introduced
  <2>5. socket[n].page = front.page /\ ~ front.greeting
    BY <1>1, <2>1, <2>2 DEF InOrder
  <2>6. socket'[n].serves = n /\ socket'[n].page = front.page
    BY <1>1, <2>4, <2>5, SocketKeeps
  <2>7. front'.channel = n /\ front'.socket = n /\ front'.page = front.page
        /\ ~ front'.greeting
    BY <1>6, <2>1, <2>4, <2>5 DEF Reopens
  <2>8. Heir(n, n)'
    BY <1>1, <2>6 DEF Heir, Quiet
  <2> QED
    BY <2>6, <2>7, <2>8
<1>7. ~ GivesUp
  BY DEF GivesUp
<1> QED
  BY <1>1, <1>4, <1>5, <1>6, <1>7, FrontShape

\* What the buffer holds is of the open channel.
LEMMA InBufferNext ==
  ASSUME IInv, OwnInv, [Next]_vars
  PROVE  InBuffer'
<1> SUFFICES ASSUME NEW r \in Range(front'.buffer)
             PROVE  /\ front'.open
                    /\ request'[r].state # "idle"
                    /\ request'[r].channel = front'.channel
  BY DEF InBuffer
<1>1. /\ front \in FrontType /\ InOrder /\ InBuffer
      /\ Range(front.buffer) \subseteq Request
  <2>1. front \in FrontType /\ front.buffer \in Seq(Request)
    BY TypesNamed DEF IInv, FrontType
  <2> QED
    BY <2>1 DEF OwnInv, Range
<1>2. Range(<<>>) = {}
  BY DEF Range
<1>3. CASE /\ BufferGrows
           /\ front'.channel = front.channel /\ front'.open = front.open
  <2>1. CASE r \in Range(front.buffer)
    BY <1>1, <1>3, <2>1, RequestStep DEF InBuffer
  <2>2. CASE r \in Request /\ Send(r)
    <3>1. front.open
      BY <2>2 DEF Send
    <3> QED
      BY <1>3, <2>2, <3>1, RequestStep
  <2> QED
    BY <1>3, <2>1, <2>2 DEF BufferGrows
<1>4. SameFront => front'.channel = front.channel /\ front'.open = front.open
  BY DEF SameFront
<1>5. \A s \in Socket : Connects(s) =>
                          front'.channel = front.channel /\ front'.open = front.open
  BY <1>1 DEF Connects, FrontType
<1>6. ~ Reopens /\ ~ GivesUp
  BY <1>2 DEF Reopens, GivesUp
<1> QED
  BY <1>1, <1>3, <1>4, <1>5, <1>6, FrontShape

\* A request on its way is heard by its own context, or by none.
LEMMA OnTheWayNext ==
  ASSUME IInv, OwnInv, [Next]_vars
  PROVE  OnTheWay'
<1> SUFFICES ASSUME NEW s \in Socket, NEW r \in Loads(toBack'[s])
             PROVE  /\ Opened(s)' /\ request'[r].state # "idle"
                    /\ Heir(request[r].channel, s)'
  BY DEF OnTheWay
<1>1. /\ InOrder /\ MapIsTheirs /\ Latest /\ OpenChannel /\ InBuffer /\ OnTheWay
      /\ front.buffer \in Seq(Request)
      /\ Range(front.buffer) \subseteq Request
      /\ toBack \in [Socket -> Seq(Message(Greeting))]
      /\ front.connected => front.socket \in Socket
  <2>1. front.buffer \in Seq(Request)
    BY TypesNamed DEF IInv, FrontType
  <2> QED
    BY <2>1, TypesNamed DEF OwnInv, IInv, Linked, Range
<1>2. \A t \in Socket : Loads(toBack[t]) \subseteq Request
  BY <1>1, LoadsType
<1>3. ~ Connects(s)
  BY GreetingsHold DEF Connects
<1>4. ASSUME NEW c, Heir(c, s), Opened(s), r \in Request, request'[r].channel = c,
             request'[r].state # "idle"
      PROVE  /\ Opened(s)' /\ request'[r].state # "idle"
             /\ Heir(request[r].channel, s)'
  <2>1. Heir(c, s)'
    BY <1>1, <1>4, HeirStays
  <2>2. Opened(s)'
    BY <1>1, <1>4, SocketKeeps
  <2> QED
    BY <1>4, <2>1, <2>2
<1>5. CASE r \in Loads(toBack[s])
  <2>1. /\ r \in Request /\ Opened(s) /\ request[r].state # "idle"
        /\ Heir(request[r].channel, s)
    BY <1>1, <1>2, <1>5 DEF OnTheWay
  <2>2. request'[r].state # "idle" /\ request'[r].channel = request[r].channel
    BY <2>1, RequestStep
  <2> QED
    BY <1>4, <2>1, <2>2
<1>6. CASE front.connected /\ s = front.socket /\ r \in Request /\ Send(r)
  <2>1. front.open
    BY <1>6 DEF Send
  <2>2. Heir(front.channel, s)
    BY <1>1, <1>6, <2>1 DEF OpenChannel
  <2>3. Opened(s)
    BY <1>1, <1>6, BreaksAssumption DEF InOrder, Socket
  <2>4. request'[r].state # "idle" /\ request'[r].channel = front.channel
    BY <1>6, RequestStep
  <2> QED
    BY <1>4, <1>6, <2>2, <2>3, <2>4
<1>7. CASE front.connected /\ s = front.socket /\ r \in Range(front.buffer)
  <2>1. /\ front.open /\ r \in Request
        /\ request[r].state # "idle" /\ request[r].channel = front.channel
    BY <1>1, <1>7 DEF InBuffer
  <2>2. Heir(front.channel, s)
    BY <1>1, <1>7, <2>1 DEF OpenChannel
  <2>3. Opened(s)
    BY <1>1, <1>7, BreaksAssumption DEF InOrder, Socket
  <2>4. request'[r].state # "idle" /\ request'[r].channel = front.channel
    BY <2>1, RequestStep
  <2> QED
    BY <1>4, <2>1, <2>2, <2>3, <2>4
<1> QED
  BY <1>3, <1>5, <1>6, <1>7, LinkStep

\* The requests a context has: those it works on and those whose reply it keeps.
Has(contexts, c) == contexts[c].working \cup Range(contexts[c].buffer)

LEMMA ClosedHas ==
  ASSUME NEW contexts \in ContextType, NEW d \in Context \cup {None},
         NEW c \in Context
  PROVE  Has(Closed(contexts, d), c) \subseteq Has(contexts, c)
<1>1. CASE d = None
  BY <1>1 DEF Closed
<1>2. CASE d # None
  <2>1. Closed(contexts, d) =
          [contexts EXCEPT ![d] = [@ EXCEPT !.state = "closed", !.buffer = <<>>]]
    BY <1>2 DEF Closed, Drained
  <2>2. /\ Closed(contexts, d)[c].working = contexts[c].working
        /\ Closed(contexts, d)[c].buffer \in {<<>>, contexts[c].buffer}
    BY <2>1 DEF ContextType
  <2>3. Range(<<>>) = {}
    BY DEF Range
  <2> QED
    BY <2>2, <2>3 DEF Has
<1> QED
  BY <1>1, <1>2

\* A context gets its requests from a socket it listens to, and from nowhere else.
LEMMA WorkStep ==
  ASSUME IInv, [Next]_vars, NEW c \in Context, NEW r \in Has(context', c)
  PROVE  \/ r \in Has(context, c)
         \/ \E s \in Socket : socket[s].serves = c /\ r \in Loads(toBack[s])
<1>1. /\ context \in ContextType /\ socket \in SocketType
      /\ toBack \in [Socket -> Seq(Message(Greeting))]
      /\ byFrontend \in [Page -> Context \cup {None}]
      /\ \A s \in Socket : socket[s].page \in Page
      /\ Context = Socket
  BY TypesNamed DEF IInv, SocketType, Context
<1>2. Range(<<>>) = {}
  BY DEF Range
<1>3. CASE UNCHANGED context
  BY <1>3
<1>4. ASSUME NEW contexts \in ContextType, Has(contexts, c) \subseteq Has(context, c),
             NEW timers, NEW p \in Page, ConnectionClosed(contexts, timers, p)
      PROVE  r \in Has(context, c)
  <2>1. context' = Closed(contexts, byFrontend[p])
    BY <1>4 DEF ConnectionClosed
  <2>2. byFrontend[p] \in Context \cup {None}
    BY <1>1
  <2> QED
    BY <1>4, <2>1, <2>2, ClosedHas
<1>5. ASSUME NEW s \in Socket, InitialConnect(s)
      PROVE  r \in Has(context, c)
  <2>1. PICK p \in Page : p = socket[s].page
    BY <1>1
  <2>2. context' = [Discarded(p) EXCEPT ![s] =
                      [state |-> "open", page |-> p, socket |-> s,
                       buffer |-> <<>>, working |-> {}]]
    BY <1>5, <2>1 DEF InitialConnect, Created
  <2>3. Has(Discarded(p), c) \subseteq Has(context, c)
    <3>1. byFrontend[p] \in Context \cup {None}
      BY <1>1
    <3> QED
      BY <1>1, <3>1, ClosedHas DEF Discarded
  <2>4. CASE c = s
    <3>1. c \in DOMAIN Discarded(p)
      BY <1>1 DEF Discarded, Closed, ContextType
    <3>2. context'[c].working = {} /\ context'[c].buffer = <<>>
      BY <2>2, <2>4, <3>1
    <3> QED
      BY <1>2, <3>2 DEF Has
  <2>5. CASE c # s
    <3>1. c \in DOMAIN Discarded(p)
      BY <1>1 DEF Discarded, Closed, ContextType
    <3>2. context'[c] = Discarded(p)[c]
      BY <2>2, <2>5, <3>1
    <3> QED
      BY <2>3, <3>2 DEF Has
  <2> QED
    BY <2>4, <2>5
<1>6. ASSUME NEW s \in Socket, Reconnect(s)
      PROVE  r \in Has(context, c)
  <2>1. PICK d : d = byFrontend[socket[s].page]
    OBVIOUS
  <2>2. \/ context' = context
        \/ context' = [context EXCEPT ![d] = [@ EXCEPT !.socket = s, !.buffer = <<>>]]
    BY <1>6, <2>1 DEF Reconnect, AfterFlush
  <2>3. /\ context'[c].working = context[c].working
        /\ context'[c].buffer \in {<<>>, context[c].buffer}
    <3>1. c \in DOMAIN context /\ DOMAIN context = Context
          /\ DOMAIN context[c] = {"state", "page", "socket", "buffer", "working"}
      BY <1>1 DEF ContextType
    <3>2. CASE c = d
      BY <2>2, <3>1, <3>2
    <3>3. CASE c # d
      <4>1. context'[c] = context[c]
        BY <2>2, <3>1, <3>3
      <4> QED
        BY <4>1
    <3> QED
      BY <3>2, <3>3
  <2> QED
    BY <1>2, <2>3 DEF Has
<1>7. ASSUME NEW s \in Socket, RequestArrives(s)
      PROVE  \/ r \in Has(context, c)
             \/ socket[s].serves = c /\ r \in Loads(toBack[s])
  <2>1. CASE UNCHANGED context
    BY <2>1
  <2>2. CASE /\ Listens(s)
             /\ context' = [context EXCEPT ![socket[s].serves].working =
                                             @ \cup {Head(Head(toBack[s]).load)}]
    <3>1. PICK d : d = socket[s].serves
      OBVIOUS
    <3>2. PICK first : first = Head(Head(toBack[s]).load)
      OBVIOUS
    <3>3. context' = [context EXCEPT ![d].working = @ \cup {first}]
      BY <2>2, <3>1, <3>2
    <3>4. /\ context'[c].buffer = context[c].buffer
          /\ \/ context'[c].working = context[c].working
             \/ c = d /\ context'[c].working = context[c].working \cup {first}
      BY <1>1, <3>3 DEF ContextType
    <3>5. first \in Loads(toBack[s])
      <4>1. toBack[s] \in Seq(Message(Greeting)) /\ toBack[s] # <<>>
            /\ Head(toBack[s]).kind = "data"
        BY <1>1, <1>7 DEF RequestArrives, Asked
      <4>2. Head(toBack[s]) \in Message(Greeting)
        BY <4>1
      <4>3. Head(toBack[s]).load \in Seq(Request) \ {<<>>}
        BY <4>1, <4>2 DEF Message, Greeting
      <4>4. first \in Range(Head(toBack[s]).load)
        <5>1. PICK load \in Seq(Request) : load = Head(toBack[s]).load /\ load # <<>>
          BY <4>3
        <5>2. 1 \in DOMAIN load /\ Head(load) = load[1]
          BY <5>1, EmptySeq
        <5> QED
          BY <3>2, <5>1, <5>2 DEF Range
      <4> QED
        BY <4>1, <4>4, TailHolds
    <3> QED
      BY <3>1, <3>4, <3>5 DEF Has
  <2> QED
    BY <1>7, <2>1, <2>2 DEF RequestArrives
<1>8. ASSUME NEW d \in Context, NEW q \in Request, Reply(d, q)
      PROVE  r \in Has(context, c)
  <2>1. q \in context[d].working
    BY <1>8 DEF Reply
  <2>2. PICK done : done = [context EXCEPT ![d].working = @ \ {q}]
    OBVIOUS
  <2>3. /\ done \in ContextType
        /\ \A e \in Context : /\ done[e].working \subseteq context[e].working
                               /\ done[e].buffer = context[e].buffer
    BY <1>1, <2>2 DEF ContextType
  <2>4. context' = done \/ context' = [done EXCEPT ![d].buffer = Buffered(@, q)]
    BY <1>8, <2>2 DEF Reply
  <2>5. CASE context' = done
    BY <2>3, <2>5 DEF Has
  <2>6. CASE context' = [done EXCEPT ![d].buffer = Buffered(@, q)]
    <3>1. /\ context'[c].working = done[c].working
          /\ \/ context'[c].buffer = done[c].buffer
             \/ c = d /\ context'[c].buffer = Buffered(done[c].buffer, q)
      BY <2>3, <2>6 DEF ContextType
    <3>2. done[c].buffer \in Seq(Request)
      BY <2>3 DEF ContextType
    <3>3. Range(context'[c].buffer) \subseteq Range(context[c].buffer) \cup context[c].working
      BY <2>1, <2>3, <3>1, <3>2, BufferedHolds
    <3> QED
      BY <2>3, <3>1, <3>3 DEF Has
  <2> QED
    BY <2>4, <2>5, <2>6
<1>9. ASSUME NEW s \in Socket, SocketDisconnects(s)
      PROVE  r \in Has(context, c)
  <2>1. CASE UNCHANGED context
    BY <2>1
  <2>2. CASE socket[s].serves # None
    <3>1. PICK d \in Context : d = socket[s].serves
      BY <1>1, <2>2 DEF SocketType
    <3>2. PICK p \in Page : p = socket[s].page
      BY <1>1
    <3>3. /\ Detached(d) \in ContextType
          /\ Has(Detached(d), c) = Has(context, c)
      BY <1>1 DEF Detached, ContextType, Has
    <3>4. ConnectionClosed(Detached(d), timer, p) \/ context' = Detached(d)
      BY <1>9, <2>2, <3>1, <3>2 DEF SocketDisconnects
    <3>5. CASE ConnectionClosed(Detached(d), timer, p)
      <4>1. PICK contexts \in ContextType : contexts = Detached(d)
        BY <3>3
      <4> QED
        BY <1>4, <3>3, <3>5, <4>1
    <3> QED
      BY <3>3, <3>4, <3>5
  <2> QED
    BY <1>9, <2>1, <2>2 DEF SocketDisconnects
<1>10. ASSUME NEW p \in Page, TimeoutCloses(p)
       PROVE  r \in Has(context, c)
  BY <1>1, <1>4, <1>10 DEF TimeoutCloses
<1>11. \/ FrontConnects \/ FrontNotices \/ FrontHears \/ MarkForClose
       \/ \E q \in Request : Send(q)
       \/ \E s \in Socket : Break(s) \/ GreetingIgnored(s)
       => UNCHANGED context
  BY DEF FrontConnects, FrontNotices, FrontHears, ConnectNewChannel, ReconnectSucceeded,
         ReconnectFailed, ReplyArrives, MarkForClose, Send, Break, GreetingIgnored, back_vars
<1>12. UNCHANGED vars => UNCHANGED context
  BY DEF vars
<1> QED
  BY <1>3, <1>5, <1>6, <1>7, <1>8, <1>9, <1>10, <1>11, <1>12 DEF Next, BackHears

\* A context works for its own channel.
LEMMA AtWorkNext ==
  ASSUME IInv, OwnInv, [Next]_vars
  PROVE  AtWork'
<1> SUFFICES ASSUME NEW c \in Context, NEW r \in Has(context', c)
             PROVE  /\ request'[r].state # "idle"
                    /\ late' \/ request'[r].channel = c
  BY DEF AtWork, Has
<1>1. /\ OnTheWay /\ AtWork /\ c # None
      /\ context \in ContextType
      /\ toBack \in [Socket -> Seq(Message(Greeting))]
  BY TypesNamed, BreaksAssumption DEF IInv, OwnInv, Context, Socket
<1>2. ASSUME r \in Request, request[r].state # "idle",
             late \/ request[r].channel = c
      PROVE  request'[r].state # "idle" /\ (late' \/ request'[r].channel = c)
  BY <1>2, RequestStep, LateStays
<1>3. CASE r \in Has(context, c)
  <2>1. r \in Request
    BY <1>1, <1>3 DEF Has, ContextType, Range
  <2>2. request[r].state # "idle" /\ (late \/ request[r].channel = c)
    BY <1>1, <1>3 DEF AtWork, Has
  <2> QED
    BY <1>2, <2>1, <2>2
<1>4. ASSUME NEW s \in Socket, socket[s].serves = c, r \in Loads(toBack[s])
      PROVE  request'[r].state # "idle" /\ (late' \/ request'[r].channel = c)
  <2>1. request[r].state # "idle" /\ Heir(request[r].channel, s)
    BY <1>1, <1>4 DEF OnTheWay
  <2>2. late \/ request[r].channel = c
    BY <1>1, <1>4, <2>1 DEF Heir
  <2>3. r \in Request
    BY <1>1, <1>4, LoadsType
  <2> QED
    BY <1>2, <2>1, <2>2, <2>3
<1> QED
  BY <1>3, <1>4, WorkStep

LEMMA InitOwn == Init => OwnInv
<1> SUFFICES ASSUME Init PROVE OwnInv
  OBVIOUS
<1>1. /\ \A s \in Socket : /\ socket[s].link = "none" /\ ~ socket[s].connected
                           /\ ~ socket[s].greeted /\ socket[s].serves = None
                           /\ toBack[s] = <<>> /\ toFront[s] = <<>>
      /\ \A p \in Page : byFrontend[p] = None
      /\ \A c \in Context : context[c].working = {} /\ context[c].buffer = <<>>
      /\ front.socket = None /\ ~ front.connected /\ ~ front.open
      /\ front.buffer = <<>>
  BY DEF Init
<1>2. /\ \A s \in Socket : s \in Nat /\ s # None /\ ~ (s <= None)
      /\ Range(<<>>) = {}
  BY BreaksAssumption DEF Socket, Range
<1>3. InOrder
  BY <1>1, <1>2 DEF InOrder, Opened
<1>4. Introduced /\ OnTheWay
  BY <1>1, OneHolds DEF Introduced, OnTheWay
<1>5. MapIsTheirs /\ Latest
  BY <1>1, <1>2 DEF MapIsTheirs, Latest
<1>6. OpenChannel /\ InBuffer /\ AtWork
  BY <1>1, <1>2 DEF OpenChannel, InBuffer, AtWork
<1> QED
  BY <1>3, <1>4, <1>5, <1>6 DEF OwnInv

LEMMA OwnNext ==
  ASSUME IInv, OwnInv, [Next]_vars
  PROVE  OwnInv'
<1>1. InOrder /\ Introduced /\ MapIsTheirs /\ Latest
  BY DEF OwnInv
<1>2. InOrder'
  BY <1>1, InOrderNext
<1>3. Introduced' /\ MapIsTheirs' /\ Latest'
  BY <1>1, MapNext
<1>4. OpenChannel' /\ InBuffer'
  BY OpenChannelNext, InBufferNext
<1>5. OnTheWay' /\ AtWork'
  BY OnTheWayNext, AtWorkNext
<1> QED
  BY <1>2, <1>3, <1>4, <1>5 DEF OwnInv

\* No context is left open out of reach, and none works on, or keeps a reply
\* for, a request made on the channel of another, as long as no greeting or
\* disconnect of a replaced socket came late: however often the links break,
\* what the front end buffered for one context is never done by the next
\* (connectNewChannel drains the buffer, reconnectListener moves the context).
THEOREM ContextsStayApart == Spec => []ContextsAreApart
<1>1. IInv /\ OwnInv /\ [Next]_vars => OwnInv'
  BY OwnNext
<1>2. IInv /\ OwnInv => ContextsAreApart
  <2> SUFFICES ASSUME IInv, OwnInv PROVE ContextsAreApart
    OBVIOUS
  <2>1. OneContext
    BY DEF IInv
  <2>2. late \/ OwnRequests
    BY DEF OwnInv, AtWork, OwnRequests
  <2> QED
    BY <2>1, <2>2 DEF ContextsAreApart
<1> QED
  BY Inductive, InitOwn, <1>1, <1>2, PTL DEF Spec

-----------------------------------------------------------------------------
\* Where the message of a request is.  A place is the buffer of the front end, the
\* buffer or the handlers of the request's context, or a link, in one direction.

Place == {<<"front", 0>>, <<"back", 0>>, <<"working", 0>>}
           \cup {<<"to back", s>> : s \in Socket} \cup {<<"to front", s>> : s \in Socket}

At(r, p) ==
  LET c == context[request[r].channel]
  IN  IF p[1] = "front" THEN In(front.buffer, r)
      ELSE IF p[1] = "back" THEN In(c.buffer, r)
      ELSE IF p[1] = "working" THEN {0 : i \in c.working \cap {r}}
      ELSE IF p[1] = "to back" THEN Within(toBack[p[2]], r)
      ELSE Within(toFront[p[2]], r)

Single(S) == \E x : S = {x}

Once(r) == \E p \in Place : /\ Single(At(r, p))
                            /\ \A q \in Place \ {p} : At(r, q) = {}

\* T is as empty and as single as S.
Like(S, T) == (S = {} => T = {}) /\ (Single(S) => Single(T))

LEMMA PlacesAre ==
  /\ <<"front", 0>> \in Place /\ <<"back", 0>> \in Place /\ <<"working", 0>> \in Place
  /\ \A s \in Socket : <<"to back", s>> \in Place /\ <<"to front", s>> \in Place
  /\ \A p \in Place : \/ p \in {<<"front", 0>>, <<"back", 0>>, <<"working", 0>>}
                      \/ \E s \in Socket : p \in {<<"to back", s>>, <<"to front", s>>}
BY DEF Place

\* Copies are pairs.
LEMMA Pairs ==
  ASSUME NEW a
  PROVE  {a} \X {} = {} /\ \A x : {a} \X {x} = {<<a, x>>}
OBVIOUS

LEMMA WorkingIs ==
  ASSUME NEW S, NEW r
  PROVE  {0 : i \in S \cap {r}} = IF r \in S THEN {0} ELSE {}
OBVIOUS

LEMMA AtIs ==
  ASSUME NEW r
  PROVE  /\ At(r, <<"front", 0>>) = In(front.buffer, r)
         /\ At(r, <<"back", 0>>) = In(context[request[r].channel].buffer, r)
         /\ At(r, <<"working", 0>>) =
              IF r \in context[request[r].channel].working THEN {0} ELSE {}
         /\ \A s : At(r, <<"to back", s>>) = Within(toBack[s], r)
         /\ \A s : At(r, <<"to front", s>>) = Within(toFront[s], r)
BY WorkingIs DEF At

LEMMA AtIsNext ==
  ASSUME NEW r
  PROVE  /\ At(r, <<"front", 0>>)' = In(front'.buffer, r)
         /\ At(r, <<"back", 0>>)' = In(context'[request'[r].channel].buffer, r)
         /\ At(r, <<"working", 0>>)' =
              IF r \in context'[request'[r].channel].working THEN {0} ELSE {}
         /\ \A s : At(r, <<"to back", s>>)' = Within(toBack'[s], r)
         /\ \A s : At(r, <<"to front", s>>)' = Within(toFront'[s], r)
BY WorkingIs DEF At

\* A message that is in one place is there once.
LEMMA OneCopy ==
  ASSUME NEW r, Once(r)
  PROVE  Cardinality(Copies(r)) = 1
<1> DEFINE c == request[r].channel
           inFront == {"front"} \X In(front.buffer, r)
           inBack == {"back"} \X In(context[c].buffer, r)
           atWork == IF r \in context[c].working THEN {<<"working", 0>>} ELSE {}
           toTheBack == UNION {{<<"to back", s>>} \X Within(toBack[s], r) : s \in Socket}
           toTheFront == UNION {{<<"to front", s>>} \X Within(toFront[s], r) : s \in Socket}
<1>1. Copies(r) = inFront \cup inBack \cup atWork \cup toTheBack \cup toTheFront
  BY DEF Copies
<1>2. PICK p \in Place : /\ Single(At(r, p))
                         /\ \A q \in Place \ {p} : At(r, q) = {}
  BY DEF Once
<1>3. PICK x : At(r, p) = {x}
  BY <1>2 DEF Single
<1>4. p # <<"front", 0>> => inFront = {}
  <2>1. p # <<"front", 0>> => In(front.buffer, r) = {}
    BY <1>2, PlacesAre, AtIs
  <2> QED
    BY <2>1, Pairs
<1>5. p # <<"back", 0>> => inBack = {}
  <2>1. p # <<"back", 0>> => In(context[c].buffer, r) = {}
    BY <1>2, PlacesAre, AtIs
  <2> QED
    BY <2>1, Pairs
<1>6. p # <<"working", 0>> => atWork = {}
  <2>1. p # <<"working", 0>> => r \notin context[c].working
    BY <1>2, PlacesAre, AtIs
  <2> QED
    BY <2>1
<1>7. ASSUME NEW s \in Socket, p # <<"to back", s>>
      PROVE  {<<"to back", s>>} \X Within(toBack[s], r) = {}
  <2>1. Within(toBack[s], r) = {}
    BY <1>2, <1>7, PlacesAre, AtIs
  <2> QED
    BY <2>1, Pairs
<1>8. ASSUME NEW s \in Socket, p # <<"to front", s>>
      PROVE  {<<"to front", s>>} \X Within(toFront[s], r) = {}
  <2>1. Within(toFront[s], r) = {}
    BY <1>2, <1>8, PlacesAre, AtIs
  <2> QED
    BY <2>1, Pairs
<1>9. (\A s \in Socket : p # <<"to back", s>>) => toTheBack = {}
  BY <1>7
<1>10. (\A s \in Socket : p # <<"to front", s>>) => toTheFront = {}
  BY <1>8
<1>11. \E y : Copies(r) = {y}
  <2>1. CASE p = <<"front", 0>>
    <3>1. inFront = {<<"front", x>>}
      <4>1. In(front.buffer, r) = {x}
        BY <1>3, <2>1, AtIs
      <4> QED
        BY <4>1, Pairs
    <3>2. inBack = {} /\ atWork = {} /\ toTheBack = {} /\ toTheFront = {}
      BY <1>5, <1>6, <1>9, <1>10, <2>1
    <3> HIDE DEF inFront, inBack, atWork, toTheBack, toTheFront
    <3> QED
      BY <1>1, <3>1, <3>2
  <2>2. CASE p = <<"back", 0>>
    <3>1. inBack = {<<"back", x>>}
      <4>1. In(context[c].buffer, r) = {x}
        BY <1>3, <2>2, AtIs
      <4> QED
        BY <4>1, Pairs
    <3>2. inFront = {} /\ atWork = {} /\ toTheBack = {} /\ toTheFront = {}
      BY <1>4, <1>6, <1>9, <1>10, <2>2
    <3> HIDE DEF inFront, inBack, atWork, toTheBack, toTheFront
    <3> QED
      BY <1>1, <3>1, <3>2
  <2>3. CASE p = <<"working", 0>>
    <3>1. atWork = {<<"working", 0>>}
      BY <1>3, <2>3, AtIs
    <3>2. inFront = {} /\ inBack = {} /\ toTheBack = {} /\ toTheFront = {}
      BY <1>4, <1>5, <1>9, <1>10, <2>3
    <3> HIDE DEF inFront, inBack, atWork, toTheBack, toTheFront
    <3> QED
      BY <1>1, <3>1, <3>2
  <2>4. ASSUME NEW t \in Socket, p = <<"to back", t>>
        PROVE  \E y : Copies(r) = {y}
    <3>1. {<<"to back", t>>} \X Within(toBack[t], r) = {<<<<"to back", t>>, x>>}
      <4>1. Within(toBack[t], r) = {x}
        BY <1>3, <2>4, AtIs
      <4> QED
        BY <4>1, Pairs
    <3>2. toTheBack = {<<<<"to back", t>>, x>>}
      <4>1. \A s \in Socket : s # t => p # <<"to back", s>>
        BY <2>4
      <4> DEFINE piece(s) == {<<"to back", s>>} \X Within(toBack[s], r)
      <4>2. /\ piece(t) = {<<<<"to back", t>>, x>>}
            /\ \A s \in Socket : s # t => piece(s) = {}
        BY <1>7, <3>1, <4>1
      <4>3. toTheBack = UNION {piece(s) : s \in Socket}
        OBVIOUS
      <4> HIDE DEF piece, toTheBack
      <4> QED
        BY <4>2, <4>3
    <3>3. inFront = {} /\ inBack = {} /\ atWork = {} /\ toTheFront = {}
      BY <1>4, <1>5, <1>6, <1>10, <2>4
    <3> HIDE DEF inFront, inBack, atWork, toTheBack, toTheFront
    <3> QED
      BY <1>1, <3>2, <3>3
  <2>5. ASSUME NEW t \in Socket, p = <<"to front", t>>
        PROVE  \E y : Copies(r) = {y}
    <3>1. {<<"to front", t>>} \X Within(toFront[t], r) = {<<<<"to front", t>>, x>>}
      <4>1. Within(toFront[t], r) = {x}
        BY <1>3, <2>5, AtIs
      <4> QED
        BY <4>1, Pairs
    <3>2. toTheFront = {<<<<"to front", t>>, x>>}
      <4>1. \A s \in Socket : s # t => p # <<"to front", s>>
        BY <2>5
      <4> DEFINE piece(s) == {<<"to front", s>>} \X Within(toFront[s], r)
      <4>2. /\ piece(t) = {<<<<"to front", t>>, x>>}
            /\ \A s \in Socket : s # t => piece(s) = {}
        BY <1>8, <3>1, <4>1
      <4>3. toTheFront = UNION {piece(s) : s \in Socket}
        OBVIOUS
      <4> HIDE DEF piece, toTheFront
      <4> QED
        BY <4>2, <4>3
    <3>3. inFront = {} /\ inBack = {} /\ atWork = {} /\ toTheBack = {}
      BY <1>4, <1>5, <1>6, <1>9, <2>5
    <3> HIDE DEF inFront, inBack, atWork, toTheBack, toTheFront
    <3> QED
      BY <1>1, <3>2, <3>3
  <2> QED
    BY <2>1, <2>2, <2>3, <2>4, <2>5, PlacesAre
<1> QED
  BY <1>11, FS_Singleton

\* A step that leaves every place as it is.
LEMMA OnceStays ==
  ASSUME NEW r, Once(r), \A p \in Place : Like(At(r, p), At(r, p)')
  PROVE  Once(r)'
BY DEF Once, Like

\* A step that takes the message from one place to another.
LEMMA OnceMoves ==
  ASSUME NEW r, Once(r), NEW p \in Place, NEW q \in Place, p # q,
         At(r, p) # {}, At(r, p)' = {},
         Single(At(r, p)) => Single(At(r, q)'),
         \A o \in Place \ {p, q} : Like(At(r, o), At(r, o)')
  PROVE  Once(r)'
<1>1. PICK o \in Place : /\ Single(At(r, o))
                         /\ \A x \in Place \ {o} : At(r, x) = {}
  BY DEF Once
<1>2. o = p
  BY <1>1
<1>3. Single(At(r, q)')
  BY <1>1, <1>2
<1>4. \A x \in Place \ {q} : At(r, x)' = {}
  BY <1>1, <1>2 DEF Like
<1> QED
  BY <1>3, <1>4 DEF Once

-----------------------------------------------------------------------------
\* The places of a request in sequences that lose their head or get a tail.

LEMMA InHolds ==
  ASSUME NEW sequence, NEW r
  PROVE  In(sequence, r) = {} <=> r \notin Range(sequence)
BY DEF In, Range

\* The pairs that Within is made of.
LEMMA WithinIs ==
  ASSUME NEW messages, NEW r
  PROVE  \A x : x \in Within(messages, r) <=>
                  \E i \in DOMAIN messages :
                    \E j \in In(messages[i].load, r) : x = <<i, j>>
<1>1. \A x, i : x \in {i} \X In(messages[i].load, r) <=>
                 \E j \in In(messages[i].load, r) : x = <<i, j>>
  OBVIOUS
<1> QED
  BY <1>1 DEF Within

LEMMA WithinHolds ==
  ASSUME NEW messages, NEW r
  PROVE  Within(messages, r) = {} <=> r \notin Loads(messages)
<1>1. Within(messages, r) = {} <=> \A i \in DOMAIN messages : In(messages[i].load, r) = {}
  <2>1. ASSUME NEW i \in DOMAIN messages, NEW j \in In(messages[i].load, r)
        PROVE  Within(messages, r) # {}
    <3>1. <<i, j>> \in Within(messages, r)
      BY WithinIs
    <3> QED
      BY <3>1
  <2>2. ASSUME NEW x \in Within(messages, r)
        PROVE  \E i \in DOMAIN messages : In(messages[i].load, r) # {}
    BY WithinIs
  <2> QED
    BY <2>1, <2>2
<1> QED
  BY <1>1, InHolds DEF Loads

LEMMA LikeSelf == \A S : Like(S, S)
BY DEF Like

LEMMA LikeEmpty == \A S, T : S = {} /\ T = {} => Like(S, T)
BY DEF Like, Single

\* The head of a link is taken, and the request was not in it.
LEMMA TailLike ==
  ASSUME NEW S, NEW messages \in Seq(S), messages # <<>>, NEW r,
         r \notin Range(Head(messages).load)
  PROVE  Like(Within(messages, r), Within(Tail(messages), r))
<1> DEFINE tail == Tail(messages)
<1>1. /\ Len(messages) \in Nat \ {0}
      /\ DOMAIN messages = 1 .. Len(messages)
      /\ Head(messages) = messages[1]
  BY EmptySeq
<1>2. /\ DOMAIN tail = 1 .. Len(messages) - 1
      /\ \A i \in 1 .. Len(messages) - 1 : tail[i] = messages[i + 1]
  BY HeadTailProperties
<1> HIDE DEF tail
<1>3. In(messages[1].load, r) = {}
  BY <1>1, InHolds
<1>4. \A i \in DOMAIN tail : i + 1 \in DOMAIN messages /\ tail[i] = messages[i + 1]
  BY <1>1, <1>2
<1>5. \A i \in DOMAIN messages : i # 1 => i - 1 \in DOMAIN tail /\ messages[i] = tail[i - 1]
  BY <1>1, <1>2
<1>6. ASSUME Within(messages, r) = {}
      PROVE  Within(tail, r) = {}
  <2>1. r \notin Loads(messages)
    BY <1>6, WithinHolds
  <2>2. r \notin Loads(tail)
    BY <1>4, <2>1 DEF Loads
  <2> QED
    BY <2>2, WithinHolds
<1>7. ASSUME NEW x, Within(messages, r) = {x}
      PROVE  Single(Within(tail, r))
  <2>1. PICK i \in DOMAIN messages : \E j \in In(messages[i].load, r) : x = <<i, j>>
    BY <1>7, WithinIs
  <2>2. PICK j \in In(messages[i].load, r) : x = <<i, j>>
    BY <2>1
  <2>3. i # 1 /\ i - 1 \in DOMAIN tail /\ j \in In(tail[i - 1].load, r)
    BY <1>3, <1>5, <2>2
  <2>4. <<i - 1, j>> \in Within(tail, r)
    BY <2>3, WithinIs
  <2>5. ASSUME NEW y \in Within(tail, r)
        PROVE  y = <<i - 1, j>>
    <3>1. PICK k \in DOMAIN tail : \E l \in In(tail[k].load, r) : y = <<k, l>>
      BY <2>5, WithinIs
    <3>2. PICK l \in In(tail[k].load, r) : y = <<k, l>>
      BY <3>1
    <3>3. k + 1 \in DOMAIN messages /\ l \in In(messages[k + 1].load, r)
      BY <1>4, <3>2
    <3>4. <<k + 1, l>> \in Within(messages, r)
      BY <3>3, WithinIs
    <3>5. k + 1 = i /\ l = j
      BY <1>7, <2>2, <3>4
    <3>6. k = i - 1
      BY <1>2, <3>5
    <3> QED
      BY <3>2, <3>5, <3>6
  <2>6. Within(tail, r) = {<<i - 1, j>>}
    BY <2>4, <2>5
  <2> QED
    BY <2>6 DEF Single
<1> QED
  BY <1>6, <1>7 DEF Like, Single, tail

\* It was in it, and nowhere else.
LEMMA TailEmpty ==
  ASSUME NEW S, NEW messages \in Seq(S), messages # <<>>, NEW r,
         r \in Range(Head(messages).load), Single(Within(messages, r))
  PROVE  Within(Tail(messages), r) = {}
<1> DEFINE tail == Tail(messages)
<1>1. /\ Len(messages) \in Nat \ {0}
      /\ DOMAIN messages = 1 .. Len(messages)
      /\ Head(messages) = messages[1]
  BY EmptySeq
<1>2. /\ DOMAIN tail = 1 .. Len(messages) - 1
      /\ \A i \in 1 .. Len(messages) - 1 : tail[i] = messages[i + 1]
  BY HeadTailProperties
<1> HIDE DEF tail
<1>3. PICK j : j \in In(messages[1].load, r)
  BY <1>1, InHolds
<1>4. <<1, j>> \in Within(messages, r)
  BY <1>1, <1>3, WithinIs
<1>5. ASSUME NEW y \in Within(tail, r)
      PROVE  FALSE
  <2>1. PICK k \in DOMAIN tail : \E l \in In(tail[k].load, r) : y = <<k, l>>
    BY <1>5, WithinIs
  <2>2. PICK l \in In(tail[k].load, r) : y = <<k, l>>
    BY <2>1
  <2>3. k + 1 \in DOMAIN messages /\ l \in In(messages[k + 1].load, r)
    BY <1>1, <1>2, <2>2
  <2>4. <<k + 1, l>> \in Within(messages, r)
    BY <2>3, WithinIs
  <2>5. <<k + 1, l>> = <<1, j>>
    BY <1>4, <2>4 DEF Single
  <2>6. k + 1 = 1
    BY <2>5
  <2> QED
    BY <1>2, <2>6
<1> QED
  BY <1>5 DEF tail

\* What is said on a link comes after what is there.
LEMMA ConcatSame ==
  ASSUME NEW S, NEW messages \in Seq(S), NEW more \in Seq(S), NEW r,
         r \notin Loads(more)
  PROVE  Within(messages \o more, r) = Within(messages, r)
<1> DEFINE all == messages \o more
<1>1. /\ Len(messages) \in Nat /\ Len(more) \in Nat
      /\ DOMAIN messages = 1 .. Len(messages) /\ DOMAIN more = 1 .. Len(more)
  OBVIOUS
<1>2. /\ DOMAIN all = 1 .. Len(messages) + Len(more)
      /\ \A i \in 1 .. Len(messages) + Len(more) :
           all[i] = IF i <= Len(messages) THEN messages[i]
                    ELSE more[i - Len(messages)]
  BY ConcatProperties
<1> HIDE DEF all
<1>3. \A i \in DOMAIN messages : i \in DOMAIN all /\ all[i] = messages[i]
  BY <1>1, <1>2
<1>4. \A i \in DOMAIN all :
        \/ i \in DOMAIN messages /\ all[i] = messages[i]
        \/ i - Len(messages) \in DOMAIN more /\ all[i] = more[i - Len(messages)]
  BY <1>1, <1>2
<1>5. \A i \in DOMAIN more : In(more[i].load, r) = {}
  BY InHolds DEF Loads
<1>6. \A i \in DOMAIN all : In(all[i].load, r) # {} =>
                              i \in DOMAIN messages /\ all[i] = messages[i]
  BY <1>4, <1>5
<1>7. \A x : x \in Within(all, r) <=> x \in Within(messages, r)
  <2>1. ASSUME NEW x \in Within(all, r) PROVE x \in Within(messages, r)
    <3>1. PICK i \in DOMAIN all : \E j \in In(all[i].load, r) : x = <<i, j>>
      BY <2>1, WithinIs
    <3>2. i \in DOMAIN messages /\ all[i] = messages[i]
      BY <1>6, <3>1
    <3> QED
      BY <3>1, <3>2, WithinIs
  <2>2. ASSUME NEW x \in Within(messages, r) PROVE x \in Within(all, r)
    <3>1. PICK i \in DOMAIN messages : \E j \in In(messages[i].load, r) : x = <<i, j>>
      BY <2>2, WithinIs
    <3>2. i \in DOMAIN all /\ all[i] = messages[i]
      BY <1>3
    <3> QED
      BY <3>1, <3>2, WithinIs
  <2> QED
    BY <2>1, <2>2
<1>8. Within(all, r) = Within(messages, r)
  BY <1>7
<1> QED
  BY <1>8 DEF all

LEMMA ConcatSingle ==
  ASSUME NEW S, NEW messages \in Seq(S), NEW more \in Seq(S), NEW r,
         r \notin Loads(messages), Single(Within(more, r))
  PROVE  Single(Within(messages \o more, r))
<1> DEFINE all == messages \o more
           n == Len(messages)
<1>1. /\ n \in Nat /\ Len(more) \in Nat
      /\ DOMAIN messages = 1 .. n /\ DOMAIN more = 1 .. Len(more)
  OBVIOUS
<1>2. /\ DOMAIN all = 1 .. n + Len(more)
      /\ \A i \in 1 .. n + Len(more) :
           all[i] = IF i <= n THEN messages[i] ELSE more[i - n]
  BY ConcatProperties
<1> HIDE DEF all, n
<1>3. \A i \in DOMAIN messages : In(messages[i].load, r) = {}
  BY InHolds DEF Loads
<1>4. \A i \in DOMAIN all : \/ i \in DOMAIN messages /\ all[i] = messages[i]
                            \/ i - n \in DOMAIN more /\ all[i] = more[i - n]
  BY <1>1, <1>2
<1>5. \A i \in DOMAIN more : i + n \in DOMAIN all /\ all[i + n] = more[i]
  BY <1>1, <1>2
<1>6. PICK x : Within(more, r) = {x}
  BY DEF Single
<1>7. PICK i \in DOMAIN more : \E j \in In(more[i].load, r) : x = <<i, j>>
  BY <1>6, WithinIs
<1>8. PICK j \in In(more[i].load, r) : x = <<i, j>>
  BY <1>7
<1>9. <<i + n, j>> \in Within(all, r)
  BY <1>5, <1>8, WithinIs
<1>10. ASSUME NEW y \in Within(all, r)
       PROVE  y = <<i + n, j>>
  <2>1. PICK k \in DOMAIN all : \E l \in In(all[k].load, r) : y = <<k, l>>
    BY <1>10, WithinIs
  <2>2. PICK l \in In(all[k].load, r) : y = <<k, l>>
    BY <2>1
  <2>3. k - n \in DOMAIN more /\ l \in In(more[k - n].load, r)
    BY <1>3, <1>4, <2>2
  <2>4. <<k - n, l>> \in Within(more, r)
    BY <2>3, WithinIs
  <2>5. k - n = i /\ l = j
    BY <1>6, <1>8, <2>4
  <2>6. k = i + n
    BY <1>1, <1>2, <2>5
  <2> QED
    BY <2>2, <2>5, <2>6
<1>11. Within(all, r) = {<<i + n, j>>}
  BY <1>9, <1>10
<1> QED
  BY <1>11 DEF Single, all

\* One message that carries what a buffer held.
LEMMA CarriedSingle ==
  ASSUME NEW rs \in Seq(Request), NEW r, Single(In(rs, r))
  PROVE  Single(Within(<<Carrying(rs)>>, r)) /\ Single(Within(Flushed(rs), r))
<1>1. PICK j : In(rs, r) = {j}
  BY DEF Single
<1>2. PICK messages : messages = <<Carrying(rs)>>
  OBVIOUS
<1>3. DOMAIN messages = {1} /\ messages[1].load = rs
  BY <1>2 DEF Carrying
<1>4. Within(messages, r) = {<<1, j>>}
  BY <1>1, <1>3, WithinIs
<1>5. rs # <<>>
  BY <1>1 DEF In
<1> QED
  BY <1>2, <1>4, <1>5 DEF Single, Flushed

\* What is appended to a buffer.
LEMMA BufferedLike ==
  ASSUME NEW buffer \in Seq(Request), NEW q \in Request, NEW r \in Request
  PROVE  /\ q # r => In(Buffered(buffer, q), r) = In(buffer, r)
         /\ r \notin Range(buffer) => Single(In(Buffered(buffer, r), r))
<1>1. \A x : Append(buffer, x) = Buffered(buffer, x)
  BY DEF Buffered
<1>2. \A x \in Request :
        /\ Len(buffer) \in Nat /\ DOMAIN buffer = 1 .. Len(buffer)
        /\ DOMAIN Append(buffer, x) = 1 .. Len(buffer) + 1
        /\ \A i \in 1 .. Len(buffer) : Append(buffer, x)[i] = buffer[i]
        /\ Append(buffer, x)[Len(buffer) + 1] = x
  BY AppendProperties
<1>3. ASSUME q # r PROVE In(Buffered(buffer, q), r) = In(buffer, r)
  <2>1. PICK all : all = Append(buffer, q)
    OBVIOUS
  <2>2. In(all, r) = In(buffer, r)
    BY <1>2, <1>3, <2>1 DEF In
  <2> QED
    BY <2>1, <2>2 DEF Buffered
<1>4. ASSUME r \notin Range(buffer)
      PROVE  Single(In(Buffered(buffer, r), r))
  <2>1. PICK all : all = Append(buffer, r)
    OBVIOUS
  <2>2. In(all, r) = {Len(buffer) + 1}
    BY <1>2, <1>4, <2>1 DEF In, Range
  <2> QED
    BY <2>1, <2>2 DEF Buffered, Single
<1> QED
  BY <1>3, <1>4

-----------------------------------------------------------------------------
\* Who hears a link.  A socket that the back end has not greeted has its greeting
\* still to come; one that it has, and that no later one of its front end has
\* overtaken, is the socket of the context it serves, if that is still open.

FirstGreets ==
  \A s \in Socket : socket[s].connected /\ ~ socket[s].greeted =>
                      toBack[s] # <<>> /\ Head(toBack[s]).kind \in Greeting

ServesTheirs ==
  \A s \in Socket : LET c == socket[s].serves
                    IN  c # None => /\ socket[c].serves = c
                                    /\ socket[c].page = socket[s].page

Served ==
  late \/ \A s \in Socket :
            LET c == socket[s].serves
            IN  /\ socket[s].connected /\ ~ Overtaken(s)
                /\ c # None /\ context[c].state = "open"
                => context[c].socket = s

\* The context of a front end that was refused is gone.
Refused ==
  late \/ \A s \in Socket :
            socket[s].greeted /\ socket[s].serves = None /\ ~ Overtaken(s)
              => byFrontend[socket[s].page] = None

\* Replies are to requests.
AnswersKnown ==
  \A s \in Socket : \A r \in Loads(toFront[s]) : request[r].state # "idle"

HearInv == FirstGreets /\ ServesTheirs /\ Served /\ Refused /\ AnswersKnown

LEMMA SocketsNumbered ==
  /\ Context = Socket
  /\ \A s \in Socket : s \in Nat /\ s # None
BY BreaksAssumption DEF Socket, Context

\* A socket that has been overtaken stays so.
LEMMA OvertakenStays ==
  ASSUME IInv, InOrder, [Next]_vars, NEW s \in Socket, Opened(s), Overtaken(s)
  PROVE  Overtaken(s)'
<1>1. PICK t \in Socket : t > s /\ socket[t].greeted /\ socket[t].page = socket[s].page
  BY DEF Overtaken
<1>2. Opened(t) /\ socket'[t].greeted
  BY <1>1, SocketKeeps
<1>3. socket'[t].page = socket'[s].page
  BY <1>1, <1>2, SocketKeeps
<1> QED
  BY <1>1, <1>2, <1>3 DEF Overtaken

LEMMA GreetedIs ==
  ASSUME IInv, NEW s \in Socket
  PROVE  /\ InitialConnect(s) => socket'[s].greeted /\ socket'[s].serves = s
         /\ Reconnect(s) => socket'[s].greeted
<1>1. socket \in SocketType
  BY TypesNamed DEF IInv
<1>2. ASSUME Reconnect(s) PROVE socket'[s].greeted
  <2>1. PICK c : \/ socket' = [socket EXCEPT ![s] = [@ EXCEPT !.greeted = TRUE, !.serves = c]]
                 \/ socket' = [socket EXCEPT ![s].greeted = TRUE]
    BY <1>2 DEF Reconnect
  <2>2. CASE socket' = [socket EXCEPT ![s] = [@ EXCEPT !.greeted = TRUE, !.serves = c]]
    BY <1>1, <2>2 DEF SocketType
  <2>3. CASE socket' = [socket EXCEPT ![s].greeted = TRUE]
    BY <1>1, <2>3 DEF SocketType
  <2> QED
    BY <2>1, <2>2, <2>3
<1>3. ASSUME InitialConnect(s) PROVE socket'[s].greeted /\ socket'[s].serves = s
  BY <1>1, <1>3 DEF InitialConnect, SocketType
<1> QED
  BY <1>2, <1>3

\* A context of an introduced socket is not opened again.
LEMMA OpenBefore ==
  ASSUME IInv, IInv', InOrder, MapIsTheirs, [Next]_vars,
         NEW c \in Context, socket[c].greeted, context'[c].state = "open"
  PROVE  /\ context[c].state = "open"
         /\ byFrontend[socket[c].page] = c
<1>1. PICK p \in Page : p = context'[c].page
  BY DEF IInv, TypeOK
<1>2. byFrontend'[p] = c /\ c # None
  BY <1>1, SocketsNumbered DEF IInv, OneContext
<1>3. ASSUME NEW s \in Socket, InitialConnect(s) PROVE s # c
  BY <1>3 DEF InitialConnect
<1>4. byFrontend[p] = c
  BY <1>2, <1>3, MapStep
<1>5. context[c].state = "open" /\ socket[c].page = p
  BY <1>2, <1>4 DEF IInv, MapIsRight, MapIsTheirs
<1> QED
  BY <1>4, <1>5

\* What a link to the back end becomes.
LEMMA LinkShape ==
  ASSUME IInv, [Next]_vars, NEW s \in Socket
  PROVE  \/ toBack'[s] = toBack[s]
         \/ Connects(s)
         \/ \E more \in Seq(Message(Greeting)) : toBack'[s] = toBack[s] \o more
         \/ BackHears(s) /\ toBack[s] # <<>> /\ toBack'[s] = Tail(toBack[s])
         \/ SocketDisconnects(s)
<1>1. /\ toBack \in [Socket -> Seq(Message(Greeting))]
      /\ socket \in SocketType /\ front.buffer \in Seq(Request)
  BY TypesNamed DEF IInv, FrontType
<1>2. ASSUME NEW t, NEW messages \in Seq(Message(Greeting)), BackGets(t, messages)
      PROVE  \/ toBack'[s] = toBack[s]
             \/ \E more \in Seq(Message(Greeting)) : toBack'[s] = toBack[s] \o more
  <2>1. CASE toBack' = [toBack EXCEPT ![t] = @ \o messages]
    <3>1. CASE t = s
      <4>1. toBack'[s] = toBack[s] \o messages
        BY <1>1, <2>1, <3>1
      <4> QED
        BY <4>1
    <3>2. CASE t # s
      BY <1>1, <2>1, <3>2
    <3> QED
      BY <3>1, <3>2
  <2> QED
    BY <1>2, <2>1 DEF BackGets
<1>3. CASE UNCHANGED toBack
  BY <1>3
<1>4. ASSUME NEW r \in Request, Send(r), ~ UNCHANGED toBack
      PROVE  \E more \in Seq(Message(Greeting)) : toBack'[s] = toBack[s] \o more
               \/ toBack'[s] = toBack[s]
  <2>1. BackGets(front.socket, <<Carrying(<<r>>)>>)
    BY <1>4 DEF Send
  <2>2. <<Carrying(<<r>>)>> \in Seq(Message(Greeting))
    <3>1. <<r>> \in Seq(Request) /\ <<r>> # <<>>
      OBVIOUS
    <3>2. Carrying(<<r>>) \in Message(Greeting)
      BY <3>1, CarryingType
    <3> QED
      BY <3>2
  <2> QED
    BY <1>2, <2>1, <2>2
<1>5. CASE ReconnectSucceeded
  <2>1. BackGets(front.socket, Flushed(front.buffer))
    BY <1>5 DEF ReconnectSucceeded
  <2> QED
    BY <1>1, <1>2, <2>1, FlushedType
<1>6. CASE FrontConnects
  <2>1. PICK t \in Socket :
          /\ socket[t].link = "none"
          /\ \A u \in Socket : u < t => socket[u].link # "none"
          /\ socket' = [socket EXCEPT ![t] =
                           [@ EXCEPT !.page = front.page, !.link = "up",
                                     !.connected = TRUE]]
          /\ front' = [front EXCEPT !.socket = t, !.connected = TRUE,
                                    !.greeting = FALSE]
          /\ toBack' = [toBack EXCEPT ![t] = Greetings]
    BY <1>6 DEF FrontConnects
  <2>2. CASE t = s
    BY <1>1, <1>6, <2>1, <2>2 DEF Connects, Opened, SocketType
  <2>3. CASE t # s
    BY <1>1, <2>1, <2>3
  <2> QED
    BY <2>2, <2>3
<1>7. ASSUME NEW t \in Socket, SocketDisconnects(t), t # s
      PROVE  toBack'[s] = toBack[s]
  BY <1>1, <1>7 DEF SocketDisconnects
<1>8. ASSUME NEW t \in Socket, BackHears(t)
      PROVE  \/ toBack'[s] = toBack[s]
             \/ t = s /\ toBack[s] # <<>> /\ toBack'[s] = Tail(toBack[s])
  <2>1. toBack[t] # <<>> /\ toBack' = [toBack EXCEPT ![t] = Tail(@)]
    BY <1>8 DEF BackHears, InitialConnect, Reconnect, GreetingIgnored, RequestArrives, Asked
  <2> QED
    BY <1>1, <2>1
<1>9. \/ FrontNotices \/ ConnectNewChannel \/ ReconnectFailed \/ ReplyArrives
      \/ MarkForClose \/ \E t \in Socket : Break(t)
      \/ \E c \in Context, r \in Request : Reply(c, r)
      \/ \E p \in Page : TimeoutCloses(p)
      => UNCHANGED toBack
  BY DEF FrontNotices, ConnectNewChannel, ReconnectFailed, ReplyArrives,
         MarkForClose, Break, Reply, TimeoutCloses
<1>10. UNCHANGED vars => UNCHANGED toBack
  BY DEF vars
<1> QED
  BY <1>3, <1>4, <1>5, <1>6, <1>7, <1>8, <1>9, <1>10 DEF Next, FrontHears

LEMMA HeadStays ==
  ASSUME NEW S, NEW messages \in Seq(S), messages # <<>>, NEW more \in Seq(S)
  PROVE  messages \o more # <<>> /\ Head(messages \o more) = Head(messages)
<1> DEFINE all == messages \o more
<1>1. Len(messages) \in Nat \ {0} /\ Len(more) \in Nat
  BY EmptySeq
<1>2. all \in Seq(S) /\ Len(all) = Len(messages) + Len(more) /\ all[1] = messages[1]
  BY <1>1, ConcatProperties
<1> HIDE DEF all
<1>3. all # <<>> /\ Head(all) = all[1] /\ Head(messages) = messages[1]
  BY <1>1, <1>2, EmptySeq
<1> QED
  BY <1>2, <1>3 DEF all

LEMMA GreetingsFirst ==
  Greetings # <<>> /\ Head(Greetings).kind \in Greeting
<1>1. Said("initialConnection").kind \in Greeting /\ Said(Negotiation).kind \in Greeting
  BY DEF Said, Greeting, Negotiation
<1>2. PICK first, last : first = Said("initialConnection") /\ last = Said(Negotiation)
  OBVIOUS
<1>3. PICK one, more : one = <<first>> /\ more = <<last>>
  OBVIOUS
<1>4. /\ one \in Seq({first, last}) /\ one # <<>> /\ Head(one) = first
      /\ more \in Seq({first, last}) /\ more # <<>> /\ Head(more) = last
  BY <1>3
<1>5. Greetings = one \o more \/ Greetings = <<>> \o more
  BY <1>2, <1>3 DEF Greetings
<1>6. <<>> \o more = more
  BY <1>4, ConcatEmptySeq
<1>7. one \o more # <<>> /\ Head(one \o more) = first
  BY <1>4, HeadStays
<1> QED
  BY <1>1, <1>2, <1>4, <1>5, <1>6, <1>7

LEMMA FirstGreetsNext ==
  ASSUME IInv, InOrder, FirstGreets, [Next]_vars
  PROVE  FirstGreets'
<1> SUFFICES ASSUME NEW s \in Socket, socket'[s].connected, ~ socket'[s].greeted
             PROVE  toBack'[s] # <<>> /\ Head(toBack'[s]).kind \in Greeting
  BY DEF FirstGreets
<1>1. toBack[s] \in Seq(Message(Greeting)) /\ socket \in SocketType
  BY TypesNamed DEF IInv
<1>2. CASE Connects(s)
  BY <1>2, GreetingsFirst DEF Connects
<1>3. CASE ~ Connects(s)
  <2>1. socket[s].connected /\ ~ socket[s].greeted
    BY <1>3, SocketStep DEF Unmoved, Introduces
  <2>2. toBack[s] # <<>> /\ Head(toBack[s]).kind \in Greeting
    BY <2>1 DEF FirstGreets
  <2>3. ASSUME NEW more \in Seq(Message(Greeting)), toBack'[s] = toBack[s] \o more
        PROVE  toBack'[s] # <<>> /\ Head(toBack'[s]).kind \in Greeting
    <3>1. PICK messages \in Seq(Message(Greeting)) : messages = toBack[s]
      BY <1>1
    <3>2. messages \o more # <<>> /\ Head(messages \o more) = Head(messages)
      BY <2>2, <3>1, HeadStays
    <3> QED
      BY <2>2, <2>3, <3>1, <3>2
  <2>4. ~ SocketDisconnects(s)
    BY <1>1 DEF SocketDisconnects, SocketType
  <2>5. ~ BackHears(s)
    <3>1. ~ InitialConnect(s) /\ ~ Reconnect(s)
      BY GreetedIs
    <3>2. ~ GreetingIgnored(s)
      BY <2>1 DEF GreetingIgnored
    <3>3. ~ RequestArrives(s)
      BY <2>2 DEF RequestArrives, Asked, Greeting
    <3> QED
      BY <3>1, <3>2, <3>3 DEF BackHears
  <2> QED
    BY <1>3, <2>2, <2>3, <2>4, <2>5, LinkShape
<1> QED
  BY <1>2, <1>3

LEMMA ServesTheirsNext ==
  ASSUME IInv, InOrder, MapIsTheirs, ServesTheirs, [Next]_vars
  PROVE  ServesTheirs'
<1> SUFFICES ASSUME NEW s \in Socket, NEW c, c = socket'[s].serves, c # None
             PROVE  socket'[c].serves = c /\ socket'[c].page = socket'[s].page
  BY DEF ServesTheirs
<1>1. /\ byFrontend \in [Page -> Context \cup {None}]
      /\ socket \in SocketType /\ socket[s].page \in Page
      /\ Context = Socket
  BY TypesNamed, SocketsNumbered DEF IInv, SocketType
<1>2. ASSUME c \in Socket, socket[c].serves = c, socket[c].page = socket[s].page, Opened(s)
      PROVE  socket'[c].serves = c /\ socket'[c].page = socket'[s].page
  BY <1>2, SocketKeeps
<1>3. CASE socket[s].serves # None
  <2>1. socket[s].serves = c /\ Opened(s)
    BY <1>3, SocketKeeps
  <2>2. c \in Socket
    BY <1>1, <2>1 DEF SocketType
  <2> QED
    BY <1>2, <1>3, <2>1, <2>2 DEF ServesTheirs
<1>4. CASE socket[s].serves = None
  <2>1. Introduces(s)
    BY <1>4, SocketStep DEF Unmoved, Connects
  <2>2. CASE c = s
    BY <2>2
  <2>3. CASE Reconnect(s) /\ c = byFrontend[socket[s].page]
    <3>1. c \in Socket /\ socket[c].serves = c /\ socket[c].page = socket[s].page
      BY <1>1, <2>3 DEF MapIsTheirs
    <3>2. Opened(s)
      BY <2>1 DEF Introduces, InOrder
    <3> QED
      BY <1>2, <3>1, <3>2
  <2> QED
    BY <2>1, <2>2, <2>3 DEF Introduces
<1> QED
  BY <1>3, <1>4

\* Who gives a context its socket.
LEMMA SocketOf ==
  ASSUME IInv, [Next]_vars, NEW c \in Context
  PROVE  \/ context'[c].socket = context[c].socket
         \/ InitialConnect(c) /\ context'[c].socket = c
         \/ \E t \in Socket : /\ Reconnect(t) /\ byFrontend[socket[t].page] = c
                              /\ context'[c].socket = t
         \/ \E t \in Socket : SocketDisconnects(t) /\ socket[t].serves = c
<1>1. /\ context \in ContextType /\ socket \in SocketType
      /\ byFrontend \in [Page -> Context \cup {None}]
      /\ \A s \in Socket : socket[s].page \in Page
      /\ Context = Socket
  BY TypesNamed, SocketsNumbered DEF IInv, SocketType
<1>2. CASE UNCHANGED context
  BY <1>2
<1>3. ASSUME NEW contexts \in ContextType, NEW d \in Context \cup {None}
      PROVE  Closed(contexts, d)[c].socket = contexts[c].socket
  <2>1. CASE d = None
    BY <2>1 DEF Closed
  <2>2. CASE d # None
    <3>1. Closed(contexts, d) =
            [contexts EXCEPT ![d] = [@ EXCEPT !.state = "closed", !.buffer = <<>>]]
      BY <2>2 DEF Closed, Drained
    <3> QED
      BY <3>1 DEF ContextType
  <2> QED
    BY <2>1, <2>2
<1>4. ASSUME NEW s \in Socket, InitialConnect(s)
      PROVE  \/ context'[c].socket = context[c].socket
             \/ InitialConnect(c) /\ context'[c].socket = c
  <2>1. PICK p \in Page : p = socket[s].page
    BY <1>1
  <2>2. context' = [Discarded(p) EXCEPT ![s] =
                      [state |-> "open", page |-> p, socket |-> s,
                       buffer |-> <<>>, working |-> {}]]
    BY <1>4, <2>1 DEF InitialConnect, Created
  <2>3. Discarded(p)[c].socket = context[c].socket
    BY <1>1, <1>3 DEF Discarded
  <2>4. c \in DOMAIN Discarded(p)
    BY <1>1 DEF Discarded, Closed, ContextType
  <2>5. CASE c = s
    <3>1. context'[c].socket = s
      BY <2>2, <2>4, <2>5
    <3> QED
      BY <1>4, <2>5, <3>1
  <2>6. CASE c # s
    <3>1. context'[c] = Discarded(p)[c]
      BY <2>2, <2>4, <2>6
    <3> QED
      BY <2>3, <3>1
  <2> QED
    BY <2>5, <2>6
<1>5. ASSUME NEW s \in Socket, Reconnect(s)
      PROVE  \/ context'[c].socket = context[c].socket
             \/ byFrontend[socket[s].page] = c /\ context'[c].socket = s
  <2>1. PICK d : d = byFrontend[socket[s].page]
    OBVIOUS
  <2>2. \/ context' = context
        \/ context' = [context EXCEPT ![d] = [@ EXCEPT !.socket = s, !.buffer = <<>>]]
    BY <1>5, <2>1 DEF Reconnect, AfterFlush
  <2>3. c \in DOMAIN context /\ DOMAIN context[c] = {"state", "page", "socket", "buffer", "working"}
    BY <1>1 DEF ContextType
  <2>4. c # d => context'[c] = context[c]
    BY <2>2, <2>3
  <2>5. c = d => context'[c] = context[c] \/ context'[c].socket = s
    BY <2>2, <2>3
  <2> QED
    BY <2>1, <2>4, <2>5
<1>6. ASSUME NEW s \in Socket, RequestArrives(s)
      PROVE  context'[c].socket = context[c].socket
  <2>1. PICK d, first :
          \/ context' = context
          \/ context' = [context EXCEPT ![d].working = @ \cup {first}]
    BY <1>6 DEF RequestArrives
  <2> QED
    BY <1>1, <2>1 DEF ContextType
<1>7. ASSUME NEW d \in Context, NEW q \in Request, Reply(d, q)
      PROVE  context'[c].socket = context[c].socket
  <2>1. PICK done : done = [context EXCEPT ![d].working = @ \ {q}]
    OBVIOUS
  <2>2. done \in ContextType /\ done[c].socket = context[c].socket
    BY <1>1, <2>1 DEF ContextType
  <2>3. PICK b : context' = done \/ context' = [done EXCEPT ![d].buffer = b]
    BY <1>7, <2>1 DEF Reply
  <2>4. c \in DOMAIN done /\ DOMAIN done[c] = {"state", "page", "socket", "buffer", "working"}
    BY <2>2 DEF ContextType
  <2>5. context'[c].socket = done[c].socket
    <3>1. CASE context' = done
      BY <3>1
    <3>2. CASE context' = [done EXCEPT ![d].buffer = b] /\ c # d
      BY <2>4, <3>2
    <3>3. CASE context' = [done EXCEPT ![d].buffer = b] /\ c = d
      BY <2>4, <3>3
    <3> QED
      BY <2>3, <3>1, <3>2, <3>3
  <2> QED
    BY <2>2, <2>5
<1>8. ASSUME NEW s \in Socket, SocketDisconnects(s)
      PROVE  context'[c].socket = context[c].socket \/ socket[s].serves = c
  <2>1. CASE UNCHANGED context
    BY <2>1
  <2>2. CASE socket[s].serves # None
    <3>1. PICK d \in Context : d = socket[s].serves
      BY <1>1, <2>2 DEF SocketType
    <3>2. PICK p \in Page : p = socket[s].page
      BY <1>1
    <3>3. /\ Detached(d) \in ContextType
          /\ c # d => Detached(d)[c].socket = context[c].socket
      BY <1>1 DEF Detached, ContextType
    <3>4. context' = Closed(Detached(d), byFrontend[p]) \/ context' = Detached(d)
      BY <1>8, <2>2, <3>1, <3>2 DEF SocketDisconnects, ConnectionClosed
    <3>5. byFrontend[p] \in Context \cup {None}
      BY <1>1
    <3>6. context'[c].socket = Detached(d)[c].socket
      BY <1>3, <3>3, <3>4, <3>5
    <3> QED
      BY <3>1, <3>3, <3>6
  <2> QED
    BY <1>8, <2>1, <2>2 DEF SocketDisconnects
<1>9. ASSUME NEW p \in Page, TimeoutCloses(p)
      PROVE  context'[c].socket = context[c].socket
  BY <1>1, <1>3, <1>9 DEF TimeoutCloses, ConnectionClosed
<1>10. \/ FrontConnects \/ FrontNotices \/ FrontHears \/ MarkForClose
       \/ \E q \in Request : Send(q)
       \/ \E s \in Socket : Break(s) \/ GreetingIgnored(s)
       => UNCHANGED context
  BY DEF FrontConnects, FrontNotices, FrontHears, ConnectNewChannel, ReconnectSucceeded,
         ReconnectFailed, ReplyArrives, MarkForClose, Send, Break, GreetingIgnored, back_vars
<1>11. UNCHANGED vars => UNCHANGED context
  BY DEF vars
<1> QED
  BY <1>1, <1>2, <1>4, <1>5, <1>6, <1>7, <1>8, <1>9, <1>10, <1>11 DEF Next, BackHears

\* A greeting or a disconnect of an overtaken socket is late.
LEMMA LateIs ==
  ASSUME NEW s \in Socket, Overtaken(s)
  PROVE  /\ InitialConnect(s) \/ Reconnect(s) => late'
         /\ SocketDisconnects(s) /\ socket[s].serves # None => late'
BY DEF InitialConnect, Reconnect, SocketDisconnects

LEMMA ServedNext ==
  ASSUME IInv, IInv', InOrder, MapIsTheirs, ServesTheirs, Served, [Next]_vars
  PROVE  Served'
<1> SUFFICES ASSUME ~ late', NEW s \in Socket, NEW c, c = socket'[s].serves, c # None,
                    socket'[s].connected, ~ Overtaken(s)', context'[c].state = "open"
             PROVE  context'[c].socket = s
  BY DEF Served
<1>1. /\ socket \in SocketType /\ byFrontend \in [Page -> Context \cup {None}]
      /\ \A t \in Socket : t \in Nat /\ t # None /\ socket[t].page \in Page
      /\ Context = Socket
  BY TypesNamed, SocketsNumbered DEF IInv, SocketType
<1>2. ~ late
  BY LateStays
<1>3. CASE socket[s].serves = None
  <2>1. Introduces(s)
    BY <1>3, SocketStep DEF Unmoved, Connects
  <2>2. CASE InitialConnect(s)
    <3>1. c = s
      BY <1>1, <2>2 DEF InitialConnect, SocketType
    <3>2. s \in Context
      BY <1>1
    <3>3. context' = Created(Discarded(socket[s].page), s, socket[s].page)
      BY <2>2 DEF InitialConnect
    <3>4. s \in DOMAIN Discarded(socket[s].page)
      <4>1. s \in DOMAIN context
        BY <3>2, TypesNamed DEF IInv, ContextType
      <4> QED
        BY <4>1 DEF Discarded, Closed
    <3> QED
      BY <3>1, <3>3, <3>4 DEF Created
  <2>3. CASE Reconnect(s) /\ c = byFrontend[socket[s].page]
    <3>1. c \in Context
      BY <1>1, <2>3
    <3>2. context' = [context EXCEPT ![c] = [@ EXCEPT !.socket = s, !.buffer = <<>>]]
      BY <2>3 DEF Reconnect, AfterFlush
    <3> QED
      BY <3>1, <3>2, TypesNamed DEF IInv, ContextType
  <2> QED
    BY <2>1, <2>2, <2>3 DEF Introduces
<1>4. CASE socket[s].serves # None
  <2>1. socket[s].serves = c /\ Opened(s) /\ socket[s].greeted
    BY <1>4, SocketKeeps
  <2>2. c \in Context /\ socket[c].serves = c /\ socket[c].page = socket[s].page
    BY <1>1, <1>4, <2>1 DEF ServesTheirs, SocketType
  <2>3. socket[c].greeted
    BY <1>1, <2>2, SocketKeeps
  <2>4. context[c].state = "open"
    BY <2>2, <2>3, OpenBefore
  <2>5. socket[s].connected
    BY <2>1, SocketStep DEF Unmoved, Connects, Introduces
  <2>6. ~ Overtaken(s)
    BY <2>1, OvertakenStays
  <2>7. context[c].socket = s
    BY <1>2, <1>4, <2>1, <2>4, <2>5, <2>6 DEF Served
  <2>8. ~ InitialConnect(c)
    BY <2>3 DEF InitialConnect
  <2>9. ASSUME NEW t \in Socket, Reconnect(t), byFrontend[socket[t].page] = c
        PROVE  FALSE
    <3>1. socket[t].page = socket[s].page
      BY <1>1, <2>2, <2>9 DEF MapIsTheirs
    <3>2. ~ socket[t].greeted /\ t # s
      BY <2>1, <2>9 DEF Reconnect
    <3>3. ~ (t < s)
      BY <1>1, <2>1, <2>9, <3>1, LateIs DEF Overtaken
    <3>4. t > s
      BY <1>1, <3>2, <3>3
    <3>5. socket'[t].greeted
      BY <2>9, GreetedIs
    <3>6. Opened(t)
      BY <2>9 DEF Reconnect, Asked, InOrder
    <3>7. socket'[t].page = socket'[s].page
      BY <2>1, <3>1, <3>6, SocketKeeps
    <3> QED
      BY <3>4, <3>5, <3>7 DEF Overtaken
  <2>10. ASSUME NEW t \in Socket, SocketDisconnects(t), socket[t].serves = c
         PROVE  FALSE
    <3>1. socket[t].page = socket[s].page /\ socket[t].greeted
      BY <2>2, <2>10, SocketKeeps DEF ServesTheirs
    <3>2. t # s
      BY <1>1, <2>10 DEF SocketDisconnects, SocketType
    <3>3. ~ (t < s)
      BY <1>1, <2>1, <2>10, <3>1, LateIs DEF Overtaken
    <3>4. t > s
      BY <1>1, <3>2, <3>3
    <3> QED
      BY <2>6, <3>1, <3>4 DEF Overtaken
  <2> QED
    BY <2>2, <2>7, <2>8, <2>9, <2>10, SocketOf
<1> QED
  BY <1>3, <1>4

LEMMA RefusedNext ==
  ASSUME IInv, InOrder, Refused, [Next]_vars
  PROVE  Refused'
<1> SUFFICES ASSUME ~ late', NEW s \in Socket, socket'[s].greeted,
                    socket'[s].serves = None, ~ Overtaken(s)'
             PROVE  byFrontend'[socket'[s].page] = None
  BY DEF Refused
<1>1. /\ socket \in SocketType /\ byFrontend \in [Page -> Context \cup {None}]
      /\ \A t \in Socket : t \in Nat /\ t # None /\ socket[t].page \in Page
  BY TypesNamed, SocketsNumbered DEF IInv, SocketType
<1>2. ~ late
  BY LateStays
<1>3. CASE socket[s].greeted
  <2>1. Opened(s) /\ socket[s].serves = None
    BY <1>3, SocketKeeps
  <2>2. ~ Overtaken(s)
    BY <2>1, OvertakenStays
  <2>3. byFrontend[socket[s].page] = None /\ socket'[s].page = socket[s].page
    BY <1>2, <1>3, <2>1, <2>2, SocketKeeps DEF Refused
  <2>4. ASSUME NEW t \in Socket, InitialConnect(t), socket[s].page = socket[t].page
        PROVE  FALSE
    <3>1. t # s
      BY <1>3, <2>4 DEF InitialConnect
    <3>2. ~ (t < s)
      BY <1>1, <1>3, <2>4, LateIs DEF Overtaken
    <3>3. t > s
      BY <1>1, <3>1, <3>2
    <3>4. socket'[t].greeted
      BY <2>4, GreetedIs
    <3>5. Opened(t)
      BY <2>4 DEF InitialConnect, Asked, InOrder
    <3>6. socket'[t].page = socket'[s].page
      BY <2>1, <2>4, <3>5, SocketKeeps
    <3> QED
      BY <3>3, <3>4, <3>6 DEF Overtaken
  <2> QED
    BY <1>1, <2>3, <2>4, MapStep
<1>4. CASE ~ socket[s].greeted
  <2>1. Introduces(s)
    BY <1>4, SocketStep DEF Unmoved, Connects
  <2>2. ~ InitialConnect(s)
    BY <1>1, GreetedIs
  <2>3. Reconnect(s) /\ byFrontend[socket[s].page] = None
        /\ socket'[s].page = socket[s].page
    BY <2>1, <2>2 DEF Introduces
  <2> QED
    BY <2>3 DEF Reconnect
<1> QED
  BY <1>3, <1>4

-----------------------------------------------------------------------------
\* Replies are to requests, and what is lost stays lost.

\* What the back end says it says last.
LEMMA AnswersLoad ==
  ASSUME IInv, NEW t \in Socket, NEW messages \in Seq(Message(Answer)),
         FrontGets(t, messages), NEW s \in Socket
  PROVE  \A r \in Loads(toFront'[s]) : \/ r \in Loads(toFront[s])
                                       \/ s = t /\ r \in Loads(messages)
<1>1. toFront \in [Socket -> Seq(Message(Answer))]
  BY TypesNamed DEF IInv
<1>2. CASE toFront' = [toFront EXCEPT ![t] = @ \o messages]
  <2>1. CASE s = t
    <3>1. toFront'[s] = toFront[s] \o messages
      BY <1>1, <1>2, <2>1
    <3>2. Loads(toFront[s] \o messages) = Loads(toFront[s]) \cup Loads(messages)
      BY <1>1, ConcatHolds
    <3> QED
      BY <2>1, <3>1, <3>2
  <2>2. CASE s # t
    BY <1>1, <1>2, <2>2
  <2> QED
    BY <2>1, <2>2
<1> QED
  BY <1>2 DEF FrontGets

LEMMA AnswersLess ==
  ASSUME IInv, NEW s \in Socket,
         \/ \E t : toFront' = [toFront EXCEPT ![t] = <<>>]
         \/ \E t : t = front.socket /\ toFront[t] # <<>> /\ Taken(t)
  PROVE  Loads(toFront'[s]) \subseteq Loads(toFront[s])
<1>1. toFront \in [Socket -> Seq(Message(Answer))]
  BY TypesNamed DEF IInv
<1>2. ASSUME NEW t, toFront' = [toFront EXCEPT ![t] = <<>>]
      PROVE  Loads(toFront'[s]) \subseteq Loads(toFront[s])
  <2>1. toFront'[s] = toFront[s] \/ toFront'[s] = <<>>
    BY <1>1, <1>2
  <2> QED
    BY <2>1, OneHolds
<1>3. ASSUME NEW t, toFront[t] # <<>>, toFront' = [toFront EXCEPT ![t] = Tail(@)]
      PROVE  Loads(toFront'[s]) \subseteq Loads(toFront[s])
  <2>1. CASE s = t
    <3>1. toFront'[s] = Tail(toFront[s])
      BY <1>1, <1>3, <2>1
    <3> QED
      BY <1>1, <1>3, <2>1, <3>1, TailHolds
  <2>2. CASE s # t
    BY <1>1, <1>3, <2>2
  <2> QED
    BY <2>1, <2>2
<1> QED
  BY <1>2, <1>3 DEF Taken

\* A reply is to a request that a context has.
LEMMA ReplyStep ==
  ASSUME IInv, [Next]_vars, NEW s \in Socket, NEW r \in Loads(toFront'[s])
  PROVE  \/ r \in Loads(toFront[s])
         \/ \E c \in Context : r \in Has(context, c)
<1>1. /\ toFront \in [Socket -> Seq(Message(Answer))] /\ context \in ContextType
      /\ byFrontend \in [Page -> Context \cup {None}] /\ socket \in SocketType
      /\ \A t \in Socket : socket[t].page \in Page
  BY TypesNamed DEF IInv, SocketType
<1>2. CASE UNCHANGED toFront
  BY <1>2
<1>3. CASE FrontNotices \/ ReconnectFailed
  BY <1>3, AnswersLess DEF FrontNotices, ReconnectFailed, FrontLeaves
<1>4. CASE ConnectNewChannel \/ ReconnectSucceeded \/ ReplyArrives
  BY <1>4, AnswersLess DEF ConnectNewChannel, ReconnectSucceeded, ReplyArrives, Heard
<1>5. ASSUME NEW t \in Socket, NEW kind \in Answer, FrontGets(t, <<Said(kind)>>)
      PROVE  r \in Loads(toFront[s])
  <2>1. <<Said(kind)>> \in Seq(Message(Answer))
    <3>1. Said(kind) \in Message(Answer)
      BY SaidType
    <3> QED
      BY <3>1
  <2>2. PICK messages \in Seq(Message(Answer)) : messages = <<Said(kind)>>
    BY <2>1
  <2>3. Loads(messages) = {}
    BY <2>2, SaidHolds
  <2> QED
    BY <1>5, <2>2, <2>3, AnswersLoad
<1>6. ASSUME NEW t \in Socket, InitialConnect(t)
      PROVE  r \in Loads(toFront[s])
  BY <1>5, <1>6 DEF InitialConnect, Answer
<1>7. ASSUME NEW t \in Socket, Reconnect(t)
      PROVE  \/ r \in Loads(toFront[s])
             \/ \E c \in Context : r \in Has(context, c)
  <2>1. PICK c : c = byFrontend[socket[t].page]
    OBVIOUS
  <2>2. CASE FrontGets(t, <<Said("refused")>>)
    BY <1>5, <2>2 DEF Answer
  <2>3. CASE c # None /\ FrontGets(t, <<Said("reconnected")>> \o Flushed(context[c].buffer))
    <3>1. c \in Context
      BY <1>1, <2>1, <2>3
    <3>2. PICK buffer \in Seq(Request) : buffer = context[c].buffer
      BY <1>1, <3>1 DEF ContextType
    <3>3. PICK first, last : first = <<Said("reconnected")>> /\ last = Flushed(buffer)
      OBVIOUS
    <3>4. first \in Seq(Message(Answer)) /\ last \in Seq(Message(Answer))
      <4>1. Said("reconnected") \in Message(Answer)
        BY SaidType DEF Answer
      <4> QED
        BY <3>3, <4>1, FlushedType
    <3>5. Loads(first) = {} /\ Loads(last) = Range(buffer)
      BY <3>3, SaidHolds, CarryingHolds
    <3>6. PICK M : M = Message(Answer)
      OBVIOUS
    <3>7. /\ first \o last \in Seq(M)
          /\ Loads(first \o last) = Loads(first) \cup Loads(last)
      BY <3>4, <3>6, ConcatProperties, ConcatHolds
    <3>8. PICK messages \in Seq(Message(Answer)) : messages = first \o last
      BY <3>6, <3>7
    <3>9. FrontGets(t, messages)
      BY <2>3, <3>2, <3>3, <3>8
    <3>10. Loads(messages) = Range(buffer)
      BY <3>5, <3>7, <3>8
    <3>11. r \in Loads(toFront[s]) \/ r \in Range(buffer)
      BY <3>9, <3>10, AnswersLoad
    <3> QED
      BY <3>1, <3>2, <3>11 DEF Has
  <2> QED
    BY <1>7, <2>1, <2>2, <2>3 DEF Reconnect
<1>8. ASSUME NEW c \in Context, NEW q \in Request, Reply(c, q)
      PROVE  \/ r \in Loads(toFront[s])
             \/ \E d \in Context : r \in Has(context, d)
  <2>1. CASE UNCHANGED toFront
    BY <2>1
  <2>2. CASE ~ UNCHANGED toFront
    <3>1. q \in context[c].working
      BY <1>8 DEF Reply
    <3>2. PICK t : t = context[c].socket
      OBVIOUS
    <3>3. t # None /\ FrontGets(t, <<Carrying(<<q>>)>>)
      BY <1>8, <2>2, <3>2 DEF Reply
    <3>4. t \in Socket
      BY <1>1, <3>2, <3>3 DEF ContextType
    <3>5. <<q>> \in Seq(Request) /\ <<q>> # <<>> /\ Range(<<q>>) = {q}
      BY DEF Range
    <3>6. Carrying(<<q>>) \in Message(Answer) /\ Loads(<<Carrying(<<q>>)>>) = {q}
      BY <3>5, CarryingType, CarryingHolds
    <3>7. <<Carrying(<<q>>)>> \in Seq(Message(Answer))
      BY <3>6
    <3>8. r \in Loads(toFront[s]) \/ r = q
      BY <3>3, <3>4, <3>6, <3>7, AnswersLoad
    <3> QED
      BY <3>1, <3>8 DEF Has
  <2> QED
    BY <2>1, <2>2
<1>9. \/ FrontConnects \/ MarkForClose
      \/ \E q \in Request : Send(q)
      \/ \E t \in Socket : Break(t) \/ GreetingIgnored(t) \/ RequestArrives(t) \/ SocketDisconnects(t)
      \/ \E p \in Page : TimeoutCloses(p)
      => UNCHANGED toFront
  BY DEF FrontConnects, MarkForClose, Send, Break, GreetingIgnored, RequestArrives,
         SocketDisconnects, TimeoutCloses
<1>10. UNCHANGED vars => UNCHANGED toFront
  BY DEF vars
<1> QED
  BY <1>3, <1>4, <1>6, <1>7, <1>8, <1>9, <1>10, <1>2 DEF Next, BackHears, FrontHears

LEMMA AnswersKnownNext ==
  ASSUME IInv, AtWork, AnswersKnown, [Next]_vars
  PROVE  AnswersKnown'
<1> SUFFICES ASSUME NEW s \in Socket, NEW r \in Loads(toFront'[s])
             PROVE  request'[r].state # "idle"
  BY DEF AnswersKnown
<1>1. request[r].state # "idle"
  BY ReplyStep DEF AnswersKnown, AtWork, Has
<1>2. r \in Request
  <2>1. r \in Loads(toFront[s]) => r \in Request
    BY TypesNamed, LoadsType DEF IInv
  <2>2. ASSUME NEW c \in Context, r \in Has(context, c)
        PROVE  r \in Request
    <3>1. context[c].working \subseteq Request /\ context[c].buffer \in Seq(Request)
      BY TypesNamed DEF IInv, ContextType
    <3> QED
      BY <2>2, <3>1 DEF Has, Range
  <2> QED
    BY <2>1, <2>2, ReplyStep
<1> QED
  BY <1>1, <1>2, RequestStep

LEMMA InitHear == Init => HearInv
<1> SUFFICES ASSUME Init PROVE HearInv
  OBVIOUS
<1>1. \A s \in Socket : toFront[s] = <<>> /\ ~ socket[s].connected /\ ~ socket[s].greeted
                        /\ socket[s].serves = None
  BY DEF Init
<1> QED
  BY <1>1, OneHolds DEF HearInv, FirstGreets, ServesTheirs, Served, Refused, AnswersKnown

LEMMA HearNext ==
  ASSUME IInv, IInv', OwnInv, HearInv, [Next]_vars
  PROVE  HearInv'
<1>1. InOrder /\ MapIsTheirs /\ AtWork
  BY DEF OwnInv
<1>2. FirstGreets /\ ServesTheirs /\ Served /\ Refused /\ AnswersKnown
  BY DEF HearInv
<1>3. FirstGreets' /\ ServesTheirs'
  BY <1>1, <1>2, FirstGreetsNext, ServesTheirsNext
<1>4. Served' /\ Refused'
  BY <1>1, <1>2, ServedNext, RefusedNext
<1>5. AnswersKnown'
  BY <1>1, <1>2, AnswersKnownNext
<1> QED
  BY <1>3, <1>4, <1>5 DEF HearInv

-----------------------------------------------------------------------------
\* A message and the places it may be in, over a step.

\* Every place but those of P is as empty and as single as before.
LEMMA OthersStay ==
  ASSUME NEW r, NEW c, NEW P, request[r].channel = c, request'[r].channel = c,
         <<"front", 0>> \in P \/ Like(In(front.buffer, r), In(front'.buffer, r)),
         <<"back", 0>> \in P \/ Like(In(context[c].buffer, r), In(context'[c].buffer, r)),
         <<"working", 0>> \in P \/ (r \in context[c].working <=> r \in context'[c].working),
         \A s \in Socket : \/ <<"to back", s>> \in P
                           \/ Like(Within(toBack[s], r), Within(toBack'[s], r)),
         \A s \in Socket : \/ <<"to front", s>> \in P
                           \/ Like(Within(toFront[s], r), Within(toFront'[s], r))
  PROVE  \A o \in Place \ P : Like(At(r, o), At(r, o)')
<1> SUFFICES ASSUME NEW o \in Place, o \notin P
             PROVE  Like(At(r, o), At(r, o)')
  OBVIOUS
<1>1. CASE o = <<"front", 0>>
  BY <1>1, AtIs, AtIsNext
<1>2. CASE o = <<"back", 0>>
  BY <1>2, AtIs, AtIsNext
<1>3. CASE o = <<"working", 0>>
  BY <1>3, AtIs, AtIsNext, LikeSelf
<1>4. ASSUME NEW s \in Socket, o = <<"to back", s>>
      PROVE  Like(At(r, o), At(r, o)')
  BY <1>4, AtIs, AtIsNext
<1>5. ASSUME NEW s \in Socket, o = <<"to front", s>>
      PROVE  Like(At(r, o), At(r, o)')
  BY <1>5, AtIs, AtIsNext
<1> QED
  BY <1>1, <1>2, <1>3, <1>4, <1>5, PlacesAre

\* What is said in no more than a word carries nothing.
LEMMA WordLoad ==
  ASSUME NEW Kind, "data" \notin Kind, NEW messages \in Seq(Message(Kind)),
         messages # <<>>, Head(messages).kind \in Kind
  PROVE  Range(Head(messages).load) = {}
<1>1. Head(messages) \in Message(Kind)
  BY HeadTailProperties
<1>2. Head(messages).load = <<>>
  BY <1>1 DEF Message
<1> QED
  BY <1>2 DEF Range

LEMMA TakenLike ==
  ASSUME NEW S, NEW links \in [Socket -> Seq(S)], NEW t \in Socket, links[t] # <<>>,
         NEW r, r \notin Range(Head(links[t]).load), NEW s \in Socket
  PROVE  Like(Within(links[s], r), Within([links EXCEPT ![t] = Tail(@)][s], r))
<1>1. CASE s = t
  <2>1. [links EXCEPT ![t] = Tail(@)][s] = Tail(links[s])
    BY <1>1
  <2>2. Like(Within(links[s], r), Within(Tail(links[s]), r))
    BY <1>1, TailLike
  <2> QED
    BY <2>1, <2>2
<1>2. CASE s # t
  <2>1. [links EXCEPT ![t] = Tail(@)][s] = links[s]
    BY <1>2
  <2> QED
    BY <2>1, LikeSelf
<1> QED
  BY <1>1, <1>2

LEMMA SaidLike ==
  ASSUME NEW S, NEW links \in [Socket -> Seq(S)], NEW t \in Socket, NEW more \in Seq(S),
         NEW r, r \notin Loads(more), NEW s \in Socket
  PROVE  Like(Within(links[s], r), Within([links EXCEPT ![t] = @ \o more][s], r))
<1>1. CASE s = t
  <2>1. [links EXCEPT ![t] = @ \o more][s] = links[s] \o more
    BY <1>1
  <2>2. Within(links[s] \o more, r) = Within(links[s], r)
    BY <1>1, ConcatSame
  <2> QED
    BY <2>1, <2>2, LikeSelf
<1>2. CASE s # t
  <2>1. [links EXCEPT ![t] = @ \o more][s] = links[s]
    BY <1>2
  <2> QED
    BY <2>1, LikeSelf
<1> QED
  BY <1>1, <1>2

\* A link that goes down with what is on it.
LEMMA LostLike ==
  ASSUME NEW S, NEW links \in [Socket -> Seq(S)], NEW t \in Socket,
         NEW r, r \notin Loads(links[t]), NEW s \in Socket
  PROVE  Like(Within(links[s], r), Within([links EXCEPT ![t] = <<>>][s], r))
<1>1. CASE s = t
  <2>1. [links EXCEPT ![t] = <<>>][s] = <<>> /\ r \notin Loads(<<>>)
    BY <1>1, OneHolds
  <2> QED
    BY <1>1, <2>1, WithinHolds, LikeEmpty
<1>2. CASE s # t
  <2>1. [links EXCEPT ![t] = <<>>][s] = links[s]
    BY <1>2
  <2> QED
    BY <2>1, LikeSelf
<1> QED
  BY <1>1, <1>2

\* A message taken off a link on which its request was alone.
LEMMA TakenAway ==
  ASSUME NEW S, NEW links \in [Socket -> Seq(S)], NEW t \in Socket, links[t] # <<>>,
         NEW r, r \in Range(Head(links[t]).load), Single(Within(links[t], r))
  PROVE  /\ Within([links EXCEPT ![t] = Tail(@)][t], r) = {}
         /\ \A s \in Socket : s # t => [links EXCEPT ![t] = Tail(@)][s] = links[s]
<1>1. [links EXCEPT ![t] = Tail(@)][t] = Tail(links[t])
  OBVIOUS
<1>2. Within(Tail(links[t]), r) = {}
  BY TailEmpty
<1> QED
  BY <1>1, <1>2

\* A message said on a link on which its request was not.
LEMMA SaidOnce ==
  ASSUME NEW S, NEW links \in [Socket -> Seq(S)], NEW t \in Socket, NEW more \in Seq(S),
         NEW r, Within(links[t], r) = {}, Single(Within(more, r))
  PROVE  /\ Single(Within([links EXCEPT ![t] = @ \o more][t], r))
         /\ \A s \in Socket : s # t => [links EXCEPT ![t] = @ \o more][s] = links[s]
<1>1. [links EXCEPT ![t] = @ \o more][t] = links[t] \o more
  OBVIOUS
<1>2. Single(Within(links[t] \o more, r))
  BY ConcatSingle, WithinHolds
<1> QED
  BY <1>1, <1>2

\* A context that closing a context leaves open is as it was.
LEMMA ClosedOther ==
  ASSUME NEW contexts \in ContextType, NEW d \in Context \cup {None}, NEW c \in Context,
         Closed(contexts, d)[c].state = "open"
  PROVE  Closed(contexts, d)[c] = contexts[c]
<1>1. CASE d = None
  BY <1>1 DEF Closed
<1>2. CASE d # None
  <2>1. Closed(contexts, d) =
          [contexts EXCEPT ![d] = [@ EXCEPT !.state = "closed", !.buffer = <<>>]]
    BY <1>2 DEF Closed, Drained
  <2>2. CASE c = d
    <3>1. Closed(contexts, d)[c].state = "closed"
      BY <2>1, <2>2 DEF ContextType
    <3> QED
      BY <3>1
  <2>3. CASE c # d
    BY <2>1, <2>3 DEF ContextType
  <2> QED
    BY <2>2, <2>3
<1> QED
  BY <1>1, <1>2

-----------------------------------------------------------------------------
\* A request whose message has to be somewhere.

Alive(r) == /\ request[r].state = "pending" /\ ~ late /\ r \notin lost
            /\ context[front.channel].state = "open"

CopyInv == \A r \in Request : Alive(r) => Once(r)

\* A request that stays alive over a step, on the channel c, or is sent.
Lives(r, c) ==
  /\ ~ late /\ ~ late' /\ r \notin lost /\ r \notin lost'
  /\ front.open /\ front.channel = c /\ c \in Context
  /\ front'.channel = c /\ request'[r].channel = c /\ request'[r].state = "pending"
  /\ context[c].state = "open" /\ context'[c].state = "open"
  /\ socket[c].greeted /\ socket[c].page = front.page /\ byFrontend[front.page] = c
  /\ Send(r) \/ (request[r].state = "pending" /\ request[r].channel = c)

LEMMA LostStays ==
  ASSUME [Next]_vars
  PROVE  lost \subseteq lost'
<1>1. \A s, messages : BackGets(s, messages) \/ FrontGets(s, messages) => lost \subseteq lost'
  BY DEF BackGets, FrontGets
<1>2. \A s, links : FrontLeaves(s, links) => lost \subseteq lost'
  BY DEF FrontLeaves
<1>3. \/ FrontConnects \/ MarkForClose
      \/ \E s \in Socket : Break(s) \/ GreetingIgnored(s)
      \/ \E p \in Page : TimeoutCloses(p)
      \/ UNCHANGED vars
      => lost' = lost
  BY DEF FrontConnects, MarkForClose, Break, GreetingIgnored, TimeoutCloses, vars
<1>4. FrontNotices \/ ReconnectFailed => lost \subseteq lost'
  BY <1>2 DEF FrontNotices, ReconnectFailed
<1>5. ConnectNewChannel \/ ReconnectSucceeded \/ ReplyArrives => lost \subseteq lost'
  BY <1>1 DEF ConnectNewChannel, ReconnectSucceeded, ReplyArrives
<1>6. \A r : Send(r) => lost \subseteq lost'
  BY <1>1 DEF Send
<1>7. \A s : InitialConnect(s) \/ Reconnect(s) \/ RequestArrives(s) => lost \subseteq lost'
  BY <1>1 DEF InitialConnect, Reconnect, RequestArrives
<1>8. \A s : SocketDisconnects(s) => lost \subseteq lost'
  BY DEF SocketDisconnects
<1>9. \A c, r : Reply(c, r) => lost \subseteq lost'
  BY <1>1 DEF Reply
<1> QED
  BY <1>3, <1>4, <1>5, <1>6, <1>7, <1>8, <1>9 DEF Next, FrontHears, BackHears

\* Who waits was waiting, or has just sent.
LEMMA PendingBefore ==
  ASSUME IInv, [Next]_vars, NEW r \in Request, request'[r].state = "pending"
  PROVE  /\ Send(r) \/ request[r].state = "pending"
         /\ ~ ConnectNewChannel /\ ~ ReconnectFailed
<1>1. request \in RequestType
  BY TypesNamed DEF IInv
<1>2. Rejected[r].state # "pending"
  BY <1>1 DEF Rejected, RequestType
<1>3. ~ ConnectNewChannel /\ ~ ReconnectFailed
  BY <1>2 DEF ConnectNewChannel, ReconnectFailed
<1>4. CASE UNCHANGED request
  BY <1>3, <1>4
<1>5. ASSUME NEW q \in Request, Send(q), q # r
      PROVE  request[r].state = "pending"
  <2>1. PICK x : request' = [request EXCEPT ![q] = x]
    BY <1>5 DEF Send
  <2> QED
    BY <1>1, <1>5, <2>1 DEF RequestType
<1>6. CASE ReplyArrives
  <2>1. PICK q : request' = [request EXCEPT ![q].state = "settled"] \/ UNCHANGED request
    BY <1>6 DEF ReplyArrives
  <2> QED
    BY <1>1, <1>3, <2>1 DEF RequestType
<1>7. \/ FrontConnects \/ FrontNotices \/ ReconnectSucceeded \/ MarkForClose
      \/ \E s \in Socket : Break(s) \/ BackHears(s) \/ SocketDisconnects(s)
      \/ \E c \in Context, q \in Request : Reply(c, q)
      \/ \E p \in Page : TimeoutCloses(p)
      \/ UNCHANGED vars
      => UNCHANGED request
  BY DEF FrontConnects, FrontNotices, ReconnectSucceeded, MarkForClose, Break, BackHears,
         InitialConnect, Reconnect, GreetingIgnored, RequestArrives, SocketDisconnects,
         Reply, TimeoutCloses, front_vars, vars
<1> QED
  BY <1>3, <1>4, <1>5, <1>6, <1>7 DEF Next, FrontHears

LEMMA LivesBefore ==
  ASSUME IInv, IInv', OwnInv, [Next]_vars, NEW r \in Request, Alive(r)'
  PROVE  Lives(r, front.channel) /\ (Send(r) \/ Alive(r))
<1>1. /\ front \in FrontType /\ socket \in SocketType
      /\ InOrder /\ MapIsTheirs /\ OpenChannel
  BY TypesNamed DEF IInv, OwnInv
<1>2. /\ request'[r].state = "pending" /\ ~ late' /\ r \notin lost'
      /\ context'[front'.channel].state = "open"
  BY DEF Alive
<1>3. ~ late /\ r \notin lost
  BY <1>2, LateStays, LostStays
<1>4. /\ Send(r) \/ request[r].state = "pending"
      /\ ~ ConnectNewChannel /\ ~ ReconnectFailed
  BY <1>2, PendingBefore
<1>5. front'.open /\ request'[r].channel = front'.channel
  BY <1>2 DEF IInv, PendingIsOpen
<1>6. front.open /\ front'.channel = front.channel
  <2>1. CASE SameFront
    BY <1>5, <2>1 DEF SameFront
  <2>2. ASSUME NEW s \in Socket, Connects(s)
        PROVE  front.open /\ front'.channel = front.channel
    <3>1. front' = [front EXCEPT !.socket = s, !.connected = TRUE, !.greeting = FALSE]
      BY <2>2 DEF Connects
    <3> QED
      BY <1>1, <1>5, <3>1 DEF FrontType
  <2>3. ~ Reopens /\ ~ GivesUp
    BY <1>4, <1>5 DEF Reopens, GivesUp
  <2> QED
    BY <1>1, <2>1, <2>2, <2>3, FrontShape
<1>7. PICK c \in Context : c = front.channel /\ socket[c].serves = c /\ socket[c].page = front.page
  BY <1>1, <1>6 DEF OpenChannel, Heir
<1>8. c \in Socket /\ c # None
  BY SocketsNumbered
<1>9. socket[c].greeted
  BY <1>1, <1>7, <1>8, SocketKeeps
<1>10. context[c].state = "open" /\ byFrontend[front.page] = c
  BY <1>1, <1>2, <1>6, <1>7, <1>9, OpenBefore
<1>11. request[r].state = "pending" => request[r].channel = c
  BY <1>7 DEF IInv, PendingIsOpen
<1> QED
  BY <1>2, <1>3, <1>4, <1>5, <1>6, <1>7, <1>9, <1>10, <1>11 DEF Lives, Alive

\* What a context that closing leaves open holds.  Who is alive waits in no other.
LEMMA LivesInOne ==
  ASSUME OwnInv, NEW r, NEW c, ~ late, request[r].channel = c, NEW d \in Context, d # c
  PROVE  r \notin context[d].working /\ r \notin Range(context[d].buffer)
BY DEF OwnInv, AtWork

\* The link the front end is on, with something said after the greeting, is heard
\* by the context of its channel.
LEMMA HeardBy ==
  ASSUME IInv, OwnInv, HearInv, NEW s \in Socket, OnLink(s), socket[s].connected,
         toBack[s] # <<>>, Head(toBack[s]).kind \notin Greeting,
         front.open, ~ late, NEW c, c = front.channel, context[c].state = "open",
         byFrontend[front.page] = c
  PROVE  Listens(s) /\ socket[s].serves = c
<1>1. InOrder /\ OpenChannel
  BY DEF OwnInv
<1>2. /\ front.socket = s /\ front.connected /\ socket[s].page = front.page
      /\ Heir(c, s)
  BY <1>1 DEF OnLink, InOrder, OpenChannel
<1>3. socket[s].greeted
  BY DEF HearInv, FirstGreets
<1>4. ~ Overtaken(s)
  <2>1. \A t \in Socket : t > s => ~ socket[t].greeted
    BY <1>1, <1>2, SocketsNumbered DEF InOrder
  <2> QED
    BY <2>1 DEF Overtaken
<1>5. c \in Socket /\ c # None
  BY <1>2, SocketsNumbered DEF Heir
<1>6. socket[s].serves # None
  BY <1>2, <1>3, <1>4, <1>5 DEF HearInv, Refused
<1>7. socket[s].serves = c
  BY <1>2, <1>6 DEF Heir
<1>8. context[c].socket = s
  BY <1>4, <1>5, <1>7 DEF HearInv, Served
<1> QED
  BY <1>5, <1>7, <1>8 DEF Listens

-----------------------------------------------------------------------------
\* Steps that leave the message where it is.

LEMMA AllStay ==
  ASSUME NEW r, NEW c, Once(r), request[r].channel = c, request'[r].channel = c,
         Like(In(front.buffer, r), In(front'.buffer, r)),
         Like(In(context[c].buffer, r), In(context'[c].buffer, r)),
         r \in context[c].working <=> r \in context'[c].working,
         \A s \in Socket : Like(Within(toBack[s], r), Within(toBack'[s], r)),
         \A s \in Socket : Like(Within(toFront[s], r), Within(toFront'[s], r))
  PROVE  Once(r)'
<1>1. PICK P : P = {}
  OBVIOUS
<1>2. \A o \in Place \ P : Like(At(r, o), At(r, o)')
  BY OthersStay
<1> QED
  BY <1>1, <1>2, OnceStays

\* What the steps of the back end leave of an open context.
LEMMA ClosingLeaves ==
  ASSUME IInv, NEW contexts \in ContextType, NEW timers, NEW p \in Page,
         ConnectionClosed(contexts, timers, p),
         NEW c \in Context, context'[c].state = "open"
  PROVE  context'[c] = contexts[c]
<1>1. byFrontend[p] \in Context \cup {None}
  BY TypesNamed DEF IInv
<1> QED
  BY <1>1, ClosedOther DEF ConnectionClosed

LEMMA DetachedLeaves ==
  ASSUME IInv, NEW d \in Context, NEW c \in Context
  PROVE  /\ Detached(d) \in ContextType
         /\ Detached(d)[c].buffer = context[c].buffer
         /\ Detached(d)[c].working = context[c].working
<1>1. context \in ContextType
  BY TypesNamed DEF IInv
<1>2. DOMAIN context[c] = {"state", "page", "socket", "buffer", "working"} /\ c \in DOMAIN context
  BY <1>1 DEF ContextType
<1>3. c = d => /\ Detached(d)[c].buffer = context[c].buffer
               /\ Detached(d)[c].working = context[c].working
  BY <1>2 DEF Detached
<1>4. c # d => Detached(d)[c] = context[c]
  BY <1>2 DEF Detached
<1> QED
  BY <1>1, <1>3, <1>4 DEF Detached, ContextType

\* The links, when something is taken, said or lost.
LEMMA BackTakes ==
  ASSUME IInv, NEW t \in Socket, NEW kind, Asked(t, kind),
         NEW r, r \notin Range(Head(toBack[t]).load)
  PROVE  \A s \in Socket : Like(Within(toBack[s], r), Within(toBack'[s], r))
<1>1. toBack \in [Socket -> Seq(Message(Greeting))]
  BY TypesNamed DEF IInv
<1>2. toBack[t] # <<>> /\ toBack' = [toBack EXCEPT ![t] = Tail(@)]
  BY DEF Asked
<1> QED
  BY <1>1, <1>2, TakenLike

LEMMA BackGreeted ==
  ASSUME IInv, NEW t \in Socket, NEW kind \in Greeting, Asked(t, kind), NEW r
  PROVE  \A s \in Socket : Like(Within(toBack[s], r), Within(toBack'[s], r))
<1>1. toBack[t] \in Seq(Message(Greeting)) /\ "data" \notin Greeting
  BY TypesNamed DEF IInv, Greeting
<1>2. toBack[t] # <<>> /\ Head(toBack[t]).kind \in Greeting
  BY DEF Asked
<1>3. Range(Head(toBack[t]).load) = {}
  BY <1>1, <1>2, WordLoad
<1> QED
  BY <1>3, BackTakes

LEMMA FrontTakes ==
  ASSUME IInv, NEW kind, Heard(kind), Taken(front.socket),
         NEW r, r \notin Range(Head(toFront[front.socket]).load)
  PROVE  \A s \in Socket : Like(Within(toFront[s], r), Within(toFront'[s], r))
<1>1. toFront \in [Socket -> Seq(Message(Answer))]
  BY TypesNamed DEF IInv
<1>2. PICK t \in Socket : t = front.socket
  BY DEF IInv, Linked, Heard
<1>3. toFront[t] # <<>> /\ toFront' = [toFront EXCEPT ![t] = Tail(@)]
  BY <1>2 DEF Heard, Taken
<1> QED
  BY <1>1, <1>2, <1>3, TakenLike

LEMMA FrontAnswered ==
  ASSUME IInv, NEW kind \in Answer, Heard(kind), Taken(front.socket), NEW r
  PROVE  \A s \in Socket : Like(Within(toFront[s], r), Within(toFront'[s], r))
<1>1. PICK t \in Socket : t = front.socket
  BY DEF IInv, Linked, Heard
<1>2. toFront[t] \in Seq(Message(Answer)) /\ "data" \notin Answer
  BY TypesNamed DEF IInv, Answer
<1>3. toFront[t] # <<>> /\ Head(toFront[t]).kind \in Answer
  BY <1>1 DEF Heard
<1>4. Range(Head(toFront[t]).load) = {}
  BY <1>2, <1>3, WordLoad
<1> QED
  BY <1>1, <1>4, FrontTakes

LEMMA BackSays ==
  ASSUME IInv, NEW t \in Socket, NEW messages \in Seq(Message(Greeting)),
         BackGets(t, messages), NEW r, r \notin Loads(messages)
  PROVE  \A s \in Socket : Like(Within(toBack[s], r), Within(toBack'[s], r))
<1>1. toBack \in [Socket -> Seq(Message(Greeting))]
  BY TypesNamed DEF IInv
<1>2. CASE UNCHANGED toBack
  BY <1>2, LikeSelf
<1>3. CASE toBack' = [toBack EXCEPT ![t] = @ \o messages]
  BY <1>1, <1>3, SaidLike
<1> QED
  BY <1>2, <1>3 DEF BackGets

LEMMA FrontSays ==
  ASSUME IInv, NEW t \in Socket, NEW messages \in Seq(Message(Answer)),
         FrontGets(t, messages), NEW r, r \notin Loads(messages)
  PROVE  \A s \in Socket : Like(Within(toFront[s], r), Within(toFront'[s], r))
<1>1. toFront \in [Socket -> Seq(Message(Answer))]
  BY TypesNamed DEF IInv
<1>2. CASE UNCHANGED toFront
  BY <1>2, LikeSelf
<1>3. CASE toFront' = [toFront EXCEPT ![t] = @ \o messages]
  BY <1>1, <1>3, SaidLike
<1> QED
  BY <1>2, <1>3 DEF FrontGets

\* A word that is said carries nothing.
LEMMA FrontGreeted ==
  ASSUME IInv, NEW t \in Socket, NEW kind \in Answer, FrontGets(t, <<Said(kind)>>), NEW r
  PROVE  \A s \in Socket : Like(Within(toFront[s], r), Within(toFront'[s], r))
<1>1. <<Said(kind)>> \in Seq(Message(Answer))
  <2>1. Said(kind) \in Message(Answer)
    BY SaidType
  <2> QED
    BY <2>1
<1>2. PICK messages \in Seq(Message(Answer)) : messages = <<Said(kind)>>
  BY <1>1
<1>3. r \notin Loads(messages)
  BY <1>2, SaidHolds
<1>4. FrontGets(t, messages)
  BY <1>2
<1> QED
  BY <1>3, <1>4, FrontSays

-----------------------------------------------------------------------------
LEMMA QuietSteps ==
  ASSUME NEW r, NEW c, Lives(r, c), Once(r), request[r].channel = c,
         \/ MarkForClose \/ \E s \in Socket : Break(s)
         \/ UNCHANGED vars
  PROVE  Once(r)'
<1>1. /\ UNCHANGED <<context, toBack, toFront>>
      /\ front'.buffer = front.buffer
  BY DEF MarkForClose, Break, front_vars, back_vars, vars
<1>2. request'[r].channel = c
  BY DEF Lives
<1> QED
  BY <1>1, <1>2, LikeSelf, AllStay

LEMMA FrontConnectsKeeps ==
  ASSUME IInv, OwnInv, NEW r \in Request, NEW c, Lives(r, c), Once(r), request[r].channel = c,
         FrontConnects
  PROVE  Once(r)'
<1>1. /\ front \in FrontType /\ toBack \in [Socket -> Seq(Message(Greeting))]
  BY TypesNamed DEF IInv
<1>2. PICK t \in Socket :
        /\ socket[t].link = "none"
        /\ front' = [front EXCEPT !.socket = t, !.connected = TRUE, !.greeting = FALSE]
        /\ toBack' = [toBack EXCEPT ![t] = Greetings]
        /\ UNCHANGED <<toFront, context>>
  BY DEF FrontConnects, back_vars
<1>3. front'.buffer = front.buffer /\ request'[r].channel = c
  BY <1>1, <1>2 DEF FrontType, Lives
<1>4. ASSUME NEW s \in Socket
      PROVE  Like(Within(toBack[s], r), Within(toBack'[s], r))
  <2>1. CASE s = t
    <3>1. toBack'[s] = Greetings
      BY <1>1, <1>2, <2>1
    <3>2. r \notin Loads(Greetings) /\ r \notin Loads(toBack[s])
      BY <1>2, <2>1, GreetingsHold DEF OwnInv, OnTheWay, Opened
    <3>3. Within(toBack[s], r) = {} /\ Within(toBack'[s], r) = {}
      BY <3>1, <3>2, WithinHolds
    <3> QED
      BY <3>3, LikeEmpty
  <2>2. CASE s # t
    <3>1. toBack'[s] = toBack[s]
      BY <1>1, <1>2, <2>2
    <3> QED
      BY <3>1, LikeSelf
  <2> QED
    BY <2>1, <2>2
<1> QED
  BY <1>2, <1>3, <1>4, LikeSelf, AllStay

LEMMA FrontNoticesKeeps ==
  ASSUME IInv, NEW r \in Request, NEW c, Lives(r, c), Once(r), request[r].channel = c,
         FrontNotices
  PROVE  Once(r)'
<1>1. /\ front \in FrontType /\ toFront \in [Socket -> Seq(Message(Answer))]
  BY TypesNamed DEF IInv
<1>2. PICK t \in Socket : t = front.socket
  BY DEF IInv, Linked, FrontNotices
<1>3. /\ front' = [front EXCEPT !.connected = FALSE]
      /\ toFront' = [toFront EXCEPT ![t] = <<>>]
      /\ lost' = lost \cup Loads(toFront[t])
      /\ UNCHANGED <<toBack, context>>
  BY <1>2 DEF FrontNotices, FrontLeaves, back_vars
<1>4. front'.buffer = front.buffer /\ request'[r].channel = c /\ r \notin lost'
  BY <1>1, <1>3 DEF FrontType, Lives
<1>5. \A s \in Socket : Like(Within(toFront[s], r), Within(toFront'[s], r))
  BY <1>1, <1>3, <1>4, LostLike
<1> QED
  BY <1>3, <1>4, <1>5, LikeSelf, AllStay

\* The head of a link is its first request and the rest, which is lost.
LEMMA HeadOrLost ==
  ASSUME NEW load \in Seq(Request), load # <<>>, NEW r \in Range(load)
  PROVE  r = Head(load) \/ r \in Range(Tail(load))
<1> DEFINE tail == Tail(load)
<1>1. /\ Len(load) \in Nat \ {0} /\ DOMAIN load = 1 .. Len(load) /\ Head(load) = load[1]
  BY EmptySeq
<1>2. /\ DOMAIN tail = 1 .. Len(load) - 1
      /\ \A i \in 1 .. Len(load) - 1 : tail[i] = load[i + 1]
  BY HeadTailProperties
<1> HIDE DEF tail
<1>3. \A i \in DOMAIN load : i # 1 => i - 1 \in DOMAIN tail /\ load[i] = tail[i - 1]
  BY <1>1, <1>2
<1>4. \A i \in DOMAIN load : load[i] = Head(load) \/ load[i] \in Range(tail)
  BY <1>1, <1>3 DEF Range
<1> QED
  BY <1>4 DEF Range, tail

LEMMA ReplyArrivesKeeps ==
  ASSUME IInv, NEW r \in Request, NEW c, Lives(r, c), Once(r),
         request[r].state = "pending", request[r].channel = c, ReplyArrives
  PROVE  Once(r)'
<1>1. /\ request \in RequestType /\ toFront \in [Socket -> Seq(Message(Answer))]
  BY TypesNamed DEF IInv
<1>2. PICK t \in Socket : t = front.socket
  BY DEF IInv, Linked, ReplyArrives, Heard
<1>3. PICK load \in Seq(Request) : load = Head(toFront[t]).load /\ load # <<>>
  <2>1. toFront[t] # <<>> /\ Head(toFront[t]).kind = "data"
    BY <1>2 DEF ReplyArrives, Heard
  <2>2. Head(toFront[t]) \in Message(Answer)
    BY <1>1, <2>1, HeadTailProperties
  <2>3. Head(toFront[t]).load \in Seq(Request) \ {<<>>}
    BY <2>1, <2>2 DEF Message, Answer
  <2> QED
    BY <2>3
<1>4. /\ Heard("data") /\ Taken(front.socket)
      /\ lost' = lost \cup Range(Tail(load))
      /\ UNCHANGED <<front, toBack, context>>
  BY <1>2, <1>3 DEF ReplyArrives, back_vars
<1>5. /\ r \notin lost' /\ request'[r].state = "pending" /\ request'[r].channel = c
      /\ front.open /\ front.channel = c
  BY DEF Lives
<1>6. Head(load) # r
  <2>1. ASSUME Head(load) = r
        PROVE  request' = [request EXCEPT ![r].state = "settled"]
    BY <1>2, <1>3, <1>5, <2>1 DEF ReplyArrives
  <2> QED
    BY <1>1, <1>5, <2>1 DEF RequestType
<1>7. r \notin Range(load)
  BY <1>3, <1>4, <1>5, <1>6, HeadOrLost
<1>8. \A s \in Socket : Like(Within(toFront[s], r), Within(toFront'[s], r))
  BY <1>2, <1>3, <1>4, <1>7, FrontTakes
<1> QED
  BY <1>4, <1>5, <1>8, LikeSelf, AllStay

LEMMA GreetingIgnoredKeeps ==
  ASSUME IInv, NEW r \in Request, NEW c, Lives(r, c), Once(r), request[r].channel = c,
         NEW t \in Socket, GreetingIgnored(t)
  PROVE  Once(r)'
<1>1. PICK kind \in Greeting : Asked(t, kind)
  BY DEF GreetingIgnored
<1>2. UNCHANGED <<front, toFront, context>>
  BY DEF GreetingIgnored, front_vars, back_vars
<1>3. request'[r].channel = c
  BY DEF Lives
<1> QED
  BY <1>1, <1>2, <1>3, BackGreeted, LikeSelf, AllStay

LEMMA SocketDisconnectsKeeps ==
  ASSUME IInv, NEW r \in Request, NEW c, Lives(r, c), Once(r), request[r].channel = c,
         NEW t \in Socket, SocketDisconnects(t)
  PROVE  Once(r)'
<1>1. /\ toBack \in [Socket -> Seq(Message(Greeting))] /\ socket \in SocketType
  BY TypesNamed DEF IInv
<1>2. /\ toBack' = [toBack EXCEPT ![t] = <<>>]
      /\ lost' = lost \cup Loads(toBack[t])
      /\ UNCHANGED <<front, toFront>>
  BY DEF SocketDisconnects, front_vars
<1>3. /\ request'[r].channel = c /\ r \notin lost' /\ c \in Context
      /\ context'[c].state = "open"
  BY DEF Lives
<1>4. \A s \in Socket : Like(Within(toBack[s], r), Within(toBack'[s], r))
  BY <1>1, <1>2, <1>3, LostLike
<1>5. /\ context'[c].buffer = context[c].buffer
      /\ context'[c].working = context[c].working
  <2>1. PICK d : d = socket[t].serves
    OBVIOUS
  <2>2. CASE d = None
    BY <2>1, <2>2 DEF SocketDisconnects
  <2>3. CASE d # None
    <3>1. d \in Context
      BY <1>1, <2>1, <2>3 DEF SocketType
    <3>2. PICK p \in Page : p = socket[t].page
      BY <1>1 DEF SocketType
    <3>3. \/ ConnectionClosed(Detached(d), timer, p)
          \/ context' = Detached(d)
      BY <2>1, <2>3, <3>2 DEF SocketDisconnects
    <3>4. context'[c] = Detached(d)[c]
      BY <1>3, <3>1, <3>3, ClosingLeaves, DetachedLeaves
    <3> QED
      BY <1>3, <3>1, <3>4, DetachedLeaves
  <2> QED
    BY <2>2, <2>3
<1> QED
  BY <1>2, <1>3, <1>4, <1>5, LikeSelf, AllStay

LEMMA TimeoutClosesKeeps ==
  ASSUME IInv, NEW r \in Request, NEW c, Lives(r, c), Once(r), request[r].channel = c,
         NEW p \in Page, TimeoutCloses(p)
  PROVE  Once(r)'
<1>1. PICK timers : ConnectionClosed(context, timers, p)
  BY DEF TimeoutCloses
<1>2. /\ request'[r].channel = c /\ c \in Context /\ context'[c].state = "open"
      /\ context \in ContextType
  BY TypesNamed DEF Lives, IInv
<1>3. context'[c] = context[c]
  BY <1>1, <1>2, ClosingLeaves
<1>4. UNCHANGED <<front, toBack, toFront>>
  BY DEF TimeoutCloses, front_vars
<1> QED
  BY <1>2, <1>3, <1>4, LikeSelf, AllStay

LEMMA InitialConnectKeeps ==
  ASSUME IInv, NEW r \in Request, NEW c, Lives(r, c), Once(r), request[r].channel = c,
         NEW t \in Socket, InitialConnect(t)
  PROVE  Once(r)'
<1>1. /\ context \in ContextType
      /\ byFrontend \in [Page -> Context \cup {None}] /\ socket[t].page \in Page
  BY TypesNamed DEF IInv, SocketType
<1>2. PICK p \in Page : p = socket[t].page
  BY <1>1
<1>3. /\ request'[r].channel = c /\ c \in Context /\ context'[c].state = "open"
      /\ socket[c].greeted /\ ~ socket[t].greeted
  BY DEF Lives, InitialConnect
<1>4. context'[c] = context[c]
  <2>1. context' = [Discarded(p) EXCEPT ![t] =
                      [state |-> "open", page |-> p, socket |-> t,
                       buffer |-> <<>>, working |-> {}]]
    BY <1>2 DEF InitialConnect, Created
  <2>2. context'[c] = Discarded(p)[c]
    BY <1>3, <2>1
  <2> QED
    BY <1>1, <1>3, <2>2, ClosedOther DEF Discarded
<1>5. \A s \in Socket : Like(Within(toBack[s], r), Within(toBack'[s], r))
  BY BackGreeted DEF InitialConnect, Greeting
<1>6. \A s \in Socket : Like(Within(toFront[s], r), Within(toFront'[s], r))
  BY FrontGreeted DEF InitialConnect, Answer
<1>7. UNCHANGED front
  BY DEF InitialConnect, front_vars
<1> QED
  BY <1>3, <1>4, <1>5, <1>6, <1>7, LikeSelf, AllStay

-----------------------------------------------------------------------------
\* Steps that take the message somewhere.

\* One message of one request.
LEMMA OneCarried ==
  ASSUME NEW q \in Request, NEW Kind
  PROVE  /\ <<Carrying(<<q>>)>> \in Seq(Message(Kind))
         /\ Loads(<<Carrying(<<q>>)>>) = {q}
         /\ Single(Within(<<Carrying(<<q>>)>>, q))
<1>1. PICK rs \in Seq(Request) : rs = <<q>>
  <2>1. <<q>> \in Seq(Request)
    OBVIOUS
  <2> QED
    BY <2>1
<1>2. rs # <<>> /\ Range(rs) = {q} /\ In(rs, q) = {1}
  BY <1>1 DEF Range, In
<1>3. Carrying(rs) \in Message(Kind) /\ Loads(<<Carrying(rs)>>) = {q}
  BY <1>2, CarryingType, CarryingHolds
<1>4. Single(Within(<<Carrying(rs)>>, q))
  BY <1>2, CarriedSingle DEF Single
<1> QED
  BY <1>1, <1>3, <1>4

LEMMA SendOtherKeeps ==
  ASSUME IInv, NEW r \in Request, NEW c, Lives(r, c), Once(r), request[r].channel = c,
         NEW q \in Request, q # r, Send(q)
  PROVE  Once(r)'
<1>1. /\ front \in FrontType /\ front.buffer \in Seq(Request)
  BY TypesNamed DEF IInv, FrontType
<1>2. request'[r].channel = c /\ UNCHANGED <<context, toFront>>
  BY DEF Lives, Send, back_vars
<1>3. /\ Like(In(front.buffer, r), In(front'.buffer, r))
      /\ \A s \in Socket : Like(Within(toBack[s], r), Within(toBack'[s], r))
  <2>1. CASE front.connected
    <3>1. PICK t \in Socket : t = front.socket
      BY <2>1 DEF IInv, Linked
    <3>2. PICK messages \in Seq(Message(Greeting)) : messages = <<Carrying(<<q>>)>>
      BY OneCarried
    <3>3. BackGets(t, messages) /\ UNCHANGED front
      BY <2>1, <3>1, <3>2 DEF Send
    <3>4. r \notin Loads(messages)
      BY <3>2, OneCarried
    <3> QED
      BY <3>3, <3>4, BackSays, LikeSelf
  <2>2. CASE ~ front.connected
    <3>1. UNCHANGED toBack
      BY <2>2 DEF Send
    <3>2. front'.buffer = front.buffer \/ front'.buffer = Buffered(front.buffer, q)
      <4>1. front' = front \/ front' = [front EXCEPT !.buffer = Buffered(@, q)]
        BY <2>2 DEF Send
      <4> QED
        BY <1>1, <4>1 DEF FrontType
    <3> QED
      BY <1>1, <3>1, <3>2, BufferedLike, LikeSelf
  <2> QED
    BY <2>1, <2>2
<1> QED
  BY <1>2, <1>3, LikeSelf, AllStay

\* Before it is sent a request is nowhere.
LEMMA IdleNowhere ==
  ASSUME OwnInv, HearInv, NEW r \in Request, request[r].state = "idle"
  PROVE  /\ In(front.buffer, r) = {}
         /\ \A c \in Context : /\ In(context[c].buffer, r) = {}
                               /\ r \notin context[c].working
         /\ \A s \in Socket : Within(toBack[s], r) = {} /\ Within(toFront[s], r) = {}
<1>1. r \notin Range(front.buffer)
  BY DEF OwnInv, InBuffer
<1>2. \A c \in Context : r \notin Range(context[c].buffer) /\ r \notin context[c].working
  BY DEF OwnInv, AtWork
<1>3. \A s \in Socket : r \notin Loads(toBack[s]) /\ r \notin Loads(toFront[s])
  BY DEF OwnInv, OnTheWay, HearInv, AnswersKnown
<1> QED
  BY <1>1, <1>2, <1>3, InHolds, WithinHolds

LEMMA SendOnce ==
  ASSUME IInv, OwnInv, HearInv, NEW r \in Request, NEW c, Lives(r, c), Send(r)
  PROVE  Once(r)'
<1>1. /\ front \in FrontType /\ front.buffer \in Seq(Request) /\ request \in RequestType
      /\ toBack \in [Socket -> Seq(Message(Greeting))]
  BY TypesNamed DEF IInv, FrontType
<1>2. /\ request'[r].channel = c /\ request'[r].state = "pending" /\ c \in Context
      /\ r \notin lost' /\ UNCHANGED <<context, toFront>>
  BY DEF Lives, Send, back_vars
<1>3. /\ In(front.buffer, r) = {}
      /\ In(context[c].buffer, r) = {} /\ r \notin context[c].working
      /\ \A s \in Socket : Within(toBack[s], r) = {} /\ Within(toFront[s], r) = {}
  BY <1>2, IdleNowhere DEF Send
<1>4. /\ At(r, <<"back", 0>>)' = {} /\ At(r, <<"working", 0>>)' = {}
      /\ \A s \in Socket : At(r, <<"to front", s>>)' = {}
  BY <1>2, <1>3, AtIsNext
<1>5. CASE front.connected
  <2>1. PICK t \in Socket : t = front.socket
    BY <1>5 DEF IInv, Linked
  <2>2. PICK messages \in Seq(Message(Greeting)) : messages = <<Carrying(<<r>>)>>
    BY OneCarried
  <2>3. BackGets(t, messages) /\ UNCHANGED front
    BY <1>5, <2>1, <2>2 DEF Send
  <2>4. Loads(messages) = {r} /\ Single(Within(messages, r))
    BY <2>2, OneCarried
  <2>5. toBack' = [toBack EXCEPT ![t] = @ \o messages]
    BY <1>2, <2>3, <2>4 DEF BackGets
  <2>6. /\ Single(Within(toBack'[t], r))
        /\ \A s \in Socket : s # t => toBack'[s] = toBack[s]
    BY <1>1, <1>3, <2>4, <2>5, SaidOnce
  <2>7. /\ Single(At(r, <<"to back", t>>)')
        /\ At(r, <<"front", 0>>)' = {}
        /\ \A s \in Socket : s # t => At(r, <<"to back", s>>)' = {}
    BY <1>3, <2>3, <2>6, AtIsNext
  <2>8. \A o \in Place : o # <<"to back", t>> => At(r, o)' = {}
    <3>1. \A s : <<"to back", s>> # <<"to back", t>> => s # t
      OBVIOUS
    <3> QED
      BY <1>4, <2>7, <3>1, PlacesAre
  <2>9. <<"to back", t>> \in Place
    BY PlacesAre
  <2> QED
    BY <2>7, <2>8, <2>9 DEF Once
<1>6. CASE ~ front.connected
  <2>1. UNCHANGED toBack
    BY <1>6 DEF Send
  <2>2. front' = [front EXCEPT !.buffer = Buffered(@, r)]
    <3>1. request' = [request EXCEPT ![r] = [state |-> "settled", channel |-> front.channel]]
            => request'[r].state = "settled"
      BY <1>1 DEF RequestType
    <3> QED
      BY <1>2, <1>6, <3>1 DEF Send
  <2>3. front'.buffer = Buffered(front.buffer, r)
    BY <1>1, <2>2 DEF FrontType
  <2>4. Single(In(front'.buffer, r))
    BY <1>1, <1>3, <2>3, BufferedLike, InHolds
  <2>5. /\ Single(At(r, <<"front", 0>>)')
        /\ \A s \in Socket : At(r, <<"to back", s>>)' = {}
    BY <1>3, <2>1, <2>4, AtIsNext
  <2>6. \A o \in Place : o # <<"front", 0>> => At(r, o)' = {}
    BY <1>4, <2>5, PlacesAre
  <2> QED
    BY <2>5, <2>6, PlacesAre DEF Once
<1> QED
  BY <1>5, <1>6

\* The front end says what it had buffered.
LEMMA ReconnectSucceededKeeps ==
  ASSUME IInv, NEW r \in Request, NEW c, Lives(r, c), Once(r), request[r].channel = c,
         ReconnectSucceeded
  PROVE  Once(r)'
<1>1. /\ front \in FrontType /\ front.buffer \in Seq(Request)
      /\ toBack \in [Socket -> Seq(Message(Greeting))]
  BY TypesNamed DEF IInv, FrontType
<1>2. PICK t \in Socket : t = front.socket
  BY DEF IInv, Linked, ReconnectSucceeded, Heard
<1>3. PICK messages \in Seq(Message(Greeting)) : messages = Flushed(front.buffer)
  BY <1>1, FlushedType
<1>4. /\ BackGets(t, messages)
      /\ front' = [front EXCEPT !.buffer = <<>>]
      /\ UNCHANGED context
  BY <1>2, <1>3 DEF ReconnectSucceeded, AfterFlush, back_vars
<1>5. front'.buffer = <<>> /\ request'[r].channel = c /\ r \notin lost'
  BY <1>1, <1>4 DEF FrontType, Lives
<1>6. \A s \in Socket : Like(Within(toFront[s], r), Within(toFront'[s], r))
  BY FrontAnswered DEF ReconnectSucceeded, Answer
<1>7. Loads(messages) = Range(front.buffer)
  BY <1>1, <1>3, CarryingHolds
<1>8. In(front'.buffer, r) = {}
  BY <1>5 DEF In
<1>9. CASE r \notin Range(front.buffer)
  <2>1. Like(In(front.buffer, r), In(front'.buffer, r))
    BY <1>8, <1>9, InHolds, LikeEmpty
  <2>2. \A s \in Socket : Like(Within(toBack[s], r), Within(toBack'[s], r))
    BY <1>4, <1>7, <1>9, BackSays
  <2> QED
    BY <1>4, <1>5, <1>6, <2>1, <2>2, LikeSelf, AllStay
<1>10. CASE r \in Range(front.buffer)
  <2>1. PICK p, q : p = <<"front", 0>> /\ q = <<"to back", t>>
    OBVIOUS
  <2>2. p \in Place /\ q \in Place /\ p # q
    BY <2>1, PlacesAre
  <2>3. At(r, p) # {} /\ At(r, p) = In(front.buffer, r) /\ At(r, p)' = {}
    BY <1>8, <1>10, <2>1, AtIs, AtIsNext, InHolds
  <2>4. Single(At(r, p)) /\ At(r, q) = {}
    BY <2>2, <2>3 DEF Once
  <2>5. Single(Within(messages, r))
    BY <1>1, <1>3, <2>3, <2>4, CarriedSingle
  <2>6. toBack' = [toBack EXCEPT ![t] = @ \o messages]
    BY <1>4, <1>5, <1>7, <1>10 DEF BackGets
  <2>7. Within(toBack[t], r) = {}
    BY <2>1, <2>4, AtIs
  <2>8. /\ Single(Within(toBack'[t], r))
        /\ \A s \in Socket : s # t => toBack'[s] = toBack[s]
    BY <1>1, <2>5, <2>6, <2>7, SaidOnce
  <2>9. Single(At(r, q)')
    BY <2>1, <2>8, AtIsNext
  <2>10. PICK P : P = {p, q}
    OBVIOUS
  <2>11. \A s \in Socket : \/ <<"to back", s>> \in P
                           \/ Like(Within(toBack[s], r), Within(toBack'[s], r))
    BY <2>1, <2>8, <2>10, LikeSelf
  <2>12. \A o \in Place \ P : Like(At(r, o), At(r, o)')
    BY <1>4, <1>5, <1>6, <2>1, <2>10, <2>11, LikeSelf, OthersStay
  <2> QED
    BY <2>2, <2>3, <2>9, <2>10, <2>12, OnceMoves
<1> QED
  BY <1>9, <1>10

\* What a context had buffered, said after the answer.
LEMMA Resaid ==
  ASSUME NEW buffer \in Seq(Request)
  PROVE  \E messages \in Seq(Message(Answer)) :
           /\ messages = <<Said("reconnected")>> \o Flushed(buffer)
           /\ Loads(messages) = Range(buffer)
           /\ \A r : Single(In(buffer, r)) => Single(Within(messages, r))
<1>1. PICK M : M = Message(Answer)
  OBVIOUS
<1>2. PICK first \in Seq(M) : first = <<Said("reconnected")>>
  <2>1. PICK word : word = Said("reconnected")
    OBVIOUS
  <2>2. word \in M
    BY <1>1, <2>1, SaidType DEF Answer
  <2>3. <<word>> \in Seq(M)
    BY <2>2
  <2> QED
    BY <2>1, <2>3
<1>3. PICK last \in Seq(M) : last = Flushed(buffer)
  BY <1>1, FlushedType
<1>4. Loads(first) = {} /\ Loads(last) = Range(buffer)
  BY <1>2, <1>3, SaidHolds, CarryingHolds
<1>5. first \o last \in Seq(M) /\ Loads(first \o last) = Range(buffer)
  <2>1. /\ first \o last \in Seq(M)
        /\ Loads(first \o last) = Loads(first) \cup Loads(last)
    BY ConcatProperties, ConcatHolds
  <2> QED
    BY <1>4, <2>1
<1>6. ASSUME NEW r, Single(In(buffer, r))
      PROVE  Single(Within(first \o last, r))
  <2>1. Single(Within(last, r)) /\ r \notin Loads(first)
    BY <1>3, <1>4, <1>6, CarriedSingle
  <2> QED
    BY <2>1, ConcatSingle
<1> QED
  BY <1>1, <1>2, <1>3, <1>5, <1>6

LEMMA ReconnectKeeps ==
  ASSUME IInv, OwnInv, NEW r \in Request, NEW c, Lives(r, c), Once(r), request[r].channel = c,
         NEW t \in Socket, Reconnect(t)
  PROVE  Once(r)'
<1>1. /\ context \in ContextType /\ toFront \in [Socket -> Seq(Message(Answer))]
      /\ byFrontend \in [Page -> Context \cup {None}] /\ socket[t].page \in Page
  BY TypesNamed DEF IInv, SocketType
<1>2. PICK d \in Context \cup {None} : d = byFrontend[socket[t].page]
  BY <1>1
<1>3. /\ request'[r].channel = c /\ c \in Context /\ r \notin lost' /\ ~ late
      /\ UNCHANGED front
  BY DEF Lives, Reconnect, front_vars
<1>4. \A s \in Socket : Like(Within(toBack[s], r), Within(toBack'[s], r))
  BY BackGreeted DEF Reconnect, Greeting
<1>5. CASE d = None
  <2>1. FrontGets(t, <<Said("refused")>>) /\ UNCHANGED context
    BY <1>2, <1>5 DEF Reconnect
  <2>2. \A s \in Socket : Like(Within(toFront[s], r), Within(toFront'[s], r))
    BY <2>1, FrontGreeted DEF Answer
  <2> QED
    BY <1>3, <1>4, <2>1, <2>2, LikeSelf, AllStay
<1>6. CASE d # None
  <2>1. PICK buffer \in Seq(Request) : buffer = context[d].buffer
    BY <1>1, <1>6 DEF ContextType
  <2>2. PICK messages \in Seq(Message(Answer)) :
          /\ messages = <<Said("reconnected")>> \o Flushed(buffer)
          /\ Loads(messages) = Range(buffer)
          /\ \A q : Single(In(buffer, q)) => Single(Within(messages, q))
    BY Resaid
  <2>3. FrontGets(t, messages)
    BY <1>2, <1>6, <2>1, <2>2 DEF Reconnect
  <2>4. context' = [context EXCEPT ![d] = [@ EXCEPT !.socket = t, !.buffer = <<>>]]
    BY <1>2, <1>6 DEF Reconnect, AfterFlush
  <2>5. /\ context'[c].working = context[c].working
        /\ c # d => context'[c] = context[c]
        /\ c = d => context'[c].buffer = <<>>
    <3>1. /\ c \in DOMAIN context
          /\ DOMAIN context[c] = {"state", "page", "socket", "buffer", "working"}
      BY <1>1, <1>3 DEF ContextType
    <3>2. c # d => context'[c] = context[c]
      BY <2>4, <3>1
    <3>3. c = d => context'[c].buffer = <<>> /\ context'[c].working = context[c].working
      BY <2>4, <3>1
    <3> QED
      BY <3>2, <3>3
  <2>6. CASE r \notin Range(buffer)
    <3>1. \A s \in Socket : Like(Within(toFront[s], r), Within(toFront'[s], r))
      BY <2>2, <2>3, <2>6, FrontSays
    <3>2. c = d => In(context[c].buffer, r) = {} /\ In(context'[c].buffer, r) = {}
      BY <2>1, <2>5, <2>6, InHolds DEF In
    <3>3. Like(In(context[c].buffer, r), In(context'[c].buffer, r))
      BY <2>5, <3>2, LikeSelf, LikeEmpty
    <3> QED
      BY <1>3, <1>4, <2>5, <3>1, <3>3, LikeSelf, AllStay
  <2>7. CASE r \in Range(buffer)
    <3>1. d = c
      BY <1>3, <1>6, <2>1, <2>7, LivesInOne
    <3>2. PICK p, q : p = <<"back", 0>> /\ q = <<"to front", t>>
      OBVIOUS
    <3>3. p \in Place /\ q \in Place /\ p # q
      BY <3>2, PlacesAre
    <3>4. At(r, p) # {} /\ At(r, p) = In(buffer, r) /\ At(r, p)' = {}
      <4>1. In(context'[c].buffer, r) = {}
        BY <2>5, <3>1 DEF In
      <4> QED
        BY <1>3, <2>1, <2>7, <3>1, <3>2, <4>1, AtIs, AtIsNext, InHolds
    <3>5. Single(At(r, p)) /\ At(r, q) = {}
      BY <3>3, <3>4 DEF Once
    <3>6. toFront' = [toFront EXCEPT ![t] = @ \o messages]
      BY <1>3, <2>2, <2>3, <2>7 DEF FrontGets
    <3>7. Within(toFront[t], r) = {} /\ Single(Within(messages, r))
      BY <2>2, <3>2, <3>4, <3>5, AtIs
    <3>8. /\ Single(Within(toFront'[t], r))
          /\ \A s \in Socket : s # t => toFront'[s] = toFront[s]
      BY <1>1, <3>6, <3>7, SaidOnce
    <3>9. Single(At(r, q)')
      BY <3>2, <3>8, AtIsNext
    <3>10. PICK P : P = {p, q}
      OBVIOUS
    <3>11. \A s \in Socket : \/ <<"to front", s>> \in P
                             \/ Like(Within(toFront[s], r), Within(toFront'[s], r))
      BY <3>2, <3>8, <3>10, LikeSelf
    <3>12. \A o \in Place \ P : Like(At(r, o), At(r, o)')
      BY <1>3, <1>4, <2>5, <3>2, <3>10, <3>11, LikeSelf, OthersStay
    <3> QED
      BY <3>3, <3>4, <3>9, <3>10, <3>12, OnceMoves
  <2> QED
    BY <2>6, <2>7
<1> QED
  BY <1>5, <1>6

LEMMA RequestArrivesKeeps ==
  ASSUME IInv, OwnInv, HearInv, NEW r \in Request, NEW c, Lives(r, c), Once(r),
         request[r].channel = c, NEW t \in Socket, RequestArrives(t)
  PROVE  Once(r)'
<1>1. /\ context \in ContextType /\ toBack \in [Socket -> Seq(Message(Greeting))]
      /\ socket \in SocketType
  BY TypesNamed DEF IInv
<1>2. PICK load \in Seq(Request) : load = Head(toBack[t]).load /\ load # <<>>
  <2>1. toBack[t] # <<>> /\ Head(toBack[t]).kind = "data"
    BY DEF RequestArrives, Asked
  <2>2. Head(toBack[t]) \in Message(Greeting)
    BY <1>1, <2>1, HeadTailProperties
  <2>3. Head(toBack[t]).load \in Seq(Request) \ {<<>>}
    BY <2>1, <2>2 DEF Message, Greeting
  <2> QED
    BY <2>3
<1>3. /\ request'[r].channel = c /\ c \in Context /\ r \notin lost' /\ ~ late
      /\ front.open /\ front.channel = c /\ context[c].state = "open"
      /\ byFrontend[front.page] = c
      /\ UNCHANGED <<front, toFront>>
  BY DEF Lives, RequestArrives, front_vars
<1>4. /\ Asked(t, "data") /\ toBack[t] # <<>> /\ Head(toBack[t]).kind = "data"
      /\ socket[t].connected /\ toBack' = [toBack EXCEPT ![t] = Tail(@)]
  BY DEF RequestArrives, Asked
<1>5. PICK d \in Context \cup {None} : d = socket[t].serves
  BY <1>1 DEF SocketType
<1>6. \/ /\ Listens(t)
         /\ context' = [context EXCEPT ![d].working = @ \cup {Head(load)}]
         /\ lost' = lost \cup Range(Tail(load))
      \/ /\ ~ Listens(t) /\ UNCHANGED context
         /\ lost' = IF OnLink(t) THEN lost ELSE lost \cup Range(load)
  BY <1>2, <1>5 DEF RequestArrives
<1>7. /\ c \in DOMAIN context
      /\ DOMAIN context[c] = {"state", "page", "socket", "buffer", "working"}
  BY <1>1, <1>3 DEF ContextType
<1>8. context'[c].buffer = context[c].buffer
  <2>1. CASE c = d
    BY <1>6, <1>7, <2>1
  <2>2. CASE c # d
    BY <1>6, <1>7, <2>2
  <2> QED
    BY <2>1, <2>2
<1>9. Listens(t) => /\ context'[c].working = IF c = d THEN context[c].working \cup {Head(load)}
                                             ELSE context[c].working
  <2>1. CASE c = d
    BY <1>6, <1>7, <2>1
  <2>2. CASE c # d
    BY <1>6, <1>7, <2>2
  <2> QED
    BY <2>1, <2>2
<1>10. CASE r \notin Range(load)
  <2>1. r # Head(load)
    <3>1. Head(load) = load[1] /\ 1 \in DOMAIN load
      BY <1>2, EmptySeq
    <3> QED
      BY <1>10, <3>1 DEF Range
  <2>2. r \in context[c].working <=> r \in context'[c].working
    BY <1>6, <1>9, <2>1
  <2>3. \A s \in Socket : Like(Within(toBack[s], r), Within(toBack'[s], r))
    BY <1>2, <1>4, <1>10, BackTakes
  <2> QED
    BY <1>3, <1>8, <2>2, <2>3, LikeSelf, AllStay
<1>11. CASE r \in Range(load)
  <2>1. Listens(t)
    <3>1. ASSUME ~ Listens(t)
          PROVE  OnLink(t)
      BY <1>3, <1>6, <1>11, <3>1
    <3>2. OnLink(t) => Listens(t)
      BY <1>3, <1>4, HeardBy DEF Greeting
    <3> QED
      BY <3>1, <3>2
  <2>2. r = Head(load)
    BY <1>2, <1>3, <1>6, <1>11, <2>1, HeadOrLost
  <2>3. d = c
    <3>1. r \in Loads(toBack[t])
      BY <1>1, <1>2, <1>4, <1>11, TailHolds
    <3>2. Heir(request[r].channel, t)
      BY <3>1 DEF OwnInv, OnTheWay
    <3>3. d \in {None, c} /\ d # None
      BY <1>3, <1>5, <2>1, <3>2 DEF Heir, Listens
    <3> QED
      BY <3>3
  <2>4. PICK p, q : p = <<"to back", t>> /\ q = <<"working", 0>>
    OBVIOUS
  <2>5. p \in Place /\ q \in Place /\ p # q
    BY <2>4, PlacesAre
  <2>6. At(r, p) # {} /\ At(r, p) = Within(toBack[t], r)
    <3>1. r \in Loads(toBack[t])
      BY <1>1, <1>2, <1>4, <1>11, TailHolds
    <3> QED
      BY <2>4, <3>1, AtIs, WithinHolds
  <2>7. Single(At(r, p)) /\ At(r, q) = {}
    BY <2>5, <2>6 DEF Once
  <2>8. /\ Within(toBack'[t], r) = {}
        /\ \A s \in Socket : s # t => toBack'[s] = toBack[s]
    <3>1. Single(Within(toBack[t], r)) /\ r \in Range(Head(toBack[t]).load)
      BY <1>2, <1>11, <2>6, <2>7
    <3> QED
      BY <1>1, <1>4, <3>1, TakenAway
  <2>9. At(r, p)' = {} /\ Single(At(r, q)')
    <3>1. r \in context'[c].working
      BY <1>9, <2>1, <2>2, <2>3
    <3>2. At(r, q)' = {0}
      BY <1>3, <2>4, <3>1, AtIsNext
    <3>3. At(r, p)' = {}
      BY <2>4, <2>8, AtIsNext
    <3> QED
      BY <3>2, <3>3 DEF Single
  <2>10. PICK P : P = {p, q}
    OBVIOUS
  <2>11. \A s \in Socket : \/ <<"to back", s>> \in P
                           \/ Like(Within(toBack[s], r), Within(toBack'[s], r))
    BY <2>4, <2>8, <2>10, LikeSelf
  <2>12. \A o \in Place \ P : Like(At(r, o), At(r, o)')
    BY <1>3, <1>8, <2>4, <2>10, <2>11, LikeSelf, OthersStay
  <2> QED
    BY <2>5, <2>6, <2>9, <2>10, <2>12, OnceMoves
<1> QED
  BY <1>10, <1>11

\* A handler is done: what it leaves of the contexts.
ReplyDone(d, q, c) ==
  /\ c # d => context'[c].working = context[c].working
  /\ c = d => context'[c].working = context[c].working \ {q}

LEMMA ReplyLeaves ==
  ASSUME IInv, NEW d \in Context, NEW q \in Request, Reply(d, q), NEW c \in Context
  PROVE  /\ ReplyDone(d, q, c)
         /\ \/ /\ context[d].socket \in Socket
               /\ FrontGets(context[d].socket, <<Carrying(<<q>>)>>)
               /\ context'[c].buffer = context[c].buffer
            \/ /\ UNCHANGED toFront
               /\ context'[c].buffer = IF c = d THEN Buffered(context[c].buffer, q)
                                       ELSE context[c].buffer
            \/ /\ UNCHANGED toFront /\ q \in lost'
               /\ context'[c].buffer = context[c].buffer
<1>1. context \in ContextType /\ d \in DOMAIN context /\ c \in DOMAIN context
  BY TypesNamed DEF IInv, ContextType
<1>2. PICK done : done = [context EXCEPT ![d].working = @ \ {q}]
  OBVIOUS
<1>3. \A e \in Context :
        DOMAIN context[e] = {"state", "page", "socket", "buffer", "working"}
  BY <1>1 DEF ContextType
<1>4. /\ done[d].working = context[d].working \ {q}
      /\ done[d].buffer = context[d].buffer
      /\ c # d => done[c] = context[c]
      /\ c \in DOMAIN done /\ d \in DOMAIN done
      /\ DOMAIN done[d] = {"state", "page", "socket", "buffer", "working"}
  BY <1>1, <1>2, <1>3
<1>5. /\ done[c].working = IF c = d THEN context[c].working \ {q} ELSE context[c].working
      /\ done[c].buffer = context[c].buffer
  BY <1>4
<1>6. ASSUME context' = [done EXCEPT ![d].buffer = Buffered(@, q)]
      PROVE  /\ context'[d].buffer = Buffered(context[d].buffer, q)
             /\ context'[c].working = done[c].working
             /\ c # d => context'[c].buffer = context[c].buffer
  <2>1. context'[d].buffer = Buffered(done[d].buffer, q) /\ context'[d].working = done[d].working
    BY <1>4, <1>6
  <2>2. c # d => context'[c] = done[c]
    BY <1>4, <1>6
  <2> QED
    BY <1>4, <1>5, <2>1, <2>2
<1>7. \/ /\ context[d].socket # None /\ context' = done
         /\ FrontGets(context[d].socket, <<Carrying(<<q>>)>>)
      \/ /\ context' = [done EXCEPT ![d].buffer = Buffered(@, q)]
         /\ UNCHANGED toFront
      \/ /\ context' = done /\ lost' = lost \cup {q}
         /\ UNCHANGED toFront
  BY <1>2 DEF Reply
<1>8. context[d].socket # None => context[d].socket \in Socket
  BY <1>1 DEF ContextType
<1>9. CASE /\ context[d].socket # None /\ context' = done
           /\ FrontGets(context[d].socket, <<Carrying(<<q>>)>>)
  BY <1>5, <1>8, <1>9 DEF ReplyDone
<1>10. CASE /\ context' = [done EXCEPT ![d].buffer = Buffered(@, q)]
            /\ UNCHANGED toFront
  BY <1>5, <1>6, <1>10 DEF ReplyDone
<1>11. CASE /\ context' = done /\ lost' = lost \cup {q}
            /\ UNCHANGED toFront
  BY <1>5, <1>11 DEF ReplyDone
<1> QED
  BY <1>7, <1>9, <1>10, <1>11

LEMMA ReplyOtherKeeps ==
  ASSUME IInv, NEW r \in Request, NEW c, Lives(r, c), Once(r), request[r].channel = c,
         NEW d \in Context, NEW q \in Request, q # r, Reply(d, q)
  PROVE  Once(r)'
<1>1. context[c].buffer \in Seq(Request) /\ c \in Context /\ request'[r].channel = c
  BY TypesNamed DEF IInv, ContextType, Lives
<1>2. UNCHANGED <<front, toBack>>
  BY DEF Reply, front_vars
<1>3. r \in context[c].working <=> r \in context'[c].working
  <2>1. ReplyDone(d, q, c)
    BY <1>1, ReplyLeaves
  <2> QED
    BY <2>1 DEF ReplyDone
<1>4. Like(In(context[c].buffer, r), In(context'[c].buffer, r))
  <2>1. \/ context'[c].buffer = context[c].buffer
        \/ context'[c].buffer = Buffered(context[c].buffer, q)
    BY <1>1, ReplyLeaves
  <2> QED
    BY <1>1, <2>1, BufferedLike, LikeSelf
<1>5. \A s \in Socket : Like(Within(toFront[s], r), Within(toFront'[s], r))
  <2>1. CASE UNCHANGED toFront
    BY <2>1, LikeSelf
  <2>2. CASE ~ UNCHANGED toFront
    <3>1. PICK t \in Socket : t = context[d].socket
      BY <1>1, <2>2, ReplyLeaves
    <3>2. PICK messages \in Seq(Message(Answer)) : messages = <<Carrying(<<q>>)>>
      BY OneCarried
    <3>3. FrontGets(t, messages)
      BY <1>1, <2>2, <3>1, <3>2, ReplyLeaves
    <3>4. r \notin Loads(messages)
      BY <3>2, OneCarried
    <3> QED
      BY <3>3, <3>4, FrontSays
  <2> QED
    BY <2>1, <2>2
<1> QED
  BY <1>1, <1>2, <1>3, <1>4, <1>5, LikeSelf, AllStay

LEMMA ReplyKeeps ==
  ASSUME IInv, OwnInv, NEW r \in Request, NEW c, Lives(r, c), Once(r), request[r].channel = c,
         NEW d \in Context, Reply(d, r)
  PROVE  Once(r)'
<1>1. /\ context \in ContextType /\ toFront \in [Socket -> Seq(Message(Answer))]
      /\ context[c].buffer \in Seq(Request)
      /\ request'[r].channel = c /\ c \in Context /\ r \notin lost' /\ ~ late
  BY TypesNamed DEF IInv, ContextType, Lives
<1>2. UNCHANGED <<front, toBack>> /\ r \in context[d].working
  BY DEF Reply, front_vars
<1>3. d = c
  BY <1>1, <1>2, LivesInOne
<1>4. r \notin context'[c].working
  <2>1. c \in Context
    BY <1>1
  <2>2. ReplyDone(d, r, c)
    BY <2>1, ReplyLeaves
  <2> QED
    BY <1>3, <2>2 DEF ReplyDone
<1>5. PICK p : p = <<"working", 0>>
  OBVIOUS
<1>6. p \in Place /\ At(r, p) # {} /\ At(r, p)' = {}
  <2>1. At(r, p) = {0} /\ At(r, p)' = {}
    BY <1>1, <1>2, <1>3, <1>4, <1>5, AtIs, AtIsNext
  <2> QED
    BY <1>5, <2>1, PlacesAre
<1>7. \A o \in Place \ {p} : At(r, o) = {}
  BY <1>6 DEF Once
<1>8. CASE context'[c].buffer = Buffered(context[c].buffer, r) /\ UNCHANGED toFront
  <2>1. PICK q : q = <<"back", 0>>
    OBVIOUS
  <2>2. q \in Place /\ p # q
    BY <1>5, <2>1, PlacesAre
  <2>3. r \notin Range(context[c].buffer)
    <3>1. In(context[c].buffer, r) = {}
      BY <1>1, <1>3, <1>7, <2>1, <2>2, AtIs
    <3> QED
      BY <3>1, InHolds
  <2>4. Single(At(r, q)')
    <3>1. Single(In(context'[c].buffer, r))
      BY <1>1, <1>8, <2>3, BufferedLike
    <3> QED
      BY <1>1, <2>1, <3>1, AtIsNext
  <2>5. PICK P : P = {p, q}
    OBVIOUS
  <2>6. \A o \in Place \ P : Like(At(r, o), At(r, o)')
    BY <1>1, <1>2, <1>5, <1>8, <2>1, <2>5, LikeSelf, OthersStay
  <2> QED
    BY <1>6, <2>2, <2>4, <2>5, <2>6, OnceMoves
<1>9. CASE /\ context[d].socket \in Socket
           /\ FrontGets(context[d].socket, <<Carrying(<<r>>)>>)
           /\ context'[c].buffer = context[c].buffer
  <2>1. PICK t \in Socket : t = context[d].socket
    BY <1>9
  <2>2. PICK messages \in Seq(Message(Answer)) : messages = <<Carrying(<<r>>)>>
    BY OneCarried
  <2>3. FrontGets(t, messages) /\ Loads(messages) = {r} /\ Single(Within(messages, r))
    BY <1>9, <2>1, <2>2, OneCarried
  <2>4. toFront' = [toFront EXCEPT ![t] = @ \o messages]
    BY <1>1, <2>3 DEF FrontGets
  <2>5. PICK q : q = <<"to front", t>>
    OBVIOUS
  <2>6. q \in Place /\ p # q
    BY <1>5, <2>5, PlacesAre
  <2>7. Within(toFront[t], r) = {}
    BY <1>7, <2>5, <2>6, AtIs
  <2>8. /\ Single(Within(toFront'[t], r))
        /\ \A s \in Socket : s # t => toFront'[s] = toFront[s]
    BY <1>1, <2>3, <2>4, <2>7, SaidOnce
  <2>9. Single(At(r, q)')
    BY <2>5, <2>8, AtIsNext
  <2>10. PICK P : P = {p, q}
    OBVIOUS
  <2>11. \A s \in Socket : \/ <<"to front", s>> \in P
                           \/ Like(Within(toFront[s], r), Within(toFront'[s], r))
    BY <2>5, <2>8, <2>10, LikeSelf
  <2>12. \A o \in Place \ P : Like(At(r, o), At(r, o)')
    BY <1>1, <1>2, <1>5, <1>9, <2>10, <2>11, LikeSelf, OthersStay
  <2> QED
    BY <1>6, <2>6, <2>9, <2>10, <2>12, OnceMoves
<1> QED
  BY <1>1, <1>3, <1>8, <1>9, ReplyLeaves

-----------------------------------------------------------------------------
LEMMA InitCopy == Init => CopyInv
BY DEF Init, CopyInv, Alive

LEMMA CopyNext ==
  ASSUME IInv, IInv', OwnInv, HearInv, CopyInv, [Next]_vars
  PROVE  CopyInv'
<1> SUFFICES ASSUME NEW r \in Request, Alive(r)'
             PROVE  Once(r)'
  BY DEF CopyInv
<1>1. PICK c : c = front.channel
  OBVIOUS
<1>2. Lives(r, c) /\ (Send(r) \/ Alive(r))
  BY <1>1, LivesBefore
<1>3. CASE Send(r)
  BY <1>2, <1>3, SendOnce
<1>4. CASE ~ Send(r)
  <2>1. Once(r) /\ request[r].state = "pending" /\ request[r].channel = c
    BY <1>2, <1>4 DEF CopyInv, Alive, Lives
  <2>2. ~ ConnectNewChannel /\ ~ ReconnectFailed
    BY <1>2, PendingBefore DEF Lives
  <2>3. CASE MarkForClose \/ (\E s \in Socket : Break(s)) \/ UNCHANGED vars
    BY <1>2, <2>1, <2>3, QuietSteps
  <2>4. CASE FrontConnects
    BY <1>2, <2>1, <2>4, FrontConnectsKeeps
  <2>5. CASE FrontNotices
    BY <1>2, <2>1, <2>5, FrontNoticesKeeps
  <2>6. CASE ReconnectSucceeded
    BY <1>2, <2>1, <2>6, ReconnectSucceededKeeps
  <2>7. CASE ReplyArrives
    BY <1>2, <2>1, <2>7, ReplyArrivesKeeps
  <2>8. ASSUME NEW q \in Request, Send(q)
        PROVE  Once(r)'
    BY <1>2, <1>4, <2>1, <2>8, SendOtherKeeps
  <2>9. ASSUME NEW s \in Socket, InitialConnect(s)
        PROVE  Once(r)'
    BY <1>2, <2>1, <2>9, InitialConnectKeeps
  <2>10. ASSUME NEW s \in Socket, Reconnect(s)
         PROVE  Once(r)'
    BY <1>2, <2>1, <2>10, ReconnectKeeps
  <2>11. ASSUME NEW s \in Socket, GreetingIgnored(s)
         PROVE  Once(r)'
    BY <1>2, <2>1, <2>11, GreetingIgnoredKeeps
  <2>12. ASSUME NEW s \in Socket, RequestArrives(s)
         PROVE  Once(r)'
    BY <1>2, <2>1, <2>12, RequestArrivesKeeps
  <2>13. ASSUME NEW s \in Socket, SocketDisconnects(s)
         PROVE  Once(r)'
    BY <1>2, <2>1, <2>13, SocketDisconnectsKeeps
  <2>14. ASSUME NEW d \in Context, NEW q \in Request, Reply(d, q)
         PROVE  Once(r)'
    BY <1>2, <2>1, <2>14, ReplyKeeps, ReplyOtherKeeps
  <2>15. ASSUME NEW p \in Page, TimeoutCloses(p)
         PROVE  Once(r)'
    BY <1>2, <2>1, <2>15, TimeoutClosesKeeps
  <2> QED
    BY <2>2, <2>3, <2>4, <2>5, <2>6, <2>7, <2>8, <2>9, <2>10, <2>11, <2>12, <2>13,
       <2>14, <2>15 DEF Next, FrontHears, BackHears
<1> QED
  BY <1>3, <1>4

\* Who waits waits on the open channel, and while the back end keeps its context
\* the message, or its reply, is in one place, once: what a link that broke, the
\* head of a buffer or a full buffer took with it is in lost, and nothing else is
\* dropped or repeated, however often the front end reconnects.
THEOREM MessagesSurvive == Spec => []NothingVanishes
<1>1. Init => HearInv /\ CopyInv
  BY InitHear, InitCopy
<1>2. /\ IInv /\ IInv' /\ OwnInv /\ HearInv /\ CopyInv /\ [Next]_vars
      => HearInv' /\ CopyInv'
  BY HearNext, CopyNext
<1>3. IInv /\ OwnInv /\ [Next]_vars => OwnInv'
  BY OwnNext
<1>4. IInv /\ CopyInv => NothingVanishes
  <2> SUFFICES ASSUME IInv, CopyInv, NEW r \in Request, request[r].state = "pending"
               PROVE  /\ front.open /\ request[r].channel = front.channel
                      /\ \/ late \/ r \in lost
                         \/ context[front.channel].state # "open"
                         \/ Cardinality(Copies(r)) = 1
    BY DEF NothingVanishes
  <2>1. front.open /\ request[r].channel = front.channel
    BY DEF IInv, PendingIsOpen
  <2>2. Alive(r) => Cardinality(Copies(r)) = 1
    BY OneCopy DEF CopyInv
  <2> QED
    BY <2>1, <2>2 DEF Alive
<1> QED
  BY <1>1, <1>2, <1>3, <1>4, Inductive, InitOwn, PTL DEF Spec
=============================================================================
