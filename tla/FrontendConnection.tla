------------------------- MODULE FrontendConnection -------------------------
(* The connection of a Theia front end to its back end: a Socket.IO client   *)
(* that reconnects for ever (ws-connection-source.ts), the back end's        *)
(* connection contexts (websocket-frontend-connection-service.ts), what each *)
(* side buffers while it has no link (socket-write-buffer.ts) and the        *)
(* requests the front end has pending on its channel (rpc-protocol.ts).      *)
(*                                                                           *)
(* A link may break at any moment, and each end notices when it will: the    *)
(* back end often only after the front end is back on another link.          *)
(*                                                                           *)
(* A context and the channel the front end opens on it have one name, the    *)
(* socket on which they were made.  The services multiplexed on a channel    *)
(* are one service, whose requests are the members of Request.               *)
EXTENDS Integers, FiniteSets, Sequences, SequencesExt

CONSTANTS Request,      \* the requests the front end makes
          MaxBreaks     \* bound: how often a link breaks by itself

ASSUME BreaksAssumption == MaxBreaks \in Nat

VARIABLES
  config,      \* [reload: reloadOnReconnect, timeout: frontendConnectionTimeout]
  front,       \* the front end: its page, socket, channel and buffer
  request,     \* what the caller of each request sees, and on which channel
  socket,      \* every socket there has been, as the back end sees it
  toBack,      \* messages on their way, per socket
  toFront,
  byFrontend,  \* connectionsByFrontend: page -> context, 0 if none
  context,     \* the ReconnectableSocketChannels
  timer,       \* closeTimeouts: the handle in the map, and those it has lost
  marked,      \* channelsMarkedForClose
  breaks,      \* how many links have broken
  lost,        \* requests that went down with a link or behind another message
  late         \* the back end heard of a socket its front end had replaced

front_vars == <<front, request>>
back_vars  == <<byFrontend, context, timer, marked, late>>
vars == <<config, front, request, socket, toBack, toFront, byFrontend,
          context, timer, marked, breaks, lost, late>>

\* A break costs at most two sockets: one that is told its context is gone,
\* and the next, on which the front end starts again.
Socket  == 1 .. 2 * MaxBreaks + 1
Context == Socket
None    == 0
Page    == Socket \cup {0}    \* the front end id of a page load, named by the
                             \* socket on which the page before it gave up

Greeting == {"initialConnection", "reconnect"}
Answer   == {"initialConnection", "reconnected", "refused"}
Message(Kind) == [kind : Kind, load : {<<>>}]
                   \cup [kind : {"data"}, load : Seq(Request) \ {<<>>}]
Said(kind)    == [kind |-> kind, load |-> <<>>]
Carrying(rs)  == [kind |-> "data", load |-> rs]

TypeOK ==
  /\ config \in [reload : BOOLEAN, timeout : {"zero", "positive", "negative"}]
  /\ front \in [page : Page, socket : Socket \cup {None}, connected : BOOLEAN,
                greeting : BOOLEAN, channel : Context \cup {None},
                open : BOOLEAN, buffer : Seq(Request)]
  /\ request \in [Request -> [state : {"idle", "pending", "settled"},
                              channel : Context \cup {None}]]
  /\ socket \in [Socket -> [page : Page, link : {"none", "up", "broken"},
                            connected : BOOLEAN, greeted : BOOLEAN,
                            serves : Context \cup {None}]]
  /\ toBack \in [Socket -> Seq(Message(Greeting))]
  /\ toFront \in [Socket -> Seq(Message(Answer))]
  /\ byFrontend \in [Page -> Context \cup {None}]
  /\ context \in [Context -> [state : {"none", "open", "closed"}, page : Page,
                              socket : Socket \cup {None},
                              buffer : Seq(Request), working : SUBSET Request]]
  /\ timer \in [Page -> [set : BOOLEAN, orphans : Nat]]
  /\ marked \in SUBSET Page
  /\ breaks \in 0 .. MaxBreaks
  /\ lost \in SUBSET Request
  /\ late \in BOOLEAN

Init ==
  /\ config \in [reload : BOOLEAN, timeout : {"zero", "positive", "negative"}]
  /\ front = [page |-> 0, socket |-> None, connected |-> FALSE,
              greeting |-> FALSE, channel |-> None, open |-> FALSE,
              buffer |-> <<>>]
  /\ request = [r \in Request |-> [state |-> "idle", channel |-> None]]
  /\ socket = [s \in Socket |-> [page |-> 0, link |-> "none",
                                 connected |-> FALSE, greeted |-> FALSE,
                                 serves |-> None]]
  /\ toBack = [s \in Socket |-> <<>>]
  /\ toFront = [s \in Socket |-> <<>>]
  /\ byFrontend = [p \in Page |-> None]
  /\ context = [c \in Context |-> [state |-> "none", page |-> 0,
                                   socket |-> None, buffer |-> <<>>,
                                   working |-> {}]]
  /\ timer = [p \in Page |-> [set |-> FALSE, orphans |-> 0]]
  /\ marked = {} /\ breaks = 0 /\ lost = {} /\ late = FALSE
-----------------------------------------------------------------------------
\* SocketWriteBuffer.  flush hands all that was buffered to the socket as
\* one message, and the receiver parses one message: the head.
Buffered(buffer, r) == Append(buffer, r)
Flushed(buffer) == IF buffer = <<>> THEN <<>> ELSE <<Carrying(buffer)>>

\* Regression: flush leaves the buffer as it is.
NotReset(buffer) == buffer

AfterFlush(buffer) == <<>>

\* Regression: drain drops nothing.
NotDrained(buffer) == buffer

Drained(buffer) == <<>>

OnLink(s) == front.socket = s /\ front.connected
Loads(messages) == UNION {Range(messages[i].load) : i \in DOMAIN messages}

\* What is sent to an end that is gone goes nowhere.
BackGets(s, messages) ==
  IF socket[s].connected
  THEN /\ toBack' = [toBack EXCEPT ![s] = @ \o messages]
       /\ UNCHANGED lost
  ELSE /\ lost' = lost \cup Loads(messages)
       /\ UNCHANGED toBack

\* What is left on a link when the front end leaves it.
FrontLeaves(s, links) ==
  /\ toFront' = [toFront EXCEPT ![s] = <<>>]
  /\ lost' = lost \cup Loads(toFront[s])
  /\ socket' = links
-----------------------------------------------------------------------------
\* The link.

Break(s) ==
  /\ socket[s].link = "up"
  /\ breaks < MaxBreaks
  /\ breaks' = breaks + 1
  /\ socket' = [socket EXCEPT ![s].link = "broken"]
  /\ UNCHANGED <<config, front, request, toBack, toFront, back_vars, lost>>

\* The client reconnects.  What it had to say while it had no connection it
\* says first; then 'connect' makes it negotiate.
\* Regression: the front end asks with the word of the answer.
NegotiationByAnswer == IF front.channel = None THEN "initialConnection" ELSE "reconnected"

Negotiation == IF front.channel = None THEN "initialConnection" ELSE "reconnect"

Greetings == (IF front.greeting THEN <<Said("initialConnection")>> ELSE <<>>)
               \o <<Said(Negotiation)>>

FrontConnects ==
  \E s \in Socket :
    /\ ~ front.connected
    /\ socket[s].link = "none"
    /\ \A t \in Socket : t < s => socket[t].link # "none"
    /\ socket' = [socket EXCEPT ![s] =
                     [@ EXCEPT !.page = front.page, !.link = "up",
                               !.connected = TRUE]]
    /\ front' = [front EXCEPT !.socket = s, !.connected = TRUE,
                              !.greeting = FALSE]
    /\ toBack' = [toBack EXCEPT ![s] = Greetings]
    /\ UNCHANGED <<config, request, toFront, back_vars, breaks, lost>>

\* The client finds its link broken.  The channel stays: it now buffers.
FrontNotices ==
  LET s == front.socket
  IN /\ front.connected
     /\ socket[s].link = "broken"
     /\ front' = [front EXCEPT !.connected = FALSE]
     /\ FrontLeaves(s, socket)
     /\ UNCHANGED <<config, request, toBack, back_vars, breaks>>
-----------------------------------------------------------------------------
\* The front end.

\* Regression: a channel is closed before its onClose listeners are told.
Unheard == request

\* Rejected when the channel closes: its onClose listeners run first.
Rejected == [r \in Request |->
               IF request[r].state = "pending"
               THEN [request[r] EXCEPT !.state = "settled"] ELSE request[r]]

\* sendRequest: to the socket, to the buffer, or, if the buffer has no room
\* left for it, rejected on the spot.
Send(r) ==
  /\ front.open /\ request[r].state = "idle"
  /\ \/ /\ front.connected
        /\ request' = [request EXCEPT ![r] = [state |-> "pending",
                                              channel |-> front.channel]]
        /\ BackGets(front.socket, <<Carrying(<<r>>)>>)
        /\ UNCHANGED front
     \/ /\ ~ front.connected
        /\ request' = [request EXCEPT ![r] = [state |-> "pending",
                                              channel |-> front.channel]]
        /\ front' = [front EXCEPT !.buffer = Buffered(@, r)]
        /\ UNCHANGED <<toBack, lost>>
     \/ /\ ~ front.connected
        /\ request' = [request EXCEPT ![r] = [state |-> "settled",
                                              channel |-> front.channel]]
        /\ UNCHANGED <<front, toBack, lost>>
  /\ UNCHANGED <<config, socket, toFront, back_vars, breaks>>

Heard(kind) ==
  /\ front.connected
  /\ toFront[front.socket] # <<>>
  /\ Head(toFront[front.socket]).kind = kind

Taken(s) == toFront' = [toFront EXCEPT ![s] = Tail(@)]

\* connectNewChannel: the old channel closes and nothing it buffered stays.
ConnectNewChannel ==
  /\ Heard("initialConnection")
  /\ Taken(front.socket)
  /\ request' = Rejected
  /\ front' = [front EXCEPT !.channel = socket[front.socket].serves,
                            !.open = TRUE, !.buffer = Drained(@)]
  /\ UNCHANGED <<config, socket, toBack, back_vars, breaks, lost>>

ReconnectSucceeded ==
  /\ Heard("reconnected")
  /\ Taken(front.socket)
  /\ BackGets(front.socket, Flushed(front.buffer))
  /\ front' = [front EXCEPT !.buffer = AfterFlush(@)]
  /\ UNCHANGED <<config, request, socket, back_vars, breaks>>

\* The context is gone.  A front end that reloads is a new page with a new
\* id; one that does not closes its channel, and connects again with an
\* initial connect waiting to be sent.
ReconnectFailed ==
  LET s == front.socket
  IN /\ Heard("refused")
     /\ request' = Rejected
     /\ front' = IF config.reload
                 THEN [front EXCEPT !.page = s, !.connected = FALSE,
                                    !.channel = None, !.open = FALSE,
                                    !.buffer = <<>>]
                 ELSE [front EXCEPT !.connected = FALSE, !.greeting = TRUE,
                                    !.open = FALSE, !.buffer = Drained(@)]
     /\ FrontLeaves(s, [socket EXCEPT ![s].link = "broken"])
     /\ UNCHANGED <<config, toBack, back_vars, breaks>>

\* A reply settles the request it is for.  A closed channel hears nothing.
ReplyArrives ==
  LET load == Head(toFront[front.socket]).load
      r == Head(load)
  IN /\ Heard("data")
     /\ Taken(front.socket)
     /\ request' = IF /\ front.open /\ request[r].state = "pending"
                      /\ request[r].channel = front.channel
                   THEN [request EXCEPT ![r].state = "settled"] ELSE request
     /\ lost' = lost \cup Range(Tail(load))
     /\ UNCHANGED <<config, front, socket, toBack, back_vars, breaks>>
-----------------------------------------------------------------------------
\* The back end.

\* Regression: a timeout is forgotten, and not cleared.
NotCleared(timers, p) == timers

\* clearTimeout of the handle that closeTimeouts holds.
Cleared(timers, p) == [timers EXCEPT ![p].set = FALSE]

\* closeConnection, reached with a front end id.  Without a connection it
\* throws once the timeout is cleared.
Closed(contexts, c) ==
  IF c = None THEN contexts
  ELSE [contexts EXCEPT ![c] = [@ EXCEPT !.state = "closed",
                                         !.buffer = Drained(contexts[c].buffer)]]

ConnectionClosed(contexts, timers, p) ==
  /\ context' = Closed(contexts, byFrontend[p])
  /\ byFrontend' = [byFrontend EXCEPT ![p] = None]
  /\ timer' = Cleared(timers, p)

Asked(s, kind) ==
  /\ socket[s].connected
  /\ toBack[s] # <<>>
  /\ Head(toBack[s]).kind = kind
  /\ toBack' = [toBack EXCEPT ![s] = Tail(@)]

\* The front end has already introduced itself on a later socket.
Overtaken(s) == \E t \in Socket : /\ t > s /\ socket[t].greeted
                                  /\ socket[t].page = socket[s].page

\* What the back end says on a socket its front end has left is lost.
FrontGets(s, messages) ==
  IF OnLink(s)
  THEN toFront' = [toFront EXCEPT ![s] = @ \o messages] /\ UNCHANGED lost
  ELSE lost' = lost \cup Loads(messages) /\ UNCHANGED toFront

\* initialConnectListener: a context the front end still has is closed.
Created(contexts, c, p) ==
  [contexts EXCEPT ![c] = [state |-> "open", page |-> p, socket |-> c,
                           buffer |-> <<>>, working |-> {}]]

\* Regression: the context of the same front end is left open.
NotDiscarded(p) == context

Discarded(p) == Closed(context, byFrontend[p])

InitialConnect(s) ==
  LET p == socket[s].page
  IN /\ Asked(s, "initialConnection")
     /\ ~ socket[s].greeted
     /\ context' = Created(Discarded(p), s, p)
     /\ byFrontend' = [byFrontend EXCEPT ![p] = s]
     /\ timer' = IF byFrontend[p] = None THEN timer ELSE Cleared(timer, p)
     /\ socket' = [socket EXCEPT ![s] =
                     [@ EXCEPT !.greeted = TRUE, !.serves = s]]
     /\ late' = (late \/ Overtaken(s))
     /\ FrontGets(s, <<Said("initialConnection")>>)
     /\ UNCHANGED <<config, front_vars, marked, breaks>>

\* reconnectListener: the context moves to the new socket, and says there
\* what it had buffered.
Reconnect(s) ==
  LET p == socket[s].page
      c == byFrontend[p]
  IN /\ Asked(s, "reconnect")
     /\ ~ socket[s].greeted
     /\ \/ /\ c # None
           /\ context' = [context EXCEPT ![c] =
                            [@ EXCEPT !.socket = s,
                                      !.buffer = AfterFlush(context[c].buffer)]]
           /\ timer' = Cleared(timer, p)
           /\ socket' = [socket EXCEPT ![s] =
                           [@ EXCEPT !.greeted = TRUE, !.serves = c]]
           /\ FrontGets(s, <<Said("reconnected")>> \o Flushed(context[c].buffer))
        \/ /\ c = None
           /\ socket' = [socket EXCEPT ![s].greeted = TRUE]
           /\ FrontGets(s, <<Said("refused")>>)
           /\ UNCHANGED <<context, timer>>
     /\ late' = (late \/ Overtaken(s))
     /\ UNCHANGED <<config, front_vars, byFrontend, marked, breaks>>

\* Both listeners are taken off with the first greeting.
GreetingIgnored(s) ==
  /\ \E kind \in Greeting : Asked(s, kind)
  /\ socket[s].greeted
  /\ UNCHANGED <<config, front_vars, socket, toFront, back_vars, breaks, lost>>

\* The context a socket is heard by.
Listens(s) == /\ socket[s].serves # None
              /\ context[socket[s].serves].socket = s
              /\ context[socket[s].serves].state = "open"

RequestArrives(s) ==
  LET load == Head(toBack[s]).load
  IN /\ Asked(s, "data")
     /\ \/ /\ Listens(s)
           /\ context' = [context EXCEPT ![socket[s].serves].working =
                                           @ \cup {Head(load)}]
           /\ lost' = lost \cup Range(Tail(load))
        \/ /\ ~ Listens(s)
           /\ lost' = IF OnLink(s) THEN lost ELSE lost \cup Range(load)
           /\ UNCHANGED context
     /\ UNCHANGED <<config, front_vars, socket, toFront, byFrontend, timer,
                    marked, breaks, late>>

\* A handler is done: the reply goes to the socket or to the buffer, and if
\* the buffer has no room left, nowhere.
Reply(c, r) ==
  LET s == context[c].socket
      done == [context EXCEPT ![c].working = @ \ {r}]
      connected == s # None /\ (s = None \/ socket[s].connected)
  IN /\ r \in context[c].working
     /\ \/ /\ connected
           /\ context' = done
           /\ FrontGets(s, <<Carrying(<<r>>)>>)
        \/ /\ ~ connected
           /\ context' = [done EXCEPT ![c].buffer = Buffered(@, r)]
           /\ UNCHANGED <<toFront, lost>>
        \/ /\ ~ connected
           /\ context' = done
           /\ lost' = lost \cup {r}
           /\ UNCHANGED toFront
     /\ UNCHANGED <<config, front_vars, socket, toBack, byFrontend, timer,
                    marked, breaks, late>>

\* The 'disconnect' of a socket, with the context and the front end id it
\* was registered for.
Detached(c) == [context EXCEPT ![c].socket = None]

TimeoutSet(p) ==
  [timer EXCEPT ![p] = [set |-> TRUE,
                        orphans |-> @.orphans + (IF @.set THEN 1 ELSE 0)]]

SocketDisconnects(s) ==
  LET p == socket[s].page
      c == socket[s].serves
  IN /\ socket[s].connected /\ socket[s].link = "broken"
     /\ socket' = [socket EXCEPT ![s].connected = FALSE]
     /\ toBack' = [toBack EXCEPT ![s] = <<>>]
     /\ lost' = lost \cup Loads(toBack[s])
     /\ late' = (late \/ (c # None /\ Overtaken(s)))
     /\ \/ /\ c = None
           /\ UNCHANGED <<byFrontend, context, timer, marked>>
        \/ /\ c # None
           /\ marked' = marked \ {p}
           /\ \/ /\ config.timeout = "zero" \/ p \in marked
                 /\ ConnectionClosed(Detached(c), timer, p)
              \/ /\ config.timeout = "positive" /\ p \notin marked
                 /\ context' = Detached(c)
                 /\ timer' = TimeoutSet(p)
                 /\ UNCHANGED byFrontend
              \/ /\ config.timeout = "negative" /\ p \notin marked
                 /\ context' = Detached(c)
                 /\ UNCHANGED <<timer, byFrontend>>
     /\ UNCHANGED <<config, front_vars, toFront, breaks>>

\* A timer fires: the one the map holds, or one the map has lost.
TimeoutCloses(p) ==
  /\ \/ timer[p].set /\ ConnectionClosed(context, timer, p)
     \/ /\ timer[p].orphans > 0
        /\ ConnectionClosed(context, [timer EXCEPT ![p].orphans = @ - 1], p)
  /\ UNCHANGED <<config, front_vars, socket, toBack, toFront, marked, breaks,
                 lost, late>>

\* The front end, about to unload, asks for its context to be discarded as
\* soon as it disconnects.
MarkForClose ==
  /\ OnLink(front.socket) /\ front.open
  /\ Listens(front.socket)
  /\ marked' = marked \cup {front.page}
  /\ UNCHANGED <<config, front_vars, socket, toBack, toFront, byFrontend,
                 context, timer, breaks, lost, late>>
-----------------------------------------------------------------------------
FrontHears == \/ ConnectNewChannel \/ ReconnectSucceeded
              \/ ReconnectFailed \/ ReplyArrives

BackHears(s) == \/ InitialConnect(s) \/ Reconnect(s)
                \/ GreetingIgnored(s) \/ RequestArrives(s)

Next ==
  \/ FrontConnects \/ FrontNotices \/ FrontHears \/ MarkForClose
  \/ \E r \in Request : Send(r)
  \/ \E s \in Socket : Break(s) \/ BackHears(s) \/ SocketDisconnects(s)
  \/ \E c \in Context, r \in Request : Reply(c, r)
  \/ \E p \in Page : TimeoutCloses(p)

Spec == Init /\ [][Next]_vars

\* The client reconnects for ever, both ends have a ping timeout, and a
\* message on a link that lasts arrives.
Fairness ==
  /\ WF_vars(FrontConnects) /\ WF_vars(FrontNotices) /\ WF_vars(FrontHears)
  /\ \A s \in Socket : WF_vars(BackHears(s)) /\ WF_vars(SocketDisconnects(s))

FairSpec == Spec /\ Fairness
-----------------------------------------------------------------------------
\* Whatever contexts there have been, the back end keeps open exactly those
\* of connectionsByFrontend, each under the id of its own front end: no
\* context, with all its services, is left open and out of reach.
OneContext ==
  \A c \in Context : context[c].state = "open" <=>
                       byFrontend[context[c].page] = c

\* A context works on the requests of its own channel alone: what a front
\* end had buffered for a context that is gone is never done by the next.
OwnRequests ==
  \A c \in Context, r \in Request :
    (r \in context[c].working \/ r \in Range(context[c].buffer))
      => request[r].channel = c

\* The contexts are apart: what holds of each of them.  Their requests stay
\* apart as long as no greeting of a replaced socket came late.
ContextsAreApart == OneContext /\ (late \/ OwnRequests)

\* Where the message of a request, or of its reply, can be.
In(sequence, r) == {i \in DOMAIN sequence : sequence[i] = r}
Within(messages, r) ==
  UNION {{i} \X In(messages[i].load, r) : i \in DOMAIN messages}

Copies(r) ==
  LET c == request[r].channel
  IN   ({"front"} \X In(front.buffer, r))
  \cup ({"back"} \X In(context[c].buffer, r))
  \cup (IF r \in context[c].working THEN {<<"working", 0>>} ELSE {})
  \cup (UNION {{<<"to back", s>>} \X Within(toBack[s], r) : s \in Socket})
  \cup (UNION {{<<"to front", s>>} \X Within(toFront[s], r) : s \in Socket})

\* A pending request is one of the channel the front end has open, and while
\* the back end keeps the context of that channel, its message or its reply
\* is somewhere, once: reconnecting neither drops it nor repeats it.  Only
\* three things do lose it: a link that broke under it, another message
\* before it in the buffer, and a reply too long for the buffer -- and a
\* disconnect the back end noticed late.
NothingVanishes ==
  \A r \in Request :
    request[r].state = "pending" =>
      /\ front.open /\ request[r].channel = front.channel
      /\ \/ late \/ r \in lost
         \/ context[front.channel].state # "open"
         \/ Cardinality(Copies(r)) = 1

\* Both ends hold the same context on the same socket and have said what
\* they had buffered.
Joined ==
  /\ front.connected /\ front.open
  /\ front.channel = byFrontend[front.page]
  /\ context[front.channel].socket = front.socket
  /\ front.buffer = <<>> /\ context[front.channel].buffer = <<>>

\* Once the links have stopped breaking, a front end that reloads when its
\* context is gone ends up joined to a context, and stays so -- unless the
\* back end noticed a disconnect late.
JoinedAtLast == config.reload => <>[](Joined \/ late)
=============================================================================
