------------------------------- MODULE Broker -------------------------------
(***************************************************************************)
(* The reader's side of a message broker, one channel of it: PostgreSQL    *)
(* (message-broker-pg), Redis (message-broker-redis) or HTTP polling       *)
(* (message-broker-web).  Each load of the configuration makes an object   *)
(* for reading and one for publishing (handler/src/init.ts 421-433); this  *)
(* is the one for reading, on which one call of subscribe runs at a time,  *)
(* and whose messages the event loop takes with getNextMessage.            *)
(*                                                                         *)
(* Messages are published anywhere and numbered as the server gets them.   *)
(* The server sends them over the connection (PostgreSQL, Redis) as they   *)
(* come, or holds them until the next poll (web), which gets them all.     *)
(***************************************************************************)
EXTENDS Integers, Sequences, FiniteSets

CONSTANTS
  Kinds,     \* the brokers tried, each in behaviours of its own
  Polls,     \* polls that may be on their way at the same time
  MaxMsg,    \* bound: messages published
  MaxDrop    \* bound: connections lost, connections that fail, answers lost

ASSUME BrokerAssumption ==
  /\ Kinds \subseteq {"pg", "redis", "web"}
  /\ MaxMsg \in Nat /\ MaxDrop \in Nat

VARIABLES
  kind,        \* the broker
  sent,        \* how many messages were published
  conn,        \* client (pg) or subscriber (Redis), and what the server knows of it
  wire,        \* messages the server has sent over it, not yet received
  held,        \* messages a web server holds for the next poll
  poll,        \* per poll: where it is, and the messages of its answer
  polling,     \* pollTimer is set
  call,        \* where the call of subscribe is
  subscribed,  \* subscriptions.has(channel)
  queue,       \* messageQueue.get(channel); nothing there is an empty queue
  taken,       \* history: what getNextMessage returned, in order
  drops,       \* history: how often something was lost
  intact,      \* history: no connection has failed that this object cannot mend
  due          \* history: messages that have to be taken

connVars == <<conn, wire>>
webVars == <<held, poll, polling>>
history == <<drops, intact, due>>
vars == <<kind, sent, connVars, webVars, call, subscribed, queue, taken, history>>

\* conn.st: none before the first subscribe, opening, open, down.
\* conn.listens: the server sends it the channel's messages (as soon as it is
\* open); conn.handler: the function that receives them is registered.
NoConn == [st |-> "none", listens |-> FALSE, handler |-> FALSE]

NoPoll == [st |-> "free", msgs |-> <<>>]

MsgSeq == Seq(1..MaxMsg)

ToSet(s) == {s[i] : i \in DOMAIN s}

TypeOK ==
  /\ kind \in Kinds
  /\ sent \in 0..MaxMsg
  /\ conn \in [st : {"none", "opening", "open", "down"},
               listens : BOOLEAN, handler : BOOLEAN]
  /\ wire \in MsgSeq /\ held \in MsgSeq /\ queue \in MsgSeq /\ taken \in MsgSeq
  /\ poll \in [Polls -> [st : {"free", "asked", "answered"}, msgs : MsgSeq]]
  /\ polling \in BOOLEAN /\ subscribed \in BOOLEAN /\ intact \in BOOLEAN
  /\ call \in {"none", "connecting", "listening", "confirming", "done", "failed"}
  /\ drops \in 0..MaxDrop
  /\ due \subseteq 1..sent

Init ==
  /\ kind \in Kinds
  /\ sent = 0 /\ conn = NoConn /\ wire = <<>>
  /\ held = <<>> /\ poll = [p \in Polls |-> NoPoll] /\ polling = FALSE
  /\ call = "none" /\ subscribed = FALSE /\ queue = <<>>
  /\ taken = <<>> /\ drops = 0 /\ intact = TRUE /\ due = {}

-----------------------------------------------------------------------------
\* subscribe of PostgreSQL and Redis.

\* ensureConnected: pg's connected is false after an error, and a new client
\* takes the place of the old one; Redis' subscriber is kept, whatever happens
\* to it, until close.
IsConnected == CASE kind = "pg"    -> conn.st = "open"
                 [] kind = "redis" -> conn.st # "none"

\* After ensureConnected: nothing more is done if the channel is in
\* subscriptions, otherwise LISTEN or SUBSCRIBE leaves.
AfterConnect == IF subscribed THEN "done" ELSE "listening"

Idle == call \in {"none", "done", "failed"}

\* Mutant: the queue is made anew by every subscribe.
SubscribeMutant ==
  /\ kind \in {"pg", "redis"}
  /\ Idle
  /\ queue' = <<>>
  /\ IF IsConnected
     THEN call' = AfterConnect /\ UNCHANGED connVars
     ELSE /\ call' = "connecting"
          /\ conn' = [NoConn EXCEPT !.st = "opening"]
          /\ wire' = <<>>
  /\ UNCHANGED <<kind, sent, webVars, subscribed, taken, history>>

Subscribe ==
  /\ kind \in {"pg", "redis"}
  /\ Idle
  /\ IF IsConnected
     THEN call' = AfterConnect /\ UNCHANGED connVars
     ELSE /\ call' = "connecting"
          /\ conn' = [NoConn EXCEPT !.st = "opening"]
          /\ wire' = <<>>
  /\ UNCHANGED <<kind, sent, webVars, subscribed, queue, taken, history>>

\* The connection is open; its handlers are registered.
Connected ==
  /\ call = "connecting"
  /\ conn' = [conn EXCEPT !.st = "open", !.handler = TRUE]
  /\ call' = AfterConnect
  /\ UNCHANGED <<kind, sent, wire, webVars, subscribed, queue, taken, history>>

Lost == drops < MaxDrop /\ drops' = drops + 1

\* connect() rejects.  Redis' subscriber stays, and goes on trying to connect,
\* but without its handler of messages; unless it was the publisher's connect(),
\* which comes first.
ConnectFails ==
  /\ call = "connecting"
  /\ Lost
  /\ \/ kind = "pg" /\ conn' = [conn EXCEPT !.st = "down"] /\ UNCHANGED intact
     \/ kind = "redis" /\ conn' = [conn EXCEPT !.st = "down"] /\ intact' = FALSE
     \/ kind = "redis" /\ conn' = NoConn /\ UNCHANGED intact
  /\ call' = "failed"
  /\ UNCHANGED <<kind, sent, wire, webVars, subscribed, queue, taken, due>>

\* The server executes LISTEN or SUBSCRIBE.
Listen ==
  /\ call = "listening" /\ conn.st = "open"
  /\ conn' = [conn EXCEPT !.listens = TRUE]
  /\ call' = "confirming"
  /\ UNCHANGED <<kind, sent, wire, webVars, subscribed, queue, taken, history>>

\* Its answer arrives.  Messages that came before in the same packet are in the
\* queue already, and are lost with it.
Confirm ==
  /\ call = "confirming"
  /\ subscribed' = TRUE
  /\ queue' = <<>>
  /\ call' = "done"
  /\ UNCHANGED <<kind, sent, connVars, webVars, taken, history>>

\* LISTEN or SUBSCRIBE is refused.
ListenFails ==
  /\ call = "listening"
  /\ Lost
  /\ call' = "failed"
  /\ UNCHANGED <<kind, sent, connVars, webVars, subscribed, queue, taken, intact, due>>

-----------------------------------------------------------------------------
\* Messages of PostgreSQL and Redis.

\* A message published now has to be taken: subscribe has been resolved, and
\* nothing happened since that this object does not mend.
Hears == subscribed /\ (kind = "web" \/ (intact /\ conn.st = "open"))

\* The server gets a message, from any program's publish.
Publish ==
  /\ sent < MaxMsg
  /\ sent' = sent + 1
  /\ IF kind = "web"
     THEN held' = Append(held, sent + 1) /\ UNCHANGED wire
     ELSE /\ wire' = IF conn.st = "open" /\ conn.listens
                     THEN Append(wire, sent + 1) ELSE wire
          /\ UNCHANGED held
  /\ due' = IF Hears THEN due \cup {sent + 1} ELSE due
  /\ UNCHANGED <<kind, conn, poll, polling, call, subscribed, queue, taken, drops, intact>>

\* handleNotification, handleMessage.
Receive ==
  /\ wire # <<>>
  /\ wire' = Tail(wire)
  /\ queue' = IF conn.handler THEN Append(queue, Head(wire)) ELSE queue
  /\ UNCHANGED <<kind, sent, conn, webVars, call, subscribed, taken, history>>

\* The connection is lost, with what is on it.  pg's client rejects the query
\* that waits and is not used again; Redis' sends its command once more.
Drop ==
  /\ kind \in {"pg", "redis"} /\ conn.st = "open"
  /\ Lost
  /\ wire' = <<>>
  /\ due' = due \ ToSet(wire)
  /\ conn' = [conn EXCEPT !.st = "down",
                          !.listens = kind = "redis" /\ call # "confirming" /\ @]
  /\ call' = IF call \notin {"listening", "confirming"} THEN call
             ELSE IF kind = "pg" THEN "failed" ELSE "listening"
  /\ intact' = IF kind = "pg" THEN intact /\ ~subscribed ELSE intact
  /\ UNCHANGED <<kind, sent, webVars, subscribed, queue, taken>>

\* ioredis connects again, and subscribes again to the channels it had.
Reconnect ==
  /\ kind = "redis" /\ conn.st = "down"
  /\ conn' = [conn EXCEPT !.st = "open"]
  /\ UNCHANGED <<kind, sent, wire, webVars, call, subscribed, queue, taken, history>>

\* close: the connections end; subscriptions and queue stay as they are.
Close ==
  /\ kind \in {"pg", "redis"} /\ conn.st # "none" /\ Idle
  /\ conn' = NoConn /\ wire' = <<>>
  /\ intact' = (intact /\ ~subscribed)
  /\ due' = due \ ToSet(wire)
  /\ UNCHANGED <<kind, sent, webVars, call, subscribed, queue, taken, drops>>

-----------------------------------------------------------------------------
\* Polling.

\* Mutant: pollTimer is not null after close, and startPolling does nothing.
SubscribeWebMutant ==
  /\ kind = "web" /\ ~subscribed
  /\ subscribed' = TRUE /\ queue' = <<>> /\ call' = "done"
  /\ polling' = (call = "none")
  /\ UNCHANGED <<kind, sent, connVars, held, poll, taken, history>>

\* subscribe, startPolling: all in one turn.
SubscribeWeb ==
  /\ kind = "web" /\ ~subscribed
  /\ subscribed' = TRUE /\ queue' = <<>> /\ polling' = TRUE /\ call' = "done"
  /\ UNCHANGED <<kind, sent, connVars, held, poll, taken, history>>

\* The interval fires; it does not wait for the poll before.
Poll(p) ==
  /\ polling /\ poll[p].st = "free"
  /\ poll' = [poll EXCEPT ![p].st = "asked"]
  /\ UNCHANGED <<kind, sent, connVars, held, polling, call, subscribed, queue, taken, history>>

\* The server answers with all it holds.
Serve(p) ==
  /\ poll[p].st = "asked"
  /\ poll' = [poll EXCEPT ![p] = [st |-> "answered", msgs |-> held]]
  /\ held' = <<>>
  /\ UNCHANGED <<kind, sent, connVars, polling, call, subscribed, queue, taken, history>>

\* Mutant: "204 No Content" is queued as if it were a message.
AnswerMutant(p) ==
  /\ poll[p].st = "answered"
  /\ queue' = IF poll[p].msgs = <<>> THEN Append(queue, 0) ELSE queue \o poll[p].msgs
  /\ poll' = [poll EXCEPT ![p] = NoPoll]
  /\ UNCHANGED <<kind, sent, connVars, held, polling, call, subscribed, taken, history>>

\* The answer is queued, be it after close.
Answer(p) ==
  /\ poll[p].st = "answered"
  /\ queue' = queue \o poll[p].msgs
  /\ poll' = [poll EXCEPT ![p] = NoPoll]
  /\ UNCHANGED <<kind, sent, connVars, held, polling, call, subscribed, taken, history>>

\* The request or its answer is lost, or the answer is not what was expected.
PollFails(p) ==
  /\ poll[p].st # "free"
  /\ Lost
  /\ poll' = [poll EXCEPT ![p] = NoPoll]
  /\ due' = due \ ToSet(poll[p].msgs)
  /\ UNCHANGED <<kind, sent, connVars, held, polling, call, subscribed, queue, taken, intact>>

\* close, stopPolling.
CloseWeb ==
  /\ kind = "web" /\ subscribed
  /\ subscribed' = FALSE /\ queue' = <<>> /\ polling' = FALSE /\ due' = {}
  /\ UNCHANGED <<kind, sent, connVars, held, poll, call, taken, drops, intact>>

-----------------------------------------------------------------------------
\* Mutant: the last message that came, not the first.
TakeMutant ==
  /\ queue # <<>>
  /\ taken' = Append(taken, queue[Len(queue)])
  /\ queue' = SubSeq(queue, 1, Len(queue) - 1)
  /\ due' = due \ {queue[Len(queue)]}
  /\ UNCHANGED <<kind, sent, connVars, webVars, call, subscribed, drops, intact>>

\* getNextMessage, called by the event loop.
Take ==
  /\ queue # <<>>
  /\ taken' = Append(taken, Head(queue))
  /\ queue' = Tail(queue)
  /\ due' = due \ {Head(queue)}
  /\ UNCHANGED <<kind, sent, connVars, webVars, call, subscribed, drops, intact>>

PollSteps(p) == Poll(p) \/ Serve(p) \/ Answer(p) \/ PollFails(p)

Next ==
  \/ Subscribe \/ Connected \/ ConnectFails \/ Listen \/ ListenFails \/ Confirm
  \/ Publish \/ Receive \/ Drop \/ Reconnect \/ Close
  \/ SubscribeWeb \/ CloseWeb
  \/ \E p \in Polls : PollSteps(p)
  \/ Take

\* What travels arrives or is lost, the interval of the polls and that of the
\* event loop fire.  Nobody has to subscribe, publish or close.
Fairness ==
  /\ WF_vars(Receive) /\ WF_vars(Take)
  /\ \A p \in Polls : WF_vars(PollSteps(p))

Spec == Init /\ [][Next]_vars

FairSpec == Spec /\ Fairness

-----------------------------------------------------------------------------
\* The promise: a message is taken once, and over PostgreSQL and Redis in the
\* order of publication (message-broker/src/index.ts, interface MessageBroker).
\* Polls that overlap may change the order.
C == INSTANCE Channel WITH ordered <- (kind # "web"), taken <- ToSet(taken)

ChannelSpec == C!Spec

\* A message published after subscribe has been resolved is kept until it is
\* taken, unless the connection or the answer it is on is lost: neither a second
\* subscribe nor the one that is being confirmed throws it away.  For pg up to
\* the first lost connection, after which the object hears nothing more; for
\* Redis unless its first connection failed (the queue of
\* message-broker-*/src/index.ts).
NoneForgotten ==
  due \subseteq ToSet(wire) \cup ToSet(held) \cup ToSet(queue)
                \cup UNION {ToSet(poll[p].msgs) : p \in Polls}

\* Such a message is taken, or lost with its connection or answer, in the end:
\* polls and events go on after errors and after close and subscribe.
Heard == \A n \in 1..MaxMsg : n \in due ~> n \notin due

=============================================================================
