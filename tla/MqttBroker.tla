----------------------------- MODULE MqttBroker -----------------------------
(***************************************************************************)
(* The broker of mqttrs-1: the shared-state task (broker.rs), one handler  *)
(* task per TCP connection (broker/client_handler.rs) with its connection  *)
(* timeout task, and the two kinds of bounded tokio channels between them: *)
(* one channel into the broker, shared by every handler, and one channel   *)
(* into each handler.                                                      *)
(*                                                                         *)
(* A step is what a task does between two awaits that another task can     *)
(* observe.  An await on a full channel is a step that is not enabled.     *)
(* Packets are chosen when the handler reads them, so every client,        *)
(* well-behaved or not, is an environment of this specification.  The      *)
(* sessions' QoS transactions are the subject of module QosSession.        *)
(***************************************************************************)
EXTENDS Naturals, Sequences, FiniteSets

CONSTANTS
    Conn,        \* TCP connections, each accepted once
    ClientId,    \* client identifiers of Connect packets
    Topic,       \* topic paths
    None,        \* "no such connection, identifier, topic or message"
    IdsOf,       \* IdsOf[c]: the identifiers connection c may connect with
    WillsOf,     \* WillsOf[c]: its last will's topic, None for no last will
    BrokerCap,   \* capacity of the channel into the broker
    HandlerCap,  \* capacity of the channel into each handler
    MaxPublish   \* bound: MaxPublish[c] Publish packets are read from c

ASSUME NoneAssumption ==
    None \notin Conn /\ None \notin ClientId /\ None \notin Topic
ASSUME IdsAssumption == IdsOf \in [Conn -> SUBSET ClientId]
ASSUME WillsAssumption == WillsOf \in [Conn -> SUBSET (Topic \cup {None})]
ASSUME CapAssumption == BrokerCap \in Nat \ {0} /\ HandlerCap \in Nat \ {0}
ASSUME BoundAssumption == MaxPublish \in [Conn -> Nat]

VARIABLES
    task,            \* where each connection's handler task is
    state,           \* ClientHandler.state: Initialized or Connected
    session,         \* the Session built from the Connect packet
    disconnectSeen,  \* ClientHandler.disconnect_pkt_seen
    timer,           \* is the connection timeout task still to send?
    inbox,           \* the channel into each handler (broker_rx)
    outbox,          \* messages a handler is awaiting to hand to the broker
    published,       \* Publish packets read so far (numbers the payloads)
    asked,           \* topics the client has asked for, in the order handled
    brokerQ,         \* the channel into the broker (Broker.msg)
    current,         \* the Publish being fanned out and who is still to get it
    clients,         \* Broker.clients: the channel of each registered client
    topics,          \* Broker.clients: ClientInfo.topics
    subscriptions,   \* Broker.subscriptions
    alive            \* FALSE once Broker::run has returned an error

handlerVars == <<task, state, session, disconnectSeen, timer, published, asked>>
brokerVars == <<current, clients, topics, subscriptions, alive>>
vars == <<task, state, session, disconnectSeen, timer, inbox, outbox,
          published, asked, brokerQ, current, clients, topics, subscriptions,
          alive>>

-----------------------------------------------------------------------------
(* Messages.                                                               *)

\* A Publish packet; the payload is its sender and the sender's count, which
\* tells any two packets apart.  A last will counts as one more packet.
Packet == [topic : Topic, from : Conn, n : Nat]

ToBroker ==
       [type : {"ClientConnected"}, client : ClientId, client_tx : Conn]
  \cup [type : {"ClientDisconnected"}, client : ClientId]
  \cup [type : {"Publish"}, client : ClientId, packet : Packet]
  \cup [type : {"Subscribe", "Unsubscribe"}, client : ClientId,
        topics : SUBSET Topic]

ToHandler ==
       [type : {"Publish"}, client : ClientId, packet : Packet]
  \cup [type : {"ClientConnectionTimeout"}]

\* No fan-out is None either.
ASSUME CurrentAssumption ==
    None \notin [msg : [type : {"Publish"}, client : ClientId, packet : Packet],
                rem : SUBSET ClientId]

\* The packets update_state and handle_packet answer with an error.
ViolationsAsInitialized ==
    {"Connack", "Publish", "Puback", "Pubrec", "Pubrel", "Pubcomp",
     "Subscribe", "Suback", "Unsubscribe", "Unsuback", "Pingreq", "Pingresp",
     "Disconnect", "Undecodable", "ReadError"}
ViolationsAsConnected ==
    {"Connect", "Connack", "Suback", "Unsuback", "Pingresp",
     "EmptySubscribe", "EmptyUnsubscribe", "Undecodable", "ReadError"}

Violations(s) == IF s = "Initialized" THEN ViolationsAsInitialized
                                      ELSE ViolationsAsConnected

-----------------------------------------------------------------------------
(* The handler task.                                                       *)
(*   "none"     no TCP connection accepted yet                             *)
(*   "select"   in tokio::select!, ready for a packet or a broker message  *)
(*   "sending"  awaiting send_broker while it handles a packet             *)
(*   "leaving"  the peer closed: on_client_disconnect, broker_rx still up  *)
(*   "failed"   an error: on_client_disconnect, broker_rx already dropped  *)
(*   "gone"     the task has returned                                      *)

\* The handler still owns the receiving end of its channel.
RxOpen(c) == task[c] \in {"select", "sending", "leaving"}

\* A mistake in on_client_disconnect: the last will is always sent.
WillAlways(c) ==
    LET s == session[c]
        will == [type |-> "Publish", client |-> s.id,
                 packet |-> [topic |-> s.will, from |-> c,
                             n |-> published[c] + 1]]
        bye == [type |-> "ClientDisconnected", client |-> s.id]
    IN  IF s.will # None THEN <<will, bye>> ELSE <<bye>>

\* on_client_disconnect: the last will goes first, and only when the client
\* did not announce its leaving.
DisconnectMsgs(c) ==
    LET s == session[c]
        will == [type |-> "Publish", client |-> s.id,
                 packet |-> [topic |-> s.will, from |-> c,
                             n |-> published[c] + 1]]
        bye == [type |-> "ClientDisconnected", client |-> s.id]
    IN  IF ~disconnectSeen[c] /\ s.will # None THEN <<will, bye>> ELSE <<bye>>


\* ClientHandler::run after listen_for_messages returned an error: the
\* receiver is dropped with what it held, then the disconnect is announced.
Fail(c, connected) ==
    /\ task' = [task EXCEPT ![c] = IF connected THEN "failed" ELSE "gone"]
    /\ outbox' = [outbox EXCEPT ![c] = IF connected THEN DisconnectMsgs(c)
                                                    ELSE <<>>]
    /\ inbox' = [inbox EXCEPT ![c] = <<>>]

\* A new TCP connection: the handler starts with its timeout task.
Accept(c) ==
    /\ alive /\ task[c] = "none"
    /\ task' = [task EXCEPT ![c] = "select"]
    /\ timer' = [timer EXCEPT ![c] = "armed"]
    /\ UNCHANGED <<state, session, disconnectSeen, inbox, outbox, published,
                   asked, brokerQ, brokerVars>>

\* The handler begins to await send_broker(m).
Send(c, m) ==
    /\ task' = [task EXCEPT ![c] = "sending"]
    /\ outbox' = [outbox EXCEPT ![c] = <<m>>]

\* update_state on the first Connect: the session is built, the broker told.
RecvConnect(c) ==
    /\ alive /\ task[c] = "select" /\ state[c] = "Initialized"
    /\ \E id \in IdsOf[c], will \in WillsOf[c] :
          /\ session' = [session EXCEPT ![c] = [id |-> id, will |-> will]]
          /\ Send(c, [type |-> "ClientConnected", client |-> id,
                      client_tx |-> c])
    /\ UNCHANGED <<state, disconnectSeen, timer, inbox, published, asked,
                   brokerQ, brokerVars>>

\* handle_publish: acknowledged to the client (QoS 1 and 2) and then handed
\* to the broker.
RecvPublish(c) ==
    /\ alive /\ task[c] = "select" /\ state[c] = "Connected"
    /\ published[c] < MaxPublish[c]
    /\ \E t \in Topic :
          Send(c, [type |-> "Publish", client |-> session[c].id,
                   packet |-> [topic |-> t, from |-> c,
                               n |-> published[c] + 1]])
    /\ published' = [published EXCEPT ![c] = @ + 1]
    /\ UNCHANGED <<state, session, disconnectSeen, timer, inbox, asked,
                   brokerQ, brokerVars>>

\* handle_subscribe: the Suback leaves before the broker is told.
RecvSubscribe(c) ==
    /\ alive /\ task[c] = "select" /\ state[c] = "Connected"
    /\ \E ts \in SUBSET Topic \ {{}} :
          /\ Send(c, [type |-> "Subscribe", client |-> session[c].id,
                      topics |-> ts])
          /\ asked' = [asked EXCEPT ![c] = @ \cup ts]
    /\ UNCHANGED <<state, session, disconnectSeen, timer, inbox, published,
                   brokerQ, brokerVars>>

\* handle_unsubscribe: the broker is told before the Unsuback leaves.
RecvUnsubscribe(c) ==
    /\ alive /\ task[c] = "select" /\ state[c] = "Connected"
    /\ \E ts \in SUBSET Topic \ {{}} :
          /\ Send(c, [type |-> "Unsubscribe", client |-> session[c].id,
                      topics |-> ts])
          /\ asked' = [asked EXCEPT ![c] = @ \ ts]
    /\ UNCHANGED <<state, session, disconnectSeen, timer, inbox, published,
                   brokerQ, brokerVars>>

\* A mistake in handle_disconnect: the broker is told at once.
DisconnectAtOnce(c) ==
    /\ alive /\ task[c] = "select" /\ state[c] = "Connected"
    /\ disconnectSeen' = [disconnectSeen EXCEPT ![c] = TRUE]
    /\ Send(c, [type |-> "ClientDisconnected", client |-> session[c].id])
    /\ UNCHANGED <<state, session, timer, inbox, published, asked, brokerQ,
                   brokerVars>>

\* handle_disconnect only remembers the packet: the handler keeps serving the
\* connection until the peer closes it.
RecvDisconnect(c) ==
    /\ alive /\ task[c] = "select" /\ state[c] = "Connected"
    /\ disconnectSeen' = [disconnectSeen EXCEPT ![c] = TRUE]
    /\ UNCHANGED <<task, state, session, timer, inbox, outbox, published,
                   asked, brokerQ, brokerVars>>

\* A packet the handler rejects, or a failed read; which one makes no
\* difference.
RecvViolation(c) ==
    /\ alive /\ task[c] = "select"
    /\ Violations(state[c]) # {} /\ Fail(c, state[c] = "Connected")
    /\ UNCHANGED <<state, session, disconnectSeen, timer, published, asked,
                   brokerQ, brokerVars>>

\* A packet whose answer cannot be written: Puback, Pubrec or Suback of a
\* Publish or Subscribe (which then never reaches the broker), Pubrel,
\* Pubcomp or Pingresp.  Written answers change nothing here.
AnswerFails(c) ==
    /\ alive /\ task[c] = "select" /\ state[c] = "Connected"
    /\ Fail(c, TRUE)
    /\ UNCHANGED <<state, session, disconnectSeen, timer, published, asked,
                   brokerQ, brokerVars>>

\* The peer closed its end.  The receiver stays open while the disconnect is
\* announced.
RecvEof(c) ==
    /\ alive /\ task[c] = "select"
    /\ IF state[c] = "Connected"
       THEN /\ task' = [task EXCEPT ![c] = "leaving"]
            /\ outbox' = [outbox EXCEPT ![c] = DisconnectMsgs(c)]
            /\ inbox' = inbox
       ELSE Fail(c, FALSE)
    /\ UNCHANGED <<state, session, disconnectSeen, timer, published, asked,
                   brokerQ, brokerVars>>

\* Mistakes in the choice of the channel: an unbounded one, and try_send.
DeliverUnbounded(c) ==
    /\ alive /\ outbox[c] # <<>>
    /\ brokerQ' = Append(brokerQ, Head(outbox[c]))

\* The broker's channel takes the message the handler is waiting to send.
Deliver(c) ==
    /\ alive /\ outbox[c] # <<>> /\ Len(brokerQ) < BrokerCap
    /\ brokerQ' = Append(brokerQ, Head(outbox[c]))

\* update_state after send_broker, then handle_connect: the timeout task is
\* aborted, the handler is Connected and writes the Connack.
SentConnected(c) ==
    /\ task[c] = "sending" /\ Deliver(c)
    /\ Head(outbox[c]).type = "ClientConnected"
    /\ state' = [state EXCEPT ![c] = "Connected"]
    /\ timer' = [timer EXCEPT ![c] = "off"]
    /\ \/ /\ task' = [task EXCEPT ![c] = "select"]
          /\ outbox' = [outbox EXCEPT ![c] = <<>>]
          /\ inbox' = inbox
       \/ Fail(c, TRUE)
    /\ UNCHANGED <<session, disconnectSeen, published, asked, brokerVars>>

\* send_broker of a Publish, Subscribe or Unsubscribe returns; the latter
\* still has its Unsuback to write.
SentRequest(c) ==
    /\ task[c] = "sending" /\ Deliver(c)
    /\ Head(outbox[c]).type # "ClientConnected"
    /\ \/ /\ task' = [task EXCEPT ![c] = "select"]
          /\ outbox' = [outbox EXCEPT ![c] = <<>>]
          /\ inbox' = inbox
       \/ Head(outbox[c]).type = "Unsubscribe" /\ Fail(c, TRUE)
    /\ UNCHANGED <<state, session, disconnectSeen, timer, published, asked,
                   brokerVars>>

\* A mistake in on_client_disconnect: it returns after the last will.
ReturnsAfterWill(c) ==
    /\ task[c] \in {"leaving", "failed"} /\ Deliver(c)
    /\ outbox' = [outbox EXCEPT ![c] = <<>>]
    /\ task' = [task EXCEPT ![c] = "gone"]
    /\ inbox' = [inbox EXCEPT ![c] = <<>>]
    /\ UNCHANGED <<state, session, disconnectSeen, timer, published, asked,
                   brokerVars>>

\* send_broker inside on_client_disconnect returns; after the last message
\* the task ends and its channel with it.
SentGoodbye(c) ==
    /\ task[c] \in {"leaving", "failed"} /\ Deliver(c)
    /\ outbox' = [outbox EXCEPT ![c] = Tail(@)]
    /\ IF Len(outbox[c]) = 1
       THEN /\ task' = [task EXCEPT ![c] = "gone"]
            /\ inbox' = [inbox EXCEPT ![c] = <<>>]
       ELSE UNCHANGED <<task, inbox>>
    /\ UNCHANGED <<state, session, disconnectSeen, timer, published, asked,
                   brokerVars>>

\* execute_after_delay: the timeout task sends ClientConnectionTimeout, and
\* only reports the error when the handler is gone.
TimerFires(c) ==
    /\ alive /\ timer[c] = "armed"
    /\ RxOpen(c) => Len(inbox[c]) < HandlerCap
    /\ timer' = [timer EXCEPT ![c] = "off"]
    /\ inbox' = IF RxOpen(c)
                THEN [inbox EXCEPT ![c] =
                        Append(@, [type |-> "ClientConnectionTimeout"])]
                ELSE inbox
    /\ UNCHANGED <<task, state, session, disconnectSeen, outbox, published,
                   asked, brokerQ, brokerVars>>

\* handle_broker_publish: the packet is written to the client, or the write
\* fails.
HandleBrokerPublish(c) ==
    /\ alive /\ task[c] = "select" /\ inbox[c] # <<>>
    /\ Head(inbox[c]).type = "Publish"
    /\ \/ /\ inbox' = [inbox EXCEPT ![c] = Tail(@)]
          /\ UNCHANGED <<task, outbox>>
       \/ Fail(c, state[c] = "Connected")
    /\ UNCHANGED <<state, session, disconnectSeen, timer, published, asked,
                   brokerQ, brokerVars>>


\* handle_connection_timeout: ignored once the client is connected.
HandleConnectionTimeout(c) ==
    /\ alive /\ task[c] = "select" /\ inbox[c] # <<>>
    /\ Head(inbox[c]).type = "ClientConnectionTimeout"
    /\ IF state[c] = "Connected"
       THEN /\ inbox' = [inbox EXCEPT ![c] = Tail(@)]
            /\ UNCHANGED <<task, outbox>>
       ELSE Fail(c, FALSE)
    /\ UNCHANGED <<state, session, disconnectSeen, timer, published, asked,
                   brokerQ, brokerVars>>

-----------------------------------------------------------------------------
(* The broker task.                                                        *)

\* listen_for_broker_msgs takes the next message once the previous one is
\* done.
Take(kind) ==
    /\ alive /\ current = None /\ brokerQ # <<>>
    /\ Head(brokerQ).type = kind
    /\ brokerQ' = Tail(brokerQ)

\* handle_client_connected inserts unconditionally.
HandleClientConnected ==
    LET m == Head(brokerQ) IN
    /\ Take("ClientConnected")
    /\ clients' = [clients EXCEPT ![m.client] = m.client_tx]
    /\ topics' = [topics EXCEPT ![m.client] = {}]
    /\ UNCHANGED <<handlerVars, inbox, outbox, current, subscriptions, alive>>

\* handle_client_disconnected: out of the topics its ClientInfo lists, then
\* out of the client list.
HandleClientDisconnected ==
    LET i == Head(brokerQ).client IN
    /\ Take("ClientDisconnected")
    /\ subscriptions' = [t \in Topic |->
                           IF clients[i] # None /\ t \in topics[i]
                           THEN subscriptions[t] \ {i} ELSE subscriptions[t]]
    /\ clients' = [clients EXCEPT ![i] = None]
    /\ topics' = [topics EXCEPT ![i] = {}]
    /\ UNCHANGED <<handlerVars, inbox, outbox, current, alive>>

\* A mistake in handle_publish: the sender gets its own message.
TargetsAndSender(m) == {i \in subscriptions[m.packet.topic] : clients[i] # None}

\* The subscribers of m's topic that handle_publish sends to: registered, and
\* not the sender itself.
Targets(m) == {i \in subscriptions[m.packet.topic] :
                  clients[i] # None /\ i # m.client}

\* handle_publish begins its loop over the subscribers.  No other task writes
\* clients or subscriptions, so the targets are fixed from here on.
HandlePublish ==
    LET m == Head(brokerQ) IN
    /\ Take("Publish")
    /\ current' = [msg |-> m, rem |-> Targets(m)]
    /\ UNCHANGED <<handlerVars, inbox, outbox, clients, topics, subscriptions,
                   alive>>

\* A mistake in the loop: a subscriber stays in the set it iterates over.
FanOutAgain(i) ==
    LET c == clients[i] IN
    /\ alive /\ current # None /\ i \in current.rem
    /\ RxOpen(c) /\ Len(inbox[c]) < HandlerCap
    /\ inbox' = [inbox EXCEPT ![c] = Append(@, current.msg)]
    /\ UNCHANGED <<handlerVars, outbox, brokerQ, brokerVars>>

\* One iteration, in the HashSet's order: client_tx.send(msg).await.
FanOut(i) ==
    LET c == clients[i] IN
    /\ alive /\ current # None /\ i \in current.rem
    /\ RxOpen(c) /\ Len(inbox[c]) < HandlerCap
    /\ inbox' = [inbox EXCEPT ![c] = Append(@, current.msg)]
    /\ current' = [msg |-> current.msg, rem |-> current.rem \ {i}]
    /\ UNCHANGED <<handlerVars, outbox, brokerQ, clients, topics,
                   subscriptions, alive>>

\* The receiver is dropped: BrokerMsgSendFailure leaves listen_for_broker_msgs
\* and Broker::run, and main panics.
FanOutFails(i) ==
    /\ alive /\ current # None /\ i \in current.rem
    /\ ~RxOpen(clients[i])
    /\ alive' = FALSE
    /\ UNCHANGED <<handlerVars, inbox, outbox, brokerQ, current, clients,
                   topics, subscriptions>>

\* handle_publish returns.
FanOutDone ==
    /\ alive /\ current # None /\ current.rem = {}
    /\ current' = None
    /\ UNCHANGED <<handlerVars, inbox, outbox, brokerQ, clients, topics,
                   subscriptions, alive>>

\* handle_subscribe does not look at the client list.
HandleSubscribe ==
    LET m == Head(brokerQ) IN
    /\ Take("Subscribe")
    /\ subscriptions' = [t \in Topic |->
                           IF t \in m.topics THEN subscriptions[t] \cup {m.client}
                                             ELSE subscriptions[t]]
    /\ UNCHANGED <<handlerVars, inbox, outbox, current, clients, topics, alive>>

\* A mistake in handle_unsubscribe: only what ClientInfo.topics lists is left.
UnsubscribeListed ==
    LET m == Head(brokerQ) IN
    /\ Take("Unsubscribe")
    /\ subscriptions' = [t \in Topic |->
                           IF t \in m.topics \cap topics[m.client]
                           THEN subscriptions[t] \ {m.client}
                           ELSE subscriptions[t]]
    /\ topics' = [topics EXCEPT ![m.client] = @ \ m.topics]
    /\ UNCHANGED <<handlerVars, inbox, outbox, current, clients, alive>>

\* handle_unsubscribe: out of the topics and out of ClientInfo.topics.
HandleUnsubscribe ==
    LET m == Head(brokerQ) IN
    /\ Take("Unsubscribe")
    /\ subscriptions' = [t \in Topic |->
                           IF t \in m.topics THEN subscriptions[t] \ {m.client}
                                             ELSE subscriptions[t]]
    /\ topics' = [topics EXCEPT ![m.client] =
                    IF clients[m.client] # None THEN @ \ m.topics ELSE @]
    /\ UNCHANGED <<handlerVars, inbox, outbox, current, clients, alive>>

-----------------------------------------------------------------------------
Init ==
    /\ task = [c \in Conn |-> "none"]
    /\ state = [c \in Conn |-> "Initialized"]
    /\ session = [c \in Conn |-> [id |-> None, will |-> None]]
    /\ disconnectSeen = [c \in Conn |-> FALSE]
    /\ timer = [c \in Conn |-> "off"]
    /\ inbox = [c \in Conn |-> <<>>]
    /\ outbox = [c \in Conn |-> <<>>]
    /\ published = [c \in Conn |-> 0]
    /\ asked = [c \in Conn |-> {}]
    /\ brokerQ = <<>>
    /\ current = None
    /\ clients = [i \in ClientId |-> None]
    /\ topics = [i \in ClientId |-> {}]
    /\ subscriptions = [t \in Topic |-> {}]
    /\ alive = TRUE

\* What connected or connecting peers make a handler do.
PeerStep(c) ==
    \/ Accept(c)
    \/ RecvConnect(c)
    \/ RecvPublish(c)
    \/ RecvSubscribe(c)
    \/ RecvUnsubscribe(c)
    \/ RecvDisconnect(c)
    \/ RecvViolation(c)
    \/ AnswerFails(c)
    \/ RecvEof(c)

\* The awaits on the broker's channel that return.
SendStep(c) == SentConnected(c) \/ SentRequest(c) \/ SentGoodbye(c)

\* The other branch of the handler's select!.
InboxStep(c) == HandleBrokerPublish(c) \/ HandleConnectionTimeout(c)

BrokerStep ==
    \/ HandleClientConnected
    \/ HandleClientDisconnected
    \/ HandlePublish
    \/ \E i \in ClientId : FanOut(i) \/ FanOutFails(i)
    \/ FanOutDone
    \/ HandleSubscribe
    \/ HandleUnsubscribe

Next ==
    \/ \E c \in Conn : PeerStep(c) \/ SendStep(c) \/ InboxStep(c) \/ TimerFires(c)
    \/ BrokerStep

Spec == Init /\ [][Next]_vars

\* tokio polls every ready task.  A bounded channel serves its waiting senders
\* in order and select! picks among its ready branches at random, so neither
\* a waiting send nor a waiting message is passed over forever.  Peers owe
\* nothing.
Fairness ==
    /\ \A c \in Conn : /\ SF_vars(SendStep(c))
                      /\ SF_vars(InboxStep(c))
                      /\ WF_vars(TimerFires(c))
    /\ WF_vars(BrokerStep)

FairSpec == Spec /\ Fairness

-----------------------------------------------------------------------------
(* Properties.                                                             *)

\* The types of the variables, the channels' capacities included.
TypeOK ==
    /\ task \in [Conn -> {"none", "select", "sending", "leaving", "failed",
                         "gone"}]
    /\ state \in [Conn -> {"Initialized", "Connected"}]
    /\ session \in [Conn -> [id : ClientId \cup {None},
                            will : Topic \cup {None}]]
    /\ disconnectSeen \in [Conn -> BOOLEAN]
    /\ timer \in [Conn -> {"off", "armed"}]
    /\ inbox \in [Conn -> Seq(ToHandler)]
    /\ \A c \in Conn : Len(inbox[c]) <= HandlerCap
    /\ outbox \in [Conn -> Seq(ToBroker)]
    /\ published \in [Conn -> Nat]
    /\ asked \in [Conn -> SUBSET Topic]
    /\ brokerQ \in Seq(ToBroker)
    /\ Len(brokerQ) <= BrokerCap
    /\ current \in [msg : [type : {"Publish"}, client : ClientId,
                          packet : Packet],
                   rem : SUBSET ClientId] \cup {None}
    /\ clients \in [ClientId -> Conn \cup {None}]
    /\ topics \in [ClientId -> SUBSET Topic]
    /\ subscriptions \in [Topic -> SUBSET ClientId]
    /\ alive \in BOOLEAN

\* Some message of the queue is m.
Queued(q, m) == \E k \in 1..Len(q) : q[k] = m

Hello(c) == [type |-> "ClientConnected", client |-> session[c].id,
             client_tx |-> c]
Goodbye(i) == [type |-> "ClientDisconnected", client |-> i]

\* The handler is serving a client that has completed its handshake.
Serving(c) == task[c] \in {"select", "sending"} /\ state[c] = "Connected"

\* The broker routes an identifier only to the handler whose session bears it,
\* that handler is past its handshake (so handle_broker_publish finds its
\* session), and a handler that has returned has its ClientDisconnected still
\* on the way: an entry of Broker.clients is never orphaned.
RoutesAreOwned ==
    \A i \in ClientId : clients[i] # None =>
        LET c == clients[i] IN
        /\ session[c].id = i /\ state[c] = "Connected"
        /\ task[c] \in {"leaving", "failed"} => Queued(outbox[c], Goodbye(i))
        /\ task[c] = "gone" => Queued(brokerQ, Goodbye(i))

\* Another connection has connected with c's identifier.
HasRival(c) == \E d \in Conn \ {c} : /\ session[d].id = session[c].id
                                     /\ state[d] = "Connected"

\* A handler that serves its client is registered with the broker or about to
\* be: only a connection that uses the same identifier can take it off the
\* client list, by its own ClientConnected or ClientDisconnected.  Nothing else
\* that other connections do, or that the client asks for, does.
ServedClientsAreRouted ==
    \A c \in Conn : Serving(c) =>
        \/ clients[session[c].id] = c
        \/ Queued(brokerQ, Hello(c))
        \/ HasRival(c)

\* Is i subscribed to t once the broker has worked off the messages q?
SubscribedAfter(q, i, t) ==
    LET about == {k \in 1..Len(q) : /\ q[k].type \in {"Subscribe", "Unsubscribe"}
                                    /\ q[k].client = i /\ t \in q[k].topics}
        last == CHOOSE k \in about : \A j \in about : j <= k
    IN  IF about = {} THEN i \in subscriptions[t]
                      ELSE q[last].type = "Subscribe"

\* Subacks leave before, Unsubacks after the broker has been told, and the
\* broker works on a queue: still, as long as a client is served and no other
\* connection uses its identifier, what the broker will have after the requests
\* on the way is what the client asked for.
SubscriptionsFollowRequests ==
    \A c \in Conn, t \in Topic : Serving(c) /\ ~HasRival(c) =>
        (t \in asked[c] <=>
            SubscribedAfter(brokerQ \o outbox[c], session[c].id, t))

\* m is a message that p published.
PublishOf(p, m) == m.type = "Publish" /\ m.packet.from = p

\* What is on the way from publisher p to the handler of s, oldest first.
Pipeline(s, p) ==
    inbox[s]
    \o (IF current # None /\ (\E i \in current.rem : clients[i] = s)
        THEN <<current.msg>> ELSE <<>>)
    \o brokerQ \o outbox[p]

\* A subscriber gets a publisher's messages in the order they were published
\* and none of them twice, its last will after all of them, whatever order
\* handle_publish visits the subscribers in.
PublishesStayInOrder ==
    \A s, p \in Conn :
        LET q == Pipeline(s, p) IN
        \A j, k \in 1..Len(q) :
            j < k /\ PublishOf(p, q[j]) /\ PublishOf(p, q[k]) =>
                q[j].packet.n < q[k].packet.n

\* A last will is on the way only for a client that vanished without a
\* Disconnect packet, even when the handler fails after having seen one.
NoWillAfterDisconnect ==
    \A c, s \in Conn :
        LET q == Pipeline(s, c) IN
        \A k \in 1..Len(q) :
            PublishOf(c, q[k]) /\ q[k].packet.n > published[c] =>
                ~disconnectSeen[c] /\ task[c] \in {"leaving", "failed", "gone"}

-----------------------------------------------------------------------------
(* Liveness.                                                               *)

\* handle_publish waits for room in the channel of a handler that waits for
\* room in the broker's channel: neither goes on again (see ResponsiveService).
CyclicWait ==
    /\ alive /\ current # None /\ Len(brokerQ) = BrokerCap
    /\ \E i \in current.rem : /\ task[clients[i]] \in {"sending", "leaving"}
                             /\ Len(inbox[clients[i]]) = HandlerCap

\* The only two things that may keep a promise of the broker from being kept:
\* it has ended, or it is caught in a cyclic wait for ever.
Halted == ~alive \/ []CyclicWait



WillRouted(c) == /\ current # None
                 /\ current.msg.packet.from = c
                 /\ current.msg.packet.n = published[c] + 1


-----------------------------------------------------------------------------
(* What the comments of broker.rs say and the code does not do.            *)

\* handle_client_disconnected: "The broker will remove all traces of the
\* client from the subscriptions and client list."
AllTracesRemoved ==
    \A i \in ClientId, t \in Topic : clients[i] = None => i \notin subscriptions[t]

\* handle_client_disconnected: "If an error occurs anywhere in broker or
\* client handler logic, the client will usually be disconnected".  The error
\* of one client does not stop the broker.
BrokerSurvivesClients == alive

\* listen_for_new_connections: "All client tasks happen simultaneously to
\* provide responsive service."  A request is eventually taken.
ResponsiveService ==
    \A c \in Conn : task[c] = "sending" ~> task[c] # "sending" \/ ~alive
=============================================================================
