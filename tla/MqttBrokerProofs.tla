-------------------------- MODULE MqttBrokerProofs --------------------------
(***************************************************************************)
(* Proofs about MqttBroker, for any connections, identifiers (shared or    *)
(* not), topics, channel capacities and bounds.                            *)
(***************************************************************************)
EXTENDS MqttBroker, TLAPS

PublishMsg == [type : {"Publish"}, client : ClientId, packet : Packet]

-----------------------------------------------------------------------------
(* The inductive invariant.  RoutesAreOwned is not inductive: the entry    *)
(* that handle_client_connected makes comes from a message, so what holds  *)
(* of an entry must hold of the ClientConnected messages in the channel,   *)
(* and there a goodbye must come after the hello it belongs to (HelloInv). *)
(* Where the goodbye comes from is what OutboxInv says.                    *)

\* A goodbye for i, with a last will before it or not.
IsFarewell(q, i) == /\ Len(q) \in {1, 2} /\ q[Len(q)] = Goodbye(i)
                    /\ Len(q) = 2 => q[1].type = "Publish"

\* What a handler at each point of its task is waiting to send.
OutboxOK(c) ==
    /\ state[c] = "Connected" \/ task[c] = "sending" => session[c].id \in ClientId
    /\ task[c] \in {"none", "select", "gone"} => outbox[c] = <<>>
    /\ task[c] = "sending" =>
          /\ Len(outbox[c]) = 1
          /\ state[c] = "Initialized" => outbox[c][1] = Hello(c)
          /\ state[c] = "Connected" =>
                outbox[c][1].type \in {"Publish", "Subscribe", "Unsubscribe"}
    /\ task[c] \in {"leaving", "failed"} =>
          /\ state[c] = "Connected"
          /\ IsFarewell(outbox[c], session[c].id)

OutboxInv == \A c \in Conn : OutboxOK(c)

\* A ClientConnected message in the channel is that of a connected handler,
\* and is followed by a goodbye if the handler has returned.
HelloInv ==
    \A k \in 1..Len(brokerQ) : brokerQ[k].type = "ClientConnected" =>
        LET c == brokerQ[k].client_tx
            i == brokerQ[k].client
        IN  /\ session[c].id = i /\ state[c] = "Connected"
            /\ task[c] = "gone" =>
                  \E j \in 1..Len(brokerQ) : k < j /\ brokerQ[j] = Goodbye(i)

\* RoutesAreOwned, but for what OutboxInv says already.
RouteInv ==
    \A i \in ClientId : clients[i] # None =>
        /\ session[clients[i]].id = i /\ state[clients[i]] = "Connected"
        /\ task[clients[i]] = "gone" => Queued(brokerQ, Goodbye(i))

IInv == TypeOK /\ OutboxInv /\ HelloInv /\ RouteInv

\* The variables each group of steps leaves alone have their types anyway;
\* these are the types of the others.
LEMMA InitTypeOK == Init => TypeOK
  <1> SUFFICES ASSUME Init PROVE TypeOK
    OBVIOUS
  <1>1. /\ \A c \in Conn : inbox[c] = <<>> /\ outbox[c] = <<>>
        /\ Len(brokerQ) = 0 /\ brokerQ \in Seq(ToBroker)
    BY DEF Init
  <1>2. /\ inbox \in [Conn -> Seq(ToHandler)] /\ outbox \in [Conn -> Seq(ToBroker)]
        /\ \A c \in Conn : Len(inbox[c]) <= HandlerCap
        /\ Len(brokerQ) <= BrokerCap
    BY <1>1, CapAssumption DEF Init
  <1>3. session \in [Conn -> [id : ClientId \cup {None}, will : Topic \cup {None}]]
    BY DEF Init
  <1> QED  BY <1>1, <1>2, <1>3 DEF Init, TypeOK

\* What on_client_disconnect sends.
LEMMA DisconnectMsgsType ==
    ASSUME TypeOK, NEW c \in Conn, session[c].id \in ClientId
    PROVE  DisconnectMsgs(c) \in Seq(ToBroker)
  <1> DEFINE s == session[c]
             will == [type |-> "Publish", client |-> s.id,
                      packet |-> [topic |-> s.will, from |-> c,
                                  n |-> published[c] + 1]]
             bye == [type |-> "ClientDisconnected", client |-> s.id]
  <1>1. bye \in ToBroker
    BY DEF ToBroker
  <1>2. s.will # None => will \in ToBroker
    BY DEF TypeOK, ToBroker, Packet
  <1> QED  BY <1>1, <1>2 DEF DisconnectMsgs

-----------------------------------------------------------------------------
(* How steps on the broker's channel treat HelloInv and RouteInv.          *)

\* A connected handler keeps its session, and no handler returns.
Steady == \A c \in Conn :
             /\ state[c] = "Connected" =>
                   state'[c] = "Connected" /\ session'[c] = session[c]
             /\ task'[c] = "gone" => task[c] = "gone" \/ state[c] # "Connected"

\* What the type of a message to the broker says about the rest of it.
LEMMA MsgTypes ==
    ASSUME NEW m \in ToBroker
    PROVE  /\ m.client \in ClientId
           /\ m.type = "ClientConnected" => m.client_tx \in Conn
           /\ m.type = "Publish" => m \in PublishMsg
           /\ m.type \in {"Subscribe", "Unsubscribe"} => m.topics \in SUBSET Topic
           /\ m.type = "ClientDisconnected" => m = Goodbye(m.client)
           /\ m.type \in {"ClientConnected", "ClientDisconnected", "Publish",
                          "Subscribe", "Unsubscribe"}
  BY DEF ToBroker, PublishMsg, Goodbye

\* The channel is left alone.
LEMMA QuietStep ==
    ASSUME IInv, Steady, brokerQ' = brokerQ, clients' = clients
    PROVE  HelloInv' /\ RouteInv'
  <1>1. HelloInv'
    <2> SUFFICES ASSUME NEW k \in 1..Len(brokerQ), brokerQ[k].type = "ClientConnected"
                 PROVE  /\ session'[brokerQ[k].client_tx].id = brokerQ[k].client
                        /\ state'[brokerQ[k].client_tx] = "Connected"
                        /\ task'[brokerQ[k].client_tx] = "gone" =>
                             \E j \in 1..Len(brokerQ) :
                                k < j /\ brokerQ[j] = Goodbye(brokerQ[k].client)
      BY DEF HelloInv, Goodbye
    <2>1. brokerQ[k] \in ToBroker
      BY DEF IInv, TypeOK
    <2>2. brokerQ[k].client_tx \in Conn
      BY <2>1, MsgTypes
    <2> QED  BY <2>2 DEF IInv, HelloInv, Steady
  <1>2. RouteInv'
    <2>1. \A i \in ClientId : clients[i] # None => clients[i] \in Conn
      BY DEF IInv, TypeOK
    <2> QED  BY <2>1 DEF IInv, RouteInv, Steady, Queued, Goodbye
  <1> QED  BY <1>1, <1>2

\* Handler c puts m into the channel.
LEMMA AppendStep ==
    ASSUME IInv, NEW c \in Conn, NEW m \in ToBroker,
           brokerQ' = Append(brokerQ, m), clients' = clients,
           \A d \in Conn : state[d] = "Connected" =>
              state'[d] = "Connected" /\ session'[d] = session[d],
           \A d \in Conn : task'[d] = "gone" =>
              \/ task[d] = "gone"
              \/ d = c /\ state[c] = "Connected" /\ m = Goodbye(session[c].id),
           m.type = "ClientConnected" =>
              /\ m.client_tx = c /\ session'[c].id = m.client
              /\ state'[c] = "Connected" /\ task'[c] # "gone"
    PROVE  HelloInv' /\ RouteInv'
  <1>1. /\ Len(brokerQ') = Len(brokerQ) + 1 /\ Len(brokerQ) \in Nat
        /\ \A k \in 1..Len(brokerQ) : brokerQ'[k] = brokerQ[k]
        /\ brokerQ'[Len(brokerQ) + 1] = m
    BY DEF IInv, TypeOK
  <1>2. HelloInv'
    <2> SUFFICES ASSUME NEW k \in 1..Len(brokerQ'), brokerQ'[k].type = "ClientConnected"
                 PROVE  /\ session'[brokerQ'[k].client_tx].id = brokerQ'[k].client
                        /\ state'[brokerQ'[k].client_tx] = "Connected"
                        /\ task'[brokerQ'[k].client_tx] = "gone" =>
                             \E j \in 1..Len(brokerQ') :
                                k < j /\ brokerQ'[j] = Goodbye(brokerQ'[k].client)
      BY DEF HelloInv, Goodbye
    <2>1. CASE k = Len(brokerQ) + 1
      BY <1>1, <2>1
    <2>2. CASE k \in 1..Len(brokerQ)
      <3>1. brokerQ'[k] = brokerQ[k] /\ brokerQ[k] \in ToBroker
        BY <1>1, <2>2 DEF IInv, TypeOK
      <3>2. brokerQ[k].client_tx \in Conn
        BY <3>1, MsgTypes
      <3> DEFINE d == brokerQ[k].client_tx
      <3>3. session[d].id = brokerQ[k].client /\ state[d] = "Connected"
        BY <2>2, <3>1 DEF IInv, HelloInv
      <3>4. session'[d].id = brokerQ[k].client /\ state'[d] = "Connected"
        BY <3>2, <3>3
      <3>5. ASSUME task'[d] = "gone"
            PROVE  \E j \in 1..Len(brokerQ') :
                      k < j /\ brokerQ'[j] = Goodbye(brokerQ[k].client)
        <4>1. CASE task[d] = "gone"
          <5>1. PICK j \in 1..Len(brokerQ) :
                   k < j /\ brokerQ[j] = Goodbye(brokerQ[k].client)
            BY <2>2, <3>1, <4>1 DEF IInv, HelloInv
          <5> QED  BY <1>1, <5>1
        <4>2. CASE d = c /\ m = Goodbye(session[c].id)
          BY <1>1, <2>2, <3>3, <4>2
        <4> QED  BY <3>2, <3>5, <4>1, <4>2
      <3> QED  BY <3>1, <3>4, <3>5
    <2> QED  BY <1>1, <2>1, <2>2
  <1>3. RouteInv'
    <2> SUFFICES ASSUME NEW i \in ClientId, clients[i] # None
                 PROVE  /\ session'[clients[i]].id = i
                        /\ state'[clients[i]] = "Connected"
                        /\ task'[clients[i]] = "gone" =>
                             \E k \in 1..Len(brokerQ') : brokerQ'[k] = Goodbye(i)
      BY DEF RouteInv, Queued, Goodbye
    <2>1. clients[i] \in Conn
      BY DEF IInv, TypeOK
    <2>2. session[clients[i]].id = i /\ state[clients[i]] = "Connected"
      BY DEF IInv, RouteInv
    <2>3. ASSUME task'[clients[i]] = "gone"
          PROVE  \E k \in 1..Len(brokerQ') : brokerQ'[k] = Goodbye(i)
      <3>1. CASE task[clients[i]] = "gone"
        <4>1. PICK k \in 1..Len(brokerQ) : brokerQ[k] = Goodbye(i)
          BY <3>1 DEF IInv, RouteInv, Queued
        <4> QED  BY <1>1, <4>1
      <3>2. CASE clients[i] = c /\ m = Goodbye(session[c].id)
        BY <1>1, <2>2, <3>2
      <3> QED  BY <2>1, <2>3, <3>1, <3>2
    <2> QED  BY <2>1, <2>2, <2>3
  <1> QED  BY <1>2, <1>3

\* The broker takes the first message; the client list stays, or changes at
\* one identifier as that message asks.
LEMMA TakeStep ==
    ASSUME IInv, UNCHANGED <<task, state, session>>,
           brokerQ # <<>>, brokerQ' = Tail(brokerQ),
           LET m == Head(brokerQ) IN
             \/ clients' = clients /\ m.type # "ClientDisconnected"
             \/ /\ m.type = "ClientConnected"
                /\ clients' = [clients EXCEPT ![m.client] = m.client_tx]
             \/ clients' = [clients EXCEPT ![m.client] = None]
    PROVE  HelloInv' /\ RouteInv'
  <1> DEFINE m == Head(brokerQ)
  <1>1. /\ Len(brokerQ) \in Nat \ {0} /\ Len(brokerQ') = Len(brokerQ) - 1
        /\ \A k \in 1..Len(brokerQ') : brokerQ'[k] = brokerQ[k + 1]
        /\ m = brokerQ[1] /\ m \in ToBroker
    BY DEF IInv, TypeOK
  <1>2. HelloInv'
    <2> SUFFICES ASSUME NEW k \in 1..Len(brokerQ'), brokerQ'[k].type = "ClientConnected"
                 PROVE  /\ session[brokerQ'[k].client_tx].id = brokerQ'[k].client
                        /\ state[brokerQ'[k].client_tx] = "Connected"
                        /\ task[brokerQ'[k].client_tx] = "gone" =>
                             \E j \in 1..Len(brokerQ') :
                                k < j /\ brokerQ'[j] = Goodbye(brokerQ'[k].client)
      BY DEF HelloInv, Goodbye
    <2>1. k + 1 \in 1..Len(brokerQ) /\ brokerQ'[k] = brokerQ[k + 1]
      BY <1>1
    <2>2. /\ session[brokerQ'[k].client_tx].id = brokerQ'[k].client
          /\ state[brokerQ'[k].client_tx] = "Connected"
      BY <2>1 DEF IInv, HelloInv
    <2>3. ASSUME task[brokerQ'[k].client_tx] = "gone"
          PROVE  \E j \in 1..Len(brokerQ') :
                    k < j /\ brokerQ'[j] = Goodbye(brokerQ'[k].client)
      <3>1. PICK j \in 1..Len(brokerQ) :
               k + 1 < j /\ brokerQ[j] = Goodbye(brokerQ'[k].client)
        BY <2>1, <2>3 DEF IInv, HelloInv
      <3>2. j - 1 \in 1..Len(brokerQ') /\ k < j - 1 /\ brokerQ'[j - 1] = brokerQ[j]
        BY <1>1, <3>1
      <3> QED  BY <3>1, <3>2
    <2> QED  BY <2>2, <2>3
  <1>3. RouteInv'
    <2> SUFFICES ASSUME NEW i \in ClientId, clients'[i] # None
                 PROVE  /\ session[clients'[i]].id = i
                        /\ state[clients'[i]] = "Connected"
                        /\ task[clients'[i]] = "gone" =>
                             \E k \in 1..Len(brokerQ') : brokerQ'[k] = Goodbye(i)
      BY DEF RouteInv, Queued, Goodbye
    <2>1. CASE /\ m.type = "ClientConnected" /\ i = m.client
               /\ clients' = [clients EXCEPT ![m.client] = m.client_tx]
      <3>1. clients'[i] = brokerQ[1].client_tx /\ brokerQ[1].client = i
        BY <1>1, <2>1 DEF IInv, TypeOK
      <3>2. 1 \in 1..Len(brokerQ) /\ brokerQ[1].type = "ClientConnected"
        BY <1>1, <2>1
      <3>3. session[clients'[i]].id = i /\ state[clients'[i]] = "Connected"
        BY <3>1, <3>2 DEF IInv, HelloInv
      <3>4. ASSUME task[clients'[i]] = "gone"
            PROVE  \E k \in 1..Len(brokerQ') : brokerQ'[k] = Goodbye(i)
        <4>1. PICK j \in 1..Len(brokerQ) : 1 < j /\ brokerQ[j] = Goodbye(i)
          BY <3>1, <3>2, <3>4 DEF IInv, HelloInv
        <4>2. j - 1 \in 1..Len(brokerQ') /\ brokerQ'[j - 1] = brokerQ[j]
          BY <1>1, <4>1
        <4> QED  BY <4>1, <4>2
      <3> QED  BY <3>3, <3>4
    <2>2. CASE clients'[i] = clients[i] /\ m # Goodbye(i)
      <3>1. session[clients'[i]].id = i /\ state[clients'[i]] = "Connected"
        BY <2>2 DEF IInv, RouteInv
      <3>2. ASSUME task[clients'[i]] = "gone"
            PROVE  \E k \in 1..Len(brokerQ') : brokerQ'[k] = Goodbye(i)
        <4>1. PICK j \in 1..Len(brokerQ) : brokerQ[j] = Goodbye(i)
          BY <2>2, <3>2 DEF IInv, RouteInv, Queued
        <4>2. j # 1
          BY <1>1, <2>2, <4>1
        <4>3. j - 1 \in 1..Len(brokerQ') /\ brokerQ'[j - 1] = brokerQ[j]
          BY <1>1, <4>1, <4>2
        <4> QED  BY <4>1, <4>3
      <3> QED  BY <3>1, <3>2
    <2>3. m.type # "ClientDisconnected" => m # Goodbye(i)
      BY DEF Goodbye
    <2>4. m = Goodbye(i) => m.client = i
      BY DEF Goodbye
    <2>5. CASE /\ m.type = "ClientConnected"
               /\ clients' = [clients EXCEPT ![m.client] = m.client_tx]
      BY <2>1, <2>2, <2>3, <2>5 DEF IInv, TypeOK
    <2>6. CASE clients' = [clients EXCEPT ![m.client] = None]
      BY <2>2, <2>4, <2>6 DEF IInv, TypeOK
    <2> QED  BY <2>2, <2>3, <2>5, <2>6
  <1> QED  BY <1>2, <1>3

-----------------------------------------------------------------------------
(* OutboxInv changes at one connection only.                               *)

OthersSame(c) == \A d \in Conn : d # c =>
                    /\ task'[d] = task[d] /\ state'[d] = state[d]
                    /\ session'[d] = session[d] /\ outbox'[d] = outbox[d]

\* OutboxInv after a step of one handler: only its own part is at stake.
LEMMA OutboxStep ==
    ASSUME IInv, NEW c \in Conn, OthersSame(c), OutboxOK(c)'
    PROVE  OutboxInv'
  <1> SUFFICES ASSUME NEW d \in Conn, d # c
               PROVE  OutboxOK(d)'
    BY DEF OutboxInv
  <1>1. OutboxOK(d)
    BY DEF IInv, OutboxInv
  <1> QED  BY <1>1 DEF OthersSame, OutboxOK, IsFarewell, Hello, Goodbye

\* OutboxInv after a step that leaves the handlers' sends alone.
LEMMA OutboxSame ==
    ASSUME IInv, UNCHANGED <<task, state, session, outbox>>
    PROVE  OutboxInv'
  BY DEF IInv, OutboxInv, OutboxOK, IsFarewell, Hello, Goodbye

\* on_client_disconnect's messages are a goodbye, with a will before it or
\* not.
LEMMA DisconnectMsgsShape ==
    ASSUME NEW c \in Conn
    PROVE  IsFarewell(DisconnectMsgs(c), session[c].id)
  BY DEF DisconnectMsgs, IsFarewell, Goodbye

TaskPoints == {"none", "select", "sending", "leaving", "failed", "gone"}

\* What ClientHandler::run does on an error, at connection c and elsewhere.
LEMMA FailStep ==
    ASSUME TypeOK, NEW c \in Conn, NEW connected \in BOOLEAN,
           connected => session[c].id \in ClientId,
           Fail(c, connected)
    PROVE  /\ task' \in [Conn -> TaskPoints]
           /\ outbox' \in [Conn -> Seq(ToBroker)]
           /\ inbox' \in [Conn -> Seq(ToHandler)]
           /\ \A d \in Conn : Len(inbox'[d]) <= HandlerCap
           /\ task'[c] = IF connected THEN "failed" ELSE "gone"
           /\ outbox'[c] = IF connected THEN DisconnectMsgs(c) ELSE <<>>
           /\ \A d \in Conn : d # c => task'[d] = task[d] /\ outbox'[d] = outbox[d]
  <1>1. connected => DisconnectMsgs(c) \in Seq(ToBroker)
    BY DisconnectMsgsType
  <1>2. /\ task' \in [Conn -> TaskPoints]
        /\ task'[c] = IF connected THEN "failed" ELSE "gone"
        /\ \A d \in Conn : d # c => task'[d] = task[d]
    BY DEF Fail, TypeOK, TaskPoints
  <1>3. /\ outbox' \in [Conn -> Seq(ToBroker)]
        /\ outbox'[c] = IF connected THEN DisconnectMsgs(c) ELSE <<>>
        /\ \A d \in Conn : d # c => outbox'[d] = outbox[d]
    BY <1>1 DEF Fail, TypeOK
  <1>4. /\ inbox' \in [Conn -> Seq(ToHandler)]
        /\ \A d \in Conn : Len(inbox'[d]) <= HandlerCap
    BY CapAssumption DEF Fail, TypeOK
  <1> QED  BY <1>2, <1>3, <1>4

\* A handler in select!, or handing over a message, that fails.
LEMMA FailingHandler ==
    ASSUME IInv, NEW c \in Conn, NEW connected \in BOOLEAN,
           connected = (state'[c] = "Connected"),
           connected => session[c].id \in ClientId,
           Fail(c, connected), session' = session,
           \A d \in Conn : d # c => state'[d] = state[d]
    PROVE  OutboxInv'
  <1>1. /\ task'[c] = IF connected THEN "failed" ELSE "gone"
        /\ outbox'[c] = IF connected THEN DisconnectMsgs(c) ELSE <<>>
        /\ \A d \in Conn : d # c => task'[d] = task[d] /\ outbox'[d] = outbox[d]
    BY FailStep DEF IInv
  <1>2. OutboxOK(c)'
    BY <1>1, DisconnectMsgsShape DEF OutboxOK, IsFarewell, Goodbye
  <1> QED  BY <1>1, <1>2, OutboxStep DEF OthersSame

\* Awaiting send_broker in the middle of a packet's handler.
LEMMA SendingHandler ==
    ASSUME IInv, NEW c \in Conn, NEW m \in ToBroker, Send(c, m), state' = state,
           \A d \in Conn : d # c => session'[d] = session[d],
           session'[c].id \in ClientId,
           state[c] = "Initialized" => m = Hello(c)',
           state[c] = "Connected" => m.type \in {"Publish", "Subscribe", "Unsubscribe"}
    PROVE  /\ task' \in [Conn -> TaskPoints]
           /\ outbox' \in [Conn -> Seq(ToBroker)]
           /\ \A d \in Conn : task'[d] = "gone" => task[d] = "gone"
           /\ OutboxInv'
  <1>1. /\ task' \in [Conn -> TaskPoints]
        /\ task'[c] = "sending"
        /\ \A d \in Conn : d # c => task'[d] = task[d]
    BY DEF Send, IInv, TypeOK, TaskPoints
  <1>2. /\ outbox' \in [Conn -> Seq(ToBroker)]
        /\ outbox'[c] = <<m>>
        /\ \A d \in Conn : d # c => outbox'[d] = outbox[d]
    BY DEF Send, IInv, TypeOK
  <1>3. OutboxOK(c)'
    BY <1>1, <1>2 DEF OutboxOK, Hello, IsFarewell
  <1>4. OthersSame(c)
    BY <1>1, <1>2 DEF OthersSame
  <1>5. OutboxInv'
    BY <1>3, <1>4, OutboxStep
  <1> QED  BY <1>1, <1>2, <1>5

-----------------------------------------------------------------------------
(* One lemma per action.                                                   *)

\* A connected handler has a client identifier.
LEMMA ConnectedId ==
    ASSUME IInv, NEW c \in Conn, state[c] = "Connected"
    PROVE  session[c].id \in ClientId
  BY DEF IInv, OutboxInv, OutboxOK

\* A new connection: its handler has nothing to send.
LEMMA AcceptKeeps ==
    ASSUME IInv, NEW c \in Conn, Accept(c)
    PROVE  IInv'
  <1>1. /\ task' \in [Conn -> TaskPoints] /\ timer' \in [Conn -> {"off", "armed"}]
        /\ task'[c] = "select" /\ \A d \in Conn : d # c => task'[d] = task[d]
    BY DEF Accept, IInv, TypeOK, TaskPoints
  <1>2. TypeOK'
    BY <1>1 DEF Accept, IInv, TypeOK, brokerVars, TaskPoints
  <1>3. OutboxOK(c)'
    BY <1>1 DEF Accept, IInv, OutboxInv, OutboxOK
  <1>4. OutboxInv'
    BY <1>1, <1>3, OutboxStep DEF Accept, OthersSame
  <1>5. HelloInv' /\ RouteInv'
    BY <1>1, QuietStep DEF Accept, Steady, brokerVars
  <1> QED  BY <1>2, <1>4, <1>5 DEF IInv

\* The first Connect puts the hello into the outbox.
LEMMA RecvConnectKeeps ==
    ASSUME IInv, NEW c \in Conn, RecvConnect(c)
    PROVE  IInv'
  <1>1. PICK id \in IdsOf[c], will \in WillsOf[c] :
           /\ session' = [session EXCEPT ![c] = [id |-> id, will |-> will]]
           /\ Send(c, [type |-> "ClientConnected", client |-> id, client_tx |-> c])
    BY DEF RecvConnect
  <1> DEFINE m == [type |-> "ClientConnected", client |-> id, client_tx |-> c]
  <1>2. id \in ClientId /\ will \in Topic \cup {None}
    BY IdsAssumption, WillsAssumption
  <1>3. m \in ToBroker
    BY <1>2 DEF ToBroker
  <1>4. /\ session' \in [Conn -> [id : ClientId \cup {None}, will : Topic \cup {None}]]
        /\ session'[c].id = id
        /\ \A d \in Conn : d # c => session'[d] = session[d]
    BY <1>1, <1>2 DEF IInv, TypeOK
  <1>5. m = Hello(c)'
    BY <1>4 DEF Hello
  <1>6. state' = state /\ state[c] = "Initialized"
    BY DEF RecvConnect
  <1>7. /\ task' \in [Conn -> TaskPoints]
        /\ outbox' \in [Conn -> Seq(ToBroker)]
        /\ \A d \in Conn : task'[d] = "gone" => task[d] = "gone"
        /\ OutboxInv'
    BY <1>1, <1>2, <1>3, <1>4, <1>5, <1>6, SendingHandler
  <1>8. TypeOK'
    BY <1>4, <1>7 DEF RecvConnect, IInv, TypeOK, brokerVars, TaskPoints
  <1>9. HelloInv' /\ RouteInv'
    BY <1>4, <1>6, <1>7, QuietStep DEF RecvConnect, Steady, brokerVars
  <1> QED  BY <1>7, <1>8, <1>9 DEF IInv

\* A Publish goes into the outbox of a connected handler.
LEMMA RecvPublishKeeps ==
    ASSUME IInv, NEW c \in Conn, RecvPublish(c)
    PROVE  IInv'
  <1>1. PICK t \in Topic :
           Send(c, [type |-> "Publish", client |-> session[c].id,
                    packet |-> [topic |-> t, from |-> c, n |-> published[c] + 1]])
    BY DEF RecvPublish
  <1> DEFINE m == [type |-> "Publish", client |-> session[c].id,
                   packet |-> [topic |-> t, from |-> c, n |-> published[c] + 1]]
  <1>2. session[c].id \in ClientId /\ state[c] = "Connected" /\ state' = state
    BY ConnectedId DEF RecvPublish
  <1>3. m \in ToBroker
    BY <1>2 DEF ToBroker, Packet, IInv, TypeOK
  <1>4. session' = session
    BY DEF RecvPublish
  <1>5. /\ task' \in [Conn -> TaskPoints]
        /\ outbox' \in [Conn -> Seq(ToBroker)]
        /\ \A d \in Conn : task'[d] = "gone" => task[d] = "gone"
        /\ OutboxInv'
    BY <1>1, <1>2, <1>3, <1>4, SendingHandler
  <1>6. published' \in [Conn -> Nat]
    BY DEF RecvPublish, IInv, TypeOK
  <1>7. TypeOK'
    BY <1>5, <1>6 DEF RecvPublish, IInv, TypeOK, brokerVars, TaskPoints
  <1>8. HelloInv' /\ RouteInv'
    BY <1>5, QuietStep DEF RecvPublish, Steady, brokerVars
  <1> QED  BY <1>5, <1>7, <1>8 DEF IInv

\* So does a Subscribe or an Unsubscribe.
LEMMA RecvSubscribeKeeps ==
    ASSUME IInv, NEW c \in Conn, RecvSubscribe(c) \/ RecvUnsubscribe(c)
    PROVE  IInv'
  <1>1. PICK kind \in {"Subscribe", "Unsubscribe"}, ts \in SUBSET Topic :
           /\ Send(c, [type |-> kind, client |-> session[c].id, topics |-> ts])
           /\ asked' \in [Conn -> SUBSET Topic]
    <2>1. CASE RecvSubscribe(c)
      <3>1. PICK ts \in SUBSET Topic \ {{}} :
               /\ Send(c, [type |-> "Subscribe", client |-> session[c].id,
                           topics |-> ts])
               /\ asked' = [asked EXCEPT ![c] = @ \cup ts]
        BY <2>1 DEF RecvSubscribe
      <3>2. asked' \in [Conn -> SUBSET Topic]
        BY <3>1 DEF IInv, TypeOK
      <3> QED  BY <3>1, <3>2
    <2>2. CASE RecvUnsubscribe(c)
      <3>1. PICK ts \in SUBSET Topic \ {{}} :
               /\ Send(c, [type |-> "Unsubscribe", client |-> session[c].id,
                           topics |-> ts])
               /\ asked' = [asked EXCEPT ![c] = @ \ ts]
        BY <2>2 DEF RecvUnsubscribe
      <3>2. asked' \in [Conn -> SUBSET Topic]
        BY <3>1 DEF IInv, TypeOK
      <3> QED  BY <3>1, <3>2
    <2> QED  BY <2>1, <2>2
  <1> DEFINE m == [type |-> kind, client |-> session[c].id, topics |-> ts]
  <1>2. session[c].id \in ClientId /\ state[c] = "Connected"
    BY ConnectedId DEF RecvSubscribe, RecvUnsubscribe
  <1>3. m \in ToBroker
    BY <1>2 DEF ToBroker
  <1>4. UNCHANGED <<state, session, disconnectSeen, timer, inbox, published,
                    brokerQ, brokerVars>>
    BY DEF RecvSubscribe, RecvUnsubscribe
  <1>5. /\ task' \in [Conn -> TaskPoints]
        /\ outbox' \in [Conn -> Seq(ToBroker)]
        /\ \A d \in Conn : task'[d] = "gone" => task[d] = "gone"
        /\ OutboxInv'
    BY <1>1, <1>2, <1>3, <1>4, SendingHandler
  <1>6. TypeOK'
    BY <1>1, <1>4, <1>5 DEF IInv, TypeOK, brokerVars, TaskPoints
  <1>7. HelloInv' /\ RouteInv'
    BY <1>4, <1>5, QuietStep DEF Steady, brokerVars
  <1> QED  BY <1>5, <1>6, <1>7 DEF IInv

\* A Disconnect packet is only remembered.
LEMMA RecvDisconnectKeeps ==
    ASSUME IInv, NEW c \in Conn, RecvDisconnect(c)
    PROVE  IInv'
  <1>1. TypeOK'
    BY DEF RecvDisconnect, IInv, TypeOK, brokerVars
  <1>2. OutboxInv'
    BY OutboxSame DEF RecvDisconnect
  <1>3. HelloInv' /\ RouteInv'
    BY QuietStep DEF RecvDisconnect, Steady, brokerVars
  <1> QED  BY <1>1, <1>2, <1>3 DEF IInv

\* A handler in select! that fails: a rejected packet, a failed read or
\* write, or the timeout of a client that is not connected.
LEMMA FailKeeps ==
    ASSUME IInv, NEW c \in Conn, Fail(c, state[c] = "Connected"),
           UNCHANGED <<state, session, disconnectSeen, timer, published, asked,
                       brokerQ, brokerVars>>
    PROVE  IInv'
  <1> DEFINE connected == state[c] = "Connected"
  <1>1. connected \in BOOLEAN /\ (connected => session[c].id \in ClientId)
    BY ConnectedId
  <1>2. Fail(c, connected)
    OBVIOUS
  <1>3. connected = (state'[c] = "Connected")
    OBVIOUS
  <1>4. state[c] # "Connected" <=> ~connected
    OBVIOUS
  <1> HIDE DEF connected
  <1>5. /\ task' \in [Conn -> TaskPoints]
        /\ outbox' \in [Conn -> Seq(ToBroker)]
        /\ inbox' \in [Conn -> Seq(ToHandler)]
        /\ \A d \in Conn : Len(inbox'[d]) <= HandlerCap
        /\ task'[c] = IF connected THEN "failed" ELSE "gone"
        /\ \A d \in Conn : d # c => task'[d] = task[d]
    BY <1>1, <1>2, FailStep DEF IInv
  <1>6. TypeOK'
    BY <1>5 DEF IInv, TypeOK, brokerVars, TaskPoints
  <1>7. OutboxInv'
    BY <1>1, <1>2, <1>3, FailingHandler
  <1>8. Steady
    BY <1>4, <1>5 DEF Steady
  <1>9. HelloInv' /\ RouteInv'
    BY <1>8, QuietStep DEF brokerVars
  <1> QED  BY <1>6, <1>7, <1>9 DEF IInv

\* The end of the stream puts the farewell into the outbox.
LEMMA RecvEofKeeps ==
    ASSUME IInv, NEW c \in Conn, RecvEof(c)
    PROVE  IInv'
  <1>1. CASE state[c] = "Connected"
    <2>1. session[c].id \in ClientId
      BY <1>1, ConnectedId
    <2>2. DisconnectMsgs(c) \in Seq(ToBroker)
      BY <2>1, DisconnectMsgsType DEF IInv
    <2>3. /\ task' = [task EXCEPT ![c] = "leaving"]
          /\ outbox' = [outbox EXCEPT ![c] = DisconnectMsgs(c)]
          /\ inbox' = inbox
          /\ UNCHANGED <<state, session, disconnectSeen, timer, published, asked,
                         brokerQ, brokerVars>>
      BY <1>1 DEF RecvEof
    <2>4. /\ task' \in [Conn -> TaskPoints] /\ task'[c] = "leaving"
          /\ \A d \in Conn : d # c => task'[d] = task[d]
      BY <2>3 DEF IInv, TypeOK, TaskPoints
    <2>5. /\ outbox' \in [Conn -> Seq(ToBroker)] /\ outbox'[c] = DisconnectMsgs(c)
          /\ \A d \in Conn : d # c => outbox'[d] = outbox[d]
      BY <2>2, <2>3 DEF IInv, TypeOK
    <2>6. TypeOK'
      BY <2>3, <2>4, <2>5 DEF IInv, TypeOK, brokerVars, TaskPoints
    <2>7. OutboxOK(c)'
      BY <1>1, <2>1, <2>3, <2>4, <2>5, DisconnectMsgsShape
         DEF OutboxOK, IsFarewell, Goodbye
    <2>8. OutboxInv'
      BY <2>3, <2>4, <2>5, <2>7, OutboxStep DEF OthersSame
    <2>9. HelloInv' /\ RouteInv'
      BY <2>3, <2>4, QuietStep DEF Steady, brokerVars
    <2> QED  BY <2>6, <2>8, <2>9 DEF IInv
  <1>2. CASE state[c] # "Connected"
    <2>1. (state[c] = "Connected") = FALSE
      BY <1>2
    <2>2. Fail(c, state[c] = "Connected")
      BY <1>2, <2>1 DEF RecvEof
    <2> QED  BY <2>2, FailKeeps DEF RecvEof
  <1> QED  BY <1>1, <1>2

\* The broker's channel keeps its type and capacity.
LEMMA DeliverType ==
    ASSUME IInv, NEW c \in Conn, Deliver(c)
    PROVE  /\ outbox[c] # <<>> /\ outbox[c][1] \in ToBroker
           /\ brokerQ' = Append(brokerQ, outbox[c][1])
           /\ brokerQ' \in Seq(ToBroker) /\ Len(brokerQ') <= BrokerCap
           /\ Head(outbox[c]) = outbox[c][1]
  <1>1. outbox[c] \in Seq(ToBroker) /\ outbox[c] # <<>>
    BY DEF Deliver, IInv, TypeOK
  <1>2. Head(outbox[c]) = outbox[c][1] /\ outbox[c][1] \in ToBroker
    BY <1>1
  <1> QED  BY <1>1, <1>2, CapAssumption DEF Deliver, IInv, TypeOK

\* The handler goes back to select! after its message is taken.
LEMMA BackToSelect ==
    ASSUME IInv, NEW c \in Conn, session' = session,
           task' = [task EXCEPT ![c] = "select"],
           outbox' = [outbox EXCEPT ![c] = <<>>],
           state'[c] = "Connected", session[c].id \in ClientId,
           \A d \in Conn : d # c => state'[d] = state[d]
    PROVE  /\ task' \in [Conn -> TaskPoints]
           /\ outbox' \in [Conn -> Seq(ToBroker)]
           /\ \A d \in Conn : task'[d] = "gone" => task[d] = "gone" /\ d # c
           /\ OutboxInv'
  <1>1. /\ task' \in [Conn -> TaskPoints] /\ task'[c] = "select"
        /\ \A d \in Conn : d # c => task'[d] = task[d]
    BY DEF IInv, TypeOK, TaskPoints
  <1>2. /\ outbox' \in [Conn -> Seq(ToBroker)] /\ outbox'[c] = <<>>
        /\ \A d \in Conn : d # c => outbox'[d] = outbox[d]
    BY DEF IInv, TypeOK
  <1>3. OutboxOK(c)'
    BY <1>1, <1>2 DEF OutboxOK
  <1>4. OutboxInv'
    BY <1>1, <1>2, <1>3, OutboxStep DEF OthersSame
  <1> QED  BY <1>1, <1>2, <1>4

\* The channel takes the hello as the handler becomes Connected.
LEMMA SentConnectedKeeps ==
    ASSUME IInv, NEW c \in Conn, SentConnected(c)
    PROVE  IInv'
  <1> DEFINE m == outbox[c][1]
  <1>1. /\ m \in ToBroker /\ brokerQ' = Append(brokerQ, m)
        /\ brokerQ' \in Seq(ToBroker) /\ Len(brokerQ') <= BrokerCap
        /\ Head(outbox[c]) = m
    BY DeliverType DEF SentConnected
  <1>2. task[c] = "sending" /\ m.type = "ClientConnected"
    BY <1>1 DEF SentConnected
  <1>3. m = Hello(c) /\ session[c].id \in ClientId
    BY <1>2 DEF IInv, OutboxInv, OutboxOK, TypeOK
  <1>4. /\ state' \in [Conn -> {"Initialized", "Connected"}] /\ state'[c] = "Connected"
        /\ \A d \in Conn : d # c => state'[d] = state[d]
        /\ timer' \in [Conn -> {"off", "armed"}]
        /\ UNCHANGED <<session, disconnectSeen, published, asked, brokerVars>>
    BY DEF SentConnected, IInv, TypeOK
  <1>5. /\ task' \in [Conn -> TaskPoints]
        /\ outbox' \in [Conn -> Seq(ToBroker)]
        /\ inbox' \in [Conn -> Seq(ToHandler)]
        /\ \A d \in Conn : Len(inbox'[d]) <= HandlerCap
        /\ \A d \in Conn : task'[d] = "gone" => task[d] = "gone" /\ d # c
        /\ OutboxInv'
    <2>1. CASE /\ task' = [task EXCEPT ![c] = "select"]
               /\ outbox' = [outbox EXCEPT ![c] = <<>>]
               /\ inbox' = inbox
      <3>1. /\ task' \in [Conn -> TaskPoints]
            /\ outbox' \in [Conn -> Seq(ToBroker)]
            /\ \A d \in Conn : task'[d] = "gone" => task[d] = "gone" /\ d # c
            /\ OutboxInv'
        BY <1>3, <1>4, <2>1, BackToSelect
      <3> QED  BY <2>1, <3>1 DEF IInv, TypeOK
    <2>2. CASE Fail(c, TRUE)
      <3>1. /\ task' \in [Conn -> TaskPoints]
            /\ outbox' \in [Conn -> Seq(ToBroker)]
            /\ inbox' \in [Conn -> Seq(ToHandler)]
            /\ \A d \in Conn : Len(inbox'[d]) <= HandlerCap
            /\ task'[c] = "failed"
            /\ \A d \in Conn : d # c => task'[d] = task[d]
        BY <1>3, <2>2, FailStep DEF IInv
      <3>2. TRUE = (state'[c] = "Connected")
        BY <1>4
      <3>3. OutboxInv'
        BY <1>3, <1>4, <2>2, <3>2, FailingHandler
      <3> QED  BY <3>1, <3>3
    <2> QED  BY <2>1, <2>2 DEF SentConnected
  <1>6. TypeOK'
    BY <1>1, <1>4, <1>5 DEF IInv, TypeOK, brokerVars, TaskPoints
  <1>7. HelloInv' /\ RouteInv'
    <2>1. m.client_tx = c /\ session'[c].id = m.client
      BY <1>3, <1>4 DEF Hello
    <2>2. clients' = clients
      BY <1>4 DEF brokerVars
    <2>3. \A d \in Conn : state[d] = "Connected" =>
             state'[d] = "Connected" /\ session'[d] = session[d]
      BY <1>4
    <2>4. task'[c] # "gone"
      BY <1>5
    <2>5. \A d \in Conn : task'[d] = "gone" => task[d] = "gone"
      BY <1>5
    <2> HIDE DEF m
    <2> QED  BY <1>1, <1>4, <2>1, <2>2, <2>3, <2>4, <2>5, AppendStep
  <1> QED  BY <1>5, <1>6, <1>7 DEF IInv

\* The channel takes a request, which is neither hello nor goodbye.
LEMMA SentRequestKeeps ==
    ASSUME IInv, NEW c \in Conn, SentRequest(c)
    PROVE  IInv'
  <1> DEFINE m == outbox[c][1]
  <1>1. /\ m \in ToBroker /\ brokerQ' = Append(brokerQ, m)
        /\ brokerQ' \in Seq(ToBroker) /\ Len(brokerQ') <= BrokerCap
        /\ Head(outbox[c]) = m
    BY DeliverType DEF SentRequest
  <1>2. task[c] = "sending" /\ m.type # "ClientConnected"
    BY <1>1 DEF SentRequest
  <1>3. state[c] = "Connected" /\ session[c].id \in ClientId
    <2>1. state[c] # "Initialized"
      <3> SUFFICES ASSUME state[c] = "Initialized"
                   PROVE  FALSE
        OBVIOUS
      <3>1. m = Hello(c)
        BY <1>2 DEF IInv, OutboxInv, OutboxOK
      <3>2. Hello(c).type = "ClientConnected"
        BY DEF Hello
      <3> QED  BY <1>2, <3>1, <3>2
    <2> QED  BY <1>2, <2>1 DEF IInv, OutboxInv, OutboxOK, TypeOK
  <1>4. UNCHANGED <<state, session, disconnectSeen, timer, published, asked,
                    brokerVars>>
    BY DEF SentRequest
  <1>5. /\ task' \in [Conn -> TaskPoints]
        /\ outbox' \in [Conn -> Seq(ToBroker)]
        /\ inbox' \in [Conn -> Seq(ToHandler)]
        /\ \A d \in Conn : Len(inbox'[d]) <= HandlerCap
        /\ \A d \in Conn : task'[d] = "gone" => task[d] = "gone"
        /\ OutboxInv'
    <2>1. CASE /\ task' = [task EXCEPT ![c] = "select"]
               /\ outbox' = [outbox EXCEPT ![c] = <<>>]
               /\ inbox' = inbox
      <3>1. /\ task' \in [Conn -> TaskPoints]
            /\ outbox' \in [Conn -> Seq(ToBroker)]
            /\ \A d \in Conn : task'[d] = "gone" => task[d] = "gone" /\ d # c
            /\ OutboxInv'
        BY <1>3, <1>4, <2>1, BackToSelect
      <3> QED  BY <2>1, <3>1 DEF IInv, TypeOK
    <2>2. CASE Fail(c, TRUE)
      <3>1. /\ task' \in [Conn -> TaskPoints]
            /\ outbox' \in [Conn -> Seq(ToBroker)]
            /\ inbox' \in [Conn -> Seq(ToHandler)]
            /\ \A d \in Conn : Len(inbox'[d]) <= HandlerCap
            /\ task'[c] = "failed"
            /\ \A d \in Conn : d # c => task'[d] = task[d]
        BY <1>3, <2>2, FailStep DEF IInv
      <3>2. TRUE = (state'[c] = "Connected")
        BY <1>3, <1>4
      <3>3. OutboxInv'
        BY <1>3, <1>4, <2>2, <3>2, FailingHandler
      <3> QED  BY <3>1, <3>3
    <2> QED  BY <2>1, <2>2 DEF SentRequest
  <1>6. TypeOK'
    BY <1>1, <1>4, <1>5 DEF IInv, TypeOK, brokerVars, TaskPoints
  <1>7. HelloInv' /\ RouteInv'
    <2>1. clients' = clients
      BY <1>4 DEF brokerVars
    <2> HIDE DEF m
    <2> QED  BY <1>1, <1>2, <1>4, <1>5, <2>1, AppendStep
  <1> QED  BY <1>5, <1>6, <1>7 DEF IInv

\* A handler returns only once the channel has taken its goodbye.
LEMMA SentGoodbyeKeeps ==
    ASSUME IInv, NEW c \in Conn, SentGoodbye(c)
    PROVE  IInv'
  <1> DEFINE m == outbox[c][1]
  <1>1. /\ m \in ToBroker /\ brokerQ' = Append(brokerQ, m)
        /\ brokerQ' \in Seq(ToBroker) /\ Len(brokerQ') <= BrokerCap
        /\ outbox[c] # <<>>
    BY DeliverType DEF SentGoodbye
  <1>2. task[c] \in {"leaving", "failed"}
    BY DEF SentGoodbye
  <1>3. /\ state[c] = "Connected" /\ session[c].id \in ClientId
        /\ IsFarewell(outbox[c], session[c].id)
    BY <1>2 DEF IInv, OutboxInv, OutboxOK
  <1>4. UNCHANGED <<state, session, disconnectSeen, timer, published, asked,
                    brokerVars>>
    BY DEF SentGoodbye
  <1>5. /\ outbox' \in [Conn -> Seq(ToBroker)] /\ outbox'[c] = Tail(outbox[c])
        /\ \A d \in Conn : d # c => outbox'[d] = outbox[d]
    BY <1>1 DEF SentGoodbye, IInv, TypeOK
  <1>6. m.type # "ClientConnected"
    BY <1>3 DEF IsFarewell, Goodbye
  <1>7. CASE Len(outbox[c]) = 1
    <2>1. /\ task' = [task EXCEPT ![c] = "gone"]
          /\ inbox' = [inbox EXCEPT ![c] = <<>>]
      BY <1>7 DEF SentGoodbye
    <2>2. /\ task' \in [Conn -> TaskPoints] /\ task'[c] = "gone"
          /\ \A d \in Conn : d # c => task'[d] = task[d]
      BY <2>1 DEF IInv, TypeOK, TaskPoints
    <2>3. /\ inbox' \in [Conn -> Seq(ToHandler)]
          /\ \A d \in Conn : Len(inbox'[d]) <= HandlerCap
      BY <2>1, CapAssumption DEF IInv, TypeOK
    <2>4. TypeOK'
      BY <1>1, <1>4, <1>5, <2>2, <2>3 DEF IInv, TypeOK, brokerVars, TaskPoints
    <2>5. m = Goodbye(session[c].id) /\ outbox'[c] = <<>>
      <3>1. outbox[c] \in Seq(ToBroker) /\ outbox'[c] \in Seq(ToBroker)
        BY <1>5 DEF IInv, TypeOK
      <3>2. m = Goodbye(session[c].id)
        BY <1>3, <1>7 DEF IsFarewell
      <3>3. Len(outbox'[c]) = 0
        BY <1>1, <1>5, <1>7, <3>1
      <3> QED  BY <3>1, <3>2, <3>3
    <2>6. OutboxOK(c)'
      BY <1>3, <1>4, <2>2, <2>5 DEF OutboxOK
    <2>7. OutboxInv'
      BY <1>4, <1>5, <2>2, <2>6, OutboxStep DEF OthersSame
    <2>8. HelloInv' /\ RouteInv'
      <3>1. clients' = clients
        BY <1>4 DEF brokerVars
      <3>2. \A d \in Conn : task'[d] = "gone" =>
              \/ task[d] = "gone"
              \/ d = c /\ state[c] = "Connected" /\ m = Goodbye(session[c].id)
        BY <1>3, <2>2, <2>5
      <3> HIDE DEF m
      <3> QED  BY <1>1, <1>4, <1>6, <3>1, <3>2, AppendStep
    <2> QED  BY <2>4, <2>7, <2>8 DEF IInv
  <1>8. CASE Len(outbox[c]) # 1
    <2>1. UNCHANGED <<task, inbox>>
      BY <1>8 DEF SentGoodbye
    <2>2. TypeOK'
      BY <1>1, <1>4, <1>5, <2>1 DEF IInv, TypeOK, brokerVars
    <2>3. IsFarewell(outbox'[c], session[c].id)
      <3>1. outbox[c] \in Seq(ToBroker)
        BY DEF IInv, TypeOK
      <3>2. Len(outbox[c]) = 2 /\ outbox[c][2] = Goodbye(session[c].id)
        BY <1>3, <1>8 DEF IsFarewell
      <3>3. Len(outbox'[c]) = 1 /\ outbox'[c][1] = outbox[c][2]
        BY <1>1, <1>5, <3>1, <3>2
      <3> QED  BY <3>2, <3>3 DEF IsFarewell
    <2>4. OutboxOK(c)'
      BY <1>2, <1>3, <1>4, <2>1, <2>3 DEF OutboxOK, IsFarewell, Goodbye
    <2>5. OutboxInv'
      BY <1>4, <1>5, <2>1, <2>4, OutboxStep DEF OthersSame
    <2>6. HelloInv' /\ RouteInv'
      <3>1. clients' = clients
        BY <1>4 DEF brokerVars
      <3> HIDE DEF m
      <3> QED  BY <1>1, <1>4, <1>6, <2>1, <3>1, AppendStep
    <2> QED  BY <2>2, <2>5, <2>6 DEF IInv
  <1> QED  BY <1>7, <1>8

\* The timeout touches only the handler's own channel.
LEMMA TimerFiresKeeps ==
    ASSUME IInv, NEW c \in Conn, TimerFires(c)
    PROVE  IInv'
  <1>1. /\ inbox' \in [Conn -> Seq(ToHandler)]
        /\ \A d \in Conn : Len(inbox'[d]) <= HandlerCap
    <2>1. [type |-> "ClientConnectionTimeout"] \in ToHandler
      BY DEF ToHandler
    <2> QED  BY <2>1, CapAssumption DEF TimerFires, IInv, TypeOK
  <1>2. TypeOK'
    BY <1>1 DEF TimerFires, IInv, TypeOK, brokerVars
  <1>3. OutboxInv'
    BY OutboxSame DEF TimerFires
  <1>4. HelloInv' /\ RouteInv'
    BY QuietStep DEF TimerFires, Steady, brokerVars
  <1> QED  BY <1>2, <1>3, <1>4 DEF IInv

\* A message to a handler is handled, or ends the handler.
LEMMA InboxStepKeeps ==
    ASSUME IInv, NEW c \in Conn, InboxStep(c)
    PROVE  IInv'
  <1>1. UNCHANGED <<state, session, disconnectSeen, timer, published, asked,
                    brokerQ, brokerVars>>
    BY DEF InboxStep, HandleBrokerPublish, HandleConnectionTimeout
  <1>2. CASE Fail(c, state[c] = "Connected")
    BY <1>1, <1>2, FailKeeps
  <1>3. CASE /\ inbox[c] # <<>> /\ inbox' = [inbox EXCEPT ![c] = Tail(@)]
             /\ UNCHANGED <<task, outbox>>
    <2>1. /\ inbox' \in [Conn -> Seq(ToHandler)]
          /\ \A d \in Conn : Len(inbox'[d]) <= HandlerCap
      <3>1. /\ Tail(inbox[c]) \in Seq(ToHandler)
            /\ Len(Tail(inbox[c])) <= HandlerCap
        BY <1>3, CapAssumption DEF IInv, TypeOK
      <3> QED  BY <1>3, <3>1 DEF IInv, TypeOK
    <2>2. TypeOK'
      BY <1>1, <1>3, <2>1 DEF IInv, TypeOK, brokerVars
    <2>3. OutboxInv'
      BY <1>1, <1>3, OutboxSame
    <2>4. HelloInv' /\ RouteInv'
      BY <1>1, <1>3, QuietStep DEF Steady, brokerVars
    <2> QED  BY <2>2, <2>3, <2>4 DEF IInv
  <1>4. state[c] # "Connected" => (state[c] = "Connected") = FALSE
    OBVIOUS
  <1> QED  BY <1>2, <1>3, <1>4
           DEF InboxStep, HandleBrokerPublish, HandleConnectionTimeout

-----------------------------------------------------------------------------
(* The broker's steps leave the handlers alone, but for their inboxes.     *)

HandlersSame == UNCHANGED <<handlerVars, outbox>>

\* The types the broker task may disturb.
BrokerTypes ==
    /\ inbox \in [Conn -> Seq(ToHandler)]
    /\ \A c \in Conn : Len(inbox[c]) <= HandlerCap
    /\ brokerQ \in Seq(ToBroker) /\ Len(brokerQ) <= BrokerCap
    /\ current \in [msg : PublishMsg, rem : SUBSET ClientId] \cup {None}
    /\ clients \in [ClientId -> Conn \cup {None}]
    /\ topics \in [ClientId -> SUBSET Topic]
    /\ subscriptions \in [Topic -> SUBSET ClientId]
    /\ alive \in BOOLEAN

\* A step of the broker has to show no more than these three parts.
LEMMA BrokerStepInv ==
    ASSUME IInv, HandlersSame, BrokerTypes', HelloInv', RouteInv'
    PROVE  IInv'
  <1>1. TypeOK'
    BY DEF IInv, TypeOK, HandlersSame, BrokerTypes, handlerVars, PublishMsg
  <1>2. OutboxInv'
    BY OutboxSame DEF HandlersSame, handlerVars
  <1> QED  BY <1>1, <1>2 DEF IInv

\* The types of the variables such a step can change are part of TypeOK.
LEMMA BrokerTypesHold == TypeOK => BrokerTypes
  BY DEF TypeOK, BrokerTypes, PublishMsg

\* The message Take takes, and the channel after it.
LEMMA TakeType ==
    ASSUME TypeOK, NEW kind, Take(kind)
    PROVE  /\ brokerQ # <<>> /\ brokerQ' = Tail(brokerQ)
           /\ Head(brokerQ) \in ToBroker /\ Head(brokerQ).type = kind
           /\ brokerQ' \in Seq(ToBroker) /\ Len(brokerQ') <= BrokerCap
  BY CapAssumption DEF TypeOK, Take

\* A new entry inherits what HelloInv says of its message.
LEMMA HandleClientConnectedKeeps ==
    ASSUME IInv, HandleClientConnected
    PROVE  IInv'
  <1> DEFINE m == Head(brokerQ)
  <1>1. /\ brokerQ # <<>> /\ brokerQ' = Tail(brokerQ)
        /\ m \in ToBroker /\ m.type = "ClientConnected"
        /\ brokerQ' \in Seq(ToBroker) /\ Len(brokerQ') <= BrokerCap
    BY TakeType DEF HandleClientConnected, IInv
  <1>2. m.client \in ClientId /\ m.client_tx \in Conn
    BY <1>1, MsgTypes
  <1>3. BrokerTypes'
    BY <1>1, <1>2, BrokerTypesHold DEF HandleClientConnected, IInv, BrokerTypes
  <1>4. HelloInv' /\ RouteInv'
    BY <1>1, TakeStep DEF HandleClientConnected, handlerVars
  <1>5. HandlersSame
    BY DEF HandlersSame, HandleClientConnected
  <1> QED  BY <1>3, <1>4, <1>5, BrokerStepInv

\* The goodbye taken from the channel is that of the removed entry.
LEMMA HandleClientDisconnectedKeeps ==
    ASSUME IInv, HandleClientDisconnected
    PROVE  IInv'
  <1> DEFINE m == Head(brokerQ)
  <1>1. /\ brokerQ # <<>> /\ brokerQ' = Tail(brokerQ)
        /\ m \in ToBroker /\ m.type = "ClientDisconnected"
        /\ brokerQ' \in Seq(ToBroker) /\ Len(brokerQ') <= BrokerCap
    BY TakeType DEF HandleClientDisconnected, IInv
  <1>2. m.client \in ClientId
    BY <1>1, MsgTypes
  <1>3. BrokerTypes'
    BY <1>1, <1>2, BrokerTypesHold DEF HandleClientDisconnected, IInv, BrokerTypes
  <1>4. HelloInv' /\ RouteInv'
    BY <1>1, TakeStep DEF HandleClientDisconnected, handlerVars
  <1>5. HandlersSame
    BY DEF HandlersSame, HandleClientDisconnected
  <1> QED  BY <1>3, <1>4, <1>5, BrokerStepInv

\* Taking a Publish loses no goodbye.
LEMMA HandlePublishKeeps ==
    ASSUME IInv, HandlePublish
    PROVE  IInv'
  <1> DEFINE m == Head(brokerQ)
  <1>1. /\ brokerQ # <<>> /\ brokerQ' = Tail(brokerQ)
        /\ m \in ToBroker /\ m.type = "Publish"
        /\ brokerQ' \in Seq(ToBroker) /\ Len(brokerQ') <= BrokerCap
    BY TakeType DEF HandlePublish, IInv
  <1>2. m \in PublishMsg
    BY <1>1, MsgTypes
  <1>3. Targets(m) \in SUBSET ClientId
    <2>1. m.packet.topic \in Topic
      BY <1>2 DEF PublishMsg, Packet
    <2> QED  BY <2>1 DEF Targets, IInv, TypeOK
  <1>4. current' \in [msg : PublishMsg, rem : SUBSET ClientId]
    BY <1>2, <1>3 DEF HandlePublish
  <1>5. BrokerTypes'
    BY <1>1, <1>4, BrokerTypesHold DEF HandlePublish, IInv, BrokerTypes
  <1>6. HelloInv' /\ RouteInv'
    BY <1>1, TakeStep DEF HandlePublish, handlerVars
  <1>7. HandlersSame
    BY DEF HandlersSame, HandlePublish
  <1> QED  BY <1>5, <1>6, <1>7, BrokerStepInv

\* A fan-out appends to a handler's channel that has room.
LEMMA FanOutKeeps ==
    ASSUME IInv, NEW i \in ClientId, FanOut(i)
    PROVE  IInv'
  <1> DEFINE c == clients[i]
  <1>1. current \in [msg : PublishMsg, rem : SUBSET ClientId]
    BY DEF FanOut, IInv, TypeOK, PublishMsg
  <1>2. /\ inbox' \in [Conn -> Seq(ToHandler)]
        /\ \A d \in Conn : Len(inbox'[d]) <= HandlerCap
    <2>1. current.msg \in ToHandler
      BY <1>1 DEF PublishMsg, ToHandler
    <2>2. c \in Conn => /\ Append(inbox[c], current.msg) \in Seq(ToHandler)
                        /\ Len(Append(inbox[c], current.msg)) <= HandlerCap
      BY <2>1, CapAssumption DEF FanOut, IInv, TypeOK
    <2> QED  BY <2>2 DEF FanOut, IInv, TypeOK
  <1>3. current' \in [msg : PublishMsg, rem : SUBSET ClientId]
    BY <1>1 DEF FanOut
  <1>4. BrokerTypes'
    BY <1>2, <1>3, BrokerTypesHold DEF FanOut, IInv, BrokerTypes
  <1>5. HelloInv' /\ RouteInv'
    BY QuietStep DEF FanOut, handlerVars, Steady
  <1>6. HandlersSame
    BY DEF HandlersSame, FanOut
  <1> QED  BY <1>4, <1>5, <1>6, BrokerStepInv

\* The end of a fan-out, by success or by error.
LEMMA FanOutEndKeeps ==
    ASSUME IInv, FanOutDone \/ \E i \in ClientId : FanOutFails(i)
    PROVE  IInv'
  <1>1. /\ HandlersSame
        /\ UNCHANGED <<inbox, brokerQ, clients, topics, subscriptions>>
        /\ current' \in {current, None} /\ alive' \in {alive, FALSE}
    BY DEF HandlersSame, FanOutDone, FanOutFails
  <1>2. BrokerTypes'
    BY <1>1, BrokerTypesHold DEF IInv, BrokerTypes
  <1>3. HelloInv' /\ RouteInv'
    BY <1>1, QuietStep DEF HandlersSame, handlerVars, Steady
  <1> QED  BY <1>1, <1>2, <1>3, BrokerStepInv

\* Subscribing changes only the subscriptions.
LEMMA HandleSubscribeKeeps ==
    ASSUME IInv, HandleSubscribe
    PROVE  IInv'
  <1> DEFINE m == Head(brokerQ)
  <1>1. /\ brokerQ # <<>> /\ brokerQ' = Tail(brokerQ)
        /\ m \in ToBroker /\ m.type = "Subscribe"
        /\ brokerQ' \in Seq(ToBroker) /\ Len(brokerQ') <= BrokerCap
    BY TakeType DEF HandleSubscribe, IInv
  <1>2. m.client \in ClientId
    BY <1>1, MsgTypes
  <1>3. BrokerTypes'
    BY <1>1, <1>2, BrokerTypesHold DEF HandleSubscribe, IInv, BrokerTypes
  <1>4. HelloInv' /\ RouteInv'
    BY <1>1, TakeStep DEF HandleSubscribe, handlerVars
  <1>5. HandlersSame
    BY DEF HandlersSame, HandleSubscribe
  <1> QED  BY <1>3, <1>4, <1>5, BrokerStepInv

\* Unsubscribing changes only the subscriptions and ClientInfo.topics.
LEMMA HandleUnsubscribeKeeps ==
    ASSUME IInv, HandleUnsubscribe
    PROVE  IInv'
  <1> DEFINE m == Head(brokerQ)
  <1>1. /\ brokerQ # <<>> /\ brokerQ' = Tail(brokerQ)
        /\ m \in ToBroker /\ m.type = "Unsubscribe"
        /\ brokerQ' \in Seq(ToBroker) /\ Len(brokerQ') <= BrokerCap
    BY TakeType DEF HandleUnsubscribe, IInv
  <1>2. m.client \in ClientId
    BY <1>1, MsgTypes
  <1>3. BrokerTypes'
    BY <1>1, <1>2, BrokerTypesHold DEF HandleUnsubscribe, IInv, BrokerTypes
  <1>4. HelloInv' /\ RouteInv'
    BY <1>1, TakeStep DEF HandleUnsubscribe, handlerVars
  <1>5. HandlersSame
    BY DEF HandlersSame, HandleUnsubscribe
  <1> QED  BY <1>3, <1>4, <1>5, BrokerStepInv

-----------------------------------------------------------------------------
(* The invariant.                                                          *)

\* The broker starts with empty channels and an empty client list.
LEMMA InitIInv == Init => IInv
  <1> SUFFICES ASSUME Init PROVE IInv
    OBVIOUS
  <1>1. TypeOK
    BY InitTypeOK
  <1>2. OutboxInv
    BY DEF Init, OutboxInv, OutboxOK
  <1>3. HelloInv /\ RouteInv
    BY DEF Init, HelloInv, RouteInv
  <1> QED  BY <1>1, <1>2, <1>3 DEF IInv

\* Every step keeps the inductive invariant.
LEMMA NextIInv == IInv /\ [Next]_vars => IInv'
  <1> SUFFICES ASSUME IInv, [Next]_vars PROVE IInv'
    OBVIOUS
  <1>1. ASSUME NEW c \in Conn, PeerStep(c)
        PROVE  IInv'
    <2>1. CASE Accept(c)
      BY <2>1, AcceptKeeps
    <2>2. CASE RecvConnect(c)
      BY <2>2, RecvConnectKeeps
    <2>3. CASE RecvPublish(c)
      BY <2>3, RecvPublishKeeps
    <2>4. CASE RecvSubscribe(c) \/ RecvUnsubscribe(c)
      BY <2>4, RecvSubscribeKeeps
    <2>5. CASE RecvDisconnect(c)
      BY <2>5, RecvDisconnectKeeps
    <2>6. CASE RecvViolation(c)
      BY <2>6, FailKeeps DEF RecvViolation
    <2>7. CASE AnswerFails(c)
      <3>1. (state[c] = "Connected") = TRUE
        BY <2>7 DEF AnswerFails
      <3>2. Fail(c, state[c] = "Connected")
        BY <2>7, <3>1 DEF AnswerFails
      <3> QED  BY <2>7, <3>2, FailKeeps DEF AnswerFails
    <2>8. CASE RecvEof(c)
      BY <2>8, RecvEofKeeps
    <2> QED  BY <1>1, <2>1, <2>2, <2>3, <2>4, <2>5, <2>6, <2>7, <2>8 DEF PeerStep
  <1>2. ASSUME NEW c \in Conn, SendStep(c)
        PROVE  IInv'
    BY <1>2, SentConnectedKeeps, SentRequestKeeps, SentGoodbyeKeeps DEF SendStep
  <1>3. ASSUME NEW c \in Conn, InboxStep(c) \/ TimerFires(c)
        PROVE  IInv'
    BY <1>3, InboxStepKeeps, TimerFiresKeeps
  <1>4. ASSUME BrokerStep
        PROVE  IInv'
    <2>1. CASE \E i \in ClientId : FanOut(i)
      BY <2>1, FanOutKeeps
    <2>2. CASE FanOutDone \/ \E i \in ClientId : FanOutFails(i)
      BY <2>2, FanOutEndKeeps
    <2> QED  BY <1>4, <2>1, <2>2, HandleClientConnectedKeeps,
                HandleClientDisconnectedKeeps, HandlePublishKeeps,
                HandleSubscribeKeeps, HandleUnsubscribeKeeps
             DEF BrokerStep
  <1>5. CASE UNCHANGED vars
    <2>1. HandlersSame /\ UNCHANGED <<inbox, brokerQ, current, clients, topics,
                                      subscriptions, alive>>
      BY <1>5 DEF vars, HandlersSame, handlerVars
    <2>2. BrokerTypes'
      BY <2>1, BrokerTypesHold DEF IInv, BrokerTypes
    <2>3. HelloInv' /\ RouteInv'
      BY <2>1, QuietStep DEF HandlersSame, handlerVars, Steady
    <2> QED  BY <2>1, <2>2, <2>3, BrokerStepInv
  <1> QED  BY <1>1, <1>2, <1>3, <1>4, <1>5 DEF Next

\* What RoutesAreOwned adds to RouteInv is in OutboxInv: a handler that is
\* leaving still has its goodbye to send.
LEMMA IInvImpliesRoutes == IInv => RoutesAreOwned
  <1> SUFFICES ASSUME IInv, NEW i \in ClientId, clients[i] # None
               PROVE  LET c == clients[i] IN
                      /\ session[c].id = i /\ state[c] = "Connected"
                      /\ task[c] \in {"leaving", "failed"} =>
                            Queued(outbox[c], Goodbye(i))
                      /\ task[c] = "gone" => Queued(brokerQ, Goodbye(i))
    BY DEF RoutesAreOwned
  <1> DEFINE c == clients[i]
  <1>1. c \in Conn
    BY DEF IInv, TypeOK
  <1>2. /\ session[c].id = i /\ state[c] = "Connected"
        /\ task[c] = "gone" => Queued(brokerQ, Goodbye(i))
    BY DEF IInv, RouteInv
  <1>3. ASSUME task[c] \in {"leaving", "failed"}
        PROVE  Queued(outbox[c], Goodbye(i))
    <2>1. IsFarewell(outbox[c], i)
      BY <1>1, <1>2, <1>3 DEF IInv, OutboxInv, OutboxOK
    <2>2. Len(outbox[c]) \in 1..Len(outbox[c])
      BY <2>1 DEF IsFarewell
    <2> QED  BY <2>1, <2>2 DEF IsFarewell, Queued
  <1> QED  BY <1>2, <1>3

\* The inductive invariant holds in every reachable state of the broker and
\* its handlers.
THEOREM Invariance == Spec => []IInv
  BY InitIInv, NextIInv, PTL DEF Spec

\* Every message in a channel is one its receiver handles, and no channel
\* exceeds its capacity, however many connections there are.
THEOREM TypeCorrect == Spec => []TypeOK
  <1>1. IInv => TypeOK
    BY DEF IInv
  <1> QED  BY <1>1, Invariance, PTL

\* An entry of Broker.clients belongs to the handler whose session bears the
\* identifier, and a handler that has left it behind has its
\* ClientDisconnected on the way: also with identifiers shared between
\* connections, where handle_client_connected overwrites entries.
THEOREM RoutesOwned == Spec => []RoutesAreOwned
  BY IInvImpliesRoutes, Invariance, PTL
=============================================================================
