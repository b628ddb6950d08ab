------------------------ MODULE BrokerDeliveryProofs ------------------------
(***************************************************************************)
(* Proofs about the way of a message through the broker of MqttBroker:     *)
(* publishing order and last wills, for any number of connections and any  *)
(* channel capacities.                                                     *)
(***************************************************************************)
EXTENDS MqttBrokerProofs, SequenceTheorems

-----------------------------------------------------------------------------
(* The inductive invariant.  The pipeline from a publisher to a subscriber *)
(* is cut into its segments: what holds of a pair of messages in two of    *)
(* them is stated for each pair of segments, so that a step that moves a   *)
(* message from one to the next needs no index arithmetic.                 *)

\* p's messages in q have rising numbers.
Rising(q, p) ==
    \A j, k \in 1..Len(q) :
        j < k /\ PublishOf(p, q[j]) /\ PublishOf(p, q[k]) =>
            q[j].packet.n < q[k].packet.n

\* p's messages in q have smaller numbers than p's messages in r.
Below(q, r, p) ==
    \A j \in 1..Len(q), k \in 1..Len(r) :
        PublishOf(p, q[j]) /\ PublishOf(p, r[k]) =>
            q[j].packet.n < r[k].packet.n

Left == {"leaving", "failed", "gone"}

\* A message with a number that its publisher has not reached is the last will
\* of a client that vanished.
WillOK(m) ==
    m.type = "Publish" /\ m.packet.n > published[m.packet.from] =>
        /\ ~disconnectSeen[m.packet.from]
        /\ task[m.packet.from] \in Left

WillsOK(q) == \A k \in 1..Len(q) : WillOK(q[k])

WillInv == /\ \A c \in Conn : WillsOK(inbox[c]) /\ WillsOK(outbox[c])
           /\ WillsOK(brokerQ)
           /\ current # None => WillOK(current.msg)

\* A handler publishes in the name of its own connection.
FromInv == \A c \in Conn : \A k \in 1..Len(outbox[c]) :
              outbox[c][k].type = "Publish" => outbox[c][k].packet.from = c

\* The targets of a fan-out stay registered while it lasts.
TargetInv == current # None => \A i \in current.rem : clients[i] # None

\* The messages of p, from one segment to the next.
SentInv(p) == /\ Rising(outbox[p], p) /\ Rising(brokerQ, p)
              /\ Below(brokerQ, outbox[p], p)
InboxInv(s, p) == /\ Rising(inbox[s], p)
                  /\ Below(inbox[s], brokerQ, p) /\ Below(inbox[s], outbox[p], p)
CurrentInv(p) ==
    current # None =>
        /\ Below(<<current.msg>>, brokerQ, p)
        /\ Below(<<current.msg>>, outbox[p], p)
        /\ \A i \in current.rem : Below(inbox[clients[i]], <<current.msg>>, p)

OrderInv == \A p \in Conn : /\ SentInv(p) /\ CurrentInv(p)
                            /\ \A s \in Conn : InboxInv(s, p)

DInv == FromInv /\ TargetInv /\ WillInv /\ OrderInv

-----------------------------------------------------------------------------
(* How the relations between segments follow Append and Tail.              *)

\* Nothing is above or below an empty segment.
LEMMA EmptySegment ==
    ASSUME NEW p, NEW q
    PROVE  Rising(<<>>, p) /\ Below(<<>>, q, p) /\ Below(q, <<>>, p)
  BY DEF Rising, Below

\* A message that is not p's is above and below everything.
LEMMA ForeignMessage ==
    ASSUME NEW p, NEW q, NEW m, ~PublishOf(p, m)
    PROVE  Below(<<m>>, q, p) /\ Below(q, <<m>>, p)
  <1>1. \A k \in 1..Len(<<m>>) : <<m>>[k] = m
    OBVIOUS
  <1> QED  BY <1>1 DEF Below

\* A single message is in order.
LEMMA SingleMessage ==
    ASSUME NEW p, NEW m
    PROVE  Rising(<<m>>, p)
  <1>1. \A j, k \in 1..Len(<<m>>) : ~(j < k)
    OBVIOUS
  <1> QED  BY <1>1 DEF Rising

\* A message that is above a segment extends it.
LEMMA AppendSegment ==
    ASSUME NEW S, NEW q \in Seq(S), NEW m \in S, NEW p, NEW r
    PROVE  /\ Rising(q, p) /\ Below(q, <<m>>, p) => Rising(Append(q, m), p)
           /\ Below(q, r, p) /\ Below(<<m>>, r, p) => Below(Append(q, m), r, p)
           /\ Below(r, q, p) /\ Below(r, <<m>>, p) => Below(r, Append(q, m), p)
  <1> DEFINE a == Append(q, m)
  <1>1. /\ Len(a) = Len(q) + 1 /\ Len(q) \in Nat
        /\ \A k \in 1..Len(q) : a[k] = q[k]
        /\ a[Len(q) + 1] = m
    OBVIOUS
  <1>2. Len(<<m>>) = 1 /\ <<m>>[1] = m
    OBVIOUS
  <1>3. \A k \in 1..Len(a) : k \in 1..Len(q) \/ k = Len(q) + 1
    BY <1>1
  <1> HIDE DEF a
  <1>4. ASSUME Rising(q, p), Below(q, <<m>>, p)
        PROVE  Rising(a, p)
    <2> SUFFICES ASSUME NEW j \in 1..Len(a), NEW k \in 1..Len(a), j < k,
                        PublishOf(p, a[j]), PublishOf(p, a[k])
                 PROVE  a[j].packet.n < a[k].packet.n
      BY DEF Rising
    <2>1. j \in 1..Len(q) /\ a[j] = q[j]
      BY <1>1
    <2>2. CASE k \in 1..Len(q)
      BY <1>1, <1>4, <2>1, <2>2 DEF Rising
    <2>3. CASE k = Len(q) + 1
      BY <1>1, <1>2, <1>4, <2>1, <2>3 DEF Below
    <2> QED  BY <1>3, <2>2, <2>3
  <1>5. ASSUME Below(q, r, p), Below(<<m>>, r, p)
        PROVE  Below(a, r, p)
    BY <1>1, <1>2, <1>3, <1>5 DEF Below
  <1>6. ASSUME Below(r, q, p), Below(r, <<m>>, p)
        PROVE  Below(r, a, p)
    BY <1>1, <1>2, <1>3, <1>6 DEF Below
  <1> QED  BY <1>4, <1>5, <1>6 DEF a

\* Taking the first message away keeps the order, and the message is below
\* the rest.
LEMMA TailSegment ==
    ASSUME NEW S, NEW q \in Seq(S), q # <<>>, NEW p, NEW r
    PROVE  /\ Rising(q, p) => Rising(Tail(q), p) /\ Below(<<Head(q)>>, Tail(q), p)
           /\ Below(q, r, p) => Below(Tail(q), r, p) /\ Below(<<Head(q)>>, r, p)
           /\ Below(r, q, p) => Below(r, Tail(q), p) /\ Below(r, <<Head(q)>>, p)
  <1> DEFINE a == Tail(q)
             m == Head(q)
  <1>1. /\ Len(q) = Len(a) + 1 /\ Len(a) \in Nat /\ 1 \in 1..Len(q)
        /\ \A k \in 1..Len(a) : k + 1 \in 1..Len(q) /\ a[k] = q[k + 1] /\ 1 < k + 1
        /\ q[1] = m
    OBVIOUS
  <1>2. Len(<<m>>) = 1 /\ <<m>>[1] = m
    OBVIOUS
  <1> HIDE DEF a, m
  <1>3. ASSUME Rising(q, p)
        PROVE  Rising(a, p) /\ Below(<<m>>, a, p)
    <2>1. Rising(a, p)
      <3> SUFFICES ASSUME NEW j \in 1..Len(a), NEW k \in 1..Len(a), j < k,
                          PublishOf(p, a[j]), PublishOf(p, a[k])
                   PROVE  a[j].packet.n < a[k].packet.n
        BY DEF Rising
      <3>1. j + 1 < k + 1
        OBVIOUS
      <3> QED  BY <1>1, <1>3, <3>1 DEF Rising
    <2>2. Below(<<m>>, a, p)
      BY <1>1, <1>2, <1>3 DEF Rising, Below
    <2> QED  BY <2>1, <2>2
  <1>4. ASSUME Below(q, r, p)
        PROVE  Below(a, r, p) /\ Below(<<m>>, r, p)
    <2>1. Below(a, r, p)
      <3> SUFFICES ASSUME NEW j \in 1..Len(a), NEW k \in 1..Len(r),
                          PublishOf(p, a[j]), PublishOf(p, r[k])
                   PROVE  a[j].packet.n < r[k].packet.n
        BY DEF Below
      <3>1. j + 1 \in 1..Len(q) /\ a[j] = q[j + 1]
        BY <1>1
      <3> QED  BY <1>4, <3>1 DEF Below
    <2>2. Below(<<m>>, r, p)
      BY <1>1, <1>2, <1>4 DEF Below
    <2> QED  BY <2>1, <2>2
  <1>5. ASSUME Below(r, q, p)
        PROVE  Below(r, a, p) /\ Below(r, <<m>>, p)
    <2>1. Below(r, a, p)
      <3> SUFFICES ASSUME NEW j \in 1..Len(r), NEW k \in 1..Len(a),
                          PublishOf(p, r[j]), PublishOf(p, a[k])
                   PROVE  r[j].packet.n < a[k].packet.n
        BY DEF Below
      <3>1. k + 1 \in 1..Len(q) /\ a[k] = q[k + 1]
        BY <1>1
      <3> QED  BY <1>5, <3>1 DEF Below
    <2>2. Below(r, <<m>>, p)
      BY <1>1, <1>2, <1>5 DEF Below
    <2> QED  BY <2>1, <2>2
  <1> QED  BY <1>3, <1>4, <1>5 DEF a, m

-----------------------------------------------------------------------------
(* What a step of one handler does to the segments.                        *)

\* r holds what handler c has just begun to send: its publishes are c's and
\* carry its next number, and an unannounced one is a last will.
Fresh(r, c) ==
    /\ Rising(r, c)
    /\ \A k \in 1..Len(r) : r[k].type = "Publish" =>
          r[k].packet.from = c /\ r[k].packet.n = published[c] + 1

\* The inbox of c gets nothing from the broker.
InboxOnlyLoses(c) ==
    \/ inbox'[c] = inbox[c]
    \/ inbox'[c] = <<>>
    \/ inbox[c] # <<>> /\ inbox'[c] = Tail(inbox[c])
    \/ inbox'[c] = Append(inbox[c], [type |-> "ClientConnectionTimeout"])

\* The messages of c move one place: into the outbox, or on to the broker.
MessagesMove(c) ==
    \/ brokerQ' = brokerQ /\ outbox'[c] = outbox[c]
    \/ /\ brokerQ' = brokerQ /\ outbox[c] = <<>> /\ task[c] \notin Left
       /\ Fresh(outbox'[c], c) /\ WillsOK(outbox[c])'
    \/ /\ outbox[c] # <<>> /\ brokerQ' = Append(brokerQ, Head(outbox[c]))
       /\ outbox'[c] = Tail(outbox[c])
    \/ /\ outbox[c] # <<>> /\ brokerQ' = Append(brokerQ, Head(outbox[c]))
       /\ Tail(outbox[c]) = <<>> /\ task[c] \notin Left
       /\ Fresh(outbox'[c], c) /\ WillsOK(outbox[c])'

\* A count of publishes never falls, and it is final, like the Disconnect
\* flag, once the handler has left.
Settling == \A d \in Conn :
    /\ published'[d] >= published[d]
    /\ task[d] \in Left => task'[d] \in Left /\ disconnectSeen'[d] = disconnectSeen[d]

HandlerMoves(c) ==
    /\ UNCHANGED <<current, clients>>
    /\ \A d \in Conn : d # c => inbox'[d] = inbox[d] /\ outbox'[d] = outbox[d]
    /\ Settling /\ InboxOnlyLoses(c) /\ MessagesMove(c)

\* A step that counts no publish and sees no Disconnect packet settles
\* nothing anew.
LEMMA NothingCounted ==
    ASSUME TypeOK, UNCHANGED <<published, disconnectSeen>>,
           \A d \in Conn : task[d] \in Left => task'[d] \in Left
    PROVE  Settling
  <1>1. \A d \in Conn : published[d] \in Nat
    BY DEF TypeOK
  <1> QED  BY <1>1 DEF Settling

\* What is left of a single message.
LEMMA SingleTail ==
    ASSUME NEW S, NEW q \in Seq(S), Len(q) = 1
    PROVE  Tail(q) = <<>>
  <1>1. q # <<>>
    OBVIOUS
  <1>2. Len(Tail(q)) = 0 /\ Tail(q) \in Seq(S)
    BY <1>1
  <1> QED  BY <1>2, EmptySeq

\* What on_client_disconnect sends is fresh, and a will in it is sound.
LEMMA FarewellIsFresh ==
    ASSUME TypeOK, NEW c \in Conn,
           task'[c] \in Left, outbox'[c] = DisconnectMsgs(c),
           published' = published, disconnectSeen' = disconnectSeen
    PROVE  Fresh(outbox'[c], c) /\ WillsOK(outbox[c])'
  <1> DEFINE s == session[c]
             will == [type |-> "Publish", client |-> s.id,
                      packet |-> [topic |-> s.will, from |-> c,
                                  n |-> published[c] + 1]]
             bye == [type |-> "ClientDisconnected", client |-> s.id]
  <1>1. CASE outbox'[c] = <<will, bye>> /\ ~disconnectSeen[c]
    <2>1. /\ Len(outbox'[c]) = 2 /\ outbox'[c][1] = will /\ outbox'[c][2] = bye
      BY <1>1
    <2>2. \A k \in 1..2 : k = 1 \/ k = 2
      OBVIOUS
    <2>3. ~PublishOf(c, bye) /\ bye.type # "Publish"
      BY DEF PublishOf
    <2>4. will.packet.from = c /\ will.packet.n = published[c] + 1
      OBVIOUS
    <2> HIDE DEF will, bye
    <2>5. Rising(outbox'[c], c)
      BY <2>1, <2>2, <2>3 DEF Rising
    <2>6. Fresh(outbox'[c], c)
      BY <2>1, <2>2, <2>3, <2>4, <2>5 DEF Fresh
    <2>7. WillsOK(outbox[c])'
      BY <1>1, <2>1, <2>2, <2>3, <2>4 DEF WillsOK, WillOK
    <2> QED  BY <2>6, <2>7
  <1>2. CASE outbox'[c] = <<bye>>
    <2>1. /\ Len(outbox'[c]) = 1 /\ outbox'[c][1] = bye
      BY <1>2
    <2>2. bye.type # "Publish"
      OBVIOUS
    <2> HIDE DEF bye
    <2>3. Rising(outbox'[c], c)
      BY <2>1 DEF Rising
    <2> QED  BY <2>1, <2>2, <2>3 DEF Fresh, WillsOK, WillOK
  <1> QED  BY <1>1, <1>2 DEF DisconnectMsgs

\* A single message that is not a publish is fresh.
LEMMA RequestIsFresh ==
    ASSUME NEW c \in Conn, NEW m, outbox'[c] = <<m>>,
           m.type = "Publish" => /\ m.packet.from = c
                                 /\ m.packet.n = published[c] + 1
                                 /\ published'[c] = published[c] + 1,
           published[c] \in Nat
    PROVE  Fresh(outbox'[c], c) /\ WillsOK(outbox[c])'
  <1>1. Len(outbox'[c]) = 1 /\ outbox'[c][1] = m
    OBVIOUS
  <1>2. Rising(outbox'[c], c)
    BY SingleMessage
  <1>3. WillsOK(outbox[c])'
    BY <1>1 DEF WillsOK, WillOK
  <1> QED  BY <1>1, <1>2, <1>3 DEF Fresh

\* So is nothing at all.
LEMMA NothingIsFresh ==
    ASSUME NEW c \in Conn, outbox'[c] = <<>>
    PROVE  Fresh(outbox'[c], c) /\ WillsOK(outbox[c])'
  BY DEF Fresh, WillsOK, Rising

\* ClientHandler::run on an error.
LEMMA FailMoves ==
    ASSUME IInv, NEW c \in Conn, task[c] \in {"select", "sending"},
           NEW connected \in BOOLEAN, Fail(c, connected),
           UNCHANGED <<published, disconnectSeen>>
    PROVE  /\ \A d \in Conn : d # c => inbox'[d] = inbox[d] /\ outbox'[d] = outbox[d]
           /\ inbox'[c] = <<>> /\ Settling
           /\ Fresh(outbox'[c], c) /\ WillsOK(outbox[c])'
  <1>1. /\ \A d \in Conn : d # c => /\ inbox'[d] = inbox[d] /\ outbox'[d] = outbox[d]
                                    /\ task'[d] = task[d]
        /\ inbox'[c] = <<>> /\ task'[c] \in Left
        /\ outbox'[c] = IF connected THEN DisconnectMsgs(c) ELSE <<>>
    BY DEF Fail, IInv, TypeOK, Left
  <1>2. Settling
    BY <1>1, NothingCounted DEF IInv, Left
  <1>3. Fresh(outbox'[c], c) /\ WillsOK(outbox[c])'
    <2>1. CASE connected
      BY <1>1, <2>1, FarewellIsFresh DEF IInv
    <2>2. CASE ~connected
      BY <1>1, <2>2, NothingIsFresh
    <2> QED  BY <2>1, <2>2
  <1> QED  BY <1>1, <1>2, <1>3

\* Every step of a handler or its timeout task is of this form.
LEMMA HandlerStepMoves ==
    ASSUME IInv, NEW c \in Conn,
           PeerStep(c) \/ SendStep(c) \/ InboxStep(c) \/ TimerFires(c)
    PROVE  HandlerMoves(c)
  <1> USE DEF brokerVars
  <1>1. task[c] \in {"none", "select"} => outbox[c] = <<>>
    BY DEF IInv, OutboxInv, OutboxOK
  <1>2. CASE Accept(c)
    <2>1. /\ UNCHANGED <<inbox, outbox, brokerQ, published, disconnectSeen,
                         current, clients>>
          /\ \A d \in Conn : task[d] \in Left => task'[d] = task[d]
      BY <1>2 DEF Accept, IInv, TypeOK, Left
    <2>2. Settling
      BY <2>1, NothingCounted DEF IInv
    <2> QED  BY <2>1, <2>2 DEF HandlerMoves, InboxOnlyLoses, MessagesMove
  <1>3. ASSUME NEW m, task[c] = "select", Send(c, m),
               UNCHANGED <<disconnectSeen, inbox, brokerQ, current, clients>>,
               \A d \in Conn : published'[d] >= published[d],
               m.type = "Publish" => /\ m.packet.from = c
                                     /\ m.packet.n = published[c] + 1
                                     /\ published'[c] = published[c] + 1
        PROVE  HandlerMoves(c)
    <2>1. /\ \A d \in Conn : d # c => outbox'[d] = outbox[d] /\ task'[d] = task[d]
          /\ outbox'[c] = <<m>> /\ task[c] \notin Left /\ published[c] \in Nat
      BY <1>3 DEF Send, IInv, TypeOK, Left
    <2>2. Fresh(outbox'[c], c) /\ WillsOK(outbox[c])'
      BY <1>3, <2>1, RequestIsFresh
    <2>3. Settling
      BY <1>3, <2>1 DEF Settling
    <2> QED  BY <1>1, <1>3, <2>1, <2>2, <2>3
             DEF HandlerMoves, InboxOnlyLoses, MessagesMove
  <1>4. CASE RecvConnect(c)
    <2>1. PICK id \in IdsOf[c] :
             Send(c, [type |-> "ClientConnected", client |-> id, client_tx |-> c])
      BY <1>4 DEF RecvConnect
    <2>2. \A d \in Conn : published'[d] >= published[d]
      BY <1>4 DEF RecvConnect, IInv, TypeOK
    <2> QED  BY <1>3, <1>4, <2>1, <2>2 DEF RecvConnect
  <1>5. CASE RecvPublish(c)
    <2>1. PICK t \in Topic :
             Send(c, [type |-> "Publish", client |-> session[c].id,
                      packet |-> [topic |-> t, from |-> c, n |-> published[c] + 1]])
      BY <1>5 DEF RecvPublish
    <2>2. /\ \A d \in Conn : published'[d] >= published[d]
          /\ published'[c] = published[c] + 1
      BY <1>5 DEF RecvPublish, IInv, TypeOK
    <2> QED  BY <1>3, <1>5, <2>1, <2>2 DEF RecvPublish
  <1>6. CASE RecvSubscribe(c) \/ RecvUnsubscribe(c)
    <2>1. PICK kind \in {"Subscribe", "Unsubscribe"}, ts \in SUBSET Topic :
             Send(c, [type |-> kind, client |-> session[c].id, topics |-> ts])
      BY <1>6 DEF RecvSubscribe, RecvUnsubscribe
    <2>2. \A d \in Conn : published'[d] >= published[d]
      BY <1>6 DEF RecvSubscribe, RecvUnsubscribe, IInv, TypeOK
    <2> QED  BY <1>3, <1>6, <2>1, <2>2 DEF RecvSubscribe, RecvUnsubscribe
  <1>7. CASE RecvDisconnect(c)
    <2>1. /\ UNCHANGED <<task, inbox, outbox, brokerQ, published, current, clients>>
          /\ \A d \in Conn : task[d] \in Left => disconnectSeen'[d] = disconnectSeen[d]
      BY <1>7 DEF RecvDisconnect, IInv, TypeOK, Left
    <2>2. Settling
      BY <2>1 DEF Settling, IInv, TypeOK
    <2> QED  BY <2>1, <2>2 DEF HandlerMoves, InboxOnlyLoses, MessagesMove
  <1>8. ASSUME task[c] = "select", Fail(c, state[c] = "Connected"),
               UNCHANGED <<disconnectSeen, published, brokerQ, current, clients>>
        PROVE  HandlerMoves(c)
    <2>1. (state[c] = "Connected") \in BOOLEAN /\ task[c] \notin Left
      BY <1>8 DEF Left
    <2> QED  BY <1>1, <1>8, <2>1, FailMoves
             DEF HandlerMoves, InboxOnlyLoses, MessagesMove
  <1>9. CASE RecvViolation(c)
    BY <1>8, <1>9 DEF RecvViolation
  <1>10. CASE AnswerFails(c)
    <2>1. (state[c] = "Connected") = TRUE
      BY <1>10 DEF AnswerFails
    <2> QED  BY <1>8, <1>10, <2>1 DEF AnswerFails
  <1>11. CASE RecvEof(c)
    <2>1. CASE state[c] = "Connected"
      <3>1. /\ UNCHANGED <<inbox, brokerQ, published, disconnectSeen, current, clients>>
            /\ \A d \in Conn : d # c => outbox'[d] = outbox[d] /\ task'[d] = task[d]
            /\ task[c] \notin Left /\ task'[c] \in Left
            /\ outbox'[c] = DisconnectMsgs(c) /\ outbox[c] = <<>>
        BY <1>1, <1>11, <2>1 DEF RecvEof, IInv, TypeOK, Left
      <3>2. Settling
        BY <3>1, NothingCounted DEF IInv
      <3>3. Fresh(outbox'[c], c) /\ WillsOK(outbox[c])'
        BY <3>1, FarewellIsFresh DEF IInv
      <3> QED  BY <3>1, <3>2, <3>3 DEF HandlerMoves, InboxOnlyLoses, MessagesMove
    <2>2. CASE state[c] # "Connected"
      <3>1. (state[c] = "Connected") = FALSE
        BY <2>2
      <3> QED  BY <1>8, <1>11, <2>2, <3>1 DEF RecvEof
    <2> QED  BY <2>1, <2>2
  <1>12. CASE SentConnected(c) \/ SentRequest(c)
    <2>1. /\ task[c] = "sending" /\ task[c] \notin Left
          /\ UNCHANGED <<disconnectSeen, published, current, clients>>
          /\ brokerQ' = Append(brokerQ, Head(outbox[c])) /\ outbox[c] # <<>>
      BY <1>12 DEF SentConnected, SentRequest, Deliver, Left
    <2>2. Tail(outbox[c]) = <<>>
      <3>1. Len(outbox[c]) = 1 /\ outbox[c] \in Seq(ToBroker)
        BY <2>1 DEF IInv, OutboxInv, OutboxOK, TypeOK
      <3> QED  BY <3>1, SingleTail
    <2>3. CASE Fail(c, TRUE)
      BY <2>1, <2>2, <2>3, FailMoves DEF HandlerMoves, InboxOnlyLoses, MessagesMove
    <2>4. CASE /\ task' = [task EXCEPT ![c] = "select"]
               /\ outbox' = [outbox EXCEPT ![c] = <<>>]
               /\ inbox' = inbox
      <3>1. /\ \A d \in Conn : d # c => outbox'[d] = outbox[d] /\ task'[d] = task[d]
            /\ outbox'[c] = <<>>
        BY <2>4 DEF IInv, TypeOK
      <3>2. Settling
        BY <2>1, <3>1, NothingCounted DEF IInv
      <3> QED  BY <2>1, <2>2, <2>4, <3>1, <3>2
               DEF HandlerMoves, InboxOnlyLoses, MessagesMove
    <2> QED  BY <1>12, <2>3, <2>4 DEF SentConnected, SentRequest
  <1>13. CASE SentGoodbye(c)
    <2>1. /\ brokerQ' = Append(brokerQ, Head(outbox[c])) /\ outbox[c] # <<>>
          /\ UNCHANGED <<disconnectSeen, published, current, clients>>
          /\ outbox'[c] = Tail(outbox[c])
          /\ \A d \in Conn : d # c => /\ outbox'[d] = outbox[d] /\ task'[d] = task[d]
                                      /\ inbox'[d] = inbox[d]
          /\ inbox'[c] \in {inbox[c], <<>>}
          /\ task'[c] \in Left
      BY <1>13 DEF SentGoodbye, Deliver, IInv, TypeOK, Left
    <2>2. Settling
      BY <2>1, NothingCounted DEF IInv
    <2> QED  BY <2>1, <2>2 DEF HandlerMoves, InboxOnlyLoses, MessagesMove
  <1>14. CASE TimerFires(c)
    <2>1. /\ UNCHANGED <<task, outbox, brokerQ, published, disconnectSeen,
                         current, clients>>
          /\ \A d \in Conn : d # c => inbox'[d] = inbox[d]
          /\ InboxOnlyLoses(c)
      BY <1>14 DEF TimerFires, InboxOnlyLoses, IInv, TypeOK
    <2>2. Settling
      BY <2>1, NothingCounted DEF IInv
    <2> QED  BY <2>1, <2>2 DEF HandlerMoves, MessagesMove
  <1>15. CASE InboxStep(c)
    <2>1. /\ task[c] = "select" /\ inbox[c] # <<>>
          /\ UNCHANGED <<disconnectSeen, published, brokerQ, current, clients>>
      BY <1>15 DEF InboxStep, HandleBrokerPublish, HandleConnectionTimeout
    <2>2. CASE Fail(c, state[c] = "Connected")
      BY <1>8, <2>1, <2>2
    <2>3. CASE inbox' = [inbox EXCEPT ![c] = Tail(@)] /\ UNCHANGED <<task, outbox>>
      <3>1. Settling
        BY <2>1, <2>3, NothingCounted DEF IInv
      <3>2. \A d \in Conn : d # c => inbox'[d] = inbox[d]
        BY <2>3 DEF IInv, TypeOK
      <3>3. InboxOnlyLoses(c)
        BY <2>1, <2>3 DEF InboxOnlyLoses, IInv, TypeOK
      <3> QED  BY <2>1, <2>3, <3>1, <3>2, <3>3 DEF HandlerMoves, MessagesMove
    <2>4. state[c] # "Connected" => (state[c] = "Connected") = FALSE
      OBVIOUS
    <2> QED  BY <1>15, <2>2, <2>3, <2>4
             DEF InboxStep, HandleBrokerPublish, HandleConnectionTimeout
  <1> QED  BY <1>2, <1>4, <1>5, <1>6, <1>7, <1>9, <1>10, <1>11, <1>12, <1>13,
              <1>14, <1>15 DEF PeerStep, SendStep

-----------------------------------------------------------------------------
(* A step of one handler keeps DInv.                                       *)

Msgs == ToBroker \cup ToHandler

\* A Publish message in any channel.
LEMMA PublishTypes ==
    ASSUME NEW m \in Msgs, m.type = "Publish"
    PROVE  m \in PublishMsg /\ m.packet.n \in Nat /\ m.packet.from \in Conn
  <1>1. m \in PublishMsg
    BY DEF Msgs, ToBroker, ToHandler, PublishMsg
  <1> QED  BY <1>1 DEF PublishMsg, Packet

\* What c begins to send is above all it has sent before.
LEMMA FreshIsAbove ==
    ASSUME TypeOK, NEW c \in Conn, task[c] \notin Left,
           NEW q \in Seq(Msgs), WillsOK(q), NEW r, Fresh(r, c)
    PROVE  Below(q, r, c)
  <1> SUFFICES ASSUME NEW j \in 1..Len(q), NEW k \in 1..Len(r),
                      PublishOf(c, q[j]), PublishOf(c, r[k])
               PROVE  q[j].packet.n < r[k].packet.n
    BY DEF Below
  <1>1. q[j] \in Msgs
    OBVIOUS
  <1>2. q[j].packet.n \in Nat /\ q[j].packet.from = c
    BY <1>1, PublishTypes DEF PublishOf
  <1>3. published[c] \in Nat
    BY DEF TypeOK
  <1>4. ~(q[j].packet.n > published[c])
    BY <1>2 DEF WillsOK, WillOK, PublishOf
  <1>5. r[k].packet.n = published[c] + 1
    BY DEF Fresh, PublishOf
  <1> QED  BY <1>2, <1>3, <1>4, <1>5

\* Nor does it mix with what others send.
LEMMA FreshIsForeign ==
    ASSUME NEW c \in Conn, NEW p \in Conn, p # c, NEW r, Fresh(r, c), NEW q
    PROVE  Below(q, r, p) /\ Rising(r, p)
  BY DEF Fresh, Below, Rising, PublishOf

\* What a handler hands over is its own.
LEMMA HeadIsOwn ==
    ASSUME TypeOK, FromInv, NEW c \in Conn, outbox[c] # <<>>, NEW p \in Conn, p # c
    PROVE  ~PublishOf(p, Head(outbox[c]))
  <1>1. outbox[c] \in Seq(ToBroker)
    BY DEF TypeOK
  <1>2. Head(outbox[c]) = outbox[c][1] /\ 1 \in 1..Len(outbox[c])
    BY <1>1
  <1> QED  BY <1>2 DEF FromInv, PublishOf

\* Whatever was below p's messages in the broker's channel and in p's outbox
\* stays below them.
LEMMA MovesKeepAbove ==
    ASSUME TypeOK, DInv, NEW c \in Conn, HandlerMoves(c), NEW p \in Conn,
           NEW q \in Seq(Msgs), WillsOK(q),
           Below(q, brokerQ, p), Below(q, outbox[p], p)
    PROVE  Below(q, brokerQ', p) /\ Below(q, outbox'[p], p)
  <1>1. brokerQ \in Seq(ToBroker) /\ outbox[c] \in Seq(ToBroker)
    BY DEF TypeOK
  <1>2. outbox[c] # <<>> => Head(outbox[c]) \in ToBroker
    BY <1>1
  <1>3. CASE p # c
    <2>1. outbox'[p] = outbox[p]
      BY <1>3 DEF HandlerMoves
    <2>2. outbox[c] # <<>> => Below(q, <<Head(outbox[c])>>, p)
      BY <1>3, HeadIsOwn, ForeignMessage DEF DInv
    <2>3. outbox[c] # <<>> => Below(q, Append(brokerQ, Head(outbox[c])), p)
      BY <1>1, <1>2, <2>2, AppendSegment
    <2> QED  BY <2>1, <2>3 DEF HandlerMoves, MessagesMove
  <1>4. CASE p = c
    <2>1. outbox[c] # <<>> => /\ Below(q, <<Head(outbox[c])>>, c)
                              /\ Below(q, Tail(outbox[c]), c)
      BY <1>1, <1>4, TailSegment
    <2>2. outbox[c] # <<>> => Below(q, Append(brokerQ, Head(outbox[c])), c)
      BY <1>1, <1>2, <1>4, <2>1, AppendSegment
    <2>3. task[c] \notin Left /\ Fresh(outbox'[c], c) => Below(q, outbox'[c], c)
      BY FreshIsAbove
    <2> QED  BY <1>4, <2>1, <2>2, <2>3 DEF HandlerMoves, MessagesMove
  <1> QED  BY <1>3, <1>4

\* The messages on their way to the broker stay in order.
LEMMA MovesKeepSent ==
    ASSUME TypeOK, DInv, NEW c \in Conn, HandlerMoves(c), NEW p \in Conn
    PROVE  SentInv(p)'
  <1>1. /\ brokerQ \in Seq(ToBroker) /\ outbox[c] \in Seq(ToBroker)
        /\ brokerQ \in Seq(Msgs) /\ outbox[c] \in Seq(Msgs)
    BY DEF TypeOK, Msgs
  <1>2. outbox[c] # <<>> => Head(outbox[c]) \in ToBroker /\ Head(outbox[c]) \in Msgs
    BY <1>1
  <1>3. /\ Rising(outbox[p], p) /\ Rising(brokerQ, p) /\ Below(brokerQ, outbox[p], p)
        /\ WillsOK(brokerQ) /\ WillsOK(outbox[c])
    BY DEF DInv, OrderInv, SentInv, WillInv
  <1>4. CASE p # c
    <2>1. outbox'[p] = outbox[p]
      BY <1>4 DEF HandlerMoves
    <2>2. outbox[c] # <<>> => /\ Below(brokerQ, <<Head(outbox[c])>>, p)
                              /\ Below(<<Head(outbox[c])>>, outbox[p], p)
      BY <1>4, HeadIsOwn, ForeignMessage DEF DInv
    <2>3. outbox[c] # <<>> => /\ Rising(Append(brokerQ, Head(outbox[c])), p)
                              /\ Below(Append(brokerQ, Head(outbox[c])), outbox[p], p)
      BY <1>1, <1>2, <1>3, <2>2, AppendSegment
    <2> QED  BY <1>3, <2>1, <2>3 DEF HandlerMoves, MessagesMove, SentInv
  <1>5. CASE p = c
    <2>1. outbox[c] # <<>> => /\ Below(brokerQ, <<Head(outbox[c])>>, c)
                              /\ Below(brokerQ, Tail(outbox[c]), c)
                              /\ Rising(Tail(outbox[c]), c)
                              /\ Below(<<Head(outbox[c])>>, Tail(outbox[c]), c)
      BY <1>1, <1>3, <1>5, TailSegment
    <2>2. outbox[c] # <<>> =>
             /\ Rising(Append(brokerQ, Head(outbox[c])), c)
             /\ Below(Append(brokerQ, Head(outbox[c])), Tail(outbox[c]), c)
      BY <1>1, <1>2, <1>3, <1>5, <2>1, AppendSegment
    <2>3. ASSUME task[c] \notin Left, Fresh(outbox'[c], c)
          PROVE  /\ Rising(outbox'[c], c) /\ Below(brokerQ, outbox'[c], c)
                 /\ outbox[c] # <<>> =>
                      Below(Append(brokerQ, Head(outbox[c])), outbox'[c], c)
      <3>1. Rising(outbox'[c], c)
        BY <2>3 DEF Fresh
      <3>2. Below(brokerQ, outbox'[c], c)
        BY <1>1, <1>3, <2>3, FreshIsAbove
      <3>3. Below(outbox[c], outbox'[c], c)
        BY <1>1, <1>3, <2>3, FreshIsAbove
      <3>4. outbox[c] # <<>> => Below(<<Head(outbox[c])>>, outbox'[c], c)
        BY <1>1, <3>3, TailSegment
      <3>5. outbox[c] # <<>> =>
               Below(Append(brokerQ, Head(outbox[c])), outbox'[c], c)
        BY <1>1, <1>2, <3>2, <3>4, AppendSegment
      <3> QED  BY <3>1, <3>2, <3>5
    <2> QED  BY <1>3, <1>5, <2>2, <2>3, <2>1 DEF HandlerMoves, MessagesMove, SentInv
  <1> QED  BY <1>4, <1>5

\* A handler's inbox loses messages, or gets one that is nobody's publish.
LEMMA MovesKeepInbox ==
    ASSUME TypeOK, NEW c \in Conn, HandlerMoves(c), NEW s \in Conn, NEW p, NEW r
    PROVE  /\ Below(inbox[s], r, p) => Below(inbox'[s], r, p)
           /\ Rising(inbox[s], p) => Rising(inbox'[s], p)
  <1> DEFINE m == [type |-> "ClientConnectionTimeout"]
  <1>1. inbox[s] \in Seq(ToHandler) /\ m \in ToHandler /\ ~PublishOf(p, m)
    BY DEF TypeOK, ToHandler, PublishOf
  <1> HIDE DEF m
  <1>2. CASE inbox'[s] = inbox[s]
    BY <1>2
  <1>3. CASE inbox'[s] = <<>>
    BY <1>3, EmptySegment
  <1>4. CASE inbox[s] # <<>> /\ inbox'[s] = Tail(inbox[s])
    BY <1>1, <1>4, TailSegment
  <1>5. CASE inbox'[s] = Append(inbox[s], m)
    <2>1. Below(<<m>>, r, p) /\ Below(inbox[s], <<m>>, p)
      BY <1>1, ForeignMessage
    <2> QED  BY <1>1, <1>5, <2>1, AppendSegment
  <1> QED  BY <1>2, <1>3, <1>4, <1>5 DEF HandlerMoves, InboxOnlyLoses, m

\* WillOK(m) after the step.
WillStaysOK(m) ==
    m.type = "Publish" /\ m.packet.n > published'[m.packet.from] =>
        /\ ~disconnectSeen'[m.packet.from]
        /\ task'[m.packet.from] \in Left

\* A last will stays one: its client has left.
LEMMA SettledWills ==
    ASSUME TypeOK, TypeOK', Settling, NEW m \in Msgs, WillOK(m)
    PROVE  WillStaysOK(m)
  <1> SUFFICES ASSUME m.type = "Publish", m.packet.n > published'[m.packet.from]
               PROVE  /\ ~disconnectSeen'[m.packet.from]
                      /\ task'[m.packet.from] \in Left
    BY DEF WillStaysOK
  <1>1. m.packet.from \in Conn /\ m.packet.n \in Nat
    BY PublishTypes
  <1>2. /\ published[m.packet.from] \in Nat /\ published'[m.packet.from] \in Nat
        /\ published'[m.packet.from] >= published[m.packet.from]
    BY <1>1 DEF TypeOK, Settling
  <1>3. m.packet.n > published[m.packet.from]
    BY <1>1, <1>2
  <1> QED  BY <1>1, <1>3 DEF WillOK, Settling

\* All messages in the channels are messages.
LEMMA ChannelTypes ==
    ASSUME TypeOK
    PROVE  /\ brokerQ \in Seq(Msgs)
           /\ \A c \in Conn : inbox[c] \in Seq(Msgs) /\ outbox[c] \in Seq(Msgs)
           /\ current # None => current.msg \in Msgs /\ <<current.msg>> \in Seq(Msgs)
  <1>1. /\ brokerQ \in Seq(Msgs)
        /\ \A c \in Conn : inbox[c] \in Seq(Msgs) /\ outbox[c] \in Seq(Msgs)
    BY DEF TypeOK, Msgs
  <1>2. current # None => current.msg \in PublishMsg
    BY DEF TypeOK, PublishMsg
  <1>3. PublishMsg \subseteq Msgs
    BY DEF PublishMsg, Msgs, ToBroker
  <1> QED  BY <1>1, <1>2, <1>3

\* Handler steps and last wills.
LEMMA MovesKeepWills ==
    ASSUME TypeOK, TypeOK', DInv, NEW c \in Conn, HandlerMoves(c)
    PROVE  WillInv'
  <1>1. /\ brokerQ \in Seq(Msgs)
        /\ \A d \in Conn : inbox[d] \in Seq(Msgs) /\ outbox[d] \in Seq(Msgs)
        /\ current # None => current.msg \in Msgs
    BY ChannelTypes
  <1>2. \A m \in Msgs : WillOK(m) => WillStaysOK(m)
    BY SettledWills DEF HandlerMoves
  <1>3. current' # None => WillOK(current.msg)'
    BY <1>1, <1>2 DEF DInv, WillInv, HandlerMoves, WillOK, WillStaysOK
  <1>4. ASSUME NEW q \in Seq(Msgs), WillsOK(q)
        PROVE  /\ \A k \in 1..Len(q) : WillStaysOK(q[k])
               /\ q # <<>> => /\ WillStaysOK(Head(q))
                              /\ \A k \in 1..Len(Tail(q)) : WillStaysOK(Tail(q)[k])
    <2>1. \A k \in 1..Len(q) : WillStaysOK(q[k])
      BY <1>2, <1>4 DEF WillsOK
    <2>2. q # <<>> => /\ Head(q) = q[1] /\ 1 \in 1..Len(q)
                      /\ \A k \in 1..Len(Tail(q)) :
                            Tail(q)[k] = q[k + 1] /\ k + 1 \in 1..Len(q)
      OBVIOUS
    <2> QED  BY <2>1, <2>2
  <1>5. WillsOK(brokerQ)'
    <2>1. \A k \in 1..Len(brokerQ') : WillStaysOK(brokerQ'[k])
      <3>1. CASE brokerQ' = brokerQ
        BY <1>1, <1>4, <3>1 DEF DInv, WillInv
      <3>2. CASE outbox[c] # <<>> /\ brokerQ' = Append(brokerQ, Head(outbox[c]))
        <4>1. WillStaysOK(Head(outbox[c]))
          BY <1>1, <1>4, <3>2 DEF DInv, WillInv
        <4>2. \A k \in 1..Len(brokerQ) : WillStaysOK(brokerQ[k])
          BY <1>1, <1>4 DEF DInv, WillInv
        <4>3. \A k \in 1..Len(brokerQ') :
                 \/ k \in 1..Len(brokerQ) /\ brokerQ'[k] = brokerQ[k]
                 \/ brokerQ'[k] = Head(outbox[c])
          BY <1>1, <3>2
        <4> QED  BY <4>1, <4>2, <4>3
      <3> QED  BY <3>1, <3>2 DEF HandlerMoves, MessagesMove
    <2> QED  BY <2>1 DEF WillsOK, WillOK, WillStaysOK
  <1>6. ASSUME NEW d \in Conn
        PROVE  WillsOK(outbox[d])'
    <2>1. \A k \in 1..Len(outbox'[d]) : WillStaysOK(outbox'[d][k])
      <3>1. CASE \/ outbox'[d] = outbox[d]
                 \/ outbox[d] # <<>> /\ outbox'[d] = Tail(outbox[d])
        BY <1>1, <1>4, <3>1 DEF DInv, WillInv
      <3>2. WillsOK(outbox[c])' =>
               \A k \in 1..Len(outbox'[c]) : WillStaysOK(outbox'[c][k])
        BY DEF WillsOK, WillOK, WillStaysOK
      <3> QED  BY <3>1, <3>2 DEF HandlerMoves, MessagesMove
    <2> QED  BY <2>1 DEF WillsOK, WillOK, WillStaysOK
  <1>7. ASSUME NEW d \in Conn
        PROVE  WillsOK(inbox[d])'
    <2>1. \A k \in 1..Len(inbox[d]) : WillStaysOK(inbox[d][k])
      BY <1>1, <1>4 DEF DInv, WillInv
    <2>2. \A k \in 1..Len(inbox'[d]) : WillStaysOK(inbox'[d][k])
      <3>1. CASE inbox'[d] = inbox[d]
        BY <2>1, <3>1
      <3>2. CASE inbox'[d] = <<>>
        BY <3>2
      <3>3. CASE inbox[d] # <<>> /\ inbox'[d] = Tail(inbox[d])
        BY <1>1, <1>4, <3>3 DEF DInv, WillInv
      <3>4. CASE inbox'[d] = Append(inbox[d], [type |-> "ClientConnectionTimeout"])
        <4>1. WillStaysOK([type |-> "ClientConnectionTimeout"])
          BY DEF WillStaysOK
        <4>2. \A k \in 1..Len(inbox'[d]) :
                 \/ k \in 1..Len(inbox[d]) /\ inbox'[d][k] = inbox[d][k]
                 \/ inbox'[d][k] = [type |-> "ClientConnectionTimeout"]
          BY <1>1, <3>4
        <4> QED  BY <2>1, <4>1, <4>2
      <3> QED  BY <3>1, <3>2, <3>3, <3>4 DEF HandlerMoves, InboxOnlyLoses
    <2> QED  BY <2>2 DEF WillsOK, WillOK, WillStaysOK
  <1> QED  BY <1>3, <1>5, <1>6, <1>7 DEF WillInv

\* Handler steps and everything else.
LEMMA HandlerStepKeeps ==
    ASSUME TypeOK, TypeOK', DInv, NEW c \in Conn, HandlerMoves(c)
    PROVE  DInv'
  <1>1. /\ brokerQ \in Seq(Msgs)
        /\ \A d \in Conn : inbox[d] \in Seq(Msgs) /\ outbox[d] \in Seq(Msgs)
        /\ current # None => <<current.msg>> \in Seq(Msgs)
    BY ChannelTypes
  <1>2. FromInv'
    <2> SUFFICES ASSUME NEW d \in Conn
                 PROVE  \A k \in 1..Len(outbox'[d]) :
                           outbox'[d][k].type = "Publish" =>
                              outbox'[d][k].packet.from = d
      BY DEF FromInv
    <2>1. CASE outbox'[d] = outbox[d]
      BY <2>1 DEF DInv, FromInv
    <2>2. CASE outbox[d] # <<>> /\ outbox'[d] = Tail(outbox[d])
      <3>1. \A k \in 1..Len(outbox'[d]) :
               outbox'[d][k] = outbox[d][k + 1] /\ k + 1 \in 1..Len(outbox[d])
        BY <1>1, <2>2
      <3> QED  BY <3>1 DEF DInv, FromInv
    <2>3. CASE d = c /\ Fresh(outbox'[c], c)
      BY <2>3 DEF Fresh
    <2> QED  BY <2>1, <2>2, <2>3 DEF HandlerMoves, MessagesMove
  <1>3. TargetInv'
    BY DEF DInv, TargetInv, HandlerMoves
  <1>4. WillInv'
    BY MovesKeepWills
  <1>5. ASSUME NEW p \in Conn
        PROVE  SentInv(p)' /\ CurrentInv(p)' /\ \A s \in Conn : InboxInv(s, p)'
    <2>1. SentInv(p)'
      BY MovesKeepSent
    <2>2. ASSUME NEW s \in Conn
          PROVE  InboxInv(s, p)'
      <3>1. InboxInv(s, p) /\ WillsOK(inbox[s])
        BY DEF DInv, OrderInv, WillInv
      <3>2. Below(inbox[s], brokerQ', p) /\ Below(inbox[s], outbox'[p], p)
        BY <1>1, <3>1, MovesKeepAbove DEF InboxInv
      <3> QED  BY <3>1, <3>2, MovesKeepInbox DEF InboxInv
    <2>3. CurrentInv(p)'
      <3> SUFFICES ASSUME current # None
                   PROVE  /\ Below(<<current.msg>>, brokerQ', p)
                          /\ Below(<<current.msg>>, outbox'[p], p)
                          /\ \A i \in current.rem :
                                Below(inbox'[clients[i]], <<current.msg>>, p)
        BY DEF CurrentInv, HandlerMoves
      <3>1. CurrentInv(p) /\ WillOK(current.msg)
        BY DEF DInv, OrderInv, WillInv
      <3>2. WillsOK(<<current.msg>>)
        BY <3>1 DEF WillsOK
      <3>3. Below(<<current.msg>>, brokerQ', p) /\ Below(<<current.msg>>, outbox'[p], p)
        BY <1>1, <3>1, <3>2, MovesKeepAbove DEF CurrentInv
      <3>4. ASSUME NEW i \in current.rem
            PROVE  Below(inbox'[clients[i]], <<current.msg>>, p)
        <4>1. i \in ClientId /\ clients[i] # None
          BY DEF DInv, TargetInv, TypeOK
        <4>2. clients[i] \in Conn
          BY <4>1 DEF TypeOK
        <4> QED  BY <3>1, <4>2, MovesKeepInbox DEF CurrentInv
      <3> QED  BY <3>3, <3>4
    <2> QED  BY <2>1, <2>2, <2>3
  <1> QED  BY <1>2, <1>3, <1>4, <1>5 DEF DInv, OrderInv

-----------------------------------------------------------------------------
(* The broker's steps keep DInv.                                           *)

\* The broker takes the first message and has nothing to fan out.
LEMMA TakeKeepsOrder ==
    ASSUME TypeOK, TypeOK', DInv, HandlersSame, inbox' = inbox, brokerQ # <<>>,
           brokerQ' = Tail(brokerQ), current' = None
    PROVE  DInv'
  <1>1. UNCHANGED <<task, disconnectSeen, published, outbox>>
    BY DEF HandlersSame, handlerVars
  <1>2. /\ brokerQ \in Seq(ToBroker)
        /\ \A k \in 1..Len(brokerQ') :
              brokerQ'[k] = brokerQ[k + 1] /\ k + 1 \in 1..Len(brokerQ)
    BY DEF TypeOK
  <1>3. FromInv' /\ TargetInv'
    BY <1>1 DEF DInv, FromInv, TargetInv
  <1>4. WillInv'
    <2>1. WillsOK(brokerQ)'
      BY <1>1, <1>2 DEF DInv, WillInv, WillsOK, WillOK
    <2>2. ASSUME NEW d \in Conn
          PROVE  WillsOK(inbox[d])' /\ WillsOK(outbox[d])'
      BY <1>1 DEF DInv, WillInv, WillsOK, WillOK
    <2> QED  BY <2>1, <2>2 DEF WillInv
  <1>5. ASSUME NEW p \in Conn
        PROVE  SentInv(p)' /\ CurrentInv(p)' /\ \A s \in Conn : InboxInv(s, p)'
    <2>1. SentInv(p)'
      <3>1. SentInv(p)
        BY DEF DInv, OrderInv
      <3> QED  BY <1>1, <1>2, <3>1, TailSegment DEF SentInv
    <2>2. ASSUME NEW s \in Conn
          PROVE  InboxInv(s, p)'
      <3>1. InboxInv(s, p)
        BY DEF DInv, OrderInv
      <3> QED  BY <1>1, <1>2, <3>1, TailSegment DEF InboxInv
    <2>3. CurrentInv(p)'
      BY DEF CurrentInv
    <2> QED  BY <2>1, <2>2, <2>3
  <1> QED  BY <1>3, <1>4, <1>5 DEF DInv, OrderInv

\* handle_publish takes a Publish that is above all its sender's earlier ones
\* that wait in inboxes, and below those still in the channel.
LEMMA HandlePublishKeepsOrder ==
    ASSUME TypeOK, TypeOK', DInv, HandlePublish
    PROVE  DInv'
  <1> DEFINE m == Head(brokerQ)
  <1>1. /\ HandlersSame /\ UNCHANGED <<inbox, clients>>
        /\ UNCHANGED <<task, disconnectSeen, published, outbox>>
        /\ brokerQ # <<>> /\ brokerQ' = Tail(brokerQ) /\ current = None
        /\ current' = [msg |-> m, rem |-> Targets(m)]
    BY DEF HandlePublish, Take, HandlersSame, handlerVars
  <1>2. /\ brokerQ \in Seq(ToBroker)
        /\ \A k \in 1..Len(brokerQ') :
              brokerQ'[k] = brokerQ[k + 1] /\ k + 1 \in 1..Len(brokerQ)
        /\ m = brokerQ[1] /\ 1 \in 1..Len(brokerQ)
    BY <1>1 DEF TypeOK
  <1>3. m.packet.topic \in Topic
    <2>1. m \in ToBroker /\ m.type = "Publish"
      BY TakeType DEF HandlePublish
    <2> QED  BY <2>1, MsgTypes DEF PublishMsg, Packet
  <1> HIDE DEF m
  <1>4. current'.msg = m /\ current'.rem = Targets(m)
    BY <1>1
  <1>5. FromInv'
    BY <1>1 DEF DInv, FromInv
  <1>6. TargetInv'
    BY <1>1, <1>4 DEF TargetInv, Targets
  <1>7. WillInv'
    <2>1. WillsOK(brokerQ)'
      BY <1>1, <1>2 DEF DInv, WillInv, WillsOK, WillOK
    <2>2. ASSUME NEW d \in Conn
          PROVE  WillsOK(inbox[d])' /\ WillsOK(outbox[d])'
      BY <1>1 DEF DInv, WillInv, WillsOK, WillOK
    <2>3. WillOK(current.msg)'
      BY <1>1, <1>2, <1>4 DEF DInv, WillInv, WillsOK, WillOK
    <2> QED  BY <2>1, <2>2, <2>3 DEF WillInv
  <1>8. ASSUME NEW p \in Conn
        PROVE  SentInv(p)' /\ CurrentInv(p)' /\ \A s \in Conn : InboxInv(s, p)'
    <2>1. SentInv(p)
      BY DEF DInv, OrderInv
    <2>2. SentInv(p)'
      BY <1>1, <1>2, <2>1, TailSegment DEF SentInv
    <2>3. ASSUME NEW s \in Conn
          PROVE  InboxInv(s, p)' /\ Below(inbox[s], <<m>>, p)
      <3>1. InboxInv(s, p)
        BY DEF DInv, OrderInv
      <3> QED  BY <1>1, <1>2, <3>1, TailSegment DEF InboxInv, m
    <2>4. CurrentInv(p)'
      <3>1. Below(<<m>>, brokerQ', p) /\ Below(<<m>>, outbox'[p], p)
        BY <1>1, <1>2, <2>1, TailSegment DEF SentInv, m
      <3>2. ASSUME NEW i \in Targets(m)
            PROVE  Below(inbox[clients[i]], <<m>>, p)
        <4>1. i \in ClientId /\ clients[i] # None
          BY <1>3 DEF TypeOK, Targets
        <4>2. clients[i] \in Conn
          BY <4>1 DEF TypeOK
        <4> QED  BY <2>3, <4>2
      <3> QED  BY <1>1, <1>4, <3>1, <3>2 DEF CurrentInv
    <2> QED  BY <2>2, <2>3, <2>4
  <1> QED  BY <1>5, <1>6, <1>7, <1>8 DEF DInv, OrderInv

\* A fan-out appends the current message to one inbox; by RouteInv no other
\* target that is still to come has the same inbox.
LEMMA FanOutKeepsOrder ==
    ASSUME IInv, TypeOK', DInv, NEW i \in ClientId, FanOut(i)
    PROVE  DInv'
  <1> DEFINE c == clients[i]
             m == current.msg
  <1>1. /\ UNCHANGED <<task, disconnectSeen, published, outbox, brokerQ, clients>>
        /\ current # None /\ i \in current.rem
        /\ inbox' = [inbox EXCEPT ![c] = Append(@, m)]
        /\ current' = [msg |-> m, rem |-> current.rem \ {i}]
    BY DEF FanOut, handlerVars
  <1>2. TypeOK /\ current.rem \subseteq ClientId
    BY <1>1 DEF IInv, TypeOK
  <1>3. c \in Conn
    BY <1>1, <1>2 DEF DInv, TargetInv, TypeOK
  <1>4. m \in ToHandler /\ inbox[c] \in Seq(ToHandler)
    BY <1>1, <1>2, <1>3 DEF TypeOK, ToHandler, PublishMsg
  <1>5. /\ inbox'[c] = Append(inbox[c], m)
        /\ \A d \in Conn : d # c => inbox'[d] = inbox[d]
    BY <1>1, <1>2, <1>3 DEF TypeOK
  <1>6. current'.msg = m /\ current'.rem = current.rem \ {i}
    BY <1>1
  <1>7. \A j \in current.rem \ {i} : clients[j] # c /\ clients[j] \in Conn
    <2> SUFFICES ASSUME NEW j \in current.rem, j # i
                 PROVE  clients[j] # c /\ clients[j] \in Conn
      OBVIOUS
    <2>1. clients[j] # None /\ clients[i] # None /\ j \in ClientId
      BY <1>1, <1>2 DEF DInv, TargetInv
    <2>2. session[clients[j]].id = j /\ session[clients[i]].id = i
      BY <2>1 DEF IInv, RouteInv
    <2> QED  BY <1>2, <2>1, <2>2 DEF TypeOK
  <1> HIDE DEF c, m
  <1>8. FromInv' /\ TargetInv'
    BY <1>1, <1>6 DEF DInv, FromInv, TargetInv
  <1>9. WillInv'
    <2>1. WillsOK(brokerQ)'
      BY <1>1 DEF DInv, WillInv, WillsOK, WillOK
    <2>2. WillOK(m) /\ \A d \in Conn : WillsOK(inbox[d]) /\ WillsOK(outbox[d])
      BY <1>1 DEF DInv, WillInv, m
    <2>3. ASSUME NEW d \in Conn
          PROVE  WillsOK(inbox[d])' /\ WillsOK(outbox[d])'
      <3>1. WillsOK(outbox[d])'
        BY <1>1, <2>2 DEF WillsOK, WillOK
      <3>2. CASE d = c
        <4>1. \A k \in 1..Len(inbox'[c]) :
                 \/ k \in 1..Len(inbox[c]) /\ inbox'[c][k] = inbox[c][k]
                 \/ inbox'[c][k] = m
          BY <1>4, <1>5
        <4>2. \A k \in 1..Len(inbox'[c]) : WillOK(inbox'[c][k])
          BY <1>3, <2>2, <4>1 DEF WillsOK
        <4> QED  BY <1>1, <3>1, <3>2, <4>2 DEF WillsOK, WillOK
      <3>3. CASE d # c
        BY <1>1, <1>5, <2>2, <3>1, <3>3 DEF WillsOK, WillOK
      <3> QED  BY <3>2, <3>3
    <2>4. WillOK(current.msg)'
      BY <1>1, <1>6, <2>2 DEF WillOK
    <2> QED  BY <2>1, <2>3, <2>4 DEF WillInv
  <1>10. ASSUME NEW p \in Conn
         PROVE  SentInv(p)' /\ CurrentInv(p)' /\ \A s \in Conn : InboxInv(s, p)'
    <2>1. SentInv(p)'
      BY <1>1 DEF DInv, OrderInv, SentInv
    <2>2. CurrentInv(p) /\ \A s \in Conn : InboxInv(s, p)
      BY DEF DInv, OrderInv
    <2>3. /\ Below(<<m>>, brokerQ, p) /\ Below(<<m>>, outbox[p], p)
          /\ Below(inbox[c], <<m>>, p)
      BY <1>1, <2>2 DEF CurrentInv, c, m
    <2>4. ASSUME NEW s \in Conn
          PROVE  InboxInv(s, p)'
      <3>1. CASE s = c
        <4>1. /\ Rising(Append(inbox[c], m), p)
              /\ Below(Append(inbox[c], m), brokerQ, p)
              /\ Below(Append(inbox[c], m), outbox[p], p)
          BY <1>3, <1>4, <2>2, <2>3, AppendSegment DEF InboxInv
        <4> QED  BY <1>1, <1>5, <3>1, <4>1 DEF InboxInv
      <3>2. CASE s # c
        BY <1>1, <1>5, <2>2, <3>2 DEF InboxInv
      <3> QED  BY <3>1, <3>2
    <2>5. CurrentInv(p)'
      <3>1. \A j \in current'.rem : Below(inbox'[clients[j]], <<m>>, p)
        BY <1>1, <1>5, <1>6, <1>7, <2>2 DEF CurrentInv, m
      <3> QED  BY <1>1, <1>6, <2>3, <3>1 DEF CurrentInv
    <2> QED  BY <2>1, <2>4, <2>5
  <1> QED  BY <1>8, <1>9, <1>10 DEF DInv, OrderInv

\* A step that moves nothing, or ends the fan-out.
LEMMA StillKeepsOrder ==
    ASSUME TypeOK, DInv, HandlersSame, UNCHANGED <<inbox, brokerQ, clients>>,
           current' = current \/ current' = None
    PROVE  DInv'
  <1>1. UNCHANGED <<task, disconnectSeen, published, outbox>>
    BY DEF HandlersSame, handlerVars
  <1>2. FromInv' /\ TargetInv'
    BY <1>1 DEF DInv, FromInv, TargetInv
  <1>3. WillInv'
    BY <1>1 DEF DInv, WillInv, WillsOK, WillOK
  <1>4. OrderInv'
    BY <1>1 DEF DInv, OrderInv, SentInv, InboxInv, CurrentInv
  <1> QED  BY <1>2, <1>3, <1>4 DEF DInv

-----------------------------------------------------------------------------
(* The invariant, and what it says of a whole pipeline.                    *)

\* Nothing is on the way at first.
LEMMA InitDInv == Init => DInv
  BY DEF Init, DInv, FromInv, TargetInv, WillInv, WillsOK, OrderInv, SentInv,
         InboxInv, CurrentInv, Rising, Below

\* Every step keeps DInv.
LEMMA NextDInv == IInv /\ IInv' /\ DInv /\ [Next]_vars => DInv'
  <1> SUFFICES ASSUME IInv, IInv', DInv, [Next]_vars PROVE DInv'
    OBVIOUS
  <1>1. TypeOK /\ TypeOK'
    BY DEF IInv
  <1>2. ASSUME NEW c \in Conn,
               PeerStep(c) \/ SendStep(c) \/ InboxStep(c) \/ TimerFires(c)
        PROVE  DInv'
    BY <1>1, <1>2, HandlerStepMoves, HandlerStepKeeps
  <1>3. CASE HandleClientConnected \/ HandleClientDisconnected
             \/ HandleSubscribe \/ HandleUnsubscribe
    <2>1. /\ HandlersSame /\ inbox' = inbox /\ brokerQ # <<>>
          /\ brokerQ' = Tail(brokerQ) /\ current' = None
      BY <1>3 DEF HandleClientConnected, HandleClientDisconnected,
                  HandleSubscribe, HandleUnsubscribe, Take, HandlersSame
    <2> QED  BY <1>1, <2>1, TakeKeepsOrder
  <1>4. CASE HandlePublish
    BY <1>1, <1>4, HandlePublishKeepsOrder
  <1>5. ASSUME NEW i \in ClientId, FanOut(i)
        PROVE  DInv'
    BY <1>1, <1>5, FanOutKeepsOrder
  <1>6. CASE FanOutDone \/ (\E i \in ClientId : FanOutFails(i)) \/ UNCHANGED vars
    <2>1. /\ HandlersSame /\ UNCHANGED <<inbox, brokerQ, clients>>
          /\ current' = current \/ current' = None
      BY <1>6 DEF FanOutDone, FanOutFails, HandlersSame, vars, handlerVars
    <2> QED  BY <1>1, <2>1, StillKeepsOrder
  <1> QED  BY <1>2, <1>3, <1>4, <1>5, <1>6 DEF Next, BrokerStep

\* The order of the messages on the way is an invariant of the broker, in the
\* form that is inductive.
THEOREM DeliveryInvariance == Spec => [](IInv /\ DInv)
  <1>1. Init => IInv /\ DInv
    BY InitIInv, InitDInv
  <1>2. (IInv /\ DInv) /\ [Next]_vars => (IInv /\ DInv)'
    BY NextIInv, NextDInv
  <1> QED  BY <1>1, <1>2, PTL DEF Spec

\* Two segments one after the other.
LEMMA ConcatSegment ==
    ASSUME NEW q \in Seq(Msgs), NEW r \in Seq(Msgs), NEW p, NEW t
    PROVE  /\ q \o r \in Seq(Msgs)
           /\ Rising(q, p) /\ Rising(r, p) /\ Below(q, r, p) => Rising(q \o r, p)
           /\ Below(q, t, p) /\ Below(r, t, p) => Below(q \o r, t, p)
           /\ WillsOK(q) /\ WillsOK(r) => WillsOK(q \o r)
  <1> DEFINE a == q \o r
  <1>1. /\ a \in Seq(Msgs) /\ Len(a) = Len(q) + Len(r)
        /\ Len(q) \in Nat /\ Len(r) \in Nat
        /\ \A k \in 1..Len(a) : a[k] = IF k <= Len(q) THEN q[k] ELSE r[k - Len(q)]
    OBVIOUS
  <1> HIDE DEF a
  <1>2. \A k \in 1..Len(a) : \/ k \in 1..Len(q) /\ a[k] = q[k]
                             \/ k - Len(q) \in 1..Len(r) /\ a[k] = r[k - Len(q)]
    BY <1>1
  <1>3. ASSUME Rising(q, p), Rising(r, p), Below(q, r, p)
        PROVE  Rising(a, p)
    <2> SUFFICES ASSUME NEW j \in 1..Len(a), NEW k \in 1..Len(a), j < k,
                        PublishOf(p, a[j]), PublishOf(p, a[k])
                 PROVE  a[j].packet.n < a[k].packet.n
      BY DEF Rising
    <2>1. CASE k <= Len(q)
      <3>1. j \in 1..Len(q) /\ k \in 1..Len(q) /\ a[j] = q[j] /\ a[k] = q[k]
        BY <1>1, <2>1
      <3> QED  BY <1>3, <3>1 DEF Rising
    <2>2. CASE j > Len(q)
      <3>1. /\ j - Len(q) \in 1..Len(r) /\ k - Len(q) \in 1..Len(r)
            /\ j - Len(q) < k - Len(q)
            /\ a[j] = r[j - Len(q)] /\ a[k] = r[k - Len(q)]
        BY <1>1, <2>2
      <3> QED  BY <1>3, <3>1 DEF Rising
    <2>3. CASE j <= Len(q) /\ k > Len(q)
      <3>1. /\ j \in 1..Len(q) /\ k - Len(q) \in 1..Len(r)
            /\ a[j] = q[j] /\ a[k] = r[k - Len(q)]
        BY <1>1, <2>3
      <3> QED  BY <1>3, <3>1 DEF Below
    <2> QED  BY <1>1, <2>1, <2>2, <2>3
  <1>4. ASSUME Below(q, t, p), Below(r, t, p)
        PROVE  Below(a, t, p)
    BY <1>2, <1>4 DEF Below
  <1>5. ASSUME WillsOK(q), WillsOK(r)
        PROVE  WillsOK(a)
    BY <1>2, <1>5 DEF WillsOK
  <1> QED  BY <1>1, <1>3, <1>4, <1>5 DEF a

\* The pipeline is the segments one after the other.
LEMMA PipelineInOrder ==
    ASSUME IInv, DInv, NEW s \in Conn, NEW p \in Conn
    PROVE  Rising(Pipeline(s, p), p) /\ WillsOK(Pipeline(s, p))
  <1> DEFINE here == IF current # None /\ (\E i \in current.rem : clients[i] = s)
                     THEN <<current.msg>> ELSE <<>>
  <1>1. /\ brokerQ \in Seq(Msgs) /\ inbox[s] \in Seq(Msgs) /\ outbox[p] \in Seq(Msgs)
        /\ here \in Seq(Msgs)
    BY ChannelTypes DEF IInv
  <1>2. /\ SentInv(p) /\ CurrentInv(p) /\ InboxInv(s, p)
        /\ WillsOK(inbox[s]) /\ WillsOK(brokerQ) /\ WillsOK(outbox[p])
    BY DEF DInv, OrderInv, WillInv
  <1>3. /\ Rising(here, p) /\ Below(inbox[s], here, p)
        /\ Below(here, brokerQ, p) /\ Below(here, outbox[p], p)
        /\ WillsOK(here)
    <2>1. CASE here = <<>>
      BY <2>1, EmptySegment DEF WillsOK
    <2>2. CASE /\ current # None /\ (\E i \in current.rem : clients[i] = s)
               /\ here = <<current.msg>>
      <3>1. WillsOK(<<current.msg>>)
        BY <2>2 DEF DInv, WillInv, WillsOK
      <3> QED  BY <1>2, <2>2, <3>1, SingleMessage DEF CurrentInv
    <2> QED  BY <2>1, <2>2
  <1> HIDE DEF here
  <1> DEFINE a == inbox[s] \o here
             b == a \o brokerQ
  <1>4. /\ a \in Seq(Msgs) /\ Rising(a, p) /\ WillsOK(a)
        /\ Below(a, brokerQ, p) /\ Below(a, outbox[p], p)
    BY <1>1, <1>2, <1>3, ConcatSegment DEF InboxInv
  <1> HIDE DEF a
  <1>5. b \in Seq(Msgs) /\ Rising(b, p) /\ WillsOK(b) /\ Below(b, outbox[p], p)
    BY <1>1, <1>2, <1>4, ConcatSegment DEF SentInv
  <1> HIDE DEF b
  <1>6. Rising(b \o outbox[p], p) /\ WillsOK(b \o outbox[p])
    BY <1>1, <1>2, <1>5, ConcatSegment DEF SentInv
  <1> QED  BY <1>6 DEF Pipeline, a, b, here

\* A subscriber's handler is handed a publisher's messages in the order they
\* were published and none twice, the last will last, through the outbox,
\* the broker's channel, handle_publish's loop and the subscriber's channel:
\* for any number of publishers and subscribers and any channel capacities.
THEOREM InOrder == Spec => []PublishesStayInOrder
  <1>1. IInv /\ DInv => PublishesStayInOrder
    BY PipelineInOrder DEF PublishesStayInOrder, Rising
  <1> QED  BY <1>1, DeliveryInvariance, PTL

\* on_client_disconnect's last will is on the way only for a client whose
\* handler left without having seen a Disconnect packet.
THEOREM WillsAreDeserved == Spec => []NoWillAfterDisconnect
  <1>1. ASSUME IInv, DInv
        PROVE  NoWillAfterDisconnect
    <2> SUFFICES ASSUME NEW c \in Conn, NEW s \in Conn,
                        NEW k \in 1..Len(Pipeline(s, c)),
                        PublishOf(c, Pipeline(s, c)[k]),
                        Pipeline(s, c)[k].packet.n > published[c]
                 PROVE  /\ ~disconnectSeen[c]
                        /\ task[c] \in {"leaving", "failed", "gone"}
      BY DEF NoWillAfterDisconnect
    <2>1. WillOK(Pipeline(s, c)[k])
      BY <1>1, PipelineInOrder DEF WillsOK
    <2> QED  BY <2>1 DEF WillOK, PublishOf, Left
  <1> QED  BY <1>1, DeliveryInvariance, PTL
=============================================================================
