------------------------ MODULE BrokerServiceProofs ------------------------
(***************************************************************************)
(* Proofs about what the broker of MqttBroker does for the clients it      *)
(* serves: they stay registered and their subscriptions are what they      *)
(* asked for, unless another connection uses the same identifier.          *)
(***************************************************************************)
EXTENDS MqttBrokerProofs, SequenceTheorems, WellFoundedInduction

-----------------------------------------------------------------------------
(* The inductive invariant.  An identifier that occurs in the channel or   *)
(* in the subscriptions belongs to a connected handler: so a connection    *)
(* that finds traces of its identifier when it connects has a rival.       *)

\* Some handler has connected with the identifier i.
Owned(i) == \E d \in Conn : session[d].id = i /\ state[d] = "Connected"

QueueOwned == \A k \in 1..Len(brokerQ) : Owned(brokerQ[k].client)
SubscribersOwned == \A t \in Topic : \A i \in subscriptions[t] : Owned(i)

\* A handler sends in its own name.
OutboxOwned == \A c \in Conn : \A k \in 1..Len(outbox[c]) :
                  outbox[c][k].client = session[c].id

\* A goodbye in the channel is that of a handler that has returned.
GoodbyeInv ==
    \A k \in 1..Len(brokerQ) : brokerQ[k].type = "ClientDisconnected" =>
        \E d \in Conn : /\ session[d].id = brokerQ[k].client
                        /\ state[d] = "Connected" /\ task[d] = "gone"

\* handle_subscribe never fills in ClientInfo.topics.
TopicsEmpty == \A i \in ClientId : topics[i] = {}

\* Nobody is connected before it is accepted, or asks for a topic before its
\* handshake.
NothingAsked == \A c \in Conn :
                   /\ task[c] = "none" => state[c] = "Initialized"
                   /\ state[c] = "Initialized" => asked[c] = {}

\* m changes whether i is subscribed to t.
About(m, i, t) == /\ m.type \in {"Subscribe", "Unsubscribe"}
                  /\ m.client = i /\ t \in m.topics

\* Is i subscribed to t after the messages q, when it was so before or not?
Ends(q, i, t, was) ==
    \/ \E k \in 1..Len(q) : /\ About(q[k], i, t) /\ q[k].type = "Subscribe"
                            /\ \A j \in 1..Len(q) : About(q[j], i, t) => j <= k
    \/ (\A k \in 1..Len(q) : ~About(q[k], i, t)) /\ was

\* SubscriptionsFollowRequests, for one client and one segment after the other.
Follows(c, t) ==
    t \in asked[c] <=>
        Ends(outbox[c], session[c].id, t,
             Ends(brokerQ, session[c].id, t, session[c].id \in subscriptions[t]))

\* Also for a client that has left: handle_client_disconnected unsubscribes
\* nobody (TopicsEmpty), so what it last asked for stays as it was.
FollowInv == \A c \in Conn, t \in Topic :
                state[c] = "Connected" /\ ~HasRival(c) => Follows(c, t)

OriginInv == /\ QueueOwned /\ SubscribersOwned /\ OutboxOwned /\ GoodbyeInv
             /\ TopicsEmpty /\ NothingAsked
SInv == OriginInv /\ ServedClientsAreRouted /\ FollowInv

-----------------------------------------------------------------------------
(* How Ends follows Append, Tail and concatenation.                        *)

\* No message of q changes a subscription.
Quiet(q) == \A k \in 1..Len(q) : q[k].type \notin {"Subscribe", "Unsubscribe"}

\* Messages that change nothing.
LEMMA EndsQuiet ==
    ASSUME NEW q, NEW i, NEW t, NEW was \in BOOLEAN, Quiet(q)
    PROVE  Ends(q, i, t, was) <=> was
  BY DEF Quiet, Ends, About

\* The same, for what has been asked for.
LEMMA QuietAsks ==
    ASSUME NEW q, NEW i, NEW A, Quiet(q)
    PROVE  \A t \in Topic : Ends(q, i, t, t \in A) <=> t \in A
  BY DEF Quiet, Ends, About

\* No messages.
LEMMA EndsEmpty ==
    ASSUME NEW i, NEW t, NEW was \in BOOLEAN
    PROVE  Ends(<<>>, i, t, was) <=> was
  BY DEF Ends

\* One message.
LEMMA EndsSingle ==
    ASSUME NEW m, NEW i, NEW t, NEW was \in BOOLEAN
    PROVE  Ends(<<m>>, i, t, was) <=> IF About(m, i, t) THEN m.type = "Subscribe"
                                                        ELSE was
  <1>1. Len(<<m>>) = 1 /\ <<m>>[1] = m
    OBVIOUS
  <1> QED  BY <1>1 DEF Ends

\* The same, for what has been asked for.
LEMMA SingleAsks ==
    ASSUME NEW m, NEW i, NEW A
    PROVE  \A t \in Topic : Ends(<<m>>, i, t, t \in A) <=>
              IF About(m, i, t) THEN m.type = "Subscribe" ELSE t \in A
  <1>1. Len(<<m>>) = 1 /\ <<m>>[1] = m
    OBVIOUS
  <1> QED  BY <1>1 DEF Ends

\* One message more.
LEMMA EndsAppend ==
    ASSUME NEW S, NEW q \in Seq(S), NEW m \in S, NEW i, NEW t, NEW was \in BOOLEAN
    PROVE  Ends(Append(q, m), i, t, was) <=>
             IF About(m, i, t) THEN m.type = "Subscribe" ELSE Ends(q, i, t, was)
  <1> DEFINE a == Append(q, m)
  <1>1. /\ Len(a) = Len(q) + 1 /\ Len(q) \in Nat
        /\ \A k \in 1..Len(q) : a[k] = q[k] /\ k \in 1..Len(a)
        /\ a[Len(q) + 1] = m /\ Len(q) + 1 \in 1..Len(a)
        /\ \A k \in 1..Len(a) : k \in 1..Len(q) \/ k = Len(q) + 1
    OBVIOUS
  <1> HIDE DEF a
  <1>2. CASE About(m, i, t)
    <2>1. ASSUME Ends(a, i, t, was)
          PROVE  m.type = "Subscribe"
      <3>1. PICK k \in 1..Len(a) : /\ About(a[k], i, t) /\ a[k].type = "Subscribe"
                                   /\ \A j \in 1..Len(a) : About(a[j], i, t) => j <= k
        BY <1>1, <1>2, <2>1 DEF Ends
      <3>2. k = Len(q) + 1
        BY <1>1, <1>2, <3>1
      <3> QED  BY <1>1, <3>1, <3>2
    <2>2. ASSUME m.type = "Subscribe"
          PROVE  Ends(a, i, t, was)
      <3>1. \A j \in 1..Len(a) : j <= Len(q) + 1
        BY <1>1
      <3> QED  BY <1>1, <1>2, <2>2, <3>1 DEF Ends
    <2> QED  BY <1>2, <2>1, <2>2 DEF a
  <1>3. CASE ~About(m, i, t)
    <2>1. ASSUME Ends(a, i, t, was)
          PROVE  Ends(q, i, t, was)
      BY <1>1, <1>3, <2>1 DEF Ends
    <2>2. ASSUME Ends(q, i, t, was)
          PROVE  Ends(a, i, t, was)
      BY <1>1, <1>3, <2>2 DEF Ends
    <2> QED  BY <1>3, <2>1, <2>2 DEF a
  <1> QED  BY <1>2, <1>3

\* The first message first.
LEMMA EndsTail ==
    ASSUME NEW S, NEW q \in Seq(S), q # <<>>, NEW i, NEW t, NEW was \in BOOLEAN
    PROVE  Ends(q, i, t, was) <=>
             Ends(Tail(q), i, t, IF About(Head(q), i, t) THEN Head(q).type = "Subscribe"
                                                         ELSE was)
  <1> DEFINE a == Tail(q)
             m == Head(q)
             now == IF About(m, i, t) THEN m.type = "Subscribe" ELSE was
  <1>1. /\ Len(q) = Len(a) + 1 /\ Len(a) \in Nat /\ 1 \in 1..Len(q)
        /\ \A k \in 1..Len(a) : k + 1 \in 1..Len(q) /\ a[k] = q[k + 1]
        /\ \A k \in 1..Len(q) : k = 1 \/ (k - 1 \in 1..Len(a) /\ a[k - 1] = q[k])
        /\ q[1] = m
    OBVIOUS
  <1> HIDE DEF a, m
  <1>2. ASSUME Ends(q, i, t, was)
        PROVE  Ends(a, i, t, now)
    <2>1. ASSUME NEW k \in 1..Len(q), About(q[k], i, t), q[k].type = "Subscribe",
                 \A j \in 1..Len(q) : About(q[j], i, t) => j <= k
          PROVE  Ends(a, i, t, now)
      <3>1. \A j \in 1..Len(a) : About(a[j], i, t) => j + 1 <= k
        BY <1>1, <2>1
      <3>2. CASE k = 1
        <4>1. \A j \in 1..Len(a) : ~About(a[j], i, t)
          BY <3>1, <3>2
        <4> QED  BY <1>1, <2>1, <3>2, <4>1 DEF Ends
      <3>3. CASE k # 1
        <4>1. /\ k - 1 \in 1..Len(a) /\ a[k - 1] = q[k]
              /\ \A j \in 1..Len(a) : About(a[j], i, t) => j <= k - 1
          BY <1>1, <3>1, <3>3
        <4> QED  BY <2>1, <4>1 DEF Ends
      <3> QED  BY <3>2, <3>3
    <2>2. ASSUME \A k \in 1..Len(q) : ~About(q[k], i, t), was
          PROVE  Ends(a, i, t, now)
      BY <1>1, <2>2 DEF Ends
    <2> QED  BY <1>2, <2>1, <2>2 DEF Ends
  <1>3. ASSUME Ends(a, i, t, now)
        PROVE  Ends(q, i, t, was)
    <2>1. ASSUME NEW k \in 1..Len(a), About(a[k], i, t), a[k].type = "Subscribe",
                 \A j \in 1..Len(a) : About(a[j], i, t) => j <= k
          PROVE  Ends(q, i, t, was)
      <3>1. k + 1 \in 1..Len(q) /\ q[k + 1] = a[k]
        BY <1>1, <2>1
      <3>2. ASSUME NEW j \in 1..Len(q), About(q[j], i, t)
            PROVE  j <= k + 1
        <4>1. j # 1 => j - 1 <= k
          BY <1>1, <2>1, <3>2
        <4> QED  BY <4>1
      <3> QED  BY <2>1, <3>1, <3>2 DEF Ends
    <2>2. ASSUME \A k \in 1..Len(a) : ~About(a[k], i, t), now
          PROVE  Ends(q, i, t, was)
      <3>1. \A j \in 1..Len(q) : About(q[j], i, t) => j = 1
        BY <1>1, <2>2
      <3>2. \A j \in 1..Len(q) : About(q[j], i, t) => j <= 1
        BY <3>1
      <3> QED  BY <1>1, <2>2, <3>1, <3>2 DEF Ends
    <2> QED  BY <1>3, <2>1, <2>2 DEF Ends
  <1> QED  BY <1>2, <1>3 DEF a, m

\* One segment after the other.
LEMMA EndsConcat ==
    ASSUME NEW S, NEW q \in Seq(S), NEW r \in Seq(S), NEW i, NEW t,
           NEW was \in BOOLEAN
    PROVE  Ends(q \o r, i, t, was) <=> Ends(r, i, t, Ends(q, i, t, was))
  <1> DEFINE a == q \o r
             n == Len(q)
             mid == Ends(q, i, t, was)
  <1>1. /\ Len(a) = n + Len(r) /\ n \in Nat /\ Len(r) \in Nat
        /\ \A k \in 1..n : k \in 1..Len(a) /\ a[k] = q[k]
        /\ \A k \in 1..Len(r) : n + k \in 1..Len(a) /\ a[n + k] = r[k]
        /\ \A k \in 1..Len(a) : \/ k \in 1..n
                                \/ k > n /\ k - n \in 1..Len(r) /\ a[k] = r[k - n]
    OBVIOUS
  <1> HIDE DEF a, n, mid
  <1>2. CASE \A k \in 1..Len(r) : ~About(r[k], i, t)
    <2>1. \A k \in 1..Len(a) : About(a[k], i, t) => k \in 1..n
      BY <1>1, <1>2
    <2>2. Ends(r, i, t, mid) <=> mid
      BY <1>2 DEF Ends, mid
    <2>3. Ends(a, i, t, was) <=> mid
      BY <1>1, <2>1 DEF Ends, mid, n
    <2> QED  BY <2>2, <2>3 DEF a, mid
  <1>3. ASSUME NEW x \in 1..Len(r), About(r[x], i, t)
        PROVE  Ends(a, i, t, was) <=> Ends(r, i, t, mid)
    <2>1. n + x \in 1..Len(a) /\ About(a[n + x], i, t)
      BY <1>1, <1>3
    <2>2. ASSUME Ends(a, i, t, was)
          PROVE  Ends(r, i, t, mid)
      <3>1. PICK k \in 1..Len(a) : /\ About(a[k], i, t) /\ a[k].type = "Subscribe"
                                   /\ \A j \in 1..Len(a) : About(a[j], i, t) => j <= k
        BY <2>1, <2>2 DEF Ends
      <3>2. n + x <= k
        BY <2>1, <3>1
      <3>3. k - n \in 1..Len(r) /\ a[k] = r[k - n]
        BY <1>1, <3>2
      <3>4. ASSUME NEW j \in 1..Len(r), About(r[j], i, t)
            PROVE  j <= k - n
        <4>1. n + j <= k
          BY <1>1, <3>1, <3>4
        <4> QED  BY <1>1, <4>1
      <3> QED  BY <3>1, <3>3, <3>4 DEF Ends
    <2>3. ASSUME Ends(r, i, t, mid)
          PROVE  Ends(a, i, t, was)
      <3>1. PICK k \in 1..Len(r) : /\ About(r[k], i, t) /\ r[k].type = "Subscribe"
                                   /\ \A j \in 1..Len(r) : About(r[j], i, t) => j <= k
        BY <1>3, <2>3 DEF Ends
      <3>2. n + k \in 1..Len(a) /\ a[n + k] = r[k]
        BY <1>1, <3>1
      <3>3. ASSUME NEW j \in 1..Len(a), About(a[j], i, t)
            PROVE  j <= n + k
        <4>1. CASE j \in 1..n
          BY <1>1, <3>1, <4>1
        <4>2. CASE j > n /\ j - n \in 1..Len(r) /\ a[j] = r[j - n]
          <5>1. j - n <= k
            BY <3>1, <3>3, <4>2
          <5> QED  BY <1>1, <5>1
        <4> QED  BY <1>1, <4>1, <4>2
      <3> QED  BY <3>1, <3>2, <3>3 DEF Ends
    <2> QED  BY <2>2, <2>3
  <1> QED  BY <1>2, <1>3 DEF a, mid

\* A set of natural numbers has a least element.
LEMMA LeastOf ==
    ASSUME NEW S \in SUBSET Nat, S # {}
    PROVE  \E n \in S : \A m \in S : n <= m
  <1> DEFINE R == OpToRel(<, Nat)
  <1>1. \A x, y \in Nat : <<x, y>> \in R <=> x < y
    BY DEF OpToRel
  <1>2. IsWellFoundedOn(R, Nat)
    BY NatLessThanWellFounded
  <1> HIDE DEF R
  <1>3. PICK n \in S : \A m \in S : ~(<<m, n>> \in R)
    BY <1>2, WFMin
  <1>4. \A m \in S : n <= m
    <2> SUFFICES ASSUME NEW m \in S PROVE n <= m
      OBVIOUS
    <2>1. ~(m < n)
      BY <1>1, <1>3
    <2> QED  BY <2>1
  <1> QED  BY <1>4

\* A set of positions has a greatest one.
LEMMA GreatestOf ==
    ASSUME NEW n \in Nat, NEW S \in SUBSET (1..n), S # {}
    PROVE  \E k \in S : \A j \in S : j <= k
  <1> DEFINE T == {n - k : k \in S}
  <1>1. T \in SUBSET Nat /\ T # {}
    <2>1. \A k \in S : k \in 1..n
      OBVIOUS
    <2>2. \A k \in S : n - k \in Nat
      BY <2>1
    <2> QED  BY <2>2
  <1>2. PICK m \in T : \A x \in T : m <= x
    BY <1>1, LeastOf
  <1>3. PICK k \in S : m = n - k
    BY <1>2
  <1>4. \A j \in S : j <= k
    <2> SUFFICES ASSUME NEW j \in S PROVE j <= k
      OBVIOUS
    <2>1. n - k <= n - j
      BY <1>2, <1>3
    <2> QED  BY <2>1
  <1> QED  BY <1>4

\* SubscribedAfter chooses the last message about i and t; Ends says the same
\* without a choice.
LEMMA SubscribedAfterEnds ==
    ASSUME NEW S, NEW q \in Seq(S), NEW i, NEW t
    PROVE  SubscribedAfter(q, i, t) <=> Ends(q, i, t, i \in subscriptions[t])
  <1> DEFINE about == {k \in 1..Len(q) : /\ q[k].type \in {"Subscribe", "Unsubscribe"}
                                         /\ q[k].client = i /\ t \in q[k].topics}
             last == CHOOSE k \in about : \A j \in about : j <= k
  <1>1. SubscribedAfter(q, i, t) <=> IF about = {} THEN i \in subscriptions[t]
                                                   ELSE q[last].type = "Subscribe"
    BY DEF SubscribedAfter
  <1>2. about \in SUBSET (1..Len(q)) /\ Len(q) \in Nat
    OBVIOUS
  <1>3. \A k \in 1..Len(q) : k \in about <=> About(q[k], i, t)
    BY DEF About
  <1>4. about # {} => last \in about /\ \A j \in about : j <= last
    BY <1>2, GreatestOf
  <1> HIDE DEF about, last
  <1>5. CASE about = {}
    BY <1>1, <1>3, <1>5 DEF Ends
  <1>6. CASE about # {}
    <2>1. ASSUME NEW k \in about, \A j \in about : j <= k
          PROVE  k = last
      <3>1. k \in 1..Len(q) /\ last \in 1..Len(q)
        BY <1>2, <1>4, <1>6
      <3> QED  BY <1>4, <1>6, <2>1, <3>1
    <2>2. Ends(q, i, t, i \in subscriptions[t]) <=> q[last].type = "Subscribe"
      BY <1>2, <1>3, <1>4, <1>6, <2>1 DEF Ends
    <2> QED  BY <1>1, <1>6, <2>2
  <1> QED  BY <1>5, <1>6

-----------------------------------------------------------------------------
(* What a step of one handler means for its client's service.              *)

OwnMsgs(q, i) == \A k \in 1..Len(q) : q[k].client = i

InLoop == {"select", "sending"}

StandsStill(c) ==
    /\ brokerQ' = brokerQ /\ outbox'[c] = outbox[c]
    /\ asked'[c] = asked[c] /\ session'[c] = session[c] /\ state'[c] = state[c]
    /\ state[c] = "Connected" /\ task'[c] \in InLoop => task[c] \in InLoop

\* The handler begins to send; if it asks for topics, they are counted as
\* asked for at once.
Begins(c) ==
    /\ brokerQ' = brokerQ /\ outbox[c] = <<>> /\ OwnMsgs(outbox'[c], session'[c].id)
    /\ state'[c] = state[c] /\ task[c] = "select"
    /\ state[c] = "Initialized" => asked'[c] = asked[c]
    /\ state[c] = "Connected" =>
          \A t \in Topic : t \in asked'[c] <=>
              Ends(outbox'[c], session[c].id, t, t \in asked[c])

\* The channel takes the first message; a farewell may follow.
HandsOver(c) ==
    /\ outbox[c] # <<>> /\ brokerQ' = Append(brokerQ, Head(outbox[c]))
    /\ asked'[c] = asked[c] /\ session'[c] = session[c] /\ state'[c] = "Connected"
    /\ Head(outbox[c]).type = "ClientDisconnected" => task'[c] = "gone"
    /\ state[c] # "Connected" => /\ Head(outbox[c]) = Hello(c)
                                 /\ Tail(outbox[c]) = <<>>
    /\ state[c] = "Connected" /\ task'[c] \in InLoop => task[c] \in InLoop
    /\ \/ outbox'[c] = Tail(outbox[c])
       \/ /\ Tail(outbox[c]) = <<>> /\ Quiet(outbox'[c])
          /\ OwnMsgs(outbox'[c], session[c].id)

\* The other handlers' service is not touched, and a connection that is made
\* stays made.
ElsewhereSame(c) ==
    /\ UNCHANGED <<clients, topics, subscriptions>> /\ OthersSame(c)
    /\ \A d \in Conn : d # c => asked'[d] = asked[d]
    /\ state[c] = "Connected" => state'[c] = "Connected" /\ session'[c] = session[c]
    /\ task[c] = "gone" => task'[c] = "gone"
    /\ task'[c] = "none" => task[c] = "none" /\ state'[c] = state[c]

ServiceMoves(c) ==
    ElsewhereSame(c) /\ (StandsStill(c) \/ Begins(c) \/ HandsOver(c))

\* A farewell is in the client's name and about no topic.
LEMMA FarewellIsQuiet ==
    ASSUME NEW c \in Conn
    PROVE  Quiet(DisconnectMsgs(c)) /\ OwnMsgs(DisconnectMsgs(c), session[c].id)
  <1> DEFINE s == session[c]
             will == [type |-> "Publish", client |-> s.id,
                      packet |-> [topic |-> s.will, from |-> c,
                                  n |-> published[c] + 1]]
             bye == [type |-> "ClientDisconnected", client |-> s.id]
  <1>1. /\ will.type = "Publish" /\ will.client = s.id
        /\ bye.type = "ClientDisconnected" /\ bye.client = s.id
    OBVIOUS
  <1>2. DisconnectMsgs(c) = <<will, bye>> \/ DisconnectMsgs(c) = <<bye>>
    BY DEF DisconnectMsgs
  <1> HIDE DEF will, bye
  <1>3. \A k \in 1..Len(DisconnectMsgs(c)) : DisconnectMsgs(c)[k] \in {will, bye}
    BY <1>2
  <1> QED  BY <1>1, <1>3 DEF Quiet, OwnMsgs

\* ClientHandler::run on an error, once more.
LEMMA FailIsQuiet ==
    ASSUME IInv, NEW c \in Conn, NEW connected \in BOOLEAN, Fail(c, connected),
           UNCHANGED <<session, asked, clients, topics, subscriptions>>,
           \A d \in Conn : d # c => state'[d] = state[d],
           state[c] = "Connected" => state'[c] = "Connected"
    PROVE  /\ task[c] \in InLoop => ElsewhereSame(c)
           /\ task'[c] \notin InLoop
           /\ Quiet(outbox'[c]) /\ OwnMsgs(outbox'[c], session[c].id)
  <1>1. /\ \A d \in Conn : d # c => task'[d] = task[d] /\ outbox'[d] = outbox[d]
        /\ task'[c] \notin InLoop /\ task'[c] # "none"
        /\ outbox'[c] = IF connected THEN DisconnectMsgs(c) ELSE <<>>
    BY DEF Fail, IInv, TypeOK, InLoop
  <1>2. Quiet(outbox'[c]) /\ OwnMsgs(outbox'[c], session[c].id)
    <2>1. CASE connected
      BY <1>1, <2>1, FarewellIsQuiet
    <2>2. CASE ~connected
      BY <1>1, <2>2 DEF Quiet, OwnMsgs
    <2> QED  BY <2>1, <2>2
  <1>3. task[c] \in InLoop => ElsewhereSame(c)
    BY <1>1 DEF ElsewhereSame, OthersSame, InLoop
  <1> QED  BY <1>1, <1>2, <1>3

\* Every step of a handler or its timeout task is of this form.
LEMMA HandlerServes ==
    ASSUME IInv, NothingAsked, NEW c \in Conn,
           PeerStep(c) \/ SendStep(c) \/ InboxStep(c) \/ TimerFires(c)
    PROVE  ServiceMoves(c)
  <1> USE DEF brokerVars
  <1>1. task[c] \in {"none", "select"} => outbox[c] = <<>>
    BY DEF IInv, OutboxInv, OutboxOK
  <1>2. CASE Accept(c)
    <2>1. state[c] = "Initialized"
      BY <1>2 DEF Accept, NothingAsked
    <2>2. ElsewhereSame(c)
      BY <1>2, <2>1 DEF Accept, ElsewhereSame, OthersSame, IInv, TypeOK
    <2> QED  BY <1>2, <2>1, <2>2 DEF Accept, ServiceMoves, StandsStill
  <1>3. ASSUME NEW m, task[c] = "select", Send(c, m), m.client = session'[c].id,
               UNCHANGED <<state, brokerQ, clients, topics, subscriptions>>,
               \A d \in Conn : d # c => asked'[d] = asked[d] /\ session'[d] = session[d],
               state[c] = "Initialized" => asked'[c] = asked[c],
               state[c] = "Connected" =>
                  /\ session'[c] = session[c]
                  /\ \A t \in Topic : t \in asked'[c] <=>
                        IF About(m, session[c].id, t) THEN m.type = "Subscribe"
                                                      ELSE t \in asked[c]
        PROVE  ServiceMoves(c)
    <2>1. /\ \A d \in Conn : d # c => outbox'[d] = outbox[d] /\ task'[d] = task[d]
          /\ outbox'[c] = <<m>> /\ task'[c] = "sending"
      BY <1>3 DEF Send, IInv, TypeOK
    <2>2. ElsewhereSame(c)
      BY <1>3, <2>1 DEF ElsewhereSame, OthersSame
    <2>3. OwnMsgs(outbox'[c], session'[c].id)
      BY <1>3, <2>1 DEF OwnMsgs
    <2>4. ASSUME state[c] = "Connected", NEW t \in Topic
          PROVE  t \in asked'[c] <=> Ends(outbox'[c], session[c].id, t, t \in asked[c])
      BY <1>3, <2>1, <2>4, SingleAsks
    <2> QED  BY <1>1, <1>3, <2>2, <2>3, <2>4 DEF ServiceMoves, Begins
  <1>4. CASE RecvConnect(c)
    <2>1. PICK id \in IdsOf[c], will \in WillsOf[c] :
             /\ session' = [session EXCEPT ![c] = [id |-> id, will |-> will]]
             /\ Send(c, [type |-> "ClientConnected", client |-> id, client_tx |-> c])
      BY <1>4 DEF RecvConnect
    <2>2. /\ session'[c].id = id /\ \A d \in Conn : d # c => session'[d] = session[d]
          /\ state[c] # "Connected"
      BY <1>4, <2>1 DEF RecvConnect, IInv, TypeOK
    <2> QED  BY <1>3, <1>4, <2>1, <2>2 DEF RecvConnect
  <1>5. CASE RecvPublish(c)
    <2>1. PICK t \in Topic :
             Send(c, [type |-> "Publish", client |-> session[c].id,
                      packet |-> [topic |-> t, from |-> c, n |-> published[c] + 1]])
      BY <1>5 DEF RecvPublish
    <2> QED  BY <1>3, <1>5, <2>1 DEF RecvPublish, About
  <1>6. CASE RecvSubscribe(c)
    <2>1. PICK ts \in SUBSET Topic \ {{}} :
             /\ Send(c, [type |-> "Subscribe", client |-> session[c].id,
                         topics |-> ts])
             /\ asked' = [asked EXCEPT ![c] = @ \cup ts]
      BY <1>6 DEF RecvSubscribe
    <2>2. asked'[c] = asked[c] \cup ts /\ \A d \in Conn : d # c => asked'[d] = asked[d]
      BY <2>1 DEF IInv, TypeOK
    <2> DEFINE m == [type |-> "Subscribe", client |-> session[c].id, topics |-> ts]
    <2>3. \A t : About(m, session[c].id, t) <=> t \in ts
      BY DEF About
    <2>4. m.type = "Subscribe" /\ m.client = session[c].id /\ Send(c, m)
      BY <2>1
    <2> HIDE DEF m
    <2>5. /\ task[c] = "select" /\ state[c] = "Connected"
          /\ UNCHANGED <<state, session, brokerQ, clients, topics, subscriptions>>
      BY <1>6 DEF RecvSubscribe
    <2>6. \A t \in Topic : t \in asked'[c] <=>
             IF About(m, session[c].id, t) THEN m.type = "Subscribe"
                                           ELSE t \in asked[c]
      BY <2>2, <2>3, <2>4
    <2> QED  BY <1>3, <2>2, <2>4, <2>5, <2>6
  <1>7. CASE RecvUnsubscribe(c)
    <2>1. PICK ts \in SUBSET Topic \ {{}} :
             /\ Send(c, [type |-> "Unsubscribe", client |-> session[c].id,
                         topics |-> ts])
             /\ asked' = [asked EXCEPT ![c] = @ \ ts]
      BY <1>7 DEF RecvUnsubscribe
    <2>2. asked'[c] = asked[c] \ ts /\ \A d \in Conn : d # c => asked'[d] = asked[d]
      BY <2>1 DEF IInv, TypeOK
    <2> DEFINE m == [type |-> "Unsubscribe", client |-> session[c].id, topics |-> ts]
    <2>3. \A t : About(m, session[c].id, t) <=> t \in ts
      BY DEF About
    <2>4. m.type # "Subscribe" /\ m.client = session[c].id /\ Send(c, m)
      BY <2>1
    <2> HIDE DEF m
    <2>5. /\ task[c] = "select" /\ state[c] = "Connected"
          /\ UNCHANGED <<state, session, brokerQ, clients, topics, subscriptions>>
      BY <1>7 DEF RecvUnsubscribe
    <2>6. \A t \in Topic : t \in asked'[c] <=>
             IF About(m, session[c].id, t) THEN m.type = "Subscribe"
                                           ELSE t \in asked[c]
      BY <2>2, <2>3, <2>4
    <2> QED  BY <1>3, <2>2, <2>4, <2>5, <2>6
  <1>8. ASSUME UNCHANGED <<task, state, session, asked, outbox, brokerQ,
                           clients, topics, subscriptions>>
        PROVE  ServiceMoves(c)
    BY <1>8 DEF ServiceMoves, ElsewhereSame, OthersSame, StandsStill
  <1>9. CASE RecvDisconnect(c)
    BY <1>8, <1>9 DEF RecvDisconnect
  <1>10. ASSUME task[c] = "select", Fail(c, state[c] = "Connected"),
                UNCHANGED <<state, session, asked, brokerQ, clients, topics,
                            subscriptions>>
         PROVE  ServiceMoves(c)
    <2>1. (state[c] = "Connected") \in BOOLEAN
      OBVIOUS
    <2>2. /\ ElsewhereSame(c)
          /\ Quiet(outbox'[c]) /\ OwnMsgs(outbox'[c], session[c].id)
      BY <1>10, <2>1, FailIsQuiet DEF InLoop
    <2>3. \A t \in Topic : t \in asked'[c] <=>
             Ends(outbox'[c], session[c].id, t, t \in asked[c])
      BY <1>10, <2>2, QuietAsks
    <2> QED  BY <1>1, <1>10, <2>2, <2>3 DEF ServiceMoves, Begins
  <1>11. CASE RecvViolation(c)
    BY <1>10, <1>11 DEF RecvViolation
  <1>12. CASE AnswerFails(c)
    <2>1. (state[c] = "Connected") = TRUE
      BY <1>12 DEF AnswerFails
    <2> QED  BY <1>10, <1>12, <2>1 DEF AnswerFails
  <1>13. CASE RecvEof(c)
    <2>1. CASE state[c] = "Connected"
      <3>1. /\ UNCHANGED <<state, session, asked, brokerQ, clients, topics,
                           subscriptions>>
            /\ \A d \in Conn : d # c => outbox'[d] = outbox[d] /\ task'[d] = task[d]
            /\ task[c] = "select" /\ task'[c] = "leaving"
            /\ outbox'[c] = DisconnectMsgs(c)
        BY <1>13, <2>1 DEF RecvEof, IInv, TypeOK
      <3>2. ElsewhereSame(c)
        BY <3>1 DEF ElsewhereSame, OthersSame
      <3>3. Quiet(outbox'[c]) /\ OwnMsgs(outbox'[c], session[c].id)
        BY <3>1, FarewellIsQuiet
      <3>4. \A t \in Topic : t \in asked'[c] <=>
               Ends(outbox'[c], session[c].id, t, t \in asked[c])
        BY <3>1, <3>3, QuietAsks
      <3> QED  BY <1>1, <2>1, <3>1, <3>2, <3>3, <3>4 DEF ServiceMoves, Begins
    <2>2. CASE state[c] # "Connected"
      <3>1. (state[c] = "Connected") = FALSE
        BY <2>2
      <3> QED  BY <1>10, <1>13, <2>2, <3>1 DEF RecvEof
    <2> QED  BY <2>1, <2>2
  <1>14. CASE SentConnected(c) \/ SentRequest(c)
    <2>1. /\ task[c] = "sending"
          /\ UNCHANGED <<session, asked, clients, topics, subscriptions>>
          /\ brokerQ' = Append(brokerQ, Head(outbox[c])) /\ outbox[c] # <<>>
      BY <1>14 DEF SentConnected, SentRequest, Deliver
    <2>2. /\ Len(outbox[c]) = 1 /\ outbox[c] \in Seq(ToBroker)
          /\ state[c] = "Initialized" => outbox[c][1] = Hello(c)
          /\ state[c] = "Connected" =>
                outbox[c][1].type \in {"Publish", "Subscribe", "Unsubscribe"}
      BY <2>1 DEF IInv, OutboxInv, OutboxOK, TypeOK
    <2>3. Head(outbox[c]) = outbox[c][1] /\ Tail(outbox[c]) = <<>>
      <3>1. Head(outbox[c]) = outbox[c][1] /\ outbox[c] # <<>>
        BY <2>1, <2>2
      <3>2. Len(Tail(outbox[c])) = 0 /\ Tail(outbox[c]) \in Seq(ToBroker)
        BY <2>2, <3>1
      <3> QED  BY <3>1, <3>2, EmptySeq
    <2>4. state[c] # "Connected" => state[c] = "Initialized"
      BY DEF IInv, TypeOK
    <2>5. Hello(c).type = "ClientConnected"
      BY DEF Hello
    <2>6. /\ state'[c] = "Connected"
          /\ \A d \in Conn : d # c => state'[d] = state[d]
      BY <1>14, <2>2, <2>3, <2>4, <2>5 DEF SentConnected, SentRequest, IInv, TypeOK
    <2>7. Head(outbox[c]).type # "ClientDisconnected"
      BY <2>2, <2>3, <2>4, <2>5
    <2>8. CASE Fail(c, TRUE)
      <3>1. /\ ElsewhereSame(c) /\ task'[c] \notin InLoop
            /\ Quiet(outbox'[c]) /\ OwnMsgs(outbox'[c], session[c].id)
        BY <2>1, <2>6, <2>8, FailIsQuiet DEF InLoop
      <3> QED  BY <2>1, <2>2, <2>3, <2>4, <2>6, <2>7, <3>1 DEF ServiceMoves, HandsOver
    <2>9. CASE /\ task' = [task EXCEPT ![c] = "select"]
               /\ outbox' = [outbox EXCEPT ![c] = <<>>]
      <3>1. /\ \A d \in Conn : d # c => outbox'[d] = outbox[d] /\ task'[d] = task[d]
            /\ outbox'[c] = <<>> /\ task'[c] = "select" /\ task[c] \in InLoop
        BY <2>1, <2>9 DEF IInv, TypeOK, InLoop
      <3>2. ElsewhereSame(c)
        BY <2>1, <2>6, <3>1 DEF ElsewhereSame, OthersSame
      <3> QED  BY <2>1, <2>2, <2>3, <2>4, <2>6, <2>7, <3>1, <3>2
               DEF ServiceMoves, HandsOver
    <2> QED  BY <1>14, <2>8, <2>9 DEF SentConnected, SentRequest
  <1>15. CASE SentGoodbye(c)
    <2>1. /\ brokerQ' = Append(brokerQ, Head(outbox[c])) /\ outbox[c] # <<>>
          /\ UNCHANGED <<state, session, asked, clients, topics, subscriptions>>
          /\ outbox'[c] = Tail(outbox[c])
          /\ \A d \in Conn : d # c => outbox'[d] = outbox[d] /\ task'[d] = task[d]
          /\ task[c] \in {"leaving", "failed"}
          /\ task'[c] = IF Len(outbox[c]) = 1 THEN "gone" ELSE task[c]
      BY <1>15 DEF SentGoodbye, Deliver, IInv, TypeOK
    <2>2. /\ state[c] = "Connected" /\ IsFarewell(outbox[c], session[c].id)
          /\ outbox[c] \in Seq(ToBroker)
      BY <2>1 DEF IInv, OutboxInv, OutboxOK, TypeOK
    <2>3. Head(outbox[c]).type = "ClientDisconnected" => Len(outbox[c]) = 1
      <3>1. Head(outbox[c]) = outbox[c][1]
        BY <2>1, <2>2
      <3> QED  BY <2>2, <3>1 DEF IsFarewell
    <2>4. ElsewhereSame(c)
      BY <2>1 DEF ElsewhereSame, OthersSame
    <2> QED  BY <2>1, <2>2, <2>3, <2>4 DEF ServiceMoves, HandsOver, InLoop
  <1>16. CASE TimerFires(c)
    BY <1>8, <1>16 DEF TimerFires
  <1>17. CASE InboxStep(c)
    <2>1. /\ task[c] = "select"
          /\ UNCHANGED <<state, session, asked, brokerQ, clients, topics,
                         subscriptions>>
      BY <1>17 DEF InboxStep, HandleBrokerPublish, HandleConnectionTimeout
    <2>2. CASE Fail(c, state[c] = "Connected")
      BY <1>10, <2>1, <2>2
    <2>3. CASE UNCHANGED <<task, outbox>>
      BY <1>8, <2>1, <2>3
    <2>4. state[c] # "Connected" => (state[c] = "Connected") = FALSE
      OBVIOUS
    <2> QED  BY <1>17, <2>2, <2>3, <2>4
             DEF InboxStep, HandleBrokerPublish, HandleConnectionTimeout
  <1> QED  BY <1>2, <1>4, <1>5, <1>6, <1>7, <1>9, <1>11, <1>12, <1>13, <1>14,
              <1>15, <1>16, <1>17 DEF PeerStep, SendStep

-----------------------------------------------------------------------------
(* A step of one handler keeps SInv.                                       *)

\* Owned(i) after the step.
StaysOwned(i) == \E d \in Conn : session'[d].id = i /\ state'[d] = "Connected"

\* Connections that are made stay made.
LEMMA OwnersStay ==
    ASSUME NEW c \in Conn, ElsewhereSame(c), NEW i, Owned(i)
    PROVE  StaysOwned(i)
  BY DEF ElsewhereSame, OthersSame, Owned, StaysOwned

\* Rivals stay rivals.
LEMMA RivalsStay ==
    ASSUME NEW c \in Conn, ElsewhereSame(c), NEW x \in Conn,
           session'[x].id = session[x].id, HasRival(x)
    PROVE  HasRival(x)'
  BY DEF ElsewhereSame, OthersSame, HasRival

\* A handler in service that has just handed over its hello is registered
\* soon; all others stay as they were.
LEMMA OriginStep ==
    ASSUME IInv, OriginInv, NEW c \in Conn, ServiceMoves(c)
    PROVE  OriginInv'
  <1>1. ElsewhereSame(c) /\ brokerQ \in Seq(ToBroker) /\ outbox[c] \in Seq(ToBroker)
    BY DEF ServiceMoves, IInv, TypeOK
  <1>2. \A i : Owned(i) => StaysOwned(i)
    BY <1>1, OwnersStay
  <1>3. \A k \in 1..Len(brokerQ') :
           \/ k \in 1..Len(brokerQ) /\ brokerQ'[k] = brokerQ[k]
           \/ HandsOver(c) /\ brokerQ'[k] = outbox[c][1]
    <2>1. CASE brokerQ' = brokerQ
      BY <2>1
    <2>2. CASE HandsOver(c)
      <3>1. brokerQ' = Append(brokerQ, outbox[c][1])
        BY <1>1, <2>2 DEF HandsOver
      <3>2. \A k \in 1..Len(brokerQ') :
               \/ k \in 1..Len(brokerQ) /\ brokerQ'[k] = brokerQ[k]
               \/ brokerQ'[k] = outbox[c][1]
        BY <1>1, <3>1
      <3> QED  BY <2>2, <3>2
    <2> QED  BY <2>1, <2>2 DEF ServiceMoves, StandsStill, Begins
  <1>4. HandsOver(c) => outbox[c][1].client = session[c].id
    <2>1. HandsOver(c) => 1 \in 1..Len(outbox[c])
      BY <1>1 DEF HandsOver
    <2> QED  BY <2>1 DEF OriginInv, OutboxOwned
  <1>5. QueueOwned'
    <2>1. \A k \in 1..Len(brokerQ') : StaysOwned(brokerQ'[k].client)
      <3>1. HandsOver(c) => StaysOwned(outbox[c][1].client)
        BY <1>4 DEF StaysOwned, HandsOver
      <3> QED  BY <1>2, <1>3, <3>1 DEF OriginInv, QueueOwned
    <2> QED  BY <2>1 DEF QueueOwned, Owned, StaysOwned
  <1>6. SubscribersOwned'
    <2>1. \A t \in Topic : \A i \in subscriptions'[t] : StaysOwned(i)
      BY <1>1, <1>2 DEF ElsewhereSame, OriginInv, SubscribersOwned
    <2> QED  BY <2>1 DEF SubscribersOwned, Owned, StaysOwned
  <1>7. OutboxOwned'
    <2> SUFFICES ASSUME NEW d \in Conn
                 PROVE  OwnMsgs(outbox'[d], session'[d].id)
      BY DEF OutboxOwned, OwnMsgs
    <2>1. OwnMsgs(outbox[d], session[d].id)
      BY DEF OriginInv, OutboxOwned, OwnMsgs
    <2>2. CASE d # c
      BY <1>1, <2>1, <2>2 DEF ElsewhereSame, OthersSame
    <2>3. CASE d = c
      <3>1. outbox[c] # <<>> => OwnMsgs(Tail(outbox[c]), session[c].id)
        <4>1. outbox[c] # <<>> => \A k \in 1..Len(Tail(outbox[c])) :
                 k + 1 \in 1..Len(outbox[c]) /\ Tail(outbox[c])[k] = outbox[c][k + 1]
          BY <1>1
        <4> QED  BY <2>1, <2>3, <4>1 DEF OwnMsgs
      <3> QED  BY <2>1, <2>3, <3>1 DEF ServiceMoves, StandsStill, Begins, HandsOver
    <2> QED  BY <2>2, <2>3
  <1>8. GoodbyeInv'
    <2> SUFFICES ASSUME NEW k \in 1..Len(brokerQ'),
                        brokerQ'[k].type = "ClientDisconnected"
                 PROVE  \E d \in Conn : /\ session'[d].id = brokerQ'[k].client
                                        /\ state'[d] = "Connected" /\ task'[d] = "gone"
      BY DEF GoodbyeInv
    <2>1. CASE k \in 1..Len(brokerQ) /\ brokerQ'[k] = brokerQ[k]
      <3>1. PICK d \in Conn : /\ session[d].id = brokerQ[k].client
                              /\ state[d] = "Connected" /\ task[d] = "gone"
        BY <2>1 DEF OriginInv, GoodbyeInv
      <3> QED  BY <1>1, <2>1, <3>1 DEF ElsewhereSame, OthersSame
    <2>2. CASE HandsOver(c) /\ brokerQ'[k] = outbox[c][1]
      <3>1. Head(outbox[c]) = outbox[c][1]
        BY <1>1, <2>2 DEF HandsOver
      <3> QED  BY <1>4, <2>2, <3>1 DEF HandsOver
    <2> QED  BY <1>3, <2>1, <2>2
  <1>9. TopicsEmpty'
    BY <1>1 DEF ElsewhereSame, OriginInv, TopicsEmpty
  <1>10. NothingAsked'
    <2> SUFFICES ASSUME NEW d \in Conn
                 PROVE  /\ task'[d] = "none" => state'[d] = "Initialized"
                        /\ state'[d] = "Initialized" => asked'[d] = {}
      BY DEF NothingAsked
    <2>1. CASE d # c
      BY <1>1, <2>1 DEF ElsewhereSame, OthersSame, OriginInv, NothingAsked
    <2>2. CASE d = c
      BY <1>1, <2>2 DEF ServiceMoves, ElsewhereSame, StandsStill, Begins, HandsOver,
                        OriginInv, NothingAsked
    <2> QED  BY <2>1, <2>2
  <1> QED  BY <1>5, <1>6, <1>7, <1>8, <1>9, <1>10 DEF OriginInv

\* A handler comes into service with its hello in the channel, and nobody
\* loses what it had.
LEMMA RoutedStep ==
    ASSUME IInv, SInv, NEW c \in Conn, ServiceMoves(c)
    PROVE  ServedClientsAreRouted'
  <1> SUFFICES ASSUME NEW x \in Conn, Serving(x)'
               PROVE  (\/ clients[session[x].id] = x
                       \/ Queued(brokerQ, Hello(x))
                       \/ HasRival(x))'
    BY DEF ServedClientsAreRouted
  <1>1. ElsewhereSame(c) /\ brokerQ \in Seq(ToBroker) /\ outbox[c] \in Seq(ToBroker)
    BY DEF ServiceMoves, IInv, TypeOK
  <1>2. clients' = clients
    BY <1>1 DEF ElsewhereSame
  <1>3. CASE Serving(x) /\ session'[x].id = session[x].id
    <2>1. CASE clients[session[x].id] = x
      BY <1>2, <1>3, <2>1
    <2>2. CASE Queued(brokerQ, Hello(x))
      <3>1. PICK k \in 1..Len(brokerQ) : brokerQ[k] = Hello(x)
        BY <2>2 DEF Queued
      <3>2. k \in 1..Len(brokerQ') /\ brokerQ'[k] = brokerQ[k]
        BY <1>1 DEF ServiceMoves, StandsStill, Begins, HandsOver
      <3> QED  BY <1>3, <3>1, <3>2 DEF Queued, Hello
    <2>3. CASE HasRival(x)
      BY <1>1, <1>3, <2>3, RivalsStay
    <2> QED  BY <1>3, <2>1, <2>2, <2>3 DEF SInv, ServedClientsAreRouted
  <1>4. CASE x # c
    BY <1>1, <1>3, <1>4 DEF ElsewhereSame, OthersSame, Serving
  <1>5. CASE x = c /\ state[c] = "Connected"
    <2>1. session'[c] = session[c] /\ Serving(c)
      BY <1>1, <1>5 DEF ServiceMoves, ElsewhereSame, StandsStill, Begins, HandsOver,
                        Serving, InLoop
    <2> QED  BY <1>3, <1>5, <2>1
  <1>6. CASE x = c /\ state[c] # "Connected"
    <2>1. HandsOver(c)
      BY <1>6 DEF ServiceMoves, StandsStill, Begins, Serving
    <2>2. /\ brokerQ' = Append(brokerQ, Hello(c)) /\ session'[c] = session[c]
      BY <1>6, <2>1 DEF HandsOver
    <2>3. /\ Len(brokerQ) + 1 \in 1..Len(brokerQ')
          /\ brokerQ'[Len(brokerQ) + 1] = Hello(c)
      BY <1>1, <2>2
    <2> QED  BY <1>6, <2>2, <2>3 DEF Queued, Hello
  <1> QED  BY <1>4, <1>5, <1>6

\* The outcome is what the client asked for, after a step of a handler.
LEMMA FollowStep ==
    ASSUME IInv, SInv, NEW c \in Conn, ServiceMoves(c)
    PROVE  FollowInv'
  <1> SUFFICES ASSUME NEW x \in Conn, NEW t \in Topic,
                      state'[x] = "Connected", ~HasRival(x)'
               PROVE  Follows(x, t)'
    BY DEF FollowInv
  <1> DEFINE i == session[x].id
             sub == i \in subscriptions[t]
             mid == Ends(brokerQ, i, t, sub)
             wants == t \in asked[x]
             m == Head(outbox[c])
  <1>1. /\ ElsewhereSame(c) /\ brokerQ \in Seq(ToBroker) /\ outbox[c] \in Seq(ToBroker)
        /\ subscriptions' = subscriptions
    BY DEF ServiceMoves, ElsewhereSame, IInv, TypeOK
  <1>2. outbox[c] # <<>> => m \in ToBroker /\ m = outbox[c][1] /\ 1 \in 1..Len(outbox[c])
    BY <1>1
  <1>3. outbox[c] # <<>> => m.client = session[c].id
    BY <1>2 DEF SInv, OriginInv, OutboxOwned
  <1>4. sub \in BOOLEAN /\ mid \in BOOLEAN /\ wants \in BOOLEAN
    BY DEF Ends
  <1>5. Follows(x, t) <=> (wants <=> Ends(outbox[x], i, t, mid))
    BY DEF Follows
  <1>6. session'[x] = session[x] =>
          (Follows(x, t)' <=>
             (t \in asked'[x] <=>
                Ends(outbox'[x], i, t, Ends(brokerQ', i, t, sub))))
    BY <1>1 DEF Follows
  <1>7. ASSUME state[x] = "Connected"
        PROVE  session'[x] = session[x] /\ Follows(x, t)
    <2>1. session'[x] = session[x]
      BY <1>1, <1>7 DEF ElsewhereSame, OthersSame
    <2>2. ~HasRival(x)
      BY <1>1, <2>1, RivalsStay
    <2> QED  BY <1>7, <2>1, <2>2 DEF SInv, FollowInv
  <1>8. CASE x # c
    <2>1. /\ state[x] = "Connected" /\ outbox'[x] = outbox[x] /\ asked'[x] = asked[x]
          /\ session'[x] = session[x]
      BY <1>1, <1>8 DEF ElsewhereSame, OthersSame
    <2>2. Ends(brokerQ', i, t, sub) <=> mid
      <3>1. CASE brokerQ' = brokerQ
        BY <3>1
      <3>2. CASE HandsOver(c)
        <4>1. m.client # i
          BY <1>3, <1>8, <2>1, <3>2 DEF HandsOver, HasRival
        <4>2. ~About(m, i, t)
          BY <4>1 DEF About
        <4> HIDE DEF sub, m, i
        <4>3. Ends(Append(brokerQ, m), i, t, sub) <=> Ends(brokerQ, i, t, sub)
          BY <1>1, <1>2, <1>4, <3>2, <4>2, EndsAppend DEF HandsOver
        <4> QED  BY <3>2, <4>3 DEF HandsOver, m
      <3> QED  BY <3>1, <3>2 DEF ServiceMoves, StandsStill, Begins
    <2> HIDE DEF i, sub, mid, wants
    <2>3. Ends(outbox'[x], i, t, Ends(brokerQ', i, t, sub)) <=>
            Ends(outbox[x], i, t, mid)
      <3> DEFINE new == Ends(brokerQ', i, t, sub)
      <3>1. new <=> mid
        BY <2>2
      <3> HIDE DEF new
      <3>2. Ends(outbox[x], i, t, new) <=> Ends(outbox[x], i, t, mid)
        BY <3>1 DEF Ends
      <3> QED  BY <2>1, <3>2 DEF new
    <2>4. t \in asked'[x] <=> wants
      BY <2>1 DEF wants
    <2> QED  BY <1>5, <1>6, <1>7, <2>1, <2>3, <2>4
  <1>9. CASE x = c /\ state[c] = "Connected"
    <2>1. session'[c] = session[c] /\ (wants <=> Ends(outbox[c], i, t, mid))
      BY <1>5, <1>7, <1>9
    <2>2. CASE StandsStill(c)
      BY <1>6, <1>9, <2>1, <2>2 DEF StandsStill
    <2>3. CASE Begins(c)
      <3>1. /\ t \in asked'[c] <=> Ends(outbox'[c], i, t, wants)
            /\ outbox[c] = <<>> /\ brokerQ' = brokerQ
        BY <1>9, <2>3 DEF Begins
      <3> HIDE DEF i, sub, mid, wants
      <3>2. wants <=> mid
        BY <1>4, <2>1, <3>1, EndsEmpty
      <3>3. Ends(outbox'[c], i, t, wants) <=> Ends(outbox'[c], i, t, mid)
        BY <3>2 DEF Ends
      <3>4. t \in asked'[c] <=> Ends(outbox'[c], i, t, mid)
        BY <3>1, <3>3
      <3> QED  BY <1>6, <1>9, <2>1, <3>1, <3>4 DEF mid
    <2>4. CASE HandsOver(c)
      <3> DEFINE new == Ends(Append(brokerQ, m), i, t, sub)
                 now == IF About(m, i, t) THEN m.type = "Subscribe" ELSE mid
      <3>1. /\ outbox[c] # <<>> /\ brokerQ' = Append(brokerQ, m)
            /\ asked'[c] = asked[c]
            /\ \/ outbox'[c] = Tail(outbox[c])
               \/ Tail(outbox[c]) = <<>> /\ Quiet(outbox'[c])
        BY <2>4 DEF HandsOver
      <3> HIDE DEF i, sub, m
      <3>2. new <=> now
        BY <1>1, <1>2, <1>4, <3>1, EndsAppend
      <3>3. new \in BOOLEAN /\ now \in BOOLEAN
        BY DEF Ends
      <3> HIDE DEF mid
      <3>4. Ends(outbox[c], i, t, mid) <=> Ends(Tail(outbox[c]), i, t, now)
        BY <1>1, <1>4, <3>1, EndsTail DEF m
      <3> HIDE DEF new, now
      <3>5. Ends(Tail(outbox[c]), i, t, now) <=> Ends(Tail(outbox[c]), i, t, new)
        BY <3>2 DEF Ends
      <3>6. Ends(outbox'[c], i, t, new) <=> Ends(Tail(outbox[c]), i, t, new)
        BY <3>1, <3>3, EndsQuiet, EndsEmpty
      <3>7. t \in asked'[c] <=> Ends(outbox'[c], i, t, new)
        BY <1>9, <2>1, <3>1, <3>4, <3>5, <3>6 DEF wants
      <3> QED  BY <1>6, <1>9, <2>1, <3>1, <3>7 DEF new
    <2> QED  BY <2>2, <2>3, <2>4 DEF ServiceMoves
  <1>10. CASE x = c /\ state[c] # "Connected"
    <2>1. HandsOver(c)
      BY <1>10 DEF ServiceMoves, StandsStill, Begins
    <2>2. /\ outbox[c] # <<>> /\ brokerQ' = Append(brokerQ, m) /\ m = Hello(c)
          /\ session'[c] = session[c] /\ asked'[c] = asked[c]
          /\ outbox'[c] = <<>> \/ Quiet(outbox'[c])
      BY <1>10, <2>1 DEF HandsOver
    <2>3. asked[c] = {}
      BY <1>10 DEF SInv, OriginInv, NothingAsked, IInv, TypeOK
    <2>5. ~Owned(i)
      BY <1>1, <1>10, <2>2 DEF HasRival, Owned, ElsewhereSame, OthersSame
    <2>6. ~sub /\ \A k \in 1..Len(brokerQ) : ~About(brokerQ[k], i, t)
      BY <2>5 DEF SInv, OriginInv, SubscribersOwned, QueueOwned, About
    <2>7. ~mid
      BY <2>6 DEF Ends
    <2>8. ~About(m, i, t)
      BY <2>2 DEF About, Hello
    <2> DEFINE new == Ends(Append(brokerQ, m), i, t, sub)
    <2>9. ~new /\ new \in BOOLEAN
      <3> HIDE DEF sub, i, m
      <3>1. Ends(Append(brokerQ, m), i, t, sub) <=> Ends(brokerQ, i, t, sub)
        BY <1>1, <1>2, <1>4, <2>2, <2>8, EndsAppend
      <3> QED  BY <2>7, <3>1 DEF Ends
    <2> HIDE DEF new
    <2>10. ~Ends(outbox'[c], i, t, new)
      BY <2>2, <2>9, EndsQuiet, EndsEmpty
    <2> QED  BY <1>6, <1>10, <2>2, <2>3, <2>10 DEF new
  <1> QED  BY <1>8, <1>9, <1>10

-----------------------------------------------------------------------------
(* The broker's steps keep SInv.                                           *)

\* No message is taken from the channel.
LEMMA IdleServes ==
    ASSUME SInv, HandlersSame, UNCHANGED <<brokerQ, clients, topics, subscriptions>>
    PROVE  SInv'
  <1>1. UNCHANGED <<task, state, session, asked, outbox>>
    BY DEF HandlersSame, handlerVars
  <1>2. OriginInv'
    BY <1>1 DEF SInv, OriginInv, QueueOwned, SubscribersOwned, OutboxOwned,
                GoodbyeInv, TopicsEmpty, NothingAsked, Owned
  <1>3. ServedClientsAreRouted'
    BY <1>1 DEF SInv, ServedClientsAreRouted, Serving, Queued, Hello, HasRival
  <1>4. FollowInv'
    BY <1>1 DEF SInv, FollowInv, Follows, HasRival
  <1> QED  BY <1>2, <1>3, <1>4 DEF SInv

\* The broker takes the message m and does to the subscriptions what Ends says.
LEMMA TakeServes ==
    ASSUME IInv, SInv, HandlersSame, brokerQ # <<>>, brokerQ' = Tail(brokerQ),
           subscriptions' \in [Topic -> SUBSET ClientId],
           \A t \in Topic, i \in ClientId : i \in subscriptions'[t] <=>
              IF About(Head(brokerQ), i, t) THEN Head(brokerQ).type = "Subscribe"
                                            ELSE i \in subscriptions[t]
    PROVE  FollowInv' /\ QueueOwned' /\ SubscribersOwned' /\ OutboxOwned'
           /\ GoodbyeInv' /\ NothingAsked'
  <1> DEFINE m == Head(brokerQ)
  <1>1. UNCHANGED <<task, state, session, asked, outbox>>
    BY DEF HandlersSame, handlerVars
  <1>2. /\ brokerQ \in Seq(ToBroker) /\ m = brokerQ[1] /\ 1 \in 1..Len(brokerQ)
        /\ \A k \in 1..Len(brokerQ') :
              brokerQ'[k] = brokerQ[k + 1] /\ k + 1 \in 1..Len(brokerQ)
    BY DEF IInv, TypeOK
  <1>3. QueueOwned' /\ GoodbyeInv' /\ NothingAsked' /\ OutboxOwned'
    BY <1>1, <1>2 DEF SInv, OriginInv, QueueOwned, GoodbyeInv, NothingAsked,
                      OutboxOwned, Owned
  <1>4. SubscribersOwned'
    <2>1. Owned(m.client)
      BY <1>2 DEF SInv, OriginInv, QueueOwned
    <2>2. ASSUME NEW t \in Topic, NEW i \in subscriptions'[t]
          PROVE  Owned(i)
      <3>1. i \in ClientId
        OBVIOUS
      <3>2. i \in subscriptions[t] \/ i = m.client
        BY <3>1 DEF About
      <3> QED  BY <2>1, <3>2 DEF SInv, OriginInv, SubscribersOwned
    <2> QED  BY <1>1, <2>2 DEF SubscribersOwned, Owned
  <1>5. FollowInv'
    <2> SUFFICES ASSUME NEW c \in Conn, NEW t \in Topic,
                        state[c] = "Connected", ~HasRival(c)
                 PROVE  Follows(c, t)'
      BY <1>1 DEF FollowInv, HasRival
    <2> DEFINE i == session[c].id
               sub == i \in subscriptions[t]
               now == IF About(m, i, t) THEN m.type = "Subscribe" ELSE sub
               subNext == i \in subscriptions'[t]
               old == Ends(brokerQ, i, t, sub)
               new == Ends(Tail(brokerQ), i, t, subNext)
    <2>1. Follows(c, t)
      BY DEF SInv, FollowInv
    <2>2. subNext <=> now
      BY ConnectedId
    <2>3. sub \in BOOLEAN
      OBVIOUS
    <2>4. old <=> new
      <3> HIDE DEF sub, subNext, i
      <3>1. old <=> Ends(Tail(brokerQ), i, t, now)
        BY <1>2, <2>3, EndsTail
      <3> HIDE DEF now
      <3>2. Ends(Tail(brokerQ), i, t, now) <=> Ends(Tail(brokerQ), i, t, subNext)
        BY <2>2 DEF Ends
      <3> QED  BY <3>1, <3>2
    <2>5. Follows(c, t) <=> (t \in asked[c] <=> Ends(outbox[c], i, t, old))
      BY DEF Follows
    <2>6. Follows(c, t)' <=> (t \in asked[c] <=> Ends(outbox[c], i, t, new))
      BY <1>1 DEF Follows
    <2> HIDE DEF old, new, i
    <2>7. Ends(outbox[c], i, t, old) <=> Ends(outbox[c], i, t, new)
      BY <2>4 DEF Ends
    <2> QED  BY <2>1, <2>5, <2>6, <2>7
  <1> QED  BY <1>3, <1>4, <1>5

\* Only a hello or a goodbye changes who is registered.
LEMMA TakeRoutes ==
    ASSUME IInv, SInv, HandlersSame, brokerQ # <<>>, brokerQ' = Tail(brokerQ),
           LET m == Head(brokerQ) IN
             \/ clients' = clients /\ m.type # "ClientConnected"
             \/ /\ m.type = "ClientConnected"
                /\ clients' = [clients EXCEPT ![m.client] = m.client_tx]
             \/ /\ m.type = "ClientDisconnected"
                /\ clients' = [clients EXCEPT ![m.client] = None]
    PROVE  ServedClientsAreRouted'
  <1> DEFINE m == Head(brokerQ)
  <1>1. UNCHANGED <<task, state, session>>
    BY DEF HandlersSame, handlerVars
  <1>2. /\ brokerQ \in Seq(ToBroker) /\ m = brokerQ[1] /\ 1 \in 1..Len(brokerQ)
        /\ \A k \in 1..Len(brokerQ) :
              k # 1 => k - 1 \in 1..Len(brokerQ') /\ brokerQ'[k - 1] = brokerQ[k]
    BY DEF IInv, TypeOK
  <1> SUFFICES ASSUME NEW c \in Conn, Serving(c), ~HasRival(c)
               PROVE  clients'[session[c].id] = c \/ Queued(brokerQ', Hello(c))
    BY <1>1 DEF ServedClientsAreRouted, Serving, HasRival, Hello, Queued
  <1>3. session[c].id \in ClientId
    BY ConnectedId DEF Serving
  <1>4. m.type = "ClientConnected" /\ m.client = session[c].id => m.client_tx = c
    <2> SUFFICES ASSUME m.type = "ClientConnected", m.client = session[c].id
                 PROVE  m.client_tx = c
      OBVIOUS
    <2>1. /\ session[m.client_tx].id = m.client /\ state[m.client_tx] = "Connected"
      BY <1>2 DEF IInv, HelloInv
    <2>2. m.client_tx \in Conn
      BY <1>2, MsgTypes DEF IInv, TypeOK
    <2> QED  BY <2>1, <2>2 DEF HasRival
  <1>5. m.type = "ClientDisconnected" => m.client # session[c].id
    <2> SUFFICES ASSUME m.type = "ClientDisconnected", m.client = session[c].id
                 PROVE  FALSE
      OBVIOUS
    <2>1. PICK d \in Conn : /\ session[d].id = m.client
                            /\ state[d] = "Connected" /\ task[d] = "gone"
      BY <1>2 DEF SInv, OriginInv, GoodbyeInv
    <2> QED  BY <2>1 DEF HasRival, Serving
  <1>6. CASE clients[session[c].id] = c
    BY <1>3, <1>4, <1>5, <1>6 DEF IInv, TypeOK
  <1>7. CASE Queued(brokerQ, Hello(c))
    <2>1. PICK k \in 1..Len(brokerQ) : brokerQ[k] = Hello(c)
      BY <1>7 DEF Queued
    <2>2. CASE k # 1
      BY <1>2, <2>1, <2>2 DEF Queued
    <2>3. CASE k = 1
      <3>1. m = Hello(c)
        BY <1>2, <2>1, <2>3
      <3>2. m.type = "ClientConnected" /\ m.client = session[c].id /\ m.client_tx = c
        BY <3>1 DEF Hello
      <3>3. clients' = [clients EXCEPT ![m.client] = m.client_tx]
        BY <3>2
      <3> QED  BY <1>3, <3>2, <3>3 DEF IInv, TypeOK
    <2> QED  BY <2>2, <2>3
  <1> QED  BY <1>6, <1>7 DEF SInv, ServedClientsAreRouted

\* A hello registers its client and leaves the subscriptions alone.
LEMMA HelloServes ==
    ASSUME IInv, SInv, HandleClientConnected
    PROVE  SInv'
  <1> DEFINE m == Head(brokerQ)
  <1>1. /\ HandlersSame /\ brokerQ # <<>> /\ brokerQ' = Tail(brokerQ)
        /\ m.type = "ClientConnected" /\ subscriptions' = subscriptions
        /\ clients' = [clients EXCEPT ![m.client] = m.client_tx]
        /\ topics' = [topics EXCEPT ![m.client] = {}]
    BY DEF HandleClientConnected, Take, HandlersSame
  <1>2. ServedClientsAreRouted'
    BY <1>1, TakeRoutes
  <1>3. TopicsEmpty'
    BY <1>1 DEF SInv, OriginInv, TopicsEmpty, IInv, TypeOK
  <1>4. subscriptions' \in [Topic -> SUBSET ClientId] /\ \A i, t : ~About(m, i, t)
    BY <1>1 DEF About, IInv, TypeOK
  <1> QED  BY <1>1, <1>2, <1>3, <1>4, TakeServes DEF SInv, OriginInv

\* A goodbye finds nothing in ClientInfo.topics: the subscriptions stay.
LEMMA GoodbyeServes ==
    ASSUME IInv, SInv, HandleClientDisconnected
    PROVE  SInv'
  <1> DEFINE m == Head(brokerQ)
  <1>1. /\ HandlersSame /\ brokerQ # <<>> /\ brokerQ' = Tail(brokerQ)
        /\ m.type = "ClientDisconnected"
        /\ subscriptions' = [t \in Topic |->
                               IF clients[m.client] # None /\ t \in topics[m.client]
                               THEN subscriptions[t] \ {m.client} ELSE subscriptions[t]]
        /\ clients' = [clients EXCEPT ![m.client] = None]
        /\ topics' = [topics EXCEPT ![m.client] = {}]
    BY DEF HandleClientDisconnected, Take, HandlersSame
  <1>2. ServedClientsAreRouted'
    BY <1>1, TakeRoutes
  <1>3. TopicsEmpty'
    BY <1>1 DEF SInv, OriginInv, TopicsEmpty, IInv, TypeOK
  <1>4. m.client \in ClientId
    BY <1>1, MsgTypes DEF IInv, TypeOK
  <1>5. \A t \in Topic : subscriptions'[t] = subscriptions[t]
    BY <1>1, <1>4 DEF SInv, OriginInv, TopicsEmpty
  <1>6. subscriptions' \in [Topic -> SUBSET ClientId] /\ \A i, t : ~About(m, i, t)
    BY <1>1 DEF About, IInv, TypeOK
  <1> QED  BY <1>1, <1>2, <1>3, <1>5, <1>6, TakeServes DEF SInv, OriginInv

\* A Publish changes neither the client list nor the subscriptions.
LEMMA PublishServes ==
    ASSUME IInv, SInv, HandlePublish
    PROVE  SInv'
  <1> DEFINE m == Head(brokerQ)
  <1>1. /\ HandlersSame /\ brokerQ # <<>> /\ brokerQ' = Tail(brokerQ)
        /\ m.type = "Publish" /\ UNCHANGED <<clients, topics, subscriptions>>
    BY DEF HandlePublish, Take, HandlersSame
  <1>2. ServedClientsAreRouted'
    BY <1>1, TakeRoutes
  <1>3. TopicsEmpty'
    BY <1>1 DEF SInv, OriginInv, TopicsEmpty
  <1>4. subscriptions' \in [Topic -> SUBSET ClientId] /\ \A i, t : ~About(m, i, t)
    BY <1>1 DEF About, IInv, TypeOK
  <1> QED  BY <1>1, <1>2, <1>3, <1>4, TakeServes DEF SInv, OriginInv

\* handle_subscribe and handle_unsubscribe do what the message says.
LEMMA RequestServes ==
    ASSUME IInv, SInv, HandleSubscribe \/ HandleUnsubscribe
    PROVE  SInv'
  <1> DEFINE m == Head(brokerQ)
  <1>1. /\ HandlersSame /\ brokerQ # <<>> /\ brokerQ' = Tail(brokerQ)
        /\ m.type \in {"Subscribe", "Unsubscribe"} /\ UNCHANGED clients
        /\ m.type = "Subscribe" =>
              subscriptions' = [t \in Topic |->
                                  IF t \in m.topics THEN subscriptions[t] \cup {m.client}
                                                    ELSE subscriptions[t]]
        /\ m.type = "Unsubscribe" =>
              subscriptions' = [t \in Topic |->
                                  IF t \in m.topics THEN subscriptions[t] \ {m.client}
                                                    ELSE subscriptions[t]]
        /\ topics' = topics
           \/ topics' = [topics EXCEPT ![m.client] =
                           IF clients[m.client] # None THEN @ \ m.topics ELSE @]
    BY DEF HandleSubscribe, HandleUnsubscribe, Take, HandlersSame
  <1>2. m.client \in ClientId
    BY <1>1, MsgTypes DEF IInv, TypeOK
  <1>3. ServedClientsAreRouted'
    BY <1>1, TakeRoutes
  <1>4. TopicsEmpty'
    <2>1. \A i \in ClientId : topics'[i] = topics[i] \/ topics'[i] = topics[i] \ m.topics
      BY <1>1, <1>2 DEF IInv, TypeOK
    <2> QED  BY <2>1 DEF SInv, OriginInv, TopicsEmpty
  <1>5. subscriptions' \in [Topic -> SUBSET ClientId]
    BY HandleSubscribeKeeps, HandleUnsubscribeKeeps DEF IInv, TypeOK
  <1>6. \A t \in Topic, i \in ClientId : i \in subscriptions'[t] <=>
           IF About(m, i, t) THEN m.type = "Subscribe" ELSE i \in subscriptions[t]
    BY <1>1, <1>2 DEF About, IInv, TypeOK
  <1> QED  BY <1>1, <1>3, <1>4, <1>5, <1>6, TakeServes DEF SInv, OriginInv

-----------------------------------------------------------------------------
(* The invariant.                                                          *)

\* At first nobody is served.
LEMMA InitSInv == Init => SInv
  <1> SUFFICES ASSUME Init PROVE SInv
    OBVIOUS
  <1>1. OriginInv
    BY DEF Init, OriginInv, QueueOwned, SubscribersOwned, OutboxOwned, GoodbyeInv,
           TopicsEmpty, NothingAsked
  <1>2. ServedClientsAreRouted /\ FollowInv
    BY DEF Init, ServedClientsAreRouted, Serving, FollowInv
  <1> QED  BY <1>1, <1>2 DEF SInv

\* Every step keeps SInv.
LEMMA NextSInv == IInv /\ SInv /\ [Next]_vars => SInv'
  <1> SUFFICES ASSUME IInv, SInv, [Next]_vars PROVE SInv'
    OBVIOUS
  <1>1. ASSUME NEW c \in Conn,
               PeerStep(c) \/ SendStep(c) \/ InboxStep(c) \/ TimerFires(c)
        PROVE  SInv'
    <2>1. ServiceMoves(c)
      BY <1>1, HandlerServes DEF SInv, OriginInv
    <2> QED  BY <2>1, OriginStep, RoutedStep, FollowStep DEF SInv
  <1>2. CASE FanOutDone \/ (\E i \in ClientId : FanOut(i) \/ FanOutFails(i))
             \/ UNCHANGED vars
    <2>1. HandlersSame /\ UNCHANGED <<brokerQ, clients, topics, subscriptions>>
      BY <1>2 DEF FanOut, FanOutDone, FanOutFails, HandlersSame, vars, handlerVars
    <2> QED  BY <2>1, IdleServes
  <1> QED  BY <1>1, <1>2, HelloServes, GoodbyeServes, PublishServes, RequestServes
           DEF Next, BrokerStep

\* The service invariant holds in every reachable state.
THEOREM ServiceInvariance == Spec => [](IInv /\ SInv)
  <1>1. Init => IInv /\ SInv
    BY InitIInv, InitSInv
  <1>2. (IInv /\ SInv) /\ [Next]_vars => (IInv /\ SInv)'
    BY NextIInv, NextSInv
  <1> QED  BY <1>1, <1>2, PTL DEF Spec

\* A handler that serves its client is on the broker's client list or about to
\* be, unless another connection has used its identifier: whatever the other
\* connections do, however full the channels are, and however late a
\* ClientDisconnected is handled.
THEOREM StayRegistered == Spec => []ServedClientsAreRouted
  <1>1. SInv => ServedClientsAreRouted
    BY DEF SInv
  <1> QED  BY <1>1, ServiceInvariance, PTL

\* Once the broker has worked off the messages on the way, a client that is
\* being served and has no rival is subscribed to exactly the topics it asked
\* for.
THEOREM RequestsAreFollowed == Spec => []SubscriptionsFollowRequests
  <1>1. ASSUME IInv, SInv
        PROVE  SubscriptionsFollowRequests
    <2> SUFFICES ASSUME NEW c \in Conn, NEW t \in Topic,
                        state[c] = "Connected", ~HasRival(c)
                 PROVE  t \in asked[c] <=>
                          SubscribedAfter(brokerQ \o outbox[c], session[c].id, t)
      BY DEF SubscriptionsFollowRequests, Serving
    <2> DEFINE i == session[c].id
               sub == i \in subscriptions[t]
    <2>1. brokerQ \in Seq(ToBroker) /\ outbox[c] \in Seq(ToBroker)
      BY <1>1 DEF IInv, TypeOK
    <2>2. brokerQ \o outbox[c] \in Seq(ToBroker)
      BY <2>1
    <2>3. SubscribedAfter(brokerQ \o outbox[c], i, t) <=>
             Ends(brokerQ \o outbox[c], i, t, i \in subscriptions[t])
      BY <2>2, SubscribedAfterEnds
    <2>4. sub \in BOOLEAN
      OBVIOUS
    <2>5. Ends(brokerQ \o outbox[c], i, t, sub) <=>
             Ends(outbox[c], i, t, Ends(brokerQ, i, t, sub))
      <3> HIDE DEF sub, i
      <3> QED  BY <2>1, <2>4, EndsConcat
    <2>6. Follows(c, t)
      BY <1>1 DEF SInv, FollowInv
    <2> QED  BY <2>3, <2>5, <2>6 DEF Follows
  <1> QED  BY <1>1, ServiceInvariance, PTL
=============================================================================
