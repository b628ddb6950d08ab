---------------------------- MODULE PubSubProofs ----------------------------
(***************************************************************************)
(* A proof that MqttBroker implements PubSub when no two connections use   *)
(* the same client identifier: for any number of connections, any topics   *)
(* and any channel capacities.                                             *)
(***************************************************************************)
EXTENDS PubSubRefinement, BrokerDeliveryProofs, BrokerServiceProofs

-----------------------------------------------------------------------------
(* Filter.  Its recursive definition is justified by induction on the      *)
(* natural numbers, which LeastOf provides.                                *)

\* A set of natural numbers with 0 and all successors is Nat.
LEMMA Induction ==
    ASSUME NEW P \in SUBSET Nat, 0 \in P, \A n \in P : n + 1 \in P
    PROVE  P = Nat
  <1> SUFFICES ASSUME Nat \ P # {} PROVE FALSE
    OBVIOUS
  <1>1. PICK n \in Nat \ P : \A m \in Nat \ P : n <= m
    BY LeastOf
  <1>2. n # 0 /\ n - 1 \in Nat
    BY <1>1
  <1>3. n - 1 \in P
    BY <1>1, <1>2
  <1>4. (n - 1) + 1 \in P
    BY <1>3
  <1> QED  BY <1>1, <1>2, <1>4

\* g is what Filter computes on the way to position n.
Filters(g, q, S, n) ==
    g = [k \in 0..n |-> IF k = 0 THEN <<>>
                        ELSE IF q[k] \in S THEN Append(g[k - 1], q[k]) ELSE g[k - 1]]

\* Such a function exists.
LEMMA FilterExists ==
    ASSUME NEW q, NEW S
    PROVE  \A n \in Nat : \E g : Filters(g, q, S, n)
  <1> DEFINE P == {n \in Nat : \E g : Filters(g, q, S, n)}
  <1>1. 0 \in P
    <2> DEFINE g == [k \in 0..0 |-> <<>>]
    <2>1. \A k \in 0..0 : k = 0
      OBVIOUS
    <2>2. Filters(g, q, S, 0)
      BY <2>1 DEF Filters
    <2> QED  BY <2>2
  <1>2. ASSUME NEW n \in P PROVE n + 1 \in P
    <2>1. PICK g : Filters(g, q, S, n)
      OBVIOUS
    <2> DEFINE next == IF q[n + 1] \in S THEN Append(g[n], q[n + 1]) ELSE g[n]
               h == [k \in 0..(n + 1) |-> IF k = n + 1 THEN next ELSE g[k]]
    <2>2. \A k \in 0..n : h[k] = g[k] /\ k # n + 1
      OBVIOUS
    <2>3. n \in Nat /\ h[n + 1] = next
      OBVIOUS
    <2>4. \A k \in 0..(n + 1) :
             h[k] = IF k = 0 THEN <<>>
                    ELSE IF q[k] \in S THEN Append(h[k - 1], q[k]) ELSE h[k - 1]
      <3> SUFFICES ASSUME NEW k \in 0..(n + 1)
                   PROVE  h[k] = IF k = 0 THEN <<>>
                                 ELSE IF q[k] \in S THEN Append(h[k - 1], q[k])
                                      ELSE h[k - 1]
        OBVIOUS
      <3> HIDE DEF h
      <3>1. CASE k = n + 1
        <4>1. h[n] = g[n] /\ k # 0 /\ k - 1 = n
          BY <2>2, <2>3, <3>1
        <4> QED  BY <2>3, <3>1, <4>1
      <3>2. CASE k \in 0..n
        <4>1. g[k] = IF k = 0 THEN <<>>
                     ELSE IF q[k] \in S THEN Append(g[k - 1], q[k]) ELSE g[k - 1]
          BY <2>1, <3>2 DEF Filters
        <4>2. k # 0 => k - 1 \in 0..n
          BY <2>3, <3>2
        <4> QED  BY <2>2, <3>2, <4>1, <4>2
      <3> QED  BY <2>3, <3>1, <3>2
    <2>5. Filters(h, q, S, n + 1)
      <3>1. h = [k \in 0..(n + 1) |-> h[k]]
        OBVIOUS
      <3> HIDE DEF h
      <3> QED  BY <2>4, <3>1 DEF Filters
    <2> QED  BY <2>3, <2>5
  <1>3. P = Nat
    <2> HIDE DEF P
    <2>1. P \in SUBSET Nat
      BY DEF P
    <2> QED  BY <1>1, <1>2, <2>1, Induction
  <1> QED  BY <1>3

\* It is determined by the elements of q.
LEMMA FilterUnique ==
    ASSUME NEW q, NEW r, NEW S, NEW g, NEW h, NEW n \in Nat, NEW m \in Nat,
           Filters(g, q, S, n), Filters(h, r, S, m),
           \A k \in 1..n : k <= m => q[k] = r[k]
    PROVE  \A k \in 0..n : k <= m => g[k] = h[k]
  <1> DEFINE P == {k \in Nat : k <= n /\ k <= m => g[k] = h[k]}
  <1>1. 0 \in P
    BY DEF Filters
  <1>2. ASSUME NEW k \in P PROVE k + 1 \in P
    <2> SUFFICES ASSUME k + 1 <= n, k + 1 <= m
                 PROVE  g[k + 1] = h[k + 1]
      OBVIOUS
    <2>1. k \in Nat /\ g[k] = h[k]
      OBVIOUS
    <2>2. q[k + 1] = r[k + 1]
      BY <2>1
    <2>3. /\ g[k + 1] = IF q[k + 1] \in S THEN Append(g[k], q[k + 1]) ELSE g[k]
          /\ h[k + 1] = IF r[k + 1] \in S THEN Append(h[k], r[k + 1]) ELSE h[k]
      <3>1. k + 1 \in 0..n /\ k + 1 \in 0..m /\ k + 1 # 0 /\ (k + 1) - 1 = k
        BY <2>1
      <3> HIDE DEF P
      <3> QED  BY <3>1 DEF Filters
    <2> QED  BY <2>1, <2>2, <2>3
  <1>3. P = Nat
    <2> HIDE DEF P
    <2>1. P \in SUBSET Nat
      BY DEF P
    <2> QED  BY <1>1, <1>2, <2>1, Induction
  <1> QED  BY <1>3

\* The recursion equation of Filter.
LEMMA FilterDef ==
    ASSUME NEW T, NEW q \in Seq(T), NEW S
    PROVE  \E g : Filters(g, q, S, Len(q)) /\ Filter(q, S) = g[Len(q)]
  <1> DEFINE g == CHOOSE f : Filters(f, q, S, Len(q))
  <1>1. Len(q) \in Nat
    OBVIOUS
  <1>2. Filters(g, q, S, Len(q))
    BY <1>1, FilterExists
  <1>3. Filter(q, S) = g[Len(q)]
    BY DEF Filter, Filters
  <1> QED  BY <1>2, <1>3

\* What is on the way is a sequence of messages of q.
LEMMA FiltersType ==
    ASSUME NEW T, NEW q \in Seq(T), NEW S, NEW g, Filters(g, q, S, Len(q))
    PROVE  \A k \in 0..Len(q) : g[k] \in Seq(T)
  <1> DEFINE P == {k \in Nat : k <= Len(q) => g[k] \in Seq(T)}
  <1>1. 0 \in P
    <2>1. g[0] = <<>>
      BY DEF Filters
    <2>2. <<>> \in Seq(T)
      OBVIOUS
    <2> QED  BY <2>1, <2>2
  <1>2. ASSUME NEW k \in P PROVE k + 1 \in P
    <2> SUFFICES ASSUME k + 1 <= Len(q) PROVE g[k + 1] \in Seq(T)
      OBVIOUS
    <2>1. k \in Nat /\ g[k] \in Seq(T) /\ k + 1 \in 1..Len(q)
      OBVIOUS
    <2> HIDE DEF P
    <2>2. q[k + 1] \in T
      BY <2>1
    <2>3. g[k + 1] = IF q[k + 1] \in S THEN Append(g[k], q[k + 1]) ELSE g[k]
      <3>1. k + 1 \in 0..Len(q) /\ k + 1 # 0 /\ (k + 1) - 1 = k
        BY <2>1
      <3> QED  BY <3>1 DEF Filters
    <2> QED  BY <2>1, <2>2, <2>3
  <1>3. P = Nat
    <2> HIDE DEF P
    <2>1. P \in SUBSET Nat
      BY DEF P
    <2> QED  BY <1>1, <1>2, <2>1, Induction
  <1> QED  BY <1>3

LEMMA FilterType ==
    ASSUME NEW T, NEW q \in Seq(T), NEW S
    PROVE  Filter(q, S) \in Seq(T)
  <1>1. PICK g : Filters(g, q, S, Len(q)) /\ Filter(q, S) = g[Len(q)]
    BY FilterDef
  <1>2. Len(q) \in 0..Len(q)
    OBVIOUS
  <1> QED  BY <1>1, <1>2, FiltersType

LEMMA FilterEmpty ==
    ASSUME NEW S
    PROVE  Filter(<<>>, S) = <<>>
  <1>1. <<>> \in Seq({})
    OBVIOUS
  <1>2. PICK g : Filters(g, <<>>, S, Len(<<>>)) /\ Filter(<<>>, S) = g[Len(<<>>)]
    BY <1>1, FilterDef
  <1>3. Len(<<>>) = 0 /\ 0 \in 0..0
    OBVIOUS
  <1> QED  BY <1>2, <1>3 DEF Filters

\* A message that is appended is filtered last.
LEMMA FilterAppend ==
    ASSUME NEW T, NEW q \in Seq(T), NEW m \in T, NEW S
    PROVE  Filter(Append(q, m), S) =
              IF m \in S THEN Append(Filter(q, S), m) ELSE Filter(q, S)
  <1> DEFINE r == Append(q, m)
             n == Len(q)
  <1>1. /\ r \in Seq(T) /\ Len(r) = n + 1 /\ n \in Nat
        /\ r[n + 1] = m /\ \A k \in 1..n : r[k] = q[k]
    OBVIOUS
  <1> HIDE DEF r
  <1>2. PICK g : Filters(g, q, S, n) /\ Filter(q, S) = g[n]
    BY FilterDef
  <1>3. PICK h : Filters(h, r, S, Len(r)) /\ Filter(r, S) = h[Len(r)]
    BY <1>1, FilterDef
  <1>4. g[n] = h[n]
    <2>1. \A k \in 1..n : k <= n + 1 => q[k] = r[k]
      BY <1>1
    <2>2. n + 1 \in Nat /\ n \in 0..n /\ n <= n + 1
      BY <1>1
    <2> HIDE DEF n
    <2> QED  BY <1>1, <1>2, <1>3, <2>1, <2>2, FilterUnique
  <1>5. h[n + 1] = IF r[n + 1] \in S THEN Append(h[n], r[n + 1]) ELSE h[n]
    <2>1. n + 1 \in 0..(n + 1) /\ n + 1 # 0 /\ (n + 1) - 1 = n
      BY <1>1
    <2> HIDE DEF n
    <2> QED  BY <1>1, <1>3, <2>1 DEF Filters
  <1> QED  BY <1>1, <1>2, <1>3, <1>4, <1>5 DEF r

\* Append is the end of a concatenation.
Regroups(q, r, m) == Append(q \o r, m) = q \o Append(r, m)

LEMMA AppendConcat ==
    ASSUME NEW T, NEW q \in Seq(T), NEW r \in Seq(T), NEW m \in T
    PROVE  Regroups(q, r, m)
  BY DEF Regroups

\* Concatenation is associative.
Reassociates(q, r, s) == (q \o r) \o s = q \o (r \o s)

LEMMA ConcatConcat ==
    ASSUME NEW T, NEW q \in Seq(T), NEW r \in Seq(T), NEW s \in Seq(T)
    PROVE  Reassociates(q, r, s)
  BY DEF Reassociates

\* A message that is taken was filtered first.
LEMMA FilterHead ==
    ASSUME NEW T, NEW q \in Seq(T), q # <<>>, NEW S
    PROVE  /\ Head(q) \in S => /\ Filter(q, S) # <<>>
                               /\ Head(Filter(q, S)) = Head(q)
                               /\ Tail(Filter(q, S)) = Filter(Tail(q), S)
           /\ Head(q) \notin S => Filter(q, S) = Filter(Tail(q), S)
  <1> DEFINE r == Tail(q)
             n == Len(r)
  <1>1. /\ r \in Seq(T) /\ n \in Nat /\ Len(q) = n + 1 /\ Head(q) = q[1] /\ q[1] \in T
        /\ \A k \in 1..n : r[k] = q[k + 1] /\ r[k] \in T
    OBVIOUS
  <1> HIDE DEF r
  <1>2. PICK g : Filters(g, q, S, Len(q)) /\ Filter(q, S) = g[Len(q)]
    BY FilterDef
  <1>3. PICK h : Filters(h, r, S, n) /\ Filter(r, S) = h[n]
    BY <1>1, FilterDef
  <1>4. \A k \in 0..n : h[k] \in Seq(T)
    BY <1>1, <1>3, FiltersType
  <1>5. PICK first \in Seq(T) : first = IF q[1] \in S THEN <<q[1]>> ELSE <<>>
    <2>1. (IF q[1] \in S THEN <<q[1]>> ELSE <<>>) \in Seq(T)
      BY <1>1
    <2> QED  BY <2>1, Zenon
  <1> HIDE DEF n
  <1>6. g[1] = first \o h[0]
    <2>1. g[0] = <<>> /\ h[0] = <<>>
      BY <1>1, <1>2, <1>3 DEF Filters
    <2>2. g[1] = IF q[1] \in S THEN Append(g[0], q[1]) ELSE g[0]
      <3>1. 1 \in 0..(n + 1) /\ 1 # 0 /\ 1 - 1 = 0
        BY <1>1
      <3> QED  BY <1>1, <1>2, <3>1 DEF Filters
    <2>3. Append(<<>>, q[1]) = <<q[1]>>
      OBVIOUS
    <2>4. first \o <<>> = first
      BY <1>5
    <2> QED  BY <1>5, <2>1, <2>2, <2>3, <2>4
  <1> DEFINE Q(k) == k <= n => g[k + 1] = first \o h[k]
             P == {k \in Nat : Q(k)}
  <1>7. ASSUME NEW k \in Nat, Q(k) PROVE Q(k + 1)
    <2> DEFINE j == k + 1
    <2> SUFFICES ASSUME j <= n PROVE g[j + 1] = first \o h[j]
      OBVIOUS
    <2>1. g[j] = first \o h[k] /\ j \in Nat /\ j # 0 /\ j - 1 = k /\ k \in 0..n
      BY <1>1, <1>7
    <2> HIDE DEF j, Q
    <2>2. h[j] = IF r[j] \in S THEN Append(h[k], r[j]) ELSE h[k]
      <3>1. j \in 0..n
        BY <1>1, <2>1
      <3> QED  BY <1>3, <2>1, <3>1 DEF Filters
    <2>3. g[j + 1] = IF q[j + 1] \in S THEN Append(g[j], q[j + 1]) ELSE g[j]
      <3>1. j + 1 \in 0..Len(q) /\ j + 1 # 0 /\ (j + 1) - 1 = j
        BY <1>1, <2>1
      <3> QED  BY <1>2, <3>1 DEF Filters
    <2>4. r[j] = q[j + 1] /\ r[j] \in T
      BY <1>1, <2>1
    <2>5. h[k] \in Seq(T)
      BY <1>4, <2>1
    <2>6. Append(first \o h[k], r[j]) = first \o Append(h[k], r[j])
      <3>1. Regroups(first, h[k], r[j])
        BY <2>4, <2>5, AppendConcat
      <3> QED  BY <3>1, Zenon DEF Regroups
    <2> QED  BY <2>1, <2>2, <2>3, <2>4, <2>6
  <1>8. P = Nat
    <2> HIDE DEF P
    <2>1. P \in SUBSET Nat
      BY DEF P
    <2>2. 0 \in P
      <3>1. 0 + 1 = 1
        OBVIOUS
      <3> QED  BY <1>6, <3>1 DEF P
    <2>3. ASSUME NEW k \in P PROVE k + 1 \in P
      <3>1. k \in Nat /\ Q(k) /\ k + 1 \in Nat
        BY DEF P
      <3> HIDE DEF Q
      <3> QED  BY <1>7, <3>1 DEF P
    <2> QED  BY <2>1, <2>2, <2>3, Induction
  <1>9. Filter(q, S) = first \o Filter(r, S)
    <2>1. Q(n)
      <3> HIDE DEF Q
      <3> QED  BY <1>1, <1>8
    <2>2. n <= n
      BY <1>1
    <2> QED  BY <1>1, <1>2, <1>3, <2>1, <2>2
  <1>10. Filter(r, S) \in Seq(T)
    BY <1>1, FilterType
  <1>11. CASE Head(q) \in S
    <2>1. Filter(q, S) = <<Head(q)>> \o Filter(r, S)
      BY <1>1, <1>5, <1>9, <1>11
    <2>2. Head(q) \in T
      BY <1>1
    <2>3. Filter(q, S) # <<>> /\ Head(Filter(q, S)) = Head(q) /\ Tail(Filter(q, S)) = Filter(r, S)
      <3> DEFINE x == Head(q)
                 f == Filter(r, S)
      <3>1. x \in T /\ f \in Seq(T)
        BY <1>10, <2>2
      <3> HIDE DEF x, f
      <3>2. <<x>> \o f # <<>> /\ Head(<<x>> \o f) = x /\ Tail(<<x>> \o f) = f
        BY <3>1
      <3> QED  BY <2>1, <3>2 DEF x, f
    <2> QED  BY <1>11, <2>3 DEF r
  <1>12. CASE Head(q) \notin S
    <2>1. Filter(q, S) = <<>> \o Filter(r, S)
      BY <1>1, <1>5, <1>9, <1>12
    <2> QED  BY <1>10, <1>12, <2>1 DEF r
  <1> QED  BY <1>11, <1>12

\* Nothing is left when nothing matches.
LEMMA FilterNone ==
    ASSUME NEW T, NEW q \in Seq(T), NEW S, \A k \in 1..Len(q) : q[k] \notin S
    PROVE  Filter(q, S) = <<>>
  <1>1. PICK g : Filters(g, q, S, Len(q)) /\ Filter(q, S) = g[Len(q)]
    BY FilterDef
  <1> DEFINE P == {k \in Nat : k <= Len(q) => g[k] = <<>>}
  <1>2. 0 \in P
    BY <1>1 DEF Filters
  <1>3. ASSUME NEW k \in P PROVE k + 1 \in P
    <2> SUFFICES ASSUME k + 1 <= Len(q) PROVE g[k + 1] = <<>>
      OBVIOUS
    <2>1. k \in Nat /\ g[k] = <<>> /\ k + 1 \in 1..Len(q)
      OBVIOUS
    <2> HIDE DEF P
    <2>2. k + 1 \in 0..Len(q) /\ k + 1 # 0 /\ (k + 1) - 1 = k
      BY <2>1
    <2> QED  BY <1>1, <2>1, <2>2 DEF Filters
  <1>4. P = Nat
    <2> HIDE DEF P
    <2>1. P \in SUBSET Nat
      BY DEF P
    <2> QED  BY <1>2, <1>3, <2>1, Induction
  <1>5. Len(q) \in Nat
    OBVIOUS
  <1> QED  BY <1>1, <1>4, <1>5

-----------------------------------------------------------------------------
(* Names.                                                                  *)

\* No two connections may connect with the same identifier.
DistinctIds == \A c, d \in Conn : c # d => IdsOf[c] \cap IdsOf[d] = {}

\* A connection has a name of its own, from the moment its Connect packet is
\* there, and nothing waits for it before it is accepted.
NameInv ==
    \A c \in Conn :
        /\ session[c].id \in IdsOf[c] \cup {None}
        /\ task[c] \in {"none", "select"} /\ state[c] = "Initialized"
              => session[c].id = None
        /\ task[c] = "none" => inbox[c] = <<>>

RInv == IInv /\ DInv /\ SInv /\ NameInv

\* A name belongs to one connection.
LEMMA OneOwner ==
    ASSUME DistinctIds, NameInv, NEW c \in Conn, NEW d \in Conn,
           session[c].id = session[d].id, session[c].id \in ClientId
    PROVE  c = d
  BY NoneAssumption DEF DistinctIds, NameInv

LEMMA InitNameInv == Init => NameInv
  BY DEF Init, NameInv

HandlerStep(c) == PeerStep(c) \/ SendStep(c) \/ InboxStep(c) \/ TimerFires(c)

\* What a handler's step leaves alone.
Frame(c) ==
    /\ alive /\ UNCHANGED <<current, clients, subscriptions, alive>>
    /\ \A d \in Conn : d # c =>
          /\ task'[d] = task[d] /\ state'[d] = state[d] /\ session'[d] = session[d]
          /\ inbox'[d] = inbox[d] /\ outbox'[d] = outbox[d]
          /\ published'[d] = published[d]

LEMMA HandlerFrame ==
    ASSUME IInv, NothingAsked, NEW c \in Conn, HandlerStep(c)
    PROVE  Frame(c)
  <1>1. HandlerMoves(c) /\ ServiceMoves(c)
    BY HandlerStepMoves, HandlerServes DEF HandlerStep
  <1>2. alive /\ UNCHANGED alive
    BY DEF HandlerStep, PeerStep, SendStep, InboxStep, TimerFires, Accept, RecvConnect,
           RecvPublish, RecvSubscribe, RecvUnsubscribe, RecvDisconnect, RecvViolation,
           AnswerFails, RecvEof, SentConnected, SentRequest, SentGoodbye, Deliver,
           HandleBrokerPublish, HandleConnectionTimeout, brokerVars
  <1>3. UNCHANGED published \/ published' = [published EXCEPT ![c] = @ + 1]
    BY DEF HandlerStep, PeerStep, SendStep, InboxStep, TimerFires, Accept, RecvConnect,
           RecvPublish, RecvSubscribe, RecvUnsubscribe, RecvDisconnect, RecvViolation,
           AnswerFails, RecvEof, SentConnected, SentRequest, SentGoodbye,
           HandleBrokerPublish, HandleConnectionTimeout
  <1>4. \A d \in Conn : d # c => published'[d] = published[d]
    BY <1>3 DEF IInv, TypeOK
  <1> QED  BY <1>1, <1>2, <1>4
           DEF Frame, HandlerMoves, ServiceMoves, ElsewhereSame, OthersSame

\* A handler's step keeps the names of all.
LEMMA HandlerKeepsNames ==
    ASSUME IInv, NothingAsked, NameInv, NEW c \in Conn, HandlerStep(c)
    PROVE  NameInv'
  <1>1. TypeOK /\ Frame(c)
    BY HandlerFrame DEF IInv
  <1>2. session'[c].id \in IdsOf[c] \cup {None}
    <2>1. session' = session \/ \E id \in IdsOf[c], will \in WillsOf[c] :
                                   session' = [session EXCEPT ![c] = [id |-> id, will |-> will]]
      BY DEF HandlerStep, PeerStep, SendStep, InboxStep, TimerFires, Accept, RecvConnect,
             RecvPublish, RecvSubscribe, RecvUnsubscribe, RecvDisconnect, RecvViolation,
             AnswerFails, RecvEof, SentConnected, SentRequest, SentGoodbye,
             HandleBrokerPublish, HandleConnectionTimeout
    <2> QED  BY <1>1, <2>1 DEF TypeOK, NameInv
  <1>3. \/ task'[c] \notin {"none", "select"}
        \/ state'[c] = "Connected"
        \/ /\ task[c] \in {"none", "select"} /\ state'[c] = state[c]
           /\ session'[c] = session[c]
    <2>1. CASE Accept(c) \/ RecvDisconnect(c) \/ TimerFires(c)
      BY <1>1, <2>1 DEF TypeOK, Accept, RecvDisconnect, TimerFires
    <2>2. ASSUME NEW m, Send(c, m) PROVE task'[c] = "sending"
      BY <1>1, <2>2 DEF TypeOK, Send
    <2>3. CASE RecvConnect(c) \/ RecvPublish(c) \/ RecvSubscribe(c) \/ RecvUnsubscribe(c)
      BY <2>2, <2>3 DEF RecvConnect, RecvPublish, RecvSubscribe, RecvUnsubscribe
    <2>4. ASSUME NEW b, Fail(c, b) PROVE task'[c] \in {"failed", "gone"}
      BY <1>1, <2>4 DEF TypeOK, Fail
    <2>5. CASE RecvViolation(c) \/ AnswerFails(c)
      BY <2>4, <2>5 DEF RecvViolation, AnswerFails
    <2>6. CASE RecvEof(c)
      <3>1. CASE state[c] = "Connected"
        BY <1>1, <2>6, <3>1 DEF TypeOK, RecvEof
      <3>2. CASE state[c] # "Connected"
        BY <2>4, <2>6, <3>2 DEF RecvEof
      <3> QED  BY <3>1, <3>2
    <2>7. CASE SentConnected(c)
      BY <1>1, <2>7 DEF TypeOK, SentConnected
    <2>8. CASE SentRequest(c)
      <3>1. state[c] = "Connected"
        <4>1. Head(outbox[c]) = outbox[c][1]
          BY <2>8, DeliverType DEF SentRequest
        <4>2. outbox[c][1].type # "ClientConnected" /\ task[c] = "sending"
          BY <2>8, <4>1 DEF SentRequest
        <4>3. state[c] = "Initialized" => outbox[c][1] = Hello(c)
          BY <4>2 DEF IInv, OutboxInv, OutboxOK
        <4>4. Hello(c).type = "ClientConnected"
          BY DEF Hello
        <4>5. state[c] \in {"Initialized", "Connected"}
          BY <1>1 DEF TypeOK
        <4> QED  BY <4>2, <4>3, <4>4, <4>5
      <3> QED  BY <2>8, <3>1 DEF SentRequest
    <2>9. CASE SentGoodbye(c)
      BY <1>1, <2>9 DEF TypeOK, SentGoodbye
    <2>10. CASE HandleBrokerPublish(c) \/ HandleConnectionTimeout(c)
      BY <2>4, <2>10 DEF HandleBrokerPublish, HandleConnectionTimeout
    <2> QED  BY <2>1, <2>3, <2>5, <2>6, <2>7, <2>8, <2>9, <2>10
             DEF HandlerStep, PeerStep, SendStep, InboxStep
  <1>4. task'[c] = "none" => inbox'[c] = <<>>
    <2>1. task'[c] = "none" => task[c] = "none"
      BY HandlerServes DEF HandlerStep, ServiceMoves, ElsewhereSame
    <2>2. task[c] = "none" => Accept(c) \/ TimerFires(c)
      BY DEF HandlerStep, PeerStep, SendStep, InboxStep, Accept, RecvConnect,
             RecvPublish, RecvSubscribe, RecvUnsubscribe, RecvDisconnect, RecvViolation,
             AnswerFails, RecvEof, SentConnected, SentRequest, SentGoodbye,
             HandleBrokerPublish, HandleConnectionTimeout
    <2>3. task[c] = "none" => inbox' = inbox
      BY <2>2 DEF Accept, TimerFires, RxOpen
    <2> QED  BY <2>1, <2>3 DEF NameInv
  <1>5. ASSUME NEW d \in Conn
        PROVE  /\ session'[d].id \in IdsOf[d] \cup {None}
               /\ task'[d] \in {"none", "select"} /\ state'[d] = "Initialized"
                     => session'[d].id = None
               /\ task'[d] = "none" => inbox'[d] = <<>>
    <2>1. CASE d = c
      BY <1>2, <1>3, <1>4, <2>1 DEF NameInv
    <2>2. CASE d # c
      BY <1>1, <2>2 DEF Frame, NameInv
    <2> QED  BY <2>1, <2>2
  <1> QED  BY <1>5 DEF NameInv

\* The broker's steps do not touch them.
LEMMA BrokerKeepsNames ==
    ASSUME IInv, NameInv, BrokerStep \/ UNCHANGED vars
    PROVE  NameInv'
  <1>1. UNCHANGED <<task, state, session>>
    BY DEF BrokerStep, HandleClientConnected, HandleClientDisconnected, HandlePublish,
           FanOut, FanOutFails, FanOutDone, HandleSubscribe, HandleUnsubscribe,
           handlerVars, vars
  <1>2. \/ inbox' = inbox
        \/ \E i \in ClientId : /\ RxOpen(clients[i])
                              /\ inbox' = [inbox EXCEPT ![clients[i]] = Append(@, current.msg)]
    BY DEF BrokerStep, HandleClientConnected, HandleClientDisconnected, HandlePublish,
           FanOut, FanOutFails, FanOutDone, HandleSubscribe, HandleUnsubscribe, vars
  <1>3. \A c \in Conn : task[c] = "none" => inbox'[c] = inbox[c]
    BY <1>2 DEF IInv, TypeOK, RxOpen
  <1> QED  BY <1>1, <1>3 DEF NameInv

LEMMA NextNameInv == IInv /\ SInv /\ NameInv /\ [Next]_vars => NameInv'
  BY HandlerKeepsNames, BrokerKeepsNames DEF Next, SInv, OriginInv, HandlerStep

\* All that is known of the reachable states.
THEOREM NameInvariance == Spec => []RInv
  <1>1. Init => NameInv
    BY InitNameInv
  <1>2. IInv /\ SInv /\ NameInv /\ [Next]_vars => NameInv'
    BY NextNameInv
  <1> QED  BY <1>1, <1>2, DeliveryInvariance, ServiceInvariance, PTL DEF Spec, RInv

-----------------------------------------------------------------------------
(* The abstract variables, connection by connection.                       *)

\* The abstract initial state.
LEMMA InitMaps == Init => PS!Init
  <1> SUFFICES ASSUME Init PROVE PS!Init
    OBVIOUS
  <1>1. Status = [c \in Conn |-> "outside"]
    BY DEF Init, Status, StatusOf
  <1>2. Ids = [c \in Conn |-> None]
    BY DEF Init, Ids
  <1>3. Requests = [c \in Conn |-> <<>>]
    <2>1. \A S : Filter(brokerQ, S) = <<>>
      BY FilterEmpty DEF Init
    <2>2. \A c \in Conn : RequestsOf(c) = <<>>
      BY <2>1 DEF Init, RequestsOf
    <2> QED  BY <2>2 DEF Requests
  <1>4. Mailboxes = [c \in Conn |-> <<>>]
    BY DEF Init, Mailboxes, MailboxOf, RxOpen
  <1> QED  BY <1>1, <1>2, <1>3, <1>4 DEF PS!Init, Init

\* Only c looks different after the step.
OthersLookSame(c) ==
    \A d \in Conn : d # c =>
        /\ Status'[d] = Status[d] /\ Ids'[d] = Ids[d]
        /\ Requests'[d] = Requests[d] /\ Mailboxes'[d] = Mailboxes[d]
        /\ published'[d] = published[d]

\* Then the step updates the abstract variables at c.
LEMMA Updates ==
    ASSUME TypeOK, TypeOK', NEW c \in Conn, OthersLookSame(c)
    PROVE  /\ Status' = [Status EXCEPT ![c] = Status'[c]]
           /\ Ids' = [Ids EXCEPT ![c] = Ids'[c]]
           /\ Requests' = [Requests EXCEPT ![c] = Requests'[c]]
           /\ Mailboxes' = [Mailboxes EXCEPT ![c] = Mailboxes'[c]]
           /\ published' = [published EXCEPT ![c] = published'[c]]
           /\ Status'[c] = Status[c] => Status' = Status
           /\ Ids'[c] = Ids[c] => Ids' = Ids
           /\ Requests'[c] = Requests[c] => Requests' = Requests
           /\ Mailboxes'[c] = Mailboxes[c] => Mailboxes' = Mailboxes
           /\ published'[c] = published[c] => published' = published
  <1>1. Status = [x \in Conn |-> Status[x]] /\ Status' = [x \in Conn |-> Status'[x]]
    BY DEF Status
  <1>2. Ids = [x \in Conn |-> Ids[x]] /\ Ids' = [x \in Conn |-> Ids'[x]]
    BY DEF Ids
  <1>3. /\ Requests = [x \in Conn |-> Requests[x]]
        /\ Requests' = [x \in Conn |-> Requests'[x]]
    BY DEF Requests
  <1>4. /\ Mailboxes = [x \in Conn |-> Mailboxes[x]]
        /\ Mailboxes' = [x \in Conn |-> Mailboxes'[x]]
    BY DEF Mailboxes
  <1>5. /\ published = [x \in Conn |-> published[x]]
        /\ published' = [x \in Conn |-> published'[x]]
    BY DEF TypeOK
  <1> QED  BY <1>1, <1>2, <1>3, <1>4, <1>5 DEF OthersLookSame

\* The view of a connection that keeps its place and its name.
LEMMA SamePlace ==
    ASSUME TypeOK, NEW c \in Conn
    PROVE  /\ task'[c] = task[c] => Status'[c] = Status[c]
           /\ session'[c] = session[c] => Ids'[c] = Ids[c]
           /\ Ids[c] = session[c].id /\ Ids'[c] = session'[c].id
           /\ RxOpen(c) <=> Status[c] \in {"inside", "leaving"}
           /\ task'[c] \in {"select", "sending", "leaving"} <=>
                 Status'[c] \in {"inside", "leaving"}
  BY DEF TypeOK, Status, StatusOf, Ids, RxOpen

\* Nothing is asked, and nothing of c is taken from the channel.
LEMMA SameRequests ==
    ASSUME TypeOK, NEW c \in Conn, session'[c].id = session[c].id,
           outbox'[c] = outbox[c],
           \/ brokerQ' = brokerQ
           \/ \E m \in ToBroker : /\ brokerQ' = Append(brokerQ, m)
                                  /\ m.client # session[c].id
           \/ /\ brokerQ # <<>> /\ brokerQ' = Tail(brokerQ)
              /\ Head(brokerQ).client # session[c].id
    PROVE  Requests'[c] = Requests[c]
  <1> DEFINE S == RequestsFrom(session[c].id)
  <1>1. /\ Requests[c] = Filter(brokerQ, S) \o outbox[c]
        /\ Requests'[c] = Filter(brokerQ', S) \o outbox[c]
    BY DEF Requests, RequestsOf
  <1>2. brokerQ \in Seq(ToBroker)
    BY DEF TypeOK
  <1>3. Filter(brokerQ', S) = Filter(brokerQ, S)
    <2>1. CASE brokerQ' = brokerQ
      BY <2>1
    <2>2. CASE \E m \in ToBroker : /\ brokerQ' = Append(brokerQ, m)
                                   /\ m.client # session[c].id
      <3>1. PICK m \in ToBroker : brokerQ' = Append(brokerQ, m) /\ m.client # session[c].id
        BY <2>2
      <3>2. m \notin S
        BY <3>1 DEF RequestsFrom
      <3> HIDE DEF S
      <3> QED  BY <1>2, <3>1, <3>2, FilterAppend
    <2>3. CASE /\ brokerQ # <<>> /\ brokerQ' = Tail(brokerQ)
               /\ Head(brokerQ).client # session[c].id
      <3>1. Head(brokerQ) \notin S
        BY <2>3 DEF RequestsFrom
      <3> HIDE DEF S
      <3> QED  BY <1>2, <2>3, <3>1, FilterHead
    <2> QED  BY <2>1, <2>2, <2>3
  <1> QED  BY <1>1, <1>3

\* The handler begins to wait with the messages o.
LEMMA AskedRequests ==
    ASSUME TypeOK, TypeOK', NEW c \in Conn, OthersLookSame(c),
           session'[c].id = session[c].id, outbox[c] = <<>>, brokerQ' = brokerQ
    PROVE  PS!Asks(c, outbox'[c])
  <1> DEFINE F == Filter(brokerQ, RequestsFrom(session[c].id))
  <1>1. Requests[c] = F \o <<>> /\ Requests'[c] = F \o outbox'[c]
    BY DEF Requests, RequestsOf
  <1>2. F \in Seq(ToBroker)
    BY FilterType DEF TypeOK
  <1> HIDE DEF F
  <1>3. F \o <<>> = F
    BY <1>2
  <1>4. Requests'[c] = Requests[c] \o outbox'[c]
    BY <1>1, <1>3
  <1> QED  BY <1>4, Updates DEF PS!Asks

\* The channel takes the first message that c waits to send.
LEMMA SentRequests ==
    ASSUME TypeOK, NEW c \in Conn, session'[c].id = session[c].id,
           outbox[c] # <<>>, Head(outbox[c]).client = session[c].id,
           brokerQ' = Append(brokerQ, Head(outbox[c])),
           outbox'[c] = Tail(outbox[c])
    PROVE  Requests'[c] = Requests[c]
  <1> DEFINE S == RequestsFrom(session[c].id)
             F == Filter(brokerQ, S)
             m == Head(outbox[c])
             r == Tail(outbox[c])
  <1>1. Requests[c] = F \o outbox[c] /\ Requests'[c] = Filter(brokerQ', S) \o r
    BY DEF Requests, RequestsOf
  <1>2. /\ brokerQ \in Seq(ToBroker) /\ outbox[c] \in Seq(ToBroker)
        /\ m \in ToBroker /\ r \in Seq(ToBroker)
    BY DEF TypeOK
  <1>3. m \in S
    BY <1>2 DEF RequestsFrom
  <1>4. F \in Seq(ToBroker)
    BY <1>2, FilterType
  <1>5. Filter(brokerQ', S) = Append(F, m)
    <2> HIDE DEF S, m
    <2> QED  BY <1>2, <1>3, FilterAppend DEF m
  <1>6. Append(F, m) \o r = F \o outbox[c]
    <2>1. outbox[c] = <<m>> \o r
      BY <1>2
    <2> HIDE DEF F, m, r
    <2>2. Append(F, m) \o r = F \o (<<m>> \o r)
      <3>1. Append(F, m) = F \o <<m>> /\ <<m>> \in Seq(ToBroker)
        BY <1>2, <1>4
      <3>2. (F \o <<m>>) \o r = F \o (<<m>> \o r)
        <4>1. Reassociates(F, <<m>>, r)
          BY <1>2, <1>4, <3>1, ConcatConcat
        <4> QED  BY <4>1, Zenon DEF Reassociates
      <3> QED  BY <3>1, <3>2
    <2> QED  BY <2>1, <2>2
  <1> QED  BY <1>1, <1>5, <1>6

\* The channel takes the only message, and c goes on to wait with others.
LEMMA SentAndAsked ==
    ASSUME TypeOK, TypeOK', NEW c \in Conn, OthersLookSame(c),
           session'[c].id = session[c].id,
           Len(outbox[c]) = 1, Head(outbox[c]).client = session[c].id,
           brokerQ' = Append(brokerQ, Head(outbox[c]))
    PROVE  PS!Asks(c, outbox'[c])
  <1> DEFINE S == RequestsFrom(session[c].id)
             F == Filter(brokerQ, S)
             m == Head(outbox[c])
             D == outbox'[c]
  <1>1. Requests[c] = F \o outbox[c] /\ Requests'[c] = Filter(brokerQ', S) \o D
    BY DEF Requests, RequestsOf
  <1>2. /\ brokerQ \in Seq(ToBroker) /\ outbox[c] \in Seq(ToBroker)
        /\ m \in ToBroker /\ outbox[c] = <<m>> /\ D \in Seq(ToBroker)
    BY DEF TypeOK
  <1>3. m \in S
    BY <1>2 DEF RequestsFrom
  <1>4. F \in Seq(ToBroker)
    BY <1>2, FilterType
  <1>5. Filter(brokerQ', S) = Append(F, m)
    <2> HIDE DEF S, m
    <2> QED  BY <1>2, <1>3, FilterAppend DEF m
  <1>6. Append(F, m) = F \o <<m>>
    <2> HIDE DEF F, m
    <2> QED  BY <1>2, <1>4
  <1>7. Requests'[c] = Requests[c] \o D
    BY <1>1, <1>2, <1>5, <1>6
  <1> QED  BY <1>7, Updates DEF PS!Asks

\* The broker takes a message of c.
LEMMA TakenRequests ==
    ASSUME TypeOK, NEW c \in Conn, session'[c].id = session[c].id,
           outbox'[c] = outbox[c], brokerQ # <<>>, brokerQ' = Tail(brokerQ),
           Head(brokerQ).client = session[c].id
    PROVE  /\ Requests[c] # <<>> /\ Head(Requests[c]) = Head(brokerQ)
           /\ Requests'[c] = Tail(Requests[c])
  <1> DEFINE S == RequestsFrom(session[c].id)
             F == Filter(brokerQ, S)
             o == outbox[c]
  <1>1. Requests[c] = F \o o /\ Requests'[c] = Filter(brokerQ', S) \o o
    BY DEF Requests, RequestsOf
  <1>2. brokerQ \in Seq(ToBroker) /\ o \in Seq(ToBroker) /\ Head(brokerQ) \in ToBroker
    BY DEF TypeOK
  <1>3. Head(brokerQ) \in S
    BY <1>2 DEF RequestsFrom
  <1>4. F \in Seq(ToBroker)
    BY <1>2, FilterType
  <1>5. F # <<>> /\ Head(F) = Head(brokerQ) /\ Tail(F) = Filter(brokerQ', S)
    <2> HIDE DEF S
    <2> QED  BY <1>2, <1>3, FilterHead
  <1>6. F \o o # <<>> /\ Head(F \o o) = Head(F) /\ Tail(F \o o) = Tail(F) \o o
    <2> HIDE DEF F, o
    <2> QED  BY <1>2, <1>4, <1>5
  <1> QED  BY <1>1, <1>5, <1>6

\* The mailbox of a connection whose channel gains or loses no Publish.
LEMMA SameMailbox ==
    ASSUME NEW c \in Conn, UNCHANGED <<current, clients>>,
           task'[c] \in {"select", "sending", "leaving"} <=> RxOpen(c),
           RxOpen(c) => Filter(inbox'[c], Publishes) = Filter(inbox[c], Publishes)
    PROVE  Mailboxes'[c] = Mailboxes[c]
  <1>1. Mailboxes[c] = IF RxOpen(c) THEN Filter(inbox[c], Publishes) \o Pending(c)
                                    ELSE <<>>
    BY DEF Mailboxes, MailboxOf
  <1>2. Mailboxes'[c] = IF RxOpen(c) THEN Filter(inbox'[c], Publishes) \o Pending(c)
                                     ELSE <<>>
    BY DEF Mailboxes, MailboxOf, RxOpen, Pending
  <1> QED  BY <1>1, <1>2

\* A closed channel's mailbox is empty.
LEMMA ClosedMailbox ==
    ASSUME NEW c \in Conn
    PROVE  /\ ~RxOpen(c) => Mailboxes[c] = <<>>
           /\ task'[c] \notin {"select", "sending", "leaving"} => Mailboxes'[c] = <<>>
  BY DEF Mailboxes, MailboxOf, RxOpen

-----------------------------------------------------------------------------
(* The handlers' steps.                                                    *)

\* A handler's step does not show at the other connections.
LEMMA HandlerLooks ==
    ASSUME RInv, DistinctIds, NEW c \in Conn, HandlerStep(c)
    PROVE  /\ OthersLookSame(c) /\ Frame(c)
           /\ \A k \in 1..Len(outbox[c]) : outbox[c][k].client = session[c].id
  <1>1. TypeOK /\ Frame(c)
    BY HandlerFrame DEF RInv, IInv, SInv, OriginInv
  <1>2. \A k \in 1..Len(outbox[c]) : outbox[c][k].client = session[c].id
    BY DEF RInv, SInv, OriginInv, OutboxOwned
  <1>3. \/ brokerQ' = brokerQ
        \/ outbox[c] # <<>> /\ brokerQ' = Append(brokerQ, Head(outbox[c]))
    BY DEF HandlerStep, PeerStep, SendStep, InboxStep, TimerFires, Accept, RecvConnect,
           RecvPublish, RecvSubscribe, RecvUnsubscribe, RecvDisconnect, RecvViolation,
           AnswerFails, RecvEof, SentConnected, SentRequest, SentGoodbye, Deliver,
           HandleBrokerPublish, HandleConnectionTimeout
  <1>4. outbox[c] # <<>> => /\ Head(outbox[c]) \in ToBroker
                            /\ Head(outbox[c]).client = session[c].id
                            /\ session[c].id \in ClientId
    <2>1. outbox[c] \in Seq(ToBroker)
      BY <1>1 DEF TypeOK
    <2>2. outbox[c] # <<>> => /\ 1 \in 1..Len(outbox[c])
                              /\ Head(outbox[c]) = outbox[c][1]
                              /\ Head(outbox[c]) \in ToBroker
      BY <2>1
    <2> QED  BY <1>2, <2>2, MsgTypes
  <1>5. ASSUME NEW d \in Conn, d # c
        PROVE  /\ Status'[d] = Status[d] /\ Ids'[d] = Ids[d]
               /\ Requests'[d] = Requests[d] /\ Mailboxes'[d] = Mailboxes[d]
               /\ published'[d] = published[d]
    <2>1. /\ task'[d] = task[d] /\ session'[d] = session[d] /\ inbox'[d] = inbox[d]
          /\ outbox'[d] = outbox[d] /\ published'[d] = published[d]
          /\ UNCHANGED <<current, clients>>
      BY <1>1, <1>5 DEF Frame
    <2>2. Status'[d] = Status[d] /\ Ids'[d] = Ids[d]
      BY <1>1, <2>1, SamePlace
    <2>3. outbox[c] # <<>> => Head(outbox[c]).client # session[d].id
      BY <1>4, <1>5, OneOwner DEF RInv
    <2>4. Requests'[d] = Requests[d]
      BY <1>1, <1>3, <1>4, <2>1, <2>3, SameRequests
    <2>5. Mailboxes'[d] = Mailboxes[d]
      BY <2>1, SameMailbox DEF RxOpen
    <2> QED  BY <2>1, <2>2, <2>4, <2>5
  <1> QED  BY <1>1, <1>2, <1>5 DEF OthersLookSame

\* A step of c that shows nowhere.
LEMMA Stutters ==
    ASSUME TypeOK, TypeOK', NEW c \in Conn, OthersLookSame(c), Frame(c),
           Status'[c] = Status[c], Ids'[c] = Ids[c], Requests'[c] = Requests[c],
           Mailboxes'[c] = Mailboxes[c], published'[c] = published[c]
    PROVE  UNCHANGED PS!vars
  <1>1. UNCHANGED <<Status, Ids, Requests, Mailboxes, published>>
    BY Updates
  <1>2. UNCHANGED <<clients, subscriptions, alive>>
    BY DEF Frame
  <1> QED  BY <1>1, <1>2 DEF PS!vars

\* What on_client_disconnect sends is a goodbye.
LEMMA SaysGoodbyeMaps ==
    ASSUME TypeOK, NEW c \in Conn, PS!Asks(c, DisconnectMsgs(c))
    PROVE  PS!SaysGoodbye(c)
  <1> DEFINE bye == [type |-> "ClientDisconnected", client |-> session[c].id]
             will == [type |-> "Publish", client |-> session[c].id,
                      packet |-> [topic |-> session[c].will, from |-> c,
                                  n |-> published[c] + 1]]
  <1>1. Ids[c] = session[c].id
    BY DEF Ids
  <1>2. CASE DisconnectMsgs(c) = <<bye>>
    BY <1>1, <1>2 DEF PS!SaysGoodbye
  <1>3. CASE session[c].will # None /\ DisconnectMsgs(c) = <<will, bye>>
    <2>1. session[c].will \in Topic
      BY <1>3 DEF TypeOK
    <2>2. will = PS!Message(c, session[c].will, published[c] + 1)
      BY <1>1 DEF PS!Message
    <2>3. PS!Asks(c, <<PS!Message(c, session[c].will, published[c] + 1), bye>>)
      BY <1>3, <2>2
    <2> QED  BY <1>1, <2>1, <2>3 DEF PS!SaysGoodbye
  <1> QED  BY <1>2, <1>3 DEF DisconnectMsgs

\* The abstract step of c, and the stuttering step.
Maps == PS!Next \/ UNCHANGED PS!vars

LEMMA ClientMaps ==
    ASSUME NEW c \in Conn, Frame(c),
           PS!Enter(c) \/ PS!Stay(c) \/ PS!Leave(c) \/ PS!LeaveSlowly(c) \/ PS!Clear(c)
    PROVE  Maps
  BY DEF Maps, Frame, PS!Next, PS!ClientStep

\* Accept.
LEMMA AcceptMaps ==
    ASSUME RInv, RInv', NEW c \in Conn, OthersLookSame(c), Frame(c), Accept(c)
    PROVE  Maps
  <1>1. TypeOK /\ TypeOK'
    BY DEF RInv, IInv
  <1>2. task[c] = "none" /\ task'[c] = "select" /\ UNCHANGED <<session, outbox, brokerQ,
                                                           inbox, published>>
    BY <1>1 DEF Accept, TypeOK
  <1>3. Status[c] = "outside" /\ Status'[c] = "inside"
    BY <1>2 DEF Status, StatusOf
  <1>4. Ids'[c] = Ids[c] /\ published'[c] = published[c]
    BY <1>1, <1>2, SamePlace
  <1>5. Requests'[c] = Requests[c]
    BY <1>1, <1>2, SameRequests
  <1>6. Mailboxes'[c] = Mailboxes[c]
    <2>1. inbox'[c] = <<>>
      BY <1>2 DEF RInv, NameInv
    <2>2. \A i \in ClientId : clients[i] # c
      <3>1. state[c] # "Connected"
        BY <1>2 DEF RInv, SInv, OriginInv, NothingAsked
      <3> QED  BY <3>1, NoneAssumption DEF RInv, IInv, RouteInv
    <2>3. Pending(c)' = <<>>
      <3>1. current # None => current.rem \in SUBSET ClientId
        BY <1>1 DEF TypeOK
      <3>2. UNCHANGED <<current, clients>>
        BY DEF Frame
      <3> QED  BY <2>2, <3>1, <3>2 DEF Pending
    <2>4. Mailboxes'[c] = Filter(inbox'[c], Publishes) \o Pending(c)'
      BY <1>2 DEF Mailboxes, MailboxOf, RxOpen
    <2>5. Filter(inbox'[c], Publishes) = <<>>
      BY <2>1, FilterEmpty
    <2>6. Mailboxes'[c] = <<>>
      BY <2>3, <2>4, <2>5
    <2>7. ~RxOpen(c)
      BY <1>2 DEF RxOpen
    <2> QED  BY <2>6, <2>7, ClosedMailbox
  <1>7. PS!Enter(c)
    <2>1. Status' = [Status EXCEPT ![c] = "inside"]
      BY <1>1, <1>3, Updates
    <2>2. UNCHANGED <<Ids, published, Requests, Mailboxes>>
      BY <1>1, <1>4, <1>5, <1>6, Updates
    <2> QED  BY <1>3, <2>1, <2>2 DEF PS!Enter
  <1> QED  BY <1>7, ClientMaps

\* The status of a client whose handler is at work, before and after.
LEMMA Inside ==
    ASSUME NEW c \in Conn
    PROVE  /\ task[c] \in {"select", "sending"} <=> Status[c] = "inside"
           /\ task'[c] \in {"select", "sending"} <=> Status'[c] = "inside"
           /\ task[c] = "leaving" <=> Status[c] = "leaving"
           /\ task'[c] = "leaving" <=> Status'[c] = "leaving"
           /\ task'[c] \in {"failed", "gone"} => Status'[c] = "left"
  BY DEF Status, StatusOf

\* A handler that stays at its post while its channel is left alone.
LEMMA StaysInside ==
    ASSUME TypeOK, TypeOK', NEW c \in Conn, OthersLookSame(c), Frame(c),
           task[c] \in {"select", "sending"}, task'[c] \in {"select", "sending"}
    PROVE  /\ Status[c] = "inside" /\ Status' = Status
           /\ inbox'[c] = inbox[c] => Mailboxes' = Mailboxes
           /\ session'[c] = session[c] => Ids' = Ids
  <1>1. Status[c] = "inside" /\ Status'[c] = "inside"
    BY Inside
  <1>2. inbox'[c] = inbox[c] => Mailboxes'[c] = Mailboxes[c]
    <2>1. UNCHANGED <<current, clients>> /\ RxOpen(c)
      BY DEF Frame, RxOpen
    <2> QED  BY <2>1, SameMailbox
  <1>3. session'[c] = session[c] => Ids'[c] = Ids[c]
    BY SamePlace
  <1> QED  BY <1>1, <1>2, <1>3, Updates

\* RecvConnect: nothing of a client is in the channel before it has a name.
LEMMA RecvConnectMaps ==
    ASSUME RInv, RInv', DistinctIds, NEW c \in Conn, OthersLookSame(c), Frame(c),
           RecvConnect(c)
    PROVE  Maps
  <1>1. TypeOK /\ TypeOK'
    BY DEF RInv, IInv
  <1>2. PICK i \in IdsOf[c], will \in WillsOf[c] :
           /\ session' = [session EXCEPT ![c] = [id |-> i, will |-> will]]
           /\ Send(c, [type |-> "ClientConnected", client |-> i, client_tx |-> c])
    BY DEF RecvConnect
  <1> DEFINE m == [type |-> "ClientConnected", client |-> i, client_tx |-> c]
  <1>3. /\ task[c] = "select" /\ task'[c] = "sending" /\ state[c] = "Initialized"
        /\ outbox'[c] = <<m>> /\ session'[c].id = i /\ i \in ClientId
        /\ UNCHANGED <<brokerQ, inbox, published>>
    BY <1>1, <1>2, IdsAssumption DEF RecvConnect, Send, TypeOK
  <1>4. session[c].id = None /\ outbox[c] = <<>>
    BY <1>3 DEF RInv, NameInv, IInv, OutboxInv, OutboxOK
  <1>5. brokerQ \in Seq(ToBroker)
    BY <1>1 DEF TypeOK
  <1>6. Filter(brokerQ, RequestsFrom(None)) = <<>>
    <2>1. \A k \in 1..Len(brokerQ) : brokerQ[k] \notin RequestsFrom(None)
      BY <1>5, MsgTypes, NoneAssumption DEF RequestsFrom
    <2> QED  BY <1>5, <2>1, FilterNone
  <1>7. Filter(brokerQ, RequestsFrom(i)) = <<>>
    <2>1. ASSUME NEW k \in 1..Len(brokerQ) PROVE brokerQ[k] \notin RequestsFrom(i)
      <3>1. PICK d \in Conn : session[d].id = brokerQ[k].client /\ state[d] = "Connected"
        BY DEF RInv, SInv, OriginInv, QueueOwned, Owned
      <3>2. d # c
        BY <1>3, <3>1
      <3>3. session[d].id # i
        BY <1>3, <3>2, NoneAssumption DEF RInv, NameInv, DistinctIds
      <3> QED  BY <3>1, <3>3 DEF RequestsFrom
    <2> QED  BY <1>5, <2>1, FilterNone
  <1>8. PS!Asks(c, <<m>>)
    <2>1. Requests[c] = <<>> \o <<>> /\ Requests'[c] = <<>> \o <<m>>
      BY <1>3, <1>4, <1>6, <1>7 DEF Requests, RequestsOf
    <2>2. Requests'[c] = Requests[c] \o <<m>>
      <3>1. <<>> \o <<>> = <<>>
        OBVIOUS
      <3> QED  BY <2>1, <3>1
    <2> QED  BY <1>1, <2>2, Updates DEF PS!Asks
  <1>9. /\ Ids[c] = None /\ Ids' = [Ids EXCEPT ![c] = i]
        /\ Status[c] = "inside" /\ UNCHANGED <<Status, Mailboxes>>
    BY <1>1, <1>3, <1>4, Updates, SamePlace, StaysInside
  <1>10. PS!Join(c)
    BY <1>3, <1>8, <1>9 DEF PS!Join
  <1> QED  BY <1>9, <1>10, ClientMaps DEF PS!Stay

\* RecvPublish, RecvSubscribe and RecvUnsubscribe.
LEMMA RecvRequestMaps ==
    ASSUME RInv, RInv', NEW c \in Conn, OthersLookSame(c), Frame(c),
           RecvPublish(c) \/ RecvSubscribe(c) \/ RecvUnsubscribe(c)
    PROVE  Maps
  <1>1. TypeOK /\ TypeOK'
    BY DEF RInv, IInv
  <1>2. /\ task[c] = "select" /\ state[c] = "Connected"
        /\ UNCHANGED <<session, brokerQ, inbox>>
    BY DEF RecvPublish, RecvSubscribe, RecvUnsubscribe
  <1>3. session[c].id \in ClientId /\ outbox[c] = <<>> /\ Ids[c] = session[c].id
    BY <1>2 DEF RInv, IInv, OutboxInv, OutboxOK, Ids
  <1>4. PS!Asks(c, outbox'[c])
    BY <1>1, <1>2, <1>3, AskedRequests
  <1>5. ASSUME NEW m, Send(c, m) PROVE task'[c] = "sending" /\ outbox'[c] = <<m>>
    BY <1>1, <1>5 DEF Send, TypeOK
  <1>6. task'[c] = "sending"
    BY <1>5 DEF RecvPublish, RecvSubscribe, RecvUnsubscribe
  <1>7. /\ Ids[c] # None /\ Status[c] = "inside"
        /\ UNCHANGED <<Status, Ids, Mailboxes>>
    BY <1>1, <1>2, <1>3, <1>6, StaysInside, NoneAssumption
  <1>8. CASE RecvPublish(c)
    <2>1. PICK t \in Topic :
             Send(c, [type |-> "Publish", client |-> session[c].id,
                      packet |-> [topic |-> t, from |-> c, n |-> published[c] + 1]])
      BY <1>8 DEF RecvPublish
    <2>2. outbox'[c] = <<PS!Message(c, t, published[c] + 1)>>
      BY <1>3, <1>5, <2>1 DEF PS!Message
    <2>3. published' = [published EXCEPT ![c] = @ + 1]
      BY <1>8 DEF RecvPublish
    <2>4. PS!Publish(c)
      BY <1>4, <1>7, <2>2, <2>3 DEF PS!Publish
    <2> QED  BY <1>7, <2>4, ClientMaps DEF PS!Stay
  <1>9. CASE RecvSubscribe(c) \/ RecvUnsubscribe(c)
    <2>1. PICK kind \in {"Subscribe", "Unsubscribe"}, ts \in SUBSET Topic \ {{}} :
             Send(c, [type |-> kind, client |-> session[c].id, topics |-> ts])
      BY <1>9 DEF RecvSubscribe, RecvUnsubscribe
    <2>2. outbox'[c] = <<[type |-> kind, client |-> Ids[c], topics |-> ts]>>
      BY <1>3, <1>5, <2>1
    <2>3. published' = published
      BY <1>9 DEF RecvSubscribe, RecvUnsubscribe
    <2>4. PS!ChangeTopics(c)
      BY <1>4, <1>7, <2>2, <2>3 DEF PS!ChangeTopics
    <2> QED  BY <1>7, <2>4, ClientMaps DEF PS!Stay
  <1> QED  BY <1>8, <1>9

\* A handler that fails: it leaves, and says goodbye if it has a name.
LEMMA FailMaps ==
    ASSUME TypeOK, TypeOK', NEW c \in Conn, OthersLookSame(c), Frame(c),
           NEW connected \in BOOLEAN, Fail(c, connected),
           task[c] \in {"select", "sending"}, UNCHANGED <<session, published>>,
           connected => session[c].id # None /\ PS!Asks(c, outbox'[c]),
           ~connected => session[c].id = None /\ outbox[c] = <<>> /\ brokerQ' = brokerQ
    PROVE  Maps
  <1>1. /\ task'[c] \in {"failed", "gone"}
        /\ outbox'[c] = IF connected THEN DisconnectMsgs(c) ELSE <<>>
    BY DEF Fail, TypeOK
  <1>2. Status[c] = "inside" /\ Status'[c] = "left"
    BY <1>1, Inside
  <1>3. Mailboxes'[c] = <<>>
    BY <1>1, ClosedMailbox
  <1>4. Ids[c] = session[c].id /\ Ids'[c] = Ids[c]
    BY SamePlace
  <1>5. /\ Status' = [Status EXCEPT ![c] = "left"]
        /\ Mailboxes' = [Mailboxes EXCEPT ![c] = <<>>]
        /\ UNCHANGED <<Ids, published>>
    BY <1>2, <1>3, <1>4, Updates
  <1>6. CASE connected
    <2>1. PS!SaysGoodbye(c)
      BY <1>1, <1>6, SaysGoodbyeMaps
    <2>2. PS!Leave(c)
      BY <1>2, <1>4, <1>5, <1>6, <2>1 DEF PS!Leave
    <2> QED  BY <2>2, ClientMaps
  <1>7. CASE ~connected
    <2>1. Requests'[c] = Requests[c]
      BY <1>1, <1>7, SameRequests
    <2>2. Requests' = Requests
      BY <2>1, Updates
    <2>3. PS!Leave(c)
      BY <1>2, <1>4, <1>5, <1>7, <2>2 DEF PS!Leave
    <2> QED  BY <2>3, ClientMaps
  <1> QED  BY <1>6, <1>7

\* A handler that fails in its select!.
LEMMA SelectFails ==
    ASSUME RInv, RInv', NEW c \in Conn, OthersLookSame(c), Frame(c),
           Fail(c, state[c] = "Connected"), task[c] = "select",
           UNCHANGED <<session, published, brokerQ>>
    PROVE  Maps
  <1>1. TypeOK /\ TypeOK'
    BY DEF RInv, IInv
  <1> DEFINE connected == state[c] = "Connected"
  <1>2. connected \in BOOLEAN /\ outbox[c] = <<>>
    BY DEF RInv, IInv, OutboxInv, OutboxOK
  <1>3. connected => session[c].id # None
    BY NoneAssumption DEF RInv, IInv, OutboxInv, OutboxOK
  <1>4. ~connected => session[c].id = None
    BY <1>1 DEF RInv, NameInv, TypeOK
  <1>5. PS!Asks(c, outbox'[c])
    BY <1>1, <1>2, AskedRequests
  <1>6. Fail(c, connected)
    OBVIOUS
  <1> HIDE DEF connected
  <1> QED  BY <1>1, <1>2, <1>3, <1>4, <1>5, <1>6, FailMaps

\* RecvViolation and AnswerFails.
LEMMA RecvFailureMaps ==
    ASSUME RInv, RInv', NEW c \in Conn, OthersLookSame(c), Frame(c),
           RecvViolation(c) \/ AnswerFails(c)
    PROVE  Maps
  <1>1. AnswerFails(c) => Fail(c, state[c] = "Connected")
    <2>1. AnswerFails(c) => (state[c] = "Connected") = TRUE
      BY DEF AnswerFails
    <2> QED  BY <2>1 DEF AnswerFails
  <1>2. Fail(c, state[c] = "Connected")
    BY <1>1 DEF RecvViolation
  <1>3. task[c] = "select" /\ UNCHANGED <<session, published, brokerQ>>
    BY DEF RecvViolation, AnswerFails
  <1> QED  BY <1>2, <1>3, SelectFails

\* RecvEof.
LEMMA RecvEofMaps ==
    ASSUME RInv, RInv', NEW c \in Conn, OthersLookSame(c), Frame(c), RecvEof(c)
    PROVE  Maps
  <1>1. TypeOK /\ TypeOK'
    BY DEF RInv, IInv
  <1>2. task[c] = "select" /\ UNCHANGED <<session, published, brokerQ>>
    BY DEF RecvEof
  <1>3. CASE state[c] = "Connected"
    <2>1. task'[c] = "leaving" /\ outbox'[c] = DisconnectMsgs(c) /\ inbox' = inbox
      BY <1>1, <1>3 DEF RecvEof, TypeOK
    <2>2. outbox[c] = <<>> /\ session[c].id # None
      BY <1>2, <1>3, NoneAssumption DEF RInv, IInv, OutboxInv, OutboxOK
    <2>3. PS!SaysGoodbye(c)
      BY <1>1, <1>2, <2>1, <2>2, AskedRequests, SaysGoodbyeMaps
    <2>4. Status[c] = "inside" /\ Status'[c] = "leaving"
      BY <1>2, <2>1, Inside
    <2>5. Mailboxes'[c] = Mailboxes[c]
      <3>1. UNCHANGED <<current, clients>> /\ RxOpen(c)
        BY <1>2 DEF Frame, RxOpen
      <3> QED  BY <2>1, <3>1, SameMailbox
    <2>6. Ids[c] = session[c].id /\ Ids'[c] = Ids[c]
      BY <1>1, <1>2, SamePlace
    <2>7. /\ Status' = [Status EXCEPT ![c] = "leaving"]
          /\ UNCHANGED <<Ids, published, Mailboxes>>
      BY <1>1, <1>2, <2>4, <2>5, <2>6, Updates
    <2>8. PS!LeaveSlowly(c)
      BY <2>2, <2>3, <2>4, <2>6, <2>7 DEF PS!LeaveSlowly
    <2> QED  BY <2>8, ClientMaps
  <1>4. CASE state[c] # "Connected"
    <2>1. (state[c] = "Connected") = FALSE
      BY <1>4
    <2>2. Fail(c, state[c] = "Connected")
      BY <1>4, <2>1 DEF RecvEof
    <2> QED  BY <1>2, <2>2, SelectFails
  <1> QED  BY <1>3, <1>4

\* RecvDisconnect and TimerFires show nowhere.
LEMMA QuietMaps ==
    ASSUME RInv, RInv', NEW c \in Conn, OthersLookSame(c), Frame(c),
           RecvDisconnect(c) \/ TimerFires(c)
    PROVE  Maps
  <1>1. TypeOK /\ TypeOK'
    BY DEF RInv, IInv
  <1>2. UNCHANGED <<task, session, outbox, published, brokerQ, current, clients>>
    BY DEF RecvDisconnect, TimerFires, brokerVars
  <1>3. RxOpen(c) => Filter(inbox'[c], Publishes) = Filter(inbox[c], Publishes)
    <2> SUFFICES ASSUME RxOpen(c)
                 PROVE  Filter(inbox'[c], Publishes) = Filter(inbox[c], Publishes)
      OBVIOUS
    <2>1. CASE inbox' = inbox
      BY <2>1
    <2>2. CASE inbox' # inbox
      <3> DEFINE m == [type |-> "ClientConnectionTimeout"]
      <3>1. inbox'[c] = Append(inbox[c], m) /\ inbox[c] \in Seq(ToHandler)
        BY <1>1, <2>2 DEF RecvDisconnect, TimerFires, TypeOK
      <3>2. m \in ToHandler
        BY DEF ToHandler
      <3>3. m \notin Publishes
        <4>1. m.type = "ClientConnectionTimeout"
          OBVIOUS
        <4>2. \A x \in Publishes : x.type = "Publish"
          BY DEF Publishes
        <4> HIDE DEF m
        <4> QED  BY <4>1, <4>2
      <3> HIDE DEF m
      <3> QED  BY <3>1, <3>2, <3>3, FilterAppend
    <2> QED  BY <2>1, <2>2
  <1>4. Status'[c] = Status[c] /\ Ids'[c] = Ids[c] /\ published'[c] = published[c]
    BY <1>1, <1>2, SamePlace
  <1>5. Requests'[c] = Requests[c]
    BY <1>1, <1>2, SameRequests
  <1>6. Mailboxes'[c] = Mailboxes[c]
    BY <1>2, <1>3, SameMailbox DEF RxOpen
  <1> QED  BY <1>1, <1>4, <1>5, <1>6, Stutters DEF Maps

\* SentConnected and SentRequest: the request moves on, or the handler fails
\* right after.
LEMMA SentMaps ==
    ASSUME RInv, RInv', NEW c \in Conn, OthersLookSame(c), Frame(c),
           SentConnected(c) \/ SentRequest(c),
           \A k \in 1..Len(outbox[c]) : outbox[c][k].client = session[c].id
    PROVE  Maps
  <1>1. TypeOK /\ TypeOK' /\ IInv
    BY DEF RInv, IInv
  <1>2. task[c] = "sending" /\ Deliver(c) /\ UNCHANGED <<session, published>>
    BY DEF SentConnected, SentRequest
  <1>3. /\ outbox[c] # <<>> /\ Head(outbox[c]) = outbox[c][1]
        /\ brokerQ' = Append(brokerQ, Head(outbox[c]))
    BY <1>1, <1>2, DeliverType
  <1>4. Len(outbox[c]) = 1 /\ session[c].id \in ClientId
    BY <1>1, <1>2 DEF IInv, OutboxInv, OutboxOK
  <1>5. Head(outbox[c]).client = session[c].id
    BY <1>3, <1>4
  <1>6. CASE Fail(c, TRUE)
    <2>1. PS!Asks(c, outbox'[c])
      BY <1>1, <1>2, <1>3, <1>4, <1>5, SentAndAsked
    <2> QED  BY <1>1, <1>2, <1>4, <1>6, <2>1, FailMaps, NoneAssumption
  <1>7. CASE /\ task' = [task EXCEPT ![c] = "select"]
             /\ outbox' = [outbox EXCEPT ![c] = <<>>]
             /\ inbox' = inbox
    <2>1. task'[c] = "select" /\ outbox'[c] = <<>>
      BY <1>1, <1>7 DEF TypeOK
    <2>2. Tail(outbox[c]) = <<>>
      <3>1. outbox[c] \in Seq(ToBroker)
        BY <1>1 DEF TypeOK
      <3>2. Tail(outbox[c]) \in Seq(ToBroker) /\ Len(Tail(outbox[c])) = 0
        BY <1>3, <1>4, <3>1
      <3> QED  BY <3>2, EmptySeq
    <2>3. Requests'[c] = Requests[c]
      BY <1>1, <1>2, <1>3, <1>5, <2>1, <2>2, SentRequests
    <2>4. UNCHANGED <<Status, Ids, Mailboxes>>
      BY <1>1, <1>2, <1>7, <2>1, StaysInside
    <2> QED  BY <1>1, <1>2, <2>3, <2>4, Stutters DEF Maps
  <1> QED  BY <1>6, <1>7 DEF SentConnected, SentRequest

\* SentGoodbye: after the last message the mailbox is cleared.
LEMMA SentGoodbyeMaps ==
    ASSUME RInv, RInv', NEW c \in Conn, OthersLookSame(c), Frame(c), SentGoodbye(c),
           \A k \in 1..Len(outbox[c]) : outbox[c][k].client = session[c].id
    PROVE  Maps
  <1>1. TypeOK /\ TypeOK' /\ IInv
    BY DEF RInv, IInv
  <1>2. /\ task[c] \in {"leaving", "failed"} /\ Deliver(c)
        /\ UNCHANGED <<session, published>> /\ outbox'[c] = Tail(outbox[c])
    BY <1>1 DEF SentGoodbye, TypeOK
  <1>3. /\ outbox[c] # <<>> /\ Head(outbox[c]) = outbox[c][1]
        /\ brokerQ' = Append(brokerQ, Head(outbox[c]))
    BY <1>1, <1>2, DeliverType
  <1>4. 1 \in 1..Len(outbox[c])
    BY <1>1, <1>3 DEF TypeOK
  <1>5. Requests'[c] = Requests[c]
    BY <1>1, <1>2, <1>3, <1>4, SentRequests
  <1>6. Ids'[c] = Ids[c] /\ published'[c] = published[c]
    BY <1>1, <1>2, SamePlace
  <1>7. CASE Len(outbox[c]) = 1
    <2>1. task'[c] = "gone"
      BY <1>1, <1>7 DEF SentGoodbye, TypeOK
    <2>2. Status'[c] = "left" /\ Mailboxes'[c] = <<>>
      BY <2>1, Inside, ClosedMailbox
    <2>3. CASE task[c] = "leaving"
      <3>1. Status[c] = "leaving"
        BY <2>3, Inside
      <3>2. /\ Status' = [Status EXCEPT ![c] = "left"]
            /\ Mailboxes' = [Mailboxes EXCEPT ![c] = <<>>]
            /\ UNCHANGED <<Ids, published, Requests>>
        BY <1>1, <1>5, <1>6, <2>2, Updates
      <3>3. PS!Clear(c)
        BY <3>1, <3>2 DEF PS!Clear
      <3> QED  BY <3>3, ClientMaps
    <2>4. CASE task[c] = "failed"
      <3>1. Status[c] = "left"
        BY <2>4 DEF Status, StatusOf
      <3>2. ~RxOpen(c)
        BY <2>4 DEF RxOpen
      <3>3. Mailboxes[c] = <<>>
        BY <3>2, ClosedMailbox
      <3> QED  BY <1>1, <1>5, <1>6, <2>2, <3>1, <3>3, Stutters DEF Maps
    <2> QED  BY <1>2, <2>3, <2>4
  <1>8. CASE Len(outbox[c]) # 1
    <2>1. UNCHANGED <<task, inbox>>
      BY <1>8 DEF SentGoodbye
    <2>2. Status'[c] = Status[c]
      BY <1>1, <2>1, SamePlace
    <2>3. Mailboxes'[c] = Mailboxes[c]
      <3>1. UNCHANGED <<current, clients>>
        BY DEF Frame
      <3> QED  BY <2>1, <3>1, SameMailbox DEF RxOpen
    <2> QED  BY <1>1, <1>5, <1>6, <2>2, <2>3, Stutters DEF Maps
  <1> QED  BY <1>7, <1>8

\* HandleBrokerPublish and HandleConnectionTimeout.
LEMMA InboxMaps ==
    ASSUME RInv, RInv', NEW c \in Conn, OthersLookSame(c), Frame(c), InboxStep(c)
    PROVE  Maps
  <1>1. TypeOK /\ TypeOK'
    BY DEF RInv, IInv
  <1>2. /\ task[c] = "select" /\ UNCHANGED <<session, published, brokerQ>>
        /\ inbox[c] # <<>> /\ inbox[c] \in Seq(ToHandler)
    BY <1>1 DEF InboxStep, HandleBrokerPublish, HandleConnectionTimeout, TypeOK
  <1>3. CASE Fail(c, state[c] = "Connected")
    BY <1>2, <1>3, SelectFails
  <1>4. CASE /\ Head(inbox[c]).type = "ClientConnectionTimeout"
             /\ state[c] # "Connected" /\ Fail(c, FALSE)
    <2>1. (state[c] = "Connected") = FALSE
      BY <1>4
    <2>2. Fail(c, state[c] = "Connected")
      BY <1>4, <2>1
    <2> QED  BY <1>2, <2>2, SelectFails
  <1>5. ASSUME inbox' = [inbox EXCEPT ![c] = Tail(@)], UNCHANGED <<task, outbox>>
        PROVE  /\ Status[c] = "inside" /\ UNCHANGED <<Status, Ids, Requests>>
               /\ inbox'[c] = Tail(inbox[c])
               /\ UNCHANGED <<current, clients>> /\ RxOpen(c)
    <2>1. inbox'[c] = Tail(inbox[c])
      BY <1>1, <1>5 DEF TypeOK
    <2>2. Requests'[c] = Requests[c]
      BY <1>1, <1>2, <1>5, SameRequests
    <2>3. Status[c] = "inside" /\ UNCHANGED <<Status, Ids>>
      BY <1>1, <1>2, <1>5, StaysInside
    <2>4. UNCHANGED <<current, clients>> /\ RxOpen(c)
      BY <1>2 DEF Frame, RxOpen
    <2> QED  BY <1>1, <2>1, <2>2, <2>3, <2>4, Updates
  <1>6. CASE /\ Head(inbox[c]).type = "ClientConnectionTimeout"
             /\ inbox' = [inbox EXCEPT ![c] = Tail(@)] /\ UNCHANGED <<task, outbox>>
    <2>1. Head(inbox[c]) \notin Publishes
      BY <1>6 DEF Publishes
    <2>2. Filter(inbox'[c], Publishes) = Filter(inbox[c], Publishes)
      BY <1>2, <1>5, <1>6, <2>1, FilterHead
    <2>3. Mailboxes'[c] = Mailboxes[c]
      BY <1>5, <1>6, <2>2, SameMailbox DEF RxOpen
    <2> QED  BY <1>1, <1>2, <1>5, <1>6, <2>3, Stutters DEF Maps
  <1>7. CASE /\ Head(inbox[c]).type = "Publish"
             /\ inbox' = [inbox EXCEPT ![c] = Tail(@)] /\ UNCHANGED <<task, outbox>>
    <2> DEFINE F == Filter(inbox[c], Publishes)
               G == Filter(inbox'[c], Publishes)
               P == Pending(c)
    <2>1. Head(inbox[c]) \in Publishes
      <3>1. Head(inbox[c]) \in ToHandler
        BY <1>2
      <3> QED  BY <1>7, <3>1 DEF Publishes, ToHandler
    <2>2. F # <<>> /\ Tail(F) = G
      BY <1>2, <1>5, <1>7, <2>1, FilterHead
    <2>3. Mailboxes[c] = F \o P /\ Mailboxes'[c] = G \o P
      <3>1. task' = task /\ UNCHANGED <<current, clients>> /\ RxOpen(c)
        BY <1>5, <1>7
      <3> QED  BY <3>1 DEF Mailboxes, MailboxOf, RxOpen, Pending
    <2>4. F \in Seq(ToHandler) /\ P \in Seq(ToHandler)
      <3>1. P \in Seq(ToHandler)
        <4>1. current # None => current.msg \in ToHandler
          BY <1>1 DEF TypeOK, ToHandler
        <4>2. <<>> \in Seq(ToHandler)
          OBVIOUS
        <4>3. current # None => <<current.msg>> \in Seq(ToHandler)
          BY <4>1
        <4> QED  BY <4>2, <4>3, Zenon DEF Pending
      <3> QED  BY <1>2, <3>1, FilterType
    <2> HIDE DEF F, G, P
    <2>5. F \o P # <<>> /\ Tail(F \o P) = Tail(F) \o P
      BY <2>2, <2>4
    <2>6. Mailboxes[c] # <<>> /\ Mailboxes' = [Mailboxes EXCEPT ![c] = Tail(@)]
      BY <1>1, <2>2, <2>3, <2>5, Updates
    <2>7. PS!Read(c)
      BY <1>2, <1>5, <1>7, <2>6 DEF PS!Read
    <2> QED  BY <1>5, <1>7, <2>7, ClientMaps DEF PS!Stay
  <1> QED  BY <1>3, <1>4, <1>6, <1>7 DEF InboxStep, HandleBrokerPublish,
                                         HandleConnectionTimeout

\* Every step of a handler.
LEMMA HandlerMaps ==
    ASSUME RInv, RInv', DistinctIds, NEW c \in Conn, HandlerStep(c)
    PROVE  Maps
  <1>1. /\ OthersLookSame(c) /\ Frame(c)
        /\ \A k \in 1..Len(outbox[c]) : outbox[c][k].client = session[c].id
    BY HandlerLooks
  <1>2. CASE Accept(c)
    BY <1>1, <1>2, AcceptMaps
  <1>3. CASE RecvConnect(c)
    BY <1>1, <1>3, RecvConnectMaps
  <1>4. CASE RecvPublish(c) \/ RecvSubscribe(c) \/ RecvUnsubscribe(c)
    BY <1>1, <1>4, RecvRequestMaps
  <1>5. CASE RecvDisconnect(c) \/ TimerFires(c)
    BY <1>1, <1>5, QuietMaps
  <1>6. CASE RecvViolation(c) \/ AnswerFails(c)
    BY <1>1, <1>6, RecvFailureMaps
  <1>7. CASE RecvEof(c)
    BY <1>1, <1>7, RecvEofMaps
  <1>8. CASE SentConnected(c) \/ SentRequest(c)
    BY <1>1, <1>8, SentMaps
  <1>9. CASE SentGoodbye(c)
    BY <1>1, <1>9, SentGoodbyeMaps
  <1>10. CASE InboxStep(c)
    BY <1>1, <1>10, InboxMaps
  <1> QED  BY <1>2, <1>3, <1>4, <1>5, <1>6, <1>7, <1>8, <1>9, <1>10
           DEF HandlerStep, PeerStep, SendStep

-----------------------------------------------------------------------------
(* The broker's steps.                                                     *)

\* The handlers' parts of the view.
LEMMA HandlersLookSame ==
    ASSUME TypeOK, HandlersSame
    PROVE  /\ UNCHANGED <<Status, Ids, published>>
           /\ \A c \in Conn : /\ task'[c] = task[c] /\ session'[c].id = session[c].id
                              /\ outbox'[c] = outbox[c] /\ Ids[c] = session[c].id
           /\ brokerQ' = brokerQ => Requests' = Requests
  <1>1. UNCHANGED <<task, session, outbox, published>>
    BY DEF HandlersSame, handlerVars
  <1>2. UNCHANGED <<Status, Ids>>
    BY <1>1 DEF Status, StatusOf, Ids
  <1>3. brokerQ' = brokerQ => Requests' = Requests
    BY <1>1 DEF Requests, RequestsOf
  <1> QED  BY <1>1, <1>2, <1>3 DEF Ids

\* The broker takes a message: it serves the client that bears its name.
LEMMA TakeMaps ==
    ASSUME RInv, RInv', DistinctIds, HandlersSame, alive, alive' = alive,
           brokerQ # <<>>, brokerQ' = Tail(brokerQ)
    PROVE  \E c \in Conn :
              /\ session[c].id = Head(brokerQ).client /\ Ids[c] = Head(brokerQ).client
              /\ state[c] = "Connected" /\ Ids[c] \in ClientId
              /\ Requests[c] # <<>> /\ Head(Requests[c]) = Head(brokerQ)
              /\ UNCHANGED <<Status, Ids, published>>
              /\ Requests' = [Requests EXCEPT ![c] = Tail(@)]
  <1>1. TypeOK /\ brokerQ \in Seq(ToBroker)
    BY DEF RInv, IInv, TypeOK
  <1>2. 1 \in 1..Len(brokerQ) /\ Head(brokerQ) = brokerQ[1] /\ Head(brokerQ) \in ToBroker
    BY <1>1
  <1>3. PICK c \in Conn : session[c].id = Head(brokerQ).client /\ state[c] = "Connected"
    BY <1>2 DEF RInv, SInv, OriginInv, QueueOwned, Owned
  <1>4. Head(brokerQ).client \in ClientId
    BY <1>2, MsgTypes
  <1>5. /\ UNCHANGED <<Status, Ids, published>>
        /\ \A d \in Conn : /\ session'[d].id = session[d].id
                           /\ outbox'[d] = outbox[d] /\ Ids[d] = session[d].id
    BY <1>1, HandlersLookSame
  <1>6. /\ Requests[c] # <<>> /\ Head(Requests[c]) = Head(brokerQ)
        /\ Requests'[c] = Tail(Requests[c])
    BY <1>1, <1>3, <1>5, TakenRequests
  <1>7. ASSUME NEW d \in Conn, d # c PROVE Requests'[d] = Requests[d]
    <2>1. session[d].id # Head(brokerQ).client
      BY <1>3, <1>4, <1>7, OneOwner DEF RInv
    <2> QED  BY <1>1, <1>5, <2>1, SameRequests
  <1>8. Requests' = [Requests EXCEPT ![c] = Tail(@)]
    <2>1. /\ Requests = [x \in Conn |-> Requests[x]]
          /\ Requests' = [x \in Conn |-> Requests'[x]]
      BY DEF Requests
    <2> QED  BY <1>6, <1>7, <2>1
  <1> QED  BY <1>3, <1>4, <1>5, <1>6, <1>8

\* Nothing changes in the channels into the handlers.
LEMMA MailboxesSame ==
    ASSUME HandlersSame, UNCHANGED inbox, \A c \in Conn : Pending(c)' = Pending(c)
    PROVE  Mailboxes' = Mailboxes
  <1>1. task' = task
    BY DEF HandlersSame, handlerVars
  <1>2. \A c \in Conn : MailboxOf(c)' = MailboxOf(c)
    BY <1>1 DEF MailboxOf, RxOpen
  <1> QED  BY <1>2 DEF Mailboxes

LEMMA ServeMaps ==
    ASSUME alive, alive' = alive, NEW c \in Conn, Requests[c] # <<>>,
           UNCHANGED <<Status, Ids, published>>,
           Requests' = [Requests EXCEPT ![c] = Tail(@)],
           LET r == Head(Requests[c]) IN
             \/ PS!Register(c, r) \/ PS!Unregister(c, r)
             \/ PS!Subscribe(c, r) \/ PS!Unsubscribe(c, r) \/ PS!Distribute(c, r)
    PROVE  Maps
  BY DEF Maps, PS!Next, PS!Serve

\* Every message but a Publish.
LEMMA ServiceMaps ==
    ASSUME RInv, RInv', DistinctIds,
           \/ HandleClientConnected \/ HandleClientDisconnected
           \/ HandleSubscribe \/ HandleUnsubscribe
    PROVE  Maps
  <1> DEFINE m == Head(brokerQ)
  <1>1. TypeOK
    BY DEF RInv, IInv
  <1>2. /\ HandlersSame /\ alive /\ alive' = alive /\ brokerQ # <<>>
        /\ brokerQ' = Tail(brokerQ) /\ current = None /\ UNCHANGED <<inbox, current>>
    BY DEF HandleClientConnected, HandleClientDisconnected, HandleSubscribe,
           HandleUnsubscribe, Take, HandlersSame
  <1>3. PICK c \in Conn :
           /\ session[c].id = m.client /\ Ids[c] = m.client
           /\ state[c] = "Connected" /\ Ids[c] \in ClientId
           /\ Requests[c] # <<>> /\ Head(Requests[c]) = m
           /\ UNCHANGED <<Status, Ids, published>>
           /\ Requests' = [Requests EXCEPT ![c] = Tail(@)]
    BY <1>2, TakeMaps
  <1>4. Mailboxes' = Mailboxes
    <2>1. \A d \in Conn : Pending(d)' = Pending(d)
      BY <1>2 DEF Pending
    <2> QED  BY <1>2, <2>1, MailboxesSame
  <1>5. CASE HandleClientConnected
    <2>1. /\ m.type = "ClientConnected" /\ UNCHANGED subscriptions
          /\ clients' = [clients EXCEPT ![m.client] = m.client_tx]
      BY <1>5 DEF HandleClientConnected, Take
    <2>2. m.client_tx = c
      <3>1. 1 \in 1..Len(brokerQ) /\ m = brokerQ[1] /\ m \in ToBroker
        BY <1>1, <1>2 DEF TypeOK
      <3>2. m.client_tx \in Conn
        BY <2>1, <3>1, MsgTypes
      <3>3. session[m.client_tx].id = m.client
        BY <2>1, <3>1 DEF RInv, IInv, HelloInv
      <3> QED  BY <1>3, <3>2, <3>3, OneOwner DEF RInv
    <2>3. PS!Register(c, m)
      BY <1>3, <1>4, <2>1, <2>2 DEF PS!Register
    <2> QED  BY <1>2, <1>3, <2>3, ServeMaps
  <1>6. CASE HandleClientDisconnected
    <2>1. /\ m.type = "ClientDisconnected"
          /\ clients' = [clients EXCEPT ![m.client] = None]
          /\ subscriptions' = [t \in Topic |->
                                 IF clients[m.client] # None /\ t \in topics[m.client]
                                 THEN subscriptions[t] \ {m.client} ELSE subscriptions[t]]
      BY <1>6 DEF HandleClientDisconnected, Take
    <2>2. topics[m.client] = {}
      BY <1>3 DEF RInv, SInv, OriginInv, TopicsEmpty
    <2>3. subscriptions' = subscriptions
      BY <1>1, <2>1, <2>2 DEF TypeOK
    <2>4. PS!Unregister(c, m)
      BY <1>3, <1>4, <2>1, <2>3 DEF PS!Unregister
    <2> QED  BY <1>2, <1>3, <2>4, ServeMaps
  <1>7. CASE HandleSubscribe
    <2>1. /\ m.type = "Subscribe" /\ clients' = clients
          /\ subscriptions' = [t \in Topic |->
                                 IF t \in m.topics THEN subscriptions[t] \cup {m.client}
                                                   ELSE subscriptions[t]]
      BY <1>7 DEF HandleSubscribe, Take
    <2>2. PS!Subscribe(c, m)
      BY <1>3, <1>4, <2>1 DEF PS!Subscribe
    <2> QED  BY <1>2, <1>3, <2>2, ServeMaps
  <1>8. CASE HandleUnsubscribe
    <2>1. /\ m.type = "Unsubscribe" /\ clients' = clients
          /\ subscriptions' = [t \in Topic |->
                                 IF t \in m.topics THEN subscriptions[t] \ {m.client}
                                                   ELSE subscriptions[t]]
      BY <1>8 DEF HandleUnsubscribe, Take
    <2>2. PS!Unsubscribe(c, m)
      BY <1>3, <1>4, <2>1 DEF PS!Unsubscribe
    <2> QED  BY <1>2, <1>3, <2>2, ServeMaps
  <1> QED  BY <1>5, <1>6, <1>7, <1>8

\* HandlePublish: the message is in all the mailboxes at once.
LEMMA HandlePublishMaps ==
    ASSUME RInv, RInv', DistinctIds, HandlePublish
    PROVE  Maps
  <1> DEFINE m == Head(brokerQ)
  <1>1. TypeOK
    BY DEF RInv, IInv
  <1>2. /\ HandlersSame /\ alive /\ alive' = alive /\ brokerQ # <<>> /\ inbox' = inbox
        /\ brokerQ' = Tail(brokerQ) /\ current = None /\ m.type = "Publish"
        /\ current' = [msg |-> m, rem |-> Targets(m)]
        /\ UNCHANGED <<clients, subscriptions>>
    BY DEF HandlePublish, Take, HandlersSame
  <1>3. PICK c \in Conn :
           /\ session[c].id = m.client /\ Ids[c] = m.client
           /\ state[c] = "Connected" /\ Ids[c] \in ClientId
           /\ Requests[c] # <<>> /\ Head(Requests[c]) = m
           /\ UNCHANGED <<Status, Ids, published>>
           /\ Requests' = [Requests EXCEPT ![c] = Tail(@)]
    BY <1>2, TakeMaps
  <1>4. task' = task
    BY <1>2 DEF HandlersSame, handlerVars
  <1>5. m \in ToBroker /\ m \in PublishMsg /\ m.packet.topic \in Topic
    <2>1. m \in ToBroker
      BY <1>1, <1>2 DEF TypeOK
    <2>2. m \in PublishMsg
      BY <1>2, <2>1, MsgTypes
    <2> QED  BY <2>1, <2>2 DEF PublishMsg, Packet
  <1>6. current' # None
    <2>1. Targets(m) \in SUBSET ClientId
      BY <1>1, <1>5 DEF Targets, TypeOK
    <2> HIDE DEF m
    <2>2. current' \in [msg : [type : {"Publish"}, client : ClientId, packet : Packet],
                        rem : SUBSET ClientId]
      BY <1>2, <1>5, <2>1 DEF PublishMsg
    <2> QED  BY <2>2, CurrentAssumption
  <1> DEFINE Aimed(s) == \E i \in subscriptions[m.packet.topic] \ {Ids[c]} : clients[i] = s
  <1>7. ASSUME NEW s \in Conn
        PROVE  Mailboxes'[s] = IF RxOpen(s) /\ Aimed(s)
                               THEN Append(Mailboxes[s], m) ELSE Mailboxes[s]
    <2> DEFINE F == Filter(inbox[s], Publishes)
    <2>1. Pending(s) = <<>>
      BY <1>2 DEF Pending
    <2>2. (\E i \in Targets(m) : clients[i] = s) <=> Aimed(s)
      BY <1>3, NoneAssumption DEF Targets
    <2>3. Pending(s)' = IF Aimed(s) THEN <<m>> ELSE <<>>
      <3>1. current'.rem = Targets(m) /\ current'.msg = m /\ clients' = clients
        BY <1>2
      <3> HIDE DEF Aimed, m
      <3> QED  BY <1>6, <2>2, <3>1 DEF Pending
    <2>4. Mailboxes[s] = IF RxOpen(s) THEN F \o <<>> ELSE <<>>
      BY <2>1 DEF Mailboxes, MailboxOf
    <2>5. Mailboxes'[s] = IF RxOpen(s) THEN F \o Pending(s)' ELSE <<>>
      BY <1>2, <1>4 DEF Mailboxes, MailboxOf, RxOpen
    <2>6. F \in Seq(ToHandler)
      BY <1>1, FilterType DEF TypeOK
    <2> HIDE DEF F, m, Aimed
    <2>7. F \o <<>> = F /\ F \o <<m>> = Append(F, m)
      <3>1. m \in ToHandler
        BY <1>5 DEF PublishMsg, ToHandler
      <3> QED  BY <2>6, <3>1
    <2> QED  BY <2>3, <2>4, <2>5, <2>7
  <1>8. PS!Audience(c, m) = {s \in Conn : RxOpen(s) /\ Aimed(s)}
    <2>1. \A s \in Conn : RxOpen(s) <=> Status[s] \in {"inside", "leaving"}
      BY <1>1, SamePlace
    <2> QED  BY <2>1 DEF PS!Audience
  <1>9. PS!Distribute(c, m)
    <2> HIDE DEF Aimed
    <2>1. Mailboxes' = [s \in Conn |-> Mailboxes'[s]]
      BY DEF Mailboxes
    <2>2. \A s \in Conn : Mailboxes'[s] = IF s \in PS!Audience(c, m)
                                          THEN Append(Mailboxes[s], m) ELSE Mailboxes[s]
      BY <1>7, <1>8
    <2>3. Mailboxes' = [s \in Conn |-> IF s \in PS!Audience(c, m)
                                       THEN Append(Mailboxes[s], m) ELSE Mailboxes[s]]
      BY <2>1, <2>2
    <2> QED  BY <1>2, <2>3 DEF PS!Distribute
  <1> QED  BY <1>2, <1>3, <1>9, ServeMaps

\* FanOut and FanOutDone: a message that was in the mailbox stays there.
LEMMA FanOutMaps ==
    ASSUME RInv, RInv', NEW i \in ClientId, FanOut(i)
    PROVE  Maps
  <1> DEFINE c == clients[i]
             m == current.msg
  <1>1. TypeOK
    BY DEF RInv, IInv
  <1>2. /\ HandlersSame /\ current # None /\ i \in current.rem /\ RxOpen(c)
        /\ inbox' = [inbox EXCEPT ![c] = Append(@, m)]
        /\ current' = [msg |-> m, rem |-> current.rem \ {i}]
        /\ UNCHANGED <<brokerQ, clients, subscriptions, alive>>
    BY DEF FanOut, HandlersSame
  <1>3. c \in Conn /\ current.rem \in SUBSET ClientId /\ m \in Publishes /\ m \in ToHandler
    <2>1. clients[i] # None
      BY <1>2 DEF RInv, DInv, TargetInv
    <2> QED  BY <1>1, <1>2, <2>1 DEF TypeOK, Publishes, ToHandler
  <1>4. current' # None
    <2>1. current.rem \ {i} \in SUBSET ClientId
      BY <1>3
    <2>2. current' \in [msg : [type : {"Publish"}, client : ClientId, packet : Packet],
                        rem : SUBSET ClientId]
      BY <1>2, <1>3, <2>1 DEF Publishes
    <2> QED  BY <2>2, CurrentAssumption
  <1>5. /\ UNCHANGED <<Status, Ids, published, Requests>> /\ task' = task
    BY <1>1, <1>2, HandlersLookSame DEF HandlersSame, handlerVars
  <1>6. \A j \in ClientId : clients[j] = c => j = i
    BY <1>3, NoneAssumption DEF RInv, IInv, RouteInv
  <1>7. ASSUME NEW s \in Conn PROVE Mailboxes'[s] = Mailboxes[s]
    <2>1. CASE s = c
      <3> DEFINE F == Filter(inbox[s], Publishes)
      <3>1. Pending(s) = <<m>>
        BY <1>2, <2>1 DEF Pending
      <3>2. Pending(s)' = <<>>
        <4>1. ~\E j \in current'.rem : clients'[j] = s
          BY <1>2, <1>3, <1>6, <2>1
        <4> QED  BY <4>1 DEF Pending
      <3>3. inbox'[s] = Append(inbox[s], m) /\ inbox[s] \in Seq(ToHandler)
        BY <1>1, <1>2, <2>1 DEF TypeOK
      <3>4. Filter(inbox'[s], Publishes) = Append(F, m)
        BY <1>3, <3>3, FilterAppend
      <3>5. F \in Seq(ToHandler)
        BY <3>3, FilterType
      <3>6. Mailboxes[s] = F \o <<m>>
        BY <1>2, <2>1, <3>1 DEF Mailboxes, MailboxOf
      <3>7. Mailboxes'[s] = Append(F, m) \o <<>>
        <4>1. task'[s] \in {"select", "sending", "leaving"}
          BY <1>2, <1>5, <2>1 DEF RxOpen
        <4> QED  BY <3>2, <3>4, <4>1 DEF Mailboxes, MailboxOf, RxOpen
      <3> HIDE DEF F, m
      <3>8. Append(F, m) \o <<>> = F \o <<m>>
        BY <1>3, <3>5
      <3> QED  BY <3>6, <3>7, <3>8
    <2>2. CASE s # c
      <3>1. Pending(s)' = Pending(s)
        <4>1. (\E j \in current'.rem : clients'[j] = s) <=> \E j \in current.rem : clients[j] = s
          BY <1>2, <2>2
        <4>2. current'.msg = current.msg
          BY <1>2
        <4> QED  BY <1>2, <1>4, <4>1, <4>2 DEF Pending
      <3>2. inbox'[s] = inbox[s]
        BY <1>1, <1>2, <2>2 DEF TypeOK
      <3> QED  BY <1>5, <3>1, <3>2 DEF Mailboxes, MailboxOf, RxOpen
    <2> QED  BY <2>1, <2>2
  <1>8. Mailboxes' = Mailboxes
    <2>1. /\ Mailboxes = [x \in Conn |-> Mailboxes[x]]
          /\ Mailboxes' = [x \in Conn |-> Mailboxes'[x]]
      BY DEF Mailboxes
    <2> QED  BY <1>7, <2>1
  <1> QED  BY <1>2, <1>5, <1>8 DEF Maps, PS!vars

LEMMA FanOutDoneMaps ==
    ASSUME RInv, RInv', FanOutDone
    PROVE  Maps
  <1>1. TypeOK /\ HandlersSame /\ UNCHANGED <<inbox, brokerQ, clients, subscriptions, alive>>
    BY DEF RInv, IInv, FanOutDone, HandlersSame
  <1>2. \A c \in Conn : Pending(c)' = Pending(c)
    BY DEF FanOutDone, Pending
  <1>3. UNCHANGED <<Status, Ids, published, Requests, Mailboxes>>
    BY <1>1, <1>2, HandlersLookSame, MailboxesSame
  <1> QED  BY <1>1, <1>3 DEF Maps, PS!vars

\* FanOutFails: the subscriber has gone, and is still registered.
LEMMA FanOutFailsMaps ==
    ASSUME RInv, RInv', NEW i \in ClientId, FanOutFails(i)
    PROVE  Maps
  <1>1. /\ TypeOK /\ HandlersSame /\ alive /\ alive' = FALSE
        /\ current # None /\ i \in current.rem /\ ~RxOpen(clients[i])
        /\ UNCHANGED <<inbox, brokerQ, current, clients, subscriptions>>
    BY DEF RInv, IInv, FanOutFails, HandlersSame
  <1>2. \A c \in Conn : Pending(c)' = Pending(c)
    BY <1>1 DEF Pending
  <1>3. UNCHANGED <<Status, Ids, published, Requests, Mailboxes>>
    BY <1>1, <1>2, HandlersLookSame, MailboxesSame
  <1>4. clients[i] # None /\ clients[i] \in Conn
    BY <1>1 DEF RInv, DInv, TargetInv, TypeOK
  <1>5. task[clients[i]] # "none"
    BY <1>4 DEF RInv, IInv, RouteInv, SInv, OriginInv, NothingAsked
  <1>6. Status[clients[i]] = "left"
    BY <1>1, <1>4, <1>5 DEF Status, StatusOf, RxOpen
  <1>7. PS!GiveUp
    BY <1>1, <1>3, <1>4, <1>6 DEF PS!GiveUp
  <1> QED  BY <1>1, <1>7 DEF Maps, PS!Next

-----------------------------------------------------------------------------
(* The refinement.                                                         *)

\* Every step of MqttBroker is a step of PubSub or shows nowhere.
LEMMA StepMaps ==
    ASSUME RInv, RInv', DistinctIds, [Next]_vars
    PROVE  [PS!Next]_(PS!vars)
  <1>1. CASE UNCHANGED vars
    <2>1. /\ UNCHANGED <<task, session, outbox, brokerQ, inbox, current, clients>>
          /\ UNCHANGED <<published, subscriptions, alive>>
      BY <1>1 DEF vars
    <2>2. UNCHANGED <<Status, Ids, Requests, Mailboxes>>
      BY <2>1 DEF Status, StatusOf, Ids, Requests, RequestsOf, Mailboxes, MailboxOf,
                  RxOpen, Pending
    <2> QED  BY <2>1, <2>2 DEF PS!vars
  <1>2. CASE \E c \in Conn : HandlerStep(c)
    BY <1>2, HandlerMaps DEF Maps
  <1>3. CASE BrokerStep
    BY <1>3, ServiceMaps, HandlePublishMaps, FanOutMaps, FanOutDoneMaps, FanOutFailsMaps
       DEF BrokerStep, Maps
  <1> QED  BY <1>1, <1>2, <1>3 DEF Next, HandlerStep

\* For any number of connections, any topics and any channel capacities, the
\* broker implements PubSub when no two connections use the same identifier:
\* bounded channels, the awaits inside a fan-out, failing handlers and last
\* wills are invisible to its clients.
THEOREM Refinement ==
    ASSUME DistinctIds
    PROVE  Spec => ImplementsPubSub
  <1>1. Init => PS!Init
    BY InitMaps
  <1>2. RInv /\ RInv' /\ [Next]_vars => [PS!Next]_(PS!vars)
    BY StepMaps
  <1> QED  BY <1>1, <1>2, NameInvariance, PTL DEF Spec, ImplementsPubSub, PS!Spec
=============================================================================
