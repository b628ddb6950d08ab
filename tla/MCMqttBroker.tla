---------------------------- MODULE MCMqttBroker ----------------------------
(***************************************************************************)
(* Instances of MqttBroker for TLC: which identifiers and last wills the   *)
(* connections have, and how much they publish.                            *)
(***************************************************************************)
EXTENDS MqttBroker, PubSubRefinement, TLC

CONSTANTS c1, c2, c3, a, b, d, t

\* One identifier per connection.
UniqueIds == [c \in Conn |-> CASE c = c1 -> {a} [] c = c2 -> {b} [] c = c3 -> {d}]

\* The others may come with c1's identifier.
SharedIds == [c \in Conn |-> IF c = c1 THEN {a} ELSE {a, b}]

AnyWill == [c \in Conn |-> Topic \cup {None}]
NoWill == [c \in Conn |-> {None}]
C1Will == [c \in Conn |-> IF c = c1 THEN Topic ELSE {None}]

PublishOne == [c \in Conn |-> 1]

\* c1 publishes, the others only subscribe.
PublishC1(n) == [c \in Conn |-> IF c = c1 THEN n ELSE 0]
C1PublishesOne == PublishC1(1)
C1PublishesTwo == PublishC1(2)

\* Exchanging subscribers together with their identifiers maps UniqueIds to
\* itself.
SubscribersAlike ==
    {f \in Permutations(Conn \cup ClientId) : \A c \in Conn :
        /\ f[c] \in Conn /\ f[c1] = c1
        /\ {f[i] : i \in UniqueIds[c]} = UniqueIds[f[c]]}

\* Without last wills nothing reads disconnectSeen, and asked is a history
\* variable: states that differ in these alone behave alike.
WithoutHistory == <<task, state, session, timer, inbox, outbox, published,
                    brokerQ, current, clients, topics, subscriptions, alive>>
=============================================================================
