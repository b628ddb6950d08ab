-------------------------- MODULE PubSubRefinement --------------------------
(***************************************************************************)
(* MqttBroker implements PubSub as long as no two connections use the same *)
(* client identifier.  What a client has asked for is what its handler is  *)
(* waiting to send and what the broker's channel holds of it; a message is *)
(* in the mailboxes of all its subscribers from the moment handle_publish  *)
(* starts its loop.                                                        *)
(***************************************************************************)
EXTENDS MqttBroker

\* The messages of q that are in S, in their order.
Filter(q, S) ==
    LET upTo[k \in 0..Len(q)] ==
            IF k = 0 THEN <<>>
            ELSE IF q[k] \in S THEN Append(upTo[k - 1], q[k]) ELSE upTo[k - 1]
    IN  upTo[Len(q)]

\* A client without a handler's receiver is out of reach.
StatusOf(c) ==
    IF task[c] = "none" THEN "outside"
    ELSE IF task[c] \in {"select", "sending"} THEN "inside"
    ELSE IF task[c] = "leaving" THEN "leaving" ELSE "left"

RequestsFrom(i) == {m \in ToBroker : m.client = i}

RequestsOf(c) == Filter(brokerQ, RequestsFrom(session[c].id)) \o outbox[c]

\* The message that handle_publish still has to put into c's channel.
Pending(c) == IF current # None /\ \E i \in current.rem : clients[i] = c
              THEN <<current.msg>> ELSE <<>>

Publishes == [type : {"Publish"}, client : ClientId, packet : Packet]

MailboxOf(c) == IF RxOpen(c) THEN Filter(inbox[c], Publishes) \o Pending(c) ELSE <<>>

Status == [c \in Conn |-> StatusOf(c)]
Ids == [c \in Conn |-> session[c].id]
Requests == [c \in Conn |-> RequestsOf(c)]
Mailboxes == [c \in Conn |-> MailboxOf(c)]

PS == INSTANCE PubSub WITH
        status <- Status, id <- Ids, count <- published, requests <- Requests,
        mailbox <- Mailboxes, registered <- clients, running <- alive

\* Bounded channels, back pressure, the awaits between the sends of one
\* fan-out, failing handlers and last wills notwithstanding, the broker serves
\* each client's requests one at a time in the order they were made, and every
\* Publish reaches the other subscribers' handlers as if all at once.
ImplementsPubSub == PS!Spec
=============================================================================
