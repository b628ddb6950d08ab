------------------------------- MODULE PubSub -------------------------------
(***************************************************************************)
(* What the broker of mqttrs-1 promises its clients, without the channels, *)
(* their capacities, the tasks and the loop over subscribers: a sequential *)
(* server that takes one request at a time, each client's in the order the *)
(* client made them, and puts a Publish into the mailboxes of all its      *)
(* subscribers at once.                                                    *)
(*                                                                         *)
(* A client is one TCP connection with an identifier of its own.  Module   *)
(* PubSubRefinement shows that MqttBroker implements this specification.   *)
(***************************************************************************)
EXTENDS Naturals, Sequences

CONSTANTS Conn, ClientId, Topic, None

VARIABLES
    status,         \* "outside", "inside", "leaving" or "left"
    id,             \* the identifier a client asked to connect with
    count,          \* how many messages it has published
    requests,       \* what it has asked for and has not been served yet
    mailbox,        \* the messages on their way to it
    registered,     \* the client that answers to an identifier
    subscriptions,  \* the identifiers subscribed to each topic
    running         \* FALSE once the server has given up

vars == <<status, id, count, requests, mailbox, registered, subscriptions,
          running>>

Message(c, topic, n) ==
    [type |-> "Publish", client |-> id[c],
     packet |-> [topic |-> topic, from |-> c, n |-> n]]

Asks(c, rs) == requests' = [requests EXCEPT ![c] = @ \o rs]

-----------------------------------------------------------------------------
Init ==
    /\ status = [c \in Conn |-> "outside"]
    /\ id = [c \in Conn |-> None]
    /\ count = [c \in Conn |-> 0]
    /\ requests = [c \in Conn |-> <<>>]
    /\ mailbox = [c \in Conn |-> <<>>]
    /\ registered = [i \in ClientId |-> None]
    /\ subscriptions = [topic \in Topic |-> {}]
    /\ running = TRUE

Enter(c) ==
    /\ status[c] = "outside"
    /\ status' = [status EXCEPT ![c] = "inside"]
    /\ UNCHANGED <<id, count, requests, mailbox>>

\* A client names itself, once, before it asks for anything.
Join(c) ==
    /\ id[c] = None
    /\ UNCHANGED <<count, mailbox>>
    /\ \E i \in ClientId :
          /\ id' = [id EXCEPT ![c] = i]
          /\ Asks(c, <<[type |-> "ClientConnected", client |-> i,
                        client_tx |-> c]>>)

Publish(c) ==
    /\ id[c] # None
    /\ count' = [count EXCEPT ![c] = @ + 1]
    /\ UNCHANGED <<id, mailbox>>
    /\ \E topic \in Topic : Asks(c, <<Message(c, topic, count[c] + 1)>>)

ChangeTopics(c) ==
    /\ id[c] # None
    /\ UNCHANGED <<id, count, mailbox>>
    /\ \E kind \in {"Subscribe", "Unsubscribe"}, ts \in SUBSET Topic \ {{}} :
          Asks(c, <<[type |-> kind, client |-> id[c], topics |-> ts]>>)

Read(c) ==
    /\ mailbox[c] # <<>>
    /\ UNCHANGED <<id, count, requests>>
    /\ mailbox' = [mailbox EXCEPT ![c] = Tail(@)]

\* What a client does while it is in.
Stay(c) ==
    /\ status[c] = "inside" /\ status' = status
    /\ Join(c) \/ Publish(c) \/ ChangeTopics(c) \/ Read(c)

\* The last requests of a client that has named itself: a goodbye, perhaps
\* with its last will before it.
SaysGoodbye(c) ==
    LET bye == [type |-> "ClientDisconnected", client |-> id[c]] IN
    \/ Asks(c, <<bye>>)
    \/ \E topic \in Topic : Asks(c, <<Message(c, topic, count[c] + 1), bye>>)

\* A client leaves for good, and its mailbox is cleared.
Leave(c) ==
    /\ status[c] = "inside"
    /\ status' = [status EXCEPT ![c] = "left"]
    /\ UNCHANGED <<id, count>>
    /\ IF id[c] = None THEN UNCHANGED requests ELSE SaysGoodbye(c)
    /\ mailbox' = [mailbox EXCEPT ![c] = <<>>]

\* Or it reads no more, and its mailbox is cleared later.
LeaveSlowly(c) ==
    /\ status[c] = "inside" /\ id[c] # None
    /\ status' = [status EXCEPT ![c] = "leaving"]
    /\ UNCHANGED <<id, count, mailbox>>
    /\ SaysGoodbye(c)

Clear(c) ==
    /\ status[c] = "leaving"
    /\ status' = [status EXCEPT ![c] = "left"]
    /\ UNCHANGED <<id, count, requests>>
    /\ mailbox' = [mailbox EXCEPT ![c] = <<>>]

ClientStep(c) ==
    /\ Enter(c) \/ Stay(c) \/ Leave(c) \/ LeaveSlowly(c) \/ Clear(c)
    /\ UNCHANGED <<registered, subscriptions, running>>

-----------------------------------------------------------------------------
(* The server.  r is the request that is served, c the client it is from.  *)

Register(c, r) ==
    /\ r.type = "ClientConnected"
    /\ registered' = [registered EXCEPT ![id[c]] = c]
    /\ UNCHANGED <<mailbox, subscriptions>>

\* Subscriptions outlive the registration.
Unregister(c, r) ==
    /\ r.type = "ClientDisconnected"
    /\ registered' = [registered EXCEPT ![id[c]] = None]
    /\ UNCHANGED <<mailbox, subscriptions>>

Subscribe(c, r) ==
    /\ r.type = "Subscribe"
    /\ subscriptions' = [topic \in Topic |->
          IF topic \in r.topics THEN subscriptions[topic] \cup {id[c]}
                                ELSE subscriptions[topic]]
    /\ UNCHANGED <<mailbox, registered>>

Unsubscribe(c, r) ==
    /\ r.type = "Unsubscribe"
    /\ subscriptions' = [topic \in Topic |->
          IF topic \in r.topics THEN subscriptions[topic] \ {id[c]}
                                ELSE subscriptions[topic]]
    /\ UNCHANGED <<mailbox, registered>>

\* The clients that r is for: every other subscriber that can be reached.
Audience(c, r) ==
    {s \in Conn : /\ status[s] \in {"inside", "leaving"}
                  /\ \E i \in subscriptions[r.packet.topic] \ {id[c]} :
                        registered[i] = s}

Distribute(c, r) ==
    /\ r.type = "Publish"
    /\ mailbox' = [s \in Conn |-> IF s \in Audience(c, r)
                                  THEN Append(mailbox[s], r) ELSE mailbox[s]]
    /\ UNCHANGED <<registered, subscriptions>>

Serve(c) ==
    LET r == Head(requests[c]) IN
    /\ requests[c] # <<>>
    /\ UNCHANGED <<status, id, count, running>>
    /\ requests' = [requests EXCEPT ![c] = Tail(@)]
    /\ \/ Register(c, r) \/ Unregister(c, r)
       \/ Subscribe(c, r) \/ Unsubscribe(c, r)
       \/ Distribute(c, r)

\* The server may stop only when a registered client has gone and has not
\* been served its goodbye yet.
GiveUp ==
    /\ running' = FALSE
    /\ UNCHANGED <<status, id, count, requests, mailbox, registered,
                   subscriptions>>
    /\ \E i \in ClientId : /\ registered[i] # None
                           /\ status[registered[i]] = "left"

Next ==
    /\ running
    /\ \/ \E c \in Conn : ClientStep(c) \/ Serve(c)
       \/ GiveUp

Spec == Init /\ [][Next]_vars
=============================================================================
