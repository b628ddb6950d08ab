----------------------------- MODULE QosSession -----------------------------
(***************************************************************************)
(* The QoS transactions of one connected client of mqttrs-1: the session's *)
(* qos_txns (broker/session.rs), the trackers and their retry tasks        *)
(* (broker/session/qos.rs), and the QoS part of the client's handler       *)
(* (broker/client_handler.rs), which answers the client's packets and      *)
(* sends it Publish packets and retransmissions from its channel.          *)
(*                                                                         *)
(* The client is the environment: it sends any QoS packet at any time, so  *)
(* late, repeated and unexpected answers are all included.  So is the      *)
(* broker, which puts Publish packets of other clients into the channel    *)
(* with the packet identifiers those clients chose.  The handler awaits    *)
(* each write to the client and each message it hands to the broker, and   *)
(* retry tasks run meanwhile.  Payloads, the dup flag (retransmissions     *)
(* resend the stored packet unchanged) and QoS 0 (no transaction) are left *)
(* out.                                                                    *)
(***************************************************************************)
EXTENDS Naturals, Sequences, FiniteSets

CONSTANTS
    Pid,         \* packet identifiers
    Task,        \* numbers for tokio tasks; one more than Pid is enough
    None,        \* "no tracker, task or write"
    MaxRetries,  \* Config.max_retries; 0 means no limit
    InboxCap     \* capacity of the channel into the handler

ASSUME TaskAssumption == Task \subseteq Nat /\ None \notin Task
ASSUME RetryAssumption == MaxRetries \in Nat
ASSUME InboxAssumption == InboxCap \in Nat \ {0}

VARIABLES
    open,       \* the handler is listening for messages
    txns,       \* Session.qos_txns: the tracker of each packet identifier
    tasks,      \* the retry tasks: running, or finished with a handle left
    inbox,      \* the channel into the handler
    writing,    \* what the handler awaits: a write to the client, then perhaps
                \* the broker's channel
    forwarded   \* times the Publish of an incoming QoS 2 transaction was
                \* handed to the broker (2 stands for more)

vars == <<open, txns, tasks, inbox, writing, forwarded>>

-----------------------------------------------------------------------------
(* Packets, trackers and tasks.                                            *)

Publish(q, p) == [kind |-> "Publish", qos |-> q, pid |-> p]
Ack(kind, p) == [kind |-> kind, pid |-> p]

Publishes == [kind : {"Publish"}, qos : {1, 2}, pid : Pid]
Acks == [kind : {"Puback", "Pubrec", "Pubrel", "Pubcomp"}, pid : Pid]
Packets == Publishes \cup Acks

\* qos::Tracker
Tracker == [state : Packets, retry_task : Task \cup {None}]
NoTracker == [state |-> None, retry_task |-> None]

\* The locals of spawn_retry_task's task, and whether it is still looping.
RetryTask == [packet : Packets, attempts : Nat, running : BOOLEAN]
NoTask == [packet |-> None, attempts |-> 0, running |-> FALSE]

Msg == [type : {"Publish"}, packet : Publishes]
         \cup [type : {"QoSRetry"}, packet : Packets]

\* A write in progress, the update_qos and the hand-over to the broker that
\* follow it, and whether the write is over and the hand-over awaited.
Write == [packet : Packets, then : Packets \cup {None}, forward : BOOLEAN,
          acked : BOOLEAN]
NoWrite == [packet |-> None, then |-> None, forward |-> FALSE, acked |-> FALSE]

Active(p) == txns[p] # NoTracker
Idle == open /\ writing = NoWrite

-----------------------------------------------------------------------------
(* qos::Tracker and Session::update_qos.                                   *)

\* The packets that Tracker::new accepts.
Starts(pkt) == pkt.kind \in {"Publish", "Pubrec"}

\* The packet that Tracker::update expects in state s.
Expected(s) ==
    CASE s.kind = "Publish" /\ s.qos = 1 -> Ack("Puback", s.pid)
      [] s.kind = "Publish" /\ s.qos = 2 -> Ack("Pubrec", s.pid)
      [] s.kind = "Pubrec" -> Ack("Pubrel", s.pid)
      [] s.kind = "Pubrel" -> Ack("Pubcomp", s.pid)

Finishes(pkt) == pkt.kind \in {"Puback", "Pubcomp"}

\* A mistake in Tracker: the retry task is detached, not aborted.
Detached(p) == tasks

\* Aborting the tracker's retry task, if it has one, frees the task.
Aborted(p) ==
    IF txns[p].retry_task = None THEN tasks
    ELSE [tasks EXCEPT ![txns[p].retry_task] = NoTask]

\* p's tracker gets state pkt and a fresh retry task, the first free in ts.
Spawn(p, pkt, ts) ==
    \E k \in Task :
        /\ ts[k] = NoTask /\ \A j \in Task : ts[j] = NoTask => k <= j
        /\ tasks' = [ts EXCEPT ![k] =
                       [packet |-> pkt, attempts |-> 0, running |-> TRUE]]
        /\ txns' = [txns EXCEPT ![p] = [state |-> pkt, retry_task |-> k]]

\* Tracker::new through update_qos; a wrong packet is only warned about.
Begin(p, pkt) ==
    IF Starts(pkt) THEN Spawn(p, pkt, tasks) ELSE UNCHANGED <<txns, tasks>>

\* A mistake in update_qos: a finished transaction is not removed.
UpdateKeeping(p, pkt) ==
    \/ /\ pkt # Expected(txns[p].state)
       /\ txns' = [txns EXCEPT ![p] = [state |-> txns[p].state, retry_task |-> None]]
       /\ tasks' = Aborted(p)
    \/ /\ pkt = Expected(txns[p].state)
       /\ Spawn(p, pkt, Aborted(p))

\* Tracker::update through update_qos.  The retry task is aborted before the
\* packet is looked at, so a packet that is not the expected one leaves the
\* transaction where it is, without a retry task.
Update(p, pkt) ==
    \/ /\ pkt # Expected(txns[p].state)
       /\ txns' = [txns EXCEPT ![p] = [state |-> txns[p].state, retry_task |-> None]]
       /\ tasks' = Aborted(p)
    \/ /\ pkt = Expected(txns[p].state) /\ Finishes(pkt)
       /\ txns' = [txns EXCEPT ![p] = NoTracker]
       /\ tasks' = Aborted(p)
    \/ /\ pkt = Expected(txns[p].state) /\ ~Finishes(pkt)
       /\ Spawn(p, pkt, Aborted(p))

\* A mistake in update_qos: a packet that can start a transaction always does.
UpdateQosRestarting(p, pkt) ==
    IF Active(p) /\ ~Starts(pkt) THEN Update(p, pkt) ELSE Begin(p, pkt)

UpdateQos(p, pkt) == IF Active(p) THEN Update(p, pkt) ELSE Begin(p, pkt)

-----------------------------------------------------------------------------
(* The handler: packets from the client.                                   *)

StartWrite(pkt, then, forward) ==
    writing' = [packet |-> pkt, then |-> then, forward |-> forward,
                acked |-> FALSE]

\* handle_publish, QoS 1: Puback, then the broker.  No transaction.
RecvPublish1(p) ==
    /\ Idle
    /\ StartWrite(Ack("Puback", p), None, TRUE)
    /\ UNCHANGED <<open, txns, tasks, inbox, forwarded>>

\* handle_publish, QoS 2: a transaction, Pubrec, then the broker.  A repeated
\* Publish takes the same path.
RecvPublish2(p) ==
    /\ Idle
    /\ UpdateQos(p, Ack("Pubrec", p))
    /\ StartWrite(Ack("Pubrec", p), None, TRUE)
    /\ UNCHANGED <<open, inbox, forwarded>>

\* handle_puback and handle_pubcomp.
RecvFinal(p, kind) ==
    /\ Idle
    /\ UpdateQos(p, Ack(kind, p))
    /\ forwarded' = [forwarded EXCEPT ![p] = IF txns'[p] = NoTracker THEN 0 ELSE @]
    /\ UNCHANGED <<open, inbox, writing>>

\* handle_pubrec: the transaction moves to Pubrec, and to Pubrel once the
\* Pubrel is written.
RecvPubrec(p) ==
    /\ Idle
    /\ UpdateQos(p, Ack("Pubrec", p))
    /\ StartWrite(Ack("Pubrel", p), Ack("Pubrel", p), FALSE)
    /\ UNCHANGED <<open, inbox, forwarded>>

\* handle_pubrel: the transaction moves to Pubrel, and ends once the Pubcomp
\* is written.
RecvPubrel(p) ==
    /\ Idle
    /\ UpdateQos(p, Ack("Pubrel", p))
    /\ StartWrite(Ack("Pubcomp", p), Ack("Pubcomp", p), FALSE)
    /\ UNCHANGED <<open, inbox, forwarded>>

\* A write to the client ends and the rest of its handler runs, up to
\* handle_publish's send_broker.
Written ==
    /\ open /\ writing # NoWrite /\ ~writing.acked
    /\ IF writing.then = None THEN UNCHANGED <<txns, tasks>>
                              ELSE UpdateQos(writing.then.pid, writing.then)
    /\ forwarded' = [p \in Pid |-> IF txns'[p] = NoTracker THEN 0 ELSE forwarded[p]]
    /\ writing' = IF writing.forward THEN [writing EXCEPT !.acked = TRUE] ELSE NoWrite
    /\ UNCHANGED <<open, inbox>>

\* The Publish of an incoming QoS 2 transaction goes to the broker.
Forwards(p) == writing.packet = Ack("Pubrec", p)

\* The broker's channel has taken the Publish, and the handler goes on.  How
\* long that takes is up to the broker.
HandedOver ==
    /\ open /\ writing.acked
    /\ forwarded' = [p \in Pid |->
         IF Forwards(p) /\ forwarded[p] < 2 THEN forwarded[p] + 1 ELSE forwarded[p]]
    /\ writing' = NoWrite
    /\ UNCHANGED <<open, txns, tasks, inbox>>

(* The handler: messages from its channel.                                 *)

\* handle_broker_publish: write the Publish, then track it.
HandleBrokerPublish ==
    /\ Idle /\ inbox # <<>> /\ Head(inbox).type = "Publish"
    /\ StartWrite(Head(inbox).packet, Head(inbox).packet, FALSE)
    /\ inbox' = Tail(inbox)
    /\ UNCHANGED <<open, txns, tasks, forwarded>>

\* A mistake in handle_broker_qos_retry: only Publish packets are resent.
RetryPublishOnly ==
    /\ Idle /\ inbox # <<>> /\ Head(inbox).type = "QoSRetry"
    /\ IF Head(inbox).packet.kind = "Publish"
       THEN StartWrite(Head(inbox).packet, None, FALSE)
       ELSE UNCHANGED writing
    /\ inbox' = Tail(inbox)
    /\ UNCHANGED <<open, txns, tasks, forwarded>>

\* handle_broker_qos_retry: write the packet again, whatever has become of
\* its transaction.
HandleQosRetry ==
    /\ Idle /\ inbox # <<>> /\ Head(inbox).type = "QoSRetry"
    /\ StartWrite(Head(inbox).packet, None, FALSE)
    /\ inbox' = Tail(inbox)
    /\ UNCHANGED <<open, txns, tasks, forwarded>>

\* The connection ends, by an error or by the peer: the handler announces it
\* to the broker and reads its channel no more.  Retry tasks run on meanwhile.
\* A hand-over fails only when the broker is gone.
ListenEnds ==
    /\ open
    /\ open' = FALSE
    /\ inbox' = <<>>
    /\ writing' = NoWrite
    /\ UNCHANGED <<txns, tasks, forwarded>>

\* The handler is dropped, its session too, and each tracker's Drop aborts its
\* retry task.
SessionDropped ==
    /\ ~open /\ \E p \in Pid : Active(p)
    /\ txns' = [p \in Pid |-> NoTracker]
    /\ tasks' = [k \in Task |->
                   IF \E p \in Pid : txns[p].retry_task = k THEN NoTask
                                                            ELSE tasks[k]]
    /\ forwarded' = [p \in Pid |-> 0]
    /\ UNCHANGED <<open, inbox, writing>>

-----------------------------------------------------------------------------
(* The retry tasks and the broker.                                         *)

Exhausted(k) == MaxRetries # 0 /\ tasks[k].attempts > MaxRetries

\* Without a limit the count is never looked at, and not kept here.
OneMore(attempts) == IF MaxRetries = 0 THEN attempts ELSE attempts + 1

\* A mistake in the choice of the channel: an unbounded one.
RetryFiresUnbounded(k) ==
    /\ tasks[k].running /\ ~Exhausted(k)
    /\ inbox' = IF open THEN Append(inbox, [type |-> "QoSRetry",
                                            packet |-> tasks[k].packet])
                        ELSE inbox
    /\ tasks' = [tasks EXCEPT ![k] = [packet |-> tasks[k].packet, running |-> TRUE,
                                      attempts |-> OneMore(tasks[k].attempts)]]
    /\ UNCHANGED <<open, txns, writing, forwarded>>

\* The interval has passed: the packet goes into the handler's channel.
RetryFires(k) ==
    /\ tasks[k].running /\ ~Exhausted(k)
    /\ open => Len(inbox) < InboxCap
    /\ inbox' = IF open THEN Append(inbox, [type |-> "QoSRetry",
                                            packet |-> tasks[k].packet])
                        ELSE inbox
    /\ tasks' = [tasks EXCEPT ![k] = [packet |-> tasks[k].packet, running |-> TRUE,
                                      attempts |-> OneMore(tasks[k].attempts)]]
    /\ UNCHANGED <<open, txns, writing, forwarded>>

\* The task returns after its last attempt; its tracker stays.
RetryGivesUp(k) ==
    /\ tasks[k].running /\ Exhausted(k)
    /\ tasks' = [tasks EXCEPT ![k] = [packet |-> tasks[k].packet, running |-> FALSE,
                                      attempts |-> tasks[k].attempts]]
    /\ UNCHANGED <<open, txns, inbox, writing, forwarded>>

\* The broker fans out another client's Publish to this handler.
BrokerSends ==
    /\ open /\ Len(inbox) < InboxCap
    /\ \E q \in {1, 2}, p \in Pid :
          inbox' = Append(inbox, [type |-> "Publish", packet |-> Publish(q, p)])
    /\ UNCHANGED <<open, txns, tasks, writing, forwarded>>

-----------------------------------------------------------------------------
Init ==
    /\ open = TRUE
    /\ txns = [p \in Pid |-> NoTracker]
    /\ tasks = [k \in Task |-> NoTask]
    /\ inbox = <<>>
    /\ writing = NoWrite
    /\ forwarded = [p \in Pid |-> 0]

ClientStep(p) == \/ RecvPublish1(p)
                 \/ RecvPublish2(p)
                 \/ RecvFinal(p, "Puback")
                 \/ RecvFinal(p, "Pubcomp")
                 \/ RecvPubrec(p)
                 \/ RecvPubrel(p)

InboxStep == HandleBrokerPublish \/ HandleQosRetry

Next ==
    \/ \E p \in Pid : ClientStep(p)
    \/ Written \/ HandedOver
    \/ InboxStep
    \/ ListenEnds \/ SessionDropped
    \/ \E k \in Task : RetryFires(k) \/ RetryGivesUp(k)
    \/ BrokerSends

Spec == Init /\ [][Next]_vars

\* Timers expire, and a write ends or fails.  The handler's select! chooses at
\* random, and a channel serves its waiting senders in order.  The broker owes
\* nothing: it may keep a hand-over waiting for ever (MqttBroker!CyclicWait).
Fairness ==
    /\ WF_vars(Written)
    /\ SF_vars(InboxStep)
    /\ \A k \in Task : SF_vars(RetryFires(k))

FairSpec == Spec /\ Fairness

-----------------------------------------------------------------------------
(* Properties.                                                             *)

\* The types of the variables.
TypeOK ==
    /\ open \in BOOLEAN
    /\ txns \in [Pid -> Tracker \cup {NoTracker}]
    /\ tasks \in [Task -> RetryTask \cup {NoTask}]
    /\ inbox \in Seq(Msg)
    /\ Len(inbox) <= InboxCap
    /\ writing \in Write \cup {NoWrite}
    /\ forwarded \in [Pid -> 0..2]

\* Every retry task, running or finished, belongs to exactly one tracker and
\* resends the packet that tracker is waiting on an answer to: updates,
\* completion and the end of the session leave no stray task behind.
RetryTasksOwned ==
    /\ \A k \in Task : tasks[k] # NoTask =>
         \E p \in Pid : txns[p].retry_task = k /\ txns[p].state = tasks[k].packet
    /\ \A p \in Pid : txns[p].retry_task # None => tasks[txns[p].retry_task] # NoTask
    /\ \A p, q \in Pid : txns[p].retry_task = txns[q].retry_task
                            /\ txns[p].retry_task # None => p = q

\* A transaction under its packet identifier is in a state that still waits
\* for an answer; no finished one stays among the active ones.
ActiveAreUnfinished ==
    \A p \in Pid : Active(p) => /\ txns[p].state.pid = p
                                /\ ~Finishes(txns[p].state)

\* The order of a transaction's states.
Rank(s) == CASE s.kind = "Publish" -> 0 [] s.kind = "Pubrec" -> 1
             [] s.kind = "Pubrel" -> 2

\* p's transaction stays, ends from a state whose answer ends it, or goes to
\* the next state.
Advances(p) ==
    \/ txns'[p].state = txns[p].state
    \/ /\ txns'[p] = NoTracker
       /\ txns[p].state \in {Publish(1, p), Ack("Pubrel", p)}
    \/ /\ txns'[p] # NoTracker
       /\ txns[p].state # Publish(1, p)
       /\ Rank(txns'[p].state) = Rank(txns[p].state) + 1

\* Whatever the client and other clients send, and in whatever order, an
\* active transaction never goes back, skips a state or ends early.
TransactionsAdvance ==
    [][\A p \in Pid : Active(p) /\ open' => Advances(p)]_vars

\* The handler writes pkt as a retransmission, with nothing to follow.
Resending(pkt) == writing.packet = pkt /\ writing.then = None /\ ~writing.forward

\* A packet with a fresh retry task is written a second time unless its
\* transaction moves on, loses its task to an unexpected packet, the session
\* ends, or the broker keeps the handler waiting for ever.
Retransmits ==
    \A k \in Task, p \in Pid :
        /\ txns[p].retry_task = k /\ tasks[k].running /\ tasks[k].attempts = 0
        ~> \/ Resending(txns[p].state)
           \/ txns[p].retry_task # k \/ ~open \/ []writing.acked

-----------------------------------------------------------------------------
(* What the documentation says and the code does not do.                   *)

\* README.md: "QoS = 2 (ExactlyOnce) Flow".  The Publish of an incoming QoS 2
\* transaction is handed to the broker once.
ForwardedOnce == \A p \in Pid : forwarded[p] <= 1

\* broker/config.rs: "maximum number of attempts to retry.  0 means infinite
\* retries".  A retry task sends its packet at most MaxRetries times.
AttemptsBounded ==
    \A k \in Task : MaxRetries # 0 => tasks[k].attempts <= MaxRetries
=============================================================================
