-------------------------- MODULE QosSessionProofs --------------------------
(***************************************************************************)
(* Proofs about QosSession, for any set of packet identifiers and tasks,   *)
(* any retry limit and any channel capacity.                               *)
(*                                                                         *)
(* The inductive invariant has two halves.  TxnInv speaks of the trackers  *)
(* and the retry tasks alone; only UpdateQos, the retry tasks' own steps   *)
(* and the end of the session change these, and the first lemmas show what *)
(* each does to TxnInv.  RestInv types the other variables.                *)
(***************************************************************************)
EXTENDS QosSession, TLAPS

\* A retry task sends its packet at most once more than AttemptsBounded says:
\* the limit is tested with > before each attempt.
AttemptsInv ==
    \A k \in Task : MaxRetries # 0 => tasks[k].attempts <= MaxRetries + 1

TxnTypes == /\ txns \in [Pid -> Tracker \cup {NoTracker}]
            /\ tasks \in [Task -> RetryTask \cup {NoTask}]

TxnInv == TxnTypes /\ RetryTasksOwned /\ ActiveAreUnfinished /\ AttemptsInv

RestInv == /\ open \in BOOLEAN
           /\ inbox \in Seq(Msg)
           /\ Len(inbox) <= InboxCap
           /\ writing \in Write \cup {NoWrite}
           /\ forwarded \in [Pid -> 0..2]

IInv == TxnInv /\ RestInv

\* A retry task is aborted together with the tracker's handle on it: what is
\* left of the tasks is owned by the other trackers.
LEMMA AbortedTasks ==
    ASSUME TxnInv, NEW p \in Pid
    PROVE  /\ Aborted(p) \in [Task -> RetryTask \cup {NoTask}]
           /\ \A k \in Task : Aborted(p)[k] # NoTask =>
                /\ Aborted(p)[k] = tasks[k]
                /\ k # txns[p].retry_task
                /\ \E q \in Pid : /\ q # p /\ txns[q].retry_task = k
                                  /\ txns[q].state = tasks[k].packet
           /\ \A q \in Pid : q # p /\ txns[q].retry_task # None
                => Aborted(p)[txns[q].retry_task] = tasks[txns[q].retry_task]
  <1>1. CASE txns[p].retry_task = None
    <2>1. Aborted(p) = tasks
      BY <1>1 DEF Aborted
    <2>2. \A k \in Task : tasks[k] # NoTask =>
             /\ k # txns[p].retry_task
             /\ \E q \in Pid : /\ q # p /\ txns[q].retry_task = k
                               /\ txns[q].state = tasks[k].packet
      BY <1>1, TaskAssumption DEF TxnInv, RetryTasksOwned
    <2> QED  BY <2>1, <2>2 DEF TxnInv, TxnTypes
  <1>2. CASE txns[p].retry_task # None
    <2> DEFINE r == txns[p].retry_task
    <2>1. r \in Task
      BY <1>2 DEF TxnInv, TxnTypes, Tracker, NoTracker
    <2>2. Aborted(p) = [tasks EXCEPT ![r] = NoTask]
      BY <1>2 DEF Aborted
    <2>3. Aborted(p) \in [Task -> RetryTask \cup {NoTask}]
      BY <2>1, <2>2 DEF TxnInv, TxnTypes
    <2>4. ASSUME NEW k \in Task, Aborted(p)[k] # NoTask
          PROVE  /\ Aborted(p)[k] = tasks[k] /\ k # r
                 /\ \E q \in Pid : /\ q # p /\ txns[q].retry_task = k
                                   /\ txns[q].state = tasks[k].packet
      <3>1. k # r /\ Aborted(p)[k] = tasks[k]
        BY <2>1, <2>2, <2>4 DEF TxnInv, TxnTypes
      <3> QED  BY <2>4, <3>1 DEF TxnInv, RetryTasksOwned
    <2>5. ASSUME NEW q \in Pid, q # p, txns[q].retry_task # None
          PROVE  Aborted(p)[txns[q].retry_task] = tasks[txns[q].retry_task]
      <3>1. txns[q].retry_task \in Task
        BY <2>5 DEF TxnInv, TxnTypes, Tracker, NoTracker
      <3>2. txns[q].retry_task # r
        BY <1>2, <2>5 DEF TxnInv, RetryTasksOwned
      <3> QED  BY <2>1, <2>2, <3>1, <3>2 DEF TxnInv, TxnTypes
    <2> QED  BY <2>3, <2>4, <2>5
  <1> QED  BY <1>1, <1>2

\* Starting a retry task for a tracker whose old one is aborted.
LEMMA SpawnKeepsTxnInv ==
    ASSUME TxnInv, NEW p \in Pid, NEW pkt \in Packets, pkt.pid = p,
           ~Finishes(pkt), Spawn(p, pkt, Aborted(p))
    PROVE  TxnInv'
  <1> DEFINE ts == Aborted(p)
             t0 == [packet |-> pkt, attempts |-> 0, running |-> TRUE]
  <1>1. PICK k \in Task :
           /\ ts[k] = NoTask
           /\ tasks' = [ts EXCEPT ![k] = t0]
           /\ txns' = [txns EXCEPT ![p] = [state |-> pkt, retry_task |-> k]]
    BY DEF Spawn
  <1>2. /\ ts \in [Task -> RetryTask \cup {NoTask}]
        /\ \A j \in Task : ts[j] # NoTask =>
             /\ ts[j] = tasks[j]
             /\ \E q \in Pid : /\ q # p /\ txns[q].retry_task = j
                               /\ txns[q].state = tasks[j].packet
        /\ \A q \in Pid : q # p /\ txns[q].retry_task # None
             => ts[txns[q].retry_task] = tasks[txns[q].retry_task]
    BY AbortedTasks
  <1> HIDE DEF ts
  <1>3. t0 \in RetryTask /\ t0 # NoTask
    BY DEF RetryTask, NoTask
  <1>4. k # None
    BY TaskAssumption
  <1>5. /\ txns'[p].state = pkt /\ txns'[p].retry_task = k /\ txns'[p] # NoTracker
        /\ \A q \in Pid : q # p => txns'[q] = txns[q]
        /\ tasks'[k] = t0
        /\ \A j \in Task : j # k => tasks'[j] = ts[j]
    BY <1>1, <1>2, <1>4 DEF TxnInv, TxnTypes, NoTracker
  <1>6. TxnTypes'
    <2>1. [state |-> pkt, retry_task |-> k] \in Tracker
      BY DEF Tracker
    <2> QED  BY <1>1, <1>2, <1>3, <2>1 DEF TxnInv, TxnTypes
  <1>7. \A q \in Pid : q # p => txns[q].retry_task # k
    <2> SUFFICES ASSUME NEW q \in Pid, q # p, txns[q].retry_task = k
                 PROVE  FALSE
      OBVIOUS
    <2>1. tasks[k] # NoTask
      BY <1>4 DEF TxnInv, RetryTasksOwned
    <2> QED  BY <1>1, <1>2, <1>4, <2>1
  <1>8. RetryTasksOwned'
    <2>1. ASSUME NEW j \in Task, tasks'[j] # NoTask
          PROVE  \E q \in Pid : /\ txns'[q].retry_task = j
                                /\ txns'[q].state = tasks'[j].packet
      <3>1. CASE j = k
        BY <1>5, <3>1
      <3>2. CASE j # k
        BY <1>2, <1>5, <2>1, <3>2
      <3> QED  BY <3>1, <3>2
    <2>2. ASSUME NEW q \in Pid, txns'[q].retry_task # None
          PROVE  tasks'[txns'[q].retry_task] # NoTask
      <3>1. CASE q = p
        BY <1>3, <1>5, <3>1
      <3>2. CASE q # p
        <4>1. txns[q].retry_task # k /\ txns'[q] = txns[q]
          BY <1>5, <1>7, <3>2
        <4>2. txns[q].retry_task \in Task
          BY <2>2, <4>1 DEF TxnInv, TxnTypes, Tracker, NoTracker
        <4>3. ts[txns[q].retry_task] # NoTask
          BY <1>2, <2>2, <3>2, <4>1 DEF TxnInv, RetryTasksOwned
        <4> QED  BY <1>5, <4>1, <4>2, <4>3
      <3> QED  BY <3>1, <3>2
    <2>3. ASSUME NEW q1 \in Pid, NEW q2 \in Pid,
                 txns'[q1].retry_task = txns'[q2].retry_task,
                 txns'[q1].retry_task # None
          PROVE  q1 = q2
      BY <1>5, <1>7, <2>3 DEF TxnInv, RetryTasksOwned
    <2> QED  BY <2>1, <2>2, <2>3 DEF RetryTasksOwned
  <1>9. ActiveAreUnfinished'
    BY <1>5 DEF TxnInv, ActiveAreUnfinished, Active, Finishes
  <1>10. AttemptsInv'
    BY <1>2, <1>3, <1>5, RetryAssumption
       DEF TxnInv, AttemptsInv, NoTask
  <1> QED  BY <1>6, <1>8, <1>9, <1>10 DEF TxnInv

\* Dropping a tracker's retry task, with the tracker or without.
LEMMA AbortKeepsTxnInv ==
    ASSUME TxnInv, NEW p \in Pid,
           tasks' = Aborted(p),
           \/ /\ Active(p)
              /\ txns' = [txns EXCEPT ![p] =
                            [state |-> txns[p].state, retry_task |-> None]]
           \/ txns' = [txns EXCEPT ![p] = NoTracker]
    PROVE  TxnInv'
  <1> DEFINE ts == Aborted(p)
  <1>1. /\ ts \in [Task -> RetryTask \cup {NoTask}]
        /\ \A j \in Task : ts[j] # NoTask =>
             /\ ts[j] = tasks[j]
             /\ \E q \in Pid : /\ q # p /\ txns[q].retry_task = j
                               /\ txns[q].state = tasks[j].packet
        /\ \A q \in Pid : q # p /\ txns[q].retry_task # None
             => ts[txns[q].retry_task] = tasks[txns[q].retry_task]
    BY AbortedTasks
  <1>2. tasks' = ts
    OBVIOUS
  <1> HIDE DEF ts
  <1>3. /\ txns'[p].retry_task = None
        /\ txns'[p] = NoTracker \/ (Active(p) /\ txns'[p].state = txns[p].state)
        /\ \A q \in Pid : q # p => txns'[q] = txns[q]
        /\ txns' \in [Pid -> Tracker \cup {NoTracker}]
    BY DEF TxnInv, TxnTypes, Tracker, NoTracker, Active
  <1>4. TxnTypes'
    BY <1>1, <1>2, <1>3 DEF TxnTypes
  <1>5. RetryTasksOwned'
    <2>1. ASSUME NEW j \in Task, tasks'[j] # NoTask
          PROVE  \E q \in Pid : /\ txns'[q].retry_task = j
                                /\ txns'[q].state = tasks'[j].packet
      BY <1>1, <1>2, <1>3, <2>1
    <2>2. ASSUME NEW q \in Pid, txns'[q].retry_task # None
          PROVE  tasks'[txns'[q].retry_task] # NoTask
      BY <1>1, <1>2, <1>3, <2>2 DEF TxnInv, RetryTasksOwned
    <2>3. ASSUME NEW q1 \in Pid, NEW q2 \in Pid,
                 txns'[q1].retry_task = txns'[q2].retry_task,
                 txns'[q1].retry_task # None
          PROVE  q1 = q2
      BY <1>3, <2>3 DEF TxnInv, RetryTasksOwned
    <2> QED  BY <2>1, <2>2, <2>3 DEF RetryTasksOwned
  <1>6. ActiveAreUnfinished'
    BY <1>3 DEF TxnInv, ActiveAreUnfinished, Active, Finishes, NoTracker
  <1>7. AttemptsInv'
    BY <1>1, <1>2, RetryAssumption DEF TxnInv, AttemptsInv, NoTask
  <1> QED  BY <1>4, <1>5, <1>6, <1>7 DEF TxnInv

\* Session::update_qos, whatever the packet.
LEMMA UpdateQosKeepsTxnInv ==
    ASSUME TxnInv, NEW p \in Pid, NEW pkt \in Packets, pkt.pid = p,
           UpdateQos(p, pkt)
    PROVE  TxnInv'
  <1>1. CASE ~Active(p)
    <2>1. Begin(p, pkt)
      BY <1>1 DEF UpdateQos
    <2>2. CASE Starts(pkt)
      <3>1. Aborted(p) = tasks
        BY <1>1 DEF Aborted, Active, NoTracker
      <3>2. Spawn(p, pkt, Aborted(p))
        BY <2>1, <2>2, <3>1 DEF Begin
      <3>3. ~Finishes(pkt)
        BY <2>2 DEF Starts, Finishes
      <3> QED  BY <3>2, <3>3, SpawnKeepsTxnInv
    <2>3. CASE ~Starts(pkt)
      BY <2>1, <2>3
         DEF Begin, TxnInv, TxnTypes, RetryTasksOwned, ActiveAreUnfinished,
             Active, AttemptsInv
    <2> QED  BY <2>2, <2>3
  <1>2. CASE Active(p)
    <2>1. Update(p, pkt)
      BY <1>2 DEF UpdateQos
    <2>2. CASE /\ txns' = [txns EXCEPT ![p] =
                             [state |-> txns[p].state, retry_task |-> None]]
               /\ tasks' = Aborted(p)
      BY <1>2, <2>2, AbortKeepsTxnInv
    <2>3. CASE /\ txns' = [txns EXCEPT ![p] = NoTracker]
               /\ tasks' = Aborted(p)
      BY <2>3, AbortKeepsTxnInv
    <2>4. CASE ~Finishes(pkt) /\ Spawn(p, pkt, Aborted(p))
      BY <2>4, SpawnKeepsTxnInv
    <2> QED  BY <2>1, <2>2, <2>3, <2>4 DEF Update
  <1> QED  BY <1>1, <1>2

-----------------------------------------------------------------------------
(* The invariant.                                                          *)

\* A session starts without transactions.
LEMMA InitIInv == Init => IInv
  <1> SUFFICES ASSUME Init PROVE IInv
    OBVIOUS
  <1>1. TxnInv
    BY RetryAssumption
       DEF Init, TxnInv, TxnTypes, RetryTasksOwned, ActiveAreUnfinished, Active,
           AttemptsInv, NoTracker, NoTask
  <1>2. RestInv
    BY InboxAssumption DEF Init, RestInv
  <1> QED  BY <1>1, <1>2 DEF IInv

\* A step that leaves trackers and tasks alone.
LEMMA UnchangedTxnInv ==
    ASSUME TxnInv, UNCHANGED <<txns, tasks>>
    PROVE  TxnInv'
  BY DEF TxnInv, TxnTypes, RetryTasksOwned, ActiveAreUnfinished, Active,
         AttemptsInv

\* A retry task's own step keeps its packet and its owner.
LEMMA TaskStepKeepsTxnInv ==
    ASSUME TxnInv, txns' = txns, NEW k \in Task, tasks[k].running,
           NEW r \in RetryTask, r.packet = tasks[k].packet, r # NoTask,
           MaxRetries # 0 => r.attempts <= MaxRetries + 1,
           tasks' = [tasks EXCEPT ![k] = r]
    PROVE  TxnInv'
  <1>1. tasks[k] # NoTask
    BY DEF NoTask
  <1>2. TxnTypes'
    BY DEF TxnInv, TxnTypes
  <1>3. tasks'[k] = r /\ \A j \in Task : j # k => tasks'[j] = tasks[j]
    BY DEF TxnInv, TxnTypes
  <1>4. RetryTasksOwned'
    <2>1. ASSUME NEW j \in Task, tasks'[j] # NoTask
          PROVE  \E q \in Pid : /\ txns'[q].retry_task = j
                                /\ txns'[q].state = tasks'[j].packet
      BY <1>1, <1>3, <2>1 DEF TxnInv, RetryTasksOwned
    <2>2. ASSUME NEW q \in Pid, txns'[q].retry_task # None
          PROVE  tasks'[txns'[q].retry_task] # NoTask
      <3>1. txns[q].retry_task \in Task
        BY <2>2 DEF TxnInv, TxnTypes, Tracker, NoTracker
      <3> QED  BY <1>3, <2>2, <3>1 DEF TxnInv, RetryTasksOwned
    <2> QED  BY <2>1, <2>2 DEF TxnInv, RetryTasksOwned
  <1>5. ActiveAreUnfinished'
    BY DEF TxnInv, ActiveAreUnfinished, Active
  <1>6. AttemptsInv'
    BY <1>3 DEF TxnInv, AttemptsInv
  <1> QED  BY <1>2, <1>4, <1>5, <1>6 DEF TxnInv

\* The answers the handler builds are packets.
LEMMA AckType ==
    ASSUME NEW kind \in {"Puback", "Pubrec", "Pubrel", "Pubcomp"}, NEW p \in Pid
    PROVE  Ack(kind, p) \in Packets /\ Ack(kind, p).pid = p
  BY DEF Ack, Packets, Acks

\* A write that begins has its type.
LEMMA StartWriteType ==
    ASSUME NEW pkt \in Packets, NEW then \in Packets \cup {None},
           NEW forward \in BOOLEAN, StartWrite(pkt, then, forward)
    PROVE  writing' \in Write \cup {NoWrite}
  BY DEF StartWrite, Write

\* Whatever the client sends.
LEMMA ClientStepKeepsIInv ==
    ASSUME IInv, NEW p \in Pid, ClientStep(p)
    PROVE  IInv'
  <1> USE DEF IInv
  <1>1. CASE RecvPublish1(p)
    <2>1. TxnInv'
      BY <1>1, UnchangedTxnInv DEF RecvPublish1
    <2>2. writing' \in Write \cup {NoWrite}
      BY <1>1, AckType, StartWriteType DEF RecvPublish1
    <2> QED  BY <1>1, <2>1, <2>2 DEF RecvPublish1, RestInv
  <1>2. CASE RecvPublish2(p)
    <2>1. TxnInv'
      BY <1>2, AckType, UpdateQosKeepsTxnInv DEF RecvPublish2
    <2>2. writing' \in Write \cup {NoWrite}
      BY <1>2, AckType, StartWriteType DEF RecvPublish2
    <2> QED  BY <1>2, <2>1, <2>2 DEF RecvPublish2, RestInv
  <1>3. CASE RecvFinal(p, "Puback") \/ RecvFinal(p, "Pubcomp")
    <2>1. TxnInv'
      BY <1>3, AckType, UpdateQosKeepsTxnInv DEF RecvFinal
    <2> QED  BY <1>3, <2>1 DEF RecvFinal, RestInv
  <1>4. CASE RecvPubrec(p)
    <2>1. TxnInv'
      BY <1>4, AckType, UpdateQosKeepsTxnInv DEF RecvPubrec
    <2>2. writing' \in Write \cup {NoWrite}
      BY <1>4, AckType, StartWriteType DEF RecvPubrec
    <2> QED  BY <1>4, <2>1, <2>2 DEF RecvPubrec, RestInv
  <1>5. CASE RecvPubrel(p)
    <2>1. TxnInv'
      BY <1>5, AckType, UpdateQosKeepsTxnInv DEF RecvPubrel
    <2>2. writing' \in Write \cup {NoWrite}
      BY <1>5, AckType, StartWriteType DEF RecvPubrel
    <2> QED  BY <1>5, <2>1, <2>2 DEF RecvPubrel, RestInv
  <1> QED  BY <1>1, <1>2, <1>3, <1>4, <1>5 DEF ClientStep

\* A write ends and update_qos follows.
LEMMA WrittenKeepsIInv ==
    ASSUME IInv, Written
    PROVE  IInv'
  <1>1. writing \in Write
    BY DEF IInv, RestInv, Written
  <1>2. TxnInv'
    <2>1. CASE writing.then = None
      BY <2>1, UnchangedTxnInv DEF IInv, Written
    <2>2. CASE writing.then # None
      <3>1. writing.then \in Packets
        BY <1>1, <2>2 DEF Write
      <3>2. writing.then.pid \in Pid
        BY <3>1 DEF Packets, Publishes, Acks
      <3> QED  BY <2>2, <3>1, <3>2, UpdateQosKeepsTxnInv DEF IInv, Written
    <2> QED  BY <2>1, <2>2
  <1>3. forwarded' \in [Pid -> 0..2]
    BY DEF IInv, RestInv, Written
  <1>4. writing' \in Write \cup {NoWrite}
    BY <1>1 DEF Write, Written
  <1> QED  BY <1>2, <1>3, <1>4 DEF IInv, RestInv, Written

\* The broker has taken the Publish.
LEMMA HandedOverKeepsIInv ==
    ASSUME IInv, HandedOver
    PROVE  IInv'
  <1>1. TxnInv'
    BY UnchangedTxnInv DEF IInv, HandedOver
  <1>2. forwarded' \in [Pid -> 0..2]
    BY DEF IInv, RestInv, HandedOver
  <1> QED  BY <1>1, <1>2 DEF IInv, RestInv, HandedOver

\* A message from the channel starts a write.
LEMMA InboxStepKeepsIInv ==
    ASSUME IInv, InboxStep
    PROVE  IInv'
  <1>1. inbox # <<>> /\ inbox' = Tail(inbox) /\ UNCHANGED <<open, txns, tasks, forwarded>>
    BY DEF InboxStep, HandleBrokerPublish, HandleQosRetry
  <1>2. Head(inbox) \in Msg /\ inbox' \in Seq(Msg) /\ Len(inbox') <= InboxCap
    BY <1>1, InboxAssumption DEF IInv, RestInv
  <1>3. Head(inbox).packet \in Packets
    BY <1>2 DEF Msg, Packets
  <1>4. writing' \in Write \cup {NoWrite}
    BY <1>3, StartWriteType DEF InboxStep, HandleBrokerPublish, HandleQosRetry
  <1>5. TxnInv'
    BY <1>1, UnchangedTxnInv DEF IInv
  <1> QED  BY <1>1, <1>2, <1>4, <1>5 DEF IInv, RestInv

\* The handler stops listening; the trackers are still there.
LEMMA ListenEndsKeepsIInv ==
    ASSUME IInv, ListenEnds
    PROVE  IInv'
  <1>1. TxnInv'
    BY UnchangedTxnInv DEF ListenEnds, IInv
  <1>2. inbox' \in Seq(Msg) /\ Len(inbox') <= InboxCap
    BY InboxAssumption DEF ListenEnds
  <1> QED  BY <1>1, <1>2 DEF ListenEnds, IInv, RestInv

\* Dropping the trackers frees every task, as each has an owner.
LEMMA SessionDroppedKeepsIInv ==
    ASSUME IInv, SessionDropped
    PROVE  IInv'
  <1>1. \A k \in Task : tasks'[k] = NoTask
    BY DEF IInv, TxnInv, RetryTasksOwned, SessionDropped
  <1>2. \A p \in Pid : txns'[p] = NoTracker
    BY DEF SessionDropped
  <1>3. TxnTypes'
    <2>1. tasks' = [k \in Task |-> tasks'[k]]
      BY DEF SessionDropped
    <2> QED  BY <1>1, <2>1 DEF SessionDropped, TxnTypes
  <1>4. RetryTasksOwned'
    BY <1>1, <1>2 DEF RetryTasksOwned, NoTracker
  <1>5. ActiveAreUnfinished'
    BY <1>2 DEF ActiveAreUnfinished, Active
  <1>6. AttemptsInv'
    BY <1>1, RetryAssumption DEF AttemptsInv, NoTask
  <1>7. RestInv'
    <2>1. forwarded' \in [Pid -> 0..2]
      BY DEF SessionDropped
    <2> QED  BY <2>1 DEF SessionDropped, IInv, RestInv
  <1> QED  BY <1>3, <1>4, <1>5, <1>6, <1>7 DEF IInv, TxnInv

\* A retry task counts an attempt or gives up.
LEMMA RetryStepKeepsIInv ==
    ASSUME IInv, NEW k \in Task, RetryFires(k) \/ RetryGivesUp(k)
    PROVE  IInv'
  <1>1. tasks[k].running /\ tasks[k] # NoTask
    BY DEF RetryFires, RetryGivesUp, NoTask
  <1>2. tasks[k] \in RetryTask
    BY <1>1 DEF IInv, TxnInv, TxnTypes
  <1>3. tasks[k].packet \in Packets /\ tasks[k].attempts \in Nat
    BY <1>2 DEF RetryTask
  <1>4. CASE RetryFires(k)
    <2> DEFINE r == [packet |-> tasks[k].packet, running |-> TRUE,
                     attempts |-> OneMore(tasks[k].attempts)]
    <2>1. r \in RetryTask /\ r # NoTask
      BY <1>3 DEF RetryTask, NoTask, OneMore
    <2>2. MaxRetries # 0 => r.attempts <= MaxRetries + 1
      BY <1>3, <1>4, RetryAssumption DEF RetryFires, Exhausted, OneMore
    <2>3. TxnInv'
      BY <1>1, <1>4, <2>1, <2>2, TaskStepKeepsTxnInv DEF RetryFires, IInv
    <2>4. inbox' \in Seq(Msg) /\ Len(inbox') <= InboxCap
      <3>1. [type |-> "QoSRetry", packet |-> tasks[k].packet] \in Msg
        BY <1>3 DEF Msg
      <3> QED  BY <1>4, <3>1, InboxAssumption DEF RetryFires, IInv, RestInv
    <2> QED  BY <1>4, <2>3, <2>4 DEF RetryFires, IInv, RestInv
  <1>5. CASE RetryGivesUp(k)
    <2> DEFINE r == [packet |-> tasks[k].packet, running |-> FALSE,
                     attempts |-> tasks[k].attempts]
    <2>1. r \in RetryTask
      BY <1>3 DEF RetryTask
    <2>2. r # NoTask
      BY <1>3, <1>5, RetryAssumption DEF RetryGivesUp, Exhausted, NoTask
    <2>3. MaxRetries # 0 => r.attempts <= MaxRetries + 1
      BY DEF IInv, TxnInv, AttemptsInv
    <2>4. TxnInv'
      BY <1>1, <1>5, <2>1, <2>2, <2>3, TaskStepKeepsTxnInv DEF RetryGivesUp, IInv
    <2> QED  BY <1>5, <2>4 DEF RetryGivesUp, IInv, RestInv
  <1> QED  BY <1>4, <1>5

\* Every step keeps the inductive invariant.
LEMMA NextIInv == IInv /\ [Next]_vars => IInv'
  <1> SUFFICES ASSUME IInv, [Next]_vars PROVE IInv'
    OBVIOUS
  <1>1. ASSUME NEW p \in Pid, ClientStep(p) PROVE IInv'
    BY <1>1, ClientStepKeepsIInv
  <1>2. CASE Written \/ HandedOver
    BY <1>2, WrittenKeepsIInv, HandedOverKeepsIInv
  <1>3. CASE InboxStep
    BY <1>3, InboxStepKeepsIInv
  <1>4. CASE ListenEnds \/ SessionDropped
    BY <1>4, ListenEndsKeepsIInv, SessionDroppedKeepsIInv
  <1>5. ASSUME NEW k \in Task, RetryFires(k) \/ RetryGivesUp(k) PROVE IInv'
    BY <1>5, RetryStepKeepsIInv
  <1>6. CASE BrokerSends
    <2>1. TxnInv'
      BY <1>6, UnchangedTxnInv DEF BrokerSends, IInv
    <2>2. inbox' \in Seq(Msg) /\ Len(inbox') <= InboxCap
      <3>1. PICK q \in {1, 2}, p \in Pid :
               inbox' = Append(inbox, [type |-> "Publish", packet |-> Publish(q, p)])
        BY <1>6 DEF BrokerSends
      <3>2. [type |-> "Publish", packet |-> Publish(q, p)] \in Msg
        BY DEF Msg, Publishes, Publish
      <3> QED  BY <1>6, <3>1, <3>2, InboxAssumption DEF BrokerSends, IInv, RestInv
    <2> QED  BY <1>6, <2>1, <2>2 DEF BrokerSends, IInv, RestInv
  <1>7. CASE UNCHANGED vars
    <2>1. TxnInv'
      BY <1>7, UnchangedTxnInv DEF vars, IInv
    <2> QED  BY <1>7, <2>1 DEF vars, IInv, RestInv
  <1> QED  BY <1>1, <1>2, <1>3, <1>4, <1>5, <1>6, <1>7 DEF Next

\* The inductive invariant holds in every reachable state.
THEOREM Invariance == Spec => []IInv
  BY InitIInv, NextIInv, PTL DEF Spec

\* Every variable keeps its type, and the channel its capacity.
THEOREM TypeCorrect == Spec => []TypeOK
  <1>1. IInv => TypeOK
    BY DEF IInv, TxnInv, TxnTypes, RestInv, TypeOK
  <1> QED  BY <1>1, Invariance, PTL

\* Retry tasks are never leaked, shared or left with an outdated packet.
THEOREM TasksOwned == Spec => []RetryTasksOwned
  <1>1. IInv => RetryTasksOwned
    BY DEF IInv, TxnInv
  <1> QED  BY <1>1, Invariance, PTL

\* No finished transaction stays among the session's active ones.
THEOREM Unfinished == Spec => []ActiveAreUnfinished
  <1>1. IInv => ActiveAreUnfinished
    BY DEF IInv, TxnInv
  <1> QED  BY <1>1, Invariance, PTL

\* A retry task with a limit does end: it sends its packet at most once more
\* than the documentation allows.
THEOREM BoundedRetries == Spec => []AttemptsInv
  <1>1. IInv => AttemptsInv
    BY DEF IInv, TxnInv
  <1> QED  BY <1>1, Invariance, PTL

-----------------------------------------------------------------------------
(* The order of a transaction's states.                                    *)

\* The four states an active transaction can be in.
LEMMA ActiveStates ==
    ASSUME TxnInv, NEW p \in Pid, Active(p)
    PROVE  txns[p].state \in {Publish(1, p), Publish(2, p), Ack("Pubrec", p),
                             Ack("Pubrel", p)}
  <1> DEFINE s == txns[p].state
  <1>1. s \in Packets /\ s.pid = p /\ ~Finishes(s)
    BY DEF TxnInv, TxnTypes, ActiveAreUnfinished, Active, Tracker
  <1> SUFFICES s \in {Publish(1, p), Publish(2, p), Ack("Pubrec", p),
                      Ack("Pubrel", p)}
    OBVIOUS
  <1> HIDE DEF s
  <1>2. CASE s \in Publishes
    <2>1. s = [kind |-> s.kind, qos |-> s.qos, pid |-> s.pid]
      BY <1>2 DEF Publishes
    <2>2. s.kind = "Publish" /\ s.qos \in {1, 2}
      BY <1>2 DEF Publishes
    <2> QED  BY <1>1, <2>1, <2>2 DEF Publish
  <1>3. CASE s \in Acks
    <2>1. s = [kind |-> s.kind, pid |-> s.pid]
      BY <1>3 DEF Acks
    <2>2. s.kind \in {"Pubrec", "Pubrel"}
      BY <1>1, <1>3 DEF Acks, Finishes
    <2> QED  BY <1>1, <2>1, <2>2 DEF Ack
  <1> QED  BY <1>1, <1>2, <1>3 DEF Packets

\* update_qos moves a transaction on, or not at all.
LEMMA UpdateQosAdvances ==
    ASSUME TxnInv, NEW p \in Pid, NEW pkt \in Packets, pkt.pid = p,
           UpdateQos(p, pkt), NEW q \in Pid, Active(q)
    PROVE  Advances(q)
  <1>1. CASE q # p
    <2>1. txns'[q] = txns[q]
      BY <1>1 DEF UpdateQos, Update, Begin, Spawn, TxnInv, TxnTypes
    <2> QED  BY <2>1 DEF Advances
  <1>2. CASE q = p
    <2> DEFINE s == txns[p].state
    <2>1. Update(p, pkt)
      BY <1>2 DEF UpdateQos
    <2>2. s \in {Publish(1, p), Publish(2, p), Ack("Pubrec", p), Ack("Pubrel", p)}
      BY <1>2, ActiveStates
    <2>3. /\ s = Publish(1, p) => Expected(s) = Ack("Puback", p)
          /\ s = Publish(2, p) => Expected(s) = Ack("Pubrec", p)
          /\ s = Ack("Pubrec", p) => Expected(s) = Ack("Pubrel", p)
          /\ s = Ack("Pubrel", p) => Expected(s) = Ack("Pubcomp", p)
      BY DEF Expected, Publish, Ack
    <2>4. CASE txns' = [txns EXCEPT ![p] =
                          [state |-> txns[p].state, retry_task |-> None]]
      BY <1>2, <2>4 DEF Advances, TxnInv, TxnTypes
    <2>5. CASE /\ pkt = Expected(s) /\ Finishes(pkt)
               /\ txns' = [txns EXCEPT ![p] = NoTracker]
      <3>1. s \in {Publish(1, p), Ack("Pubrel", p)}
        BY <2>2, <2>3, <2>5 DEF Finishes, Ack
      <3>2. txns'[p] = NoTracker
        BY <2>5 DEF TxnInv, TxnTypes
      <3> QED  BY <1>2, <3>1, <3>2 DEF Advances
    <2>6. CASE /\ pkt = Expected(s) /\ ~Finishes(pkt)
               /\ Spawn(p, pkt, Aborted(p))
      <3>1. \/ s = Publish(2, p) /\ pkt = Ack("Pubrec", p)
            \/ s = Ack("Pubrec", p) /\ pkt = Ack("Pubrel", p)
        BY <2>2, <2>3, <2>6 DEF Finishes, Ack
      <3>2. s # Publish(1, p) /\ Rank(pkt) = Rank(s) + 1
        BY <3>1 DEF Rank, Publish, Ack
      <3>3. txns'[p].state = pkt /\ txns'[p].retry_task # None
        BY <2>6, TaskAssumption DEF Spawn, TxnInv, TxnTypes
      <3>4. txns'[p] # NoTracker
        BY <3>3 DEF NoTracker
      <3> QED  BY <1>2, <3>2, <3>3, <3>4 DEF Advances
    <2> QED  BY <2>1, <2>4, <2>5, <2>6 DEF Update
  <1> QED  BY <1>1, <1>2

\* No sequence of packets makes a transaction go back, skip or end early.
THEOREM Advancing == Spec => TransactionsAdvance
  <1>1. ASSUME IInv, [Next]_vars, NEW p \in Pid, Active(p), open'
        PROVE  Advances(p)
    <2>1. ASSUME NEW q \in Pid, NEW pkt \in Packets, pkt.pid = q, UpdateQos(q, pkt)
          PROVE  Advances(p)
      BY <1>1, <2>1, UpdateQosAdvances DEF IInv
    <2>2. CASE txns' = txns
      BY <2>2 DEF Advances
    <2>3. ASSUME NEW q \in Pid, ClientStep(q)
          PROVE  Advances(p)
      <3>1. \/ txns' = txns
            \/ \E kind \in {"Puback", "Pubrec", "Pubrel", "Pubcomp"} :
                  UpdateQos(q, Ack(kind, q))
        BY <2>3 DEF ClientStep, RecvPublish1, RecvPublish2, RecvFinal,
                    RecvPubrec, RecvPubrel
      <3> QED  BY <2>1, <2>2, <3>1, AckType
    <2>4. CASE Written
      <3>1. writing \in Write
        BY <1>1, <2>4 DEF IInv, RestInv, Written
      <3>2. CASE writing.then = None
        BY <2>2, <2>4, <3>2 DEF Written
      <3>3. CASE writing.then # None
        <4>1. writing.then \in Packets /\ writing.then.pid \in Pid
          BY <3>1, <3>3 DEF Write, Packets, Publishes, Acks
        <4> QED  BY <2>1, <2>4, <3>3, <4>1 DEF Written
      <3> QED  BY <3>2, <3>3
    <2>5. CASE ListenEnds \/ SessionDropped
      BY <1>1, <2>5 DEF ListenEnds, SessionDropped
    <2>6. CASE HandedOver \/ InboxStep \/ BrokerSends \/ UNCHANGED vars
      BY <2>2, <2>6 DEF HandedOver, InboxStep, HandleBrokerPublish, HandleQosRetry,
                        BrokerSends, vars
    <2>7. ASSUME NEW k \in Task, RetryFires(k) \/ RetryGivesUp(k)
          PROVE  Advances(p)
      BY <2>2, <2>7 DEF RetryFires, RetryGivesUp
    <2> QED  BY <1>1, <2>3, <2>4, <2>5, <2>6, <2>7 DEF Next
  <1>2. IInv /\ [Next]_vars => [\A p \in Pid : Active(p) /\ open' => Advances(p)]_vars
    BY <1>1
  <1> QED  BY <1>2, Invariance, PTL DEF Spec, TransactionsAdvance
=============================================================================
