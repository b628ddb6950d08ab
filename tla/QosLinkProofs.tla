---------------------------- MODULE QosLinkProofs ----------------------------
(***************************************************************************)
(* Proofs about QosLink, for any retry limits, any packet identifiers and  *)
(* any amount of traffic: the link is a session of QosSession, and the     *)
(* messages of its publish commands are delivered as DuplicatesAreResends  *)
(* and CleanDelivery say.                                                  *)
(***************************************************************************)
EXTENDS QosLink, QosSessionProofs, FiniteSetTheorems, SequenceTheorems

-----------------------------------------------------------------------------
(* The inductive invariant.                                                *)

\* Resending is paid for from the command's budget.
BudgetInv ==
    /\ Publishing => issued # 0
    /\ cli.at \in {"puback", "pubrec"} => resent[issued] <= cli.retries + cli.attempt
    /\ \A n \in Number : n > issued => resent[n] = 0
    /\ ~repeated => /\ cli.retries = 0 /\ cli.attempt = 0
                    /\ \A n \in Number : resent[n] = 0
                    /\ \A k \in 1..Len(inbox) : inbox[k].type = "Publish"

\* Where message n is on its way to the broker: in the stream, and in the
\* hands of the handler while it writes the acknowledgement and while it waits
\* for room in the broker's channel.
Copies(q, n) == {k \in 1..Len(q) : q[k].n = n}
Held(n) == IF (writing.forward \/ writing.acked) /\ holding = n THEN 1 ELSE 0

\* As many copies as the command made.
Made(n) == IF n <= issued THEN 1 + resent[n] ELSE 0

CountInv ==
    \A n \in Number : handed[n] + Held(n) + Cardinality(Copies(up, n)) <= Made(n)

\* The packets of a publish command and the answers to them, where they are.
\* Those of subscribe are of other kinds: Puback, Pubrec and Pubcomp on the way
\* up, Publish and Pubrel on the way down.
Asking(q) == {k \in 1..Len(q) : q[k].packet.kind \in {"Publish", "Pubrel"}}
Answer(pkt) == pkt.kind \in {"Puback", "Pubrec", "Pubcomp"}
Answers(q) == {k \in 1..Len(q) : Answer(q[k])}
Answering == writing # NoWrite /\ ~writing.acked /\ Answer(writing.packet)

\* As long as nothing is repeated there is at most one of them.
OneToken ==
    /\ \A j, k \in Asking(up) : j = k
    /\ \A j, k \in Answers(down) : j = k
    /\ Asking(up) = {} \/ Answers(down) = {}
    /\ Answering => Asking(up) = {} /\ Answers(down) = {}

\* Message n has been handed over, or is just being.
Taken(n) == handed[n] >= 1 \/ HandingOver(n)

\* It belongs to the command that runs, and an answer on its way down means
\* that the message has been handed over or is just being.
TokenInv ==
    /\ writing.forward => Answering \/ writing.acked
    /\ open /\ ~Publishing => Asking(up) = {} /\ ~Answering /\ Answers(down) = {}
    /\ cli.at \in {"puback", "pubrec"} =>
          /\ \A k \in Asking(up) : up[k].packet.kind = "Publish" /\ up[k].n = issued
          /\ Answering => writing.forward /\ holding = issued
          /\ Answers(down) # {} => Taken(issued)
    /\ cli.at = "pubcomp" =>
          /\ \A k \in Asking(up) : up[k].packet.kind = "Pubrel"
          /\ Answering => ~writing.forward
          /\ Taken(issued)

Delivered == \A n \in Number : outcome[n] = "ok" => Taken(n)

Clean == OneToken /\ TokenInv /\ Delivered
CleanInv == ~repeated => Clean

LinkInv == IInv /\ LinkTypeOK /\ BudgetInv /\ CountInv /\ CleanInv

-----------------------------------------------------------------------------
(* The stream.                                                             *)

\* A read leaves a proper suffix.
LEMMA CoalescedSuffix ==
    ASSUME NEW T, NEW q \in Seq(T), NEW r, Coalesced(q, r)
    PROVE  /\ r \in Seq(T)
           /\ \E k \in 1..Len(q) : /\ Len(r) = Len(q) - k
                                   /\ \A j \in 1..Len(r) : r[j] = q[j + k]
  <1>1. PICK k \in 1..Len(q) : r = SubSeq(q, k + 1, Len(q))
    BY DEF Coalesced
  <1>2. /\ Len(q) \in Nat /\ k \in Int /\ k + 1 \in Int /\ Len(q) \in Int
        /\ \A i \in (k + 1)..Len(q) : q[i] \in T
    OBVIOUS
  <1>3. /\ SubSeq(q, k + 1, Len(q)) \in Seq(T)
        /\ Len(SubSeq(q, k + 1, Len(q))) = IF k + 1 <= Len(q) THEN Len(q) - (k + 1) + 1 ELSE 0
        /\ \A i \in 1..(Len(q) - (k + 1) + 1) :
              SubSeq(q, k + 1, Len(q))[i] = q[(k + 1) + i - 1]
    BY <1>2, SubSeqProperties
  <1>4. Len(r) = Len(q) - k
    BY <1>1, <1>2, <1>3
  <1>5. ASSUME NEW j \in 1..Len(r) PROVE r[j] = q[j + k]
    <2>1. (k + 1) + j - 1 = j + k /\ j \in 1..(Len(q) - (k + 1) + 1)
      BY <1>2, <1>4
    <2> QED  BY <1>1, <1>3, <2>1
  <1> QED  BY <1>1, <1>3, <1>4, <1>5

LinkMsg == [packet : Packets, n : Number \cup {NoNumber}]

\* Copies are finitely many.
LEMMA CopiesFinite ==
    ASSUME NEW q \in Seq(LinkMsg), NEW n
    PROVE  IsFiniteSet(Copies(q, n)) /\ Cardinality(Copies(q, n)) \in Nat
  <1>1. Len(q) \in Nat /\ Copies(q, n) \in SUBSET (1..Len(q))
    BY DEF Copies
  <1>2. IsFiniteSet(1..Len(q))
    BY <1>1, FS_Interval
  <1>3. IsFiniteSet(Copies(q, n))
    BY <1>1, <1>2, FS_Subset
  <1> QED  BY <1>3, FS_CardinalityType

\* A packet that is sent is one more copy of its message.
LEMMA CopiesAppend ==
    ASSUME NEW q \in Seq(LinkMsg), NEW m \in LinkMsg, NEW n
    PROVE  Cardinality(Copies(Append(q, m), n)) =
              Cardinality(Copies(q, n)) + (IF m.n = n THEN 1 ELSE 0)
  <1> DEFINE r == Append(q, m)
  <1>1. /\ Len(q) \in Nat /\ Len(r) = Len(q) + 1 /\ r[Len(q) + 1] = m
        /\ \A k \in 1..Len(q) : r[k] = q[k]
    OBVIOUS
  <1> HIDE DEF r
  <1>2. CASE m.n = n
    <2>1. Copies(r, n) = Copies(q, n) \cup {Len(q) + 1}
      BY <1>1, <1>2 DEF Copies
    <2>2. Len(q) + 1 \notin Copies(q, n)
      BY <1>1 DEF Copies
    <2>3. Cardinality(Copies(q, n) \cup {Len(q) + 1}) = Cardinality(Copies(q, n)) + 1
      BY <2>2, CopiesFinite, FS_AddElement
    <2> QED  BY <1>2, <2>1, <2>3 DEF r
  <1>3. CASE m.n # n
    <2>1. Copies(r, n) = Copies(q, n)
      BY <1>1, <1>3 DEF Copies
    <2> QED  BY <1>3, <2>1, CopiesFinite DEF r
  <1> QED  BY <1>2, <1>3

\* A read takes the copy it returns, and perhaps loses others.
LEMMA CopiesCoalesced ==
    ASSUME NEW q \in Seq(LinkMsg), NEW r, Coalesced(q, r), NEW n
    PROVE  /\ Cardinality(Copies(r, n)) \in Nat
           /\ Cardinality(Copies(r, n)) + (IF Head(q).n = n THEN 1 ELSE 0)
                <= Cardinality(Copies(q, n))
  <1>1. PICK k \in 1..Len(q) : /\ Len(r) = Len(q) - k
                               /\ \A j \in 1..Len(r) : r[j] = q[j + k]
    BY CoalescedSuffix
  <1>2. r \in Seq(LinkMsg) /\ Len(q) \in Nat \ {0} /\ Head(q) = q[1] /\ k \in Nat \ {0}
    BY CoalescedSuffix
  <1> DEFINE rest == Copies(q, n) \ {1}
             f == [j \in Copies(r, n) |-> j + k]
  <1>3. \A j \in Copies(r, n) : j \in Nat /\ j + k \in rest
    BY <1>1, <1>2 DEF Copies
  <1>4. f \in [Copies(r, n) -> rest]
    BY <1>3
  <1>5. IsInjective(f)
    BY <1>2, <1>3 DEF IsInjective
  <1>6. f \in Injection(Copies(r, n), rest)
    BY <1>4, <1>5 DEF Injection
  <1>7. /\ IsFiniteSet(rest)
        /\ Cardinality(rest) = IF 1 \in Copies(q, n) THEN Cardinality(Copies(q, n)) - 1
                               ELSE Cardinality(Copies(q, n))
    BY CopiesFinite, FS_RemoveElement
  <1>8. 1 \in Copies(q, n) <=> Head(q).n = n
    BY <1>2 DEF Copies
  <1>9. IsFiniteSet(Copies(r, n)) /\ Cardinality(Copies(r, n)) <= Cardinality(rest)
    BY <1>6, <1>7, FS_Injection
  <1>10. Cardinality(Copies(r, n)) \in Nat /\ Cardinality(Copies(q, n)) \in Nat
    BY <1>2, CopiesFinite
  <1> QED  BY <1>7, <1>8, <1>9, <1>10

-----------------------------------------------------------------------------
(* The link is a session.                                                  *)

\* What is in the streams.
LEMMA StreamTypes ==
    ASSUME LinkTypeOK
    PROVE  /\ up \in Seq(LinkMsg) /\ down \in Seq(Packets)
           /\ up # <<>> => /\ Head(up) \in LinkMsg /\ Head(up) = up[1]
                           /\ Head(up).packet \in Packets
                           /\ Head(up).n \in Number \cup {NoNumber}
           /\ down # <<>> => Head(down) \in Packets /\ Head(down) = down[1]
  <1>1. up \in Seq(LinkMsg) /\ down \in Seq(Packets)
    BY DEF LinkTypeOK, LinkMsg
  <1>2. up # <<>> => Head(up) \in LinkMsg /\ Head(up) = up[1]
    BY <1>1
  <1>3. down # <<>> => Head(down) \in Packets /\ Head(down) = down[1]
    BY <1>1
  <1> QED  BY <1>1, <1>2, <1>3 DEF LinkMsg

LEMMA PacketTypes ==
    ASSUME NEW pkt \in Packets
    PROVE  /\ pkt.pid \in Pid
           /\ pkt.kind \in {"Publish", "Puback", "Pubrec", "Pubrel", "Pubcomp"}
           /\ pkt.kind = "Publish" => pkt.qos \in {1, 2}
  BY DEF Packets, Publishes, Acks

\* Every step of the link is a step of the session, or none.
LEMMA LinkIsSession ==
    ASSUME LinkTypeOK, [LinkNext]_allVars
    PROVE  [Next]_vars
  <1>1. ASSUME LinkRecv PROVE Next
    <2>1. Head(up).packet \in Packets /\ Handle(Head(up).packet)
      BY <1>1, StreamTypes DEF LinkRecv
    <2>2. Head(up).packet.pid \in Pid
      BY <2>1, PacketTypes
    <2>3. ClientStep(Head(up).packet.pid)
      BY <2>1 DEF Handle, ClientStep
    <2> QED  BY <2>2, <2>3 DEF Next
  <1>2. CASE \E q \in {1, 2} : CliPublish(q)
    BY <1>2 DEF CliPublish
  <1>3. CASE CliSubscribe \/ CliInterrupt \/ CliStep
    BY <1>3 DEF CliSubscribe, CliInterrupt, CliStep, CliRecv, CliResends, CliGivesUp,
                CliFails
  <1>4. CASE \/ LinkWritten \/ LinkHandedOver \/ LinkInboxStep \/ LinkSends \/ LinkEnds
             \/ SessionDropped
    BY <1>4 DEF LinkWritten, LinkHandedOver, LinkInboxStep, LinkSends, LinkEnds, Next
  <1>5. ASSUME NEW k \in Task, LinkRetries(k) \/ RetryGivesUp(k) PROVE Next
    BY <1>5 DEF LinkRetries, Next
  <1>6. CASE UNCHANGED allVars
    BY <1>6 DEF allVars
  <1> QED  BY <1>1, <1>2, <1>3, <1>4, <1>5, <1>6 DEF LinkNext

-----------------------------------------------------------------------------
(* Types and budgets.                                                      *)

\* What the command's numbers are.
LEMMA LinkNumbers ==
    ASSUME LinkTypeOK
    PROVE  /\ cli.retries \in Nat /\ cli.attempt \in Nat /\ issued \in Nat /\ sends \in Nat
           /\ cli.retries <= CliRetries /\ cli.attempt <= CliRetries
           /\ issued <= MaxTraffic /\ sends <= MaxTraffic
           /\ CliRetries \in Nat /\ MaxTraffic \in Nat
           /\ \A n \in Number : /\ n \in Nat /\ n # 0 /\ handed[n] \in Nat
                                /\ resent[n] \in Nat /\ resent[n] <= CliRetries
           /\ issued # 0 => issued \in Number
           /\ NoNumber \notin Number
  BY CliRetriesAssumption, TrafficAssumption DEF LinkTypeOK, Number, NoNumber

\* A command that begins has its whole budget.
LEMMA AtType ==
    ASSUME NEW s \in {"idle", "puback", "pubrec", "pubcomp", "subscribed", "pubrel"},
           NEW p \in Pid
    PROVE  /\ At(s, p) \in [at : {"idle", "puback", "pubrec", "pubcomp", "subscribed",
                                 "pubrel"},
                           pid : Pid, retries : 0..CliRetries, attempt : 0..CliRetries]
           /\ At(s, p).at = s /\ At(s, p).retries = 0 /\ At(s, p).attempt = 0
  BY CliRetriesAssumption DEF At

\* The stream after a sending.
LEMMA SendsType ==
    ASSUME LinkTypeOK, NEW pkt \in Packets, NEW n \in Number \cup {NoNumber},
           CliSends(pkt, n)
    PROVE  up' \in Seq(LinkMsg)
  <1>1. [packet |-> pkt, n |-> n] \in LinkMsg
    BY DEF LinkMsg
  <1> QED  BY <1>1, StreamTypes DEF CliSends

\* The packets a command sends.
LEMMA LastSentType ==
    ASSUME LinkTypeOK, Publishing \/ Retrying
    PROVE  /\ LastSent \in Packets
           /\ LastSent.kind = "Publish" <=> cli.at \in {"puback", "pubrec"}
  <1>1. cli.pid \in Pid /\ cli.at \in {"puback", "pubrec", "pubcomp", "pubrel"}
    BY DEF LinkTypeOK, Publishing, Retrying
  <1>2. CASE cli.at \in {"puback", "pubrec"}
    <2>1. LastSent \in Publishes
      BY <1>1, <1>2 DEF LastSent, Publish, Publishes
    <2> QED  BY <1>2, <2>1 DEF Packets, Publishes
  <1>3. CASE cli.at \in {"pubcomp", "pubrel"}
    <2>1. LastSent \in Acks
      BY <1>1, <1>3 DEF LastSent, Ack, Acks
    <2> QED  BY <1>3, <2>1 DEF Packets, Acks
  <1> QED  BY <1>1, <1>2, <1>3

\* CliPublish.
LEMMA CliPublishTypes ==
    ASSUME LinkTypeOK, BudgetInv, NEW q \in {1, 2}, CliPublish(q)
    PROVE  LinkTypeOK' /\ BudgetInv'
  <1> DEFINE s == IF q = 1 THEN "puback" ELSE "pubrec"
  <1>1. /\ issued' = issued + 1 /\ issued + 1 <= MaxTraffic
        /\ CliSends(Publish(q, CliPid), issued + 1) /\ cli' = At(s, CliPid)
        /\ UNCHANGED <<inbox, down, holding, handed, outcome, resent, repeated, sends>>
    BY LinkNumbers DEF CliPublish, vars
  <1>2. issued + 1 \in Number /\ issued + 1 \in 0..MaxTraffic /\ issued + 1 # 0
    BY <1>1, LinkNumbers DEF Number
  <1>3. Publish(q, CliPid) \in Packets
    BY CliPidAssumption DEF Publish, Packets, Publishes
  <1>4. up' \in Seq(LinkMsg)
    BY <1>1, <1>2, <1>3, SendsType
  <1>5. /\ cli' \in [at : {"idle", "puback", "pubrec", "pubcomp", "subscribed", "pubrel"},
                     pid : Pid, retries : 0..CliRetries, attempt : 0..CliRetries]
        /\ cli'.at = s /\ cli'.retries = 0 /\ cli'.attempt = 0
    BY <1>1, AtType, CliPidAssumption
  <1>6. LinkTypeOK'
    BY <1>1, <1>2, <1>4, <1>5 DEF LinkTypeOK, LinkMsg
  <1>7. resent[issued + 1] = 0
    BY <1>2, LinkNumbers DEF BudgetInv
  <1>8. \A n \in Number : n > issued + 1 => n > issued
    BY LinkNumbers
  <1> QED  BY <1>1, <1>2, <1>5, <1>6, <1>7, <1>8, LinkNumbers DEF BudgetInv, Publishing

\* The command returns: CliGivesUp, CliFails and CliInterrupt, and CliRecv when
\* the last answer comes.
LEMMA ReturnTypes ==
    ASSUME LinkTypeOK, BudgetInv, NEW result \in {"ok", "failed"}, CliReturns(result),
           down' \in Seq(Packets),
           UNCHANGED <<inbox, issued, up, holding, handed, resent, repeated, sends>>
    PROVE  LinkTypeOK' /\ BudgetInv'
  <1>1. /\ cli' \in [at : {"idle", "puback", "pubrec", "pubcomp", "subscribed", "pubrel"},
                     pid : Pid, retries : 0..CliRetries, attempt : 0..CliRetries]
        /\ cli'.at = "idle" /\ cli'.retries = 0 /\ cli'.attempt = 0
    BY AtType, CliPidAssumption DEF CliReturns
  <1>2. outcome' \in [Number -> {"none", "ok", "failed"}]
    BY DEF CliReturns, LinkTypeOK
  <1>3. LinkTypeOK'
    BY <1>1, <1>2 DEF LinkTypeOK
  <1> QED  BY <1>1, <1>3 DEF BudgetInv, Publishing

\* CliSubscribe, and CliRecv when a command sends an acknowledgement.
LEMMA AckTypes ==
    ASSUME LinkTypeOK, BudgetInv, NEW s \in {"pubcomp", "pubrel", "subscribed"},
           NEW p \in Pid, cli' = At(s, p), s = "pubcomp" => issued # 0,
           up' \in Seq(LinkMsg), down' \in Seq(Packets),
           UNCHANGED <<inbox, issued, holding, handed, outcome, resent, repeated, sends>>
    PROVE  LinkTypeOK' /\ BudgetInv'
  <1>1. /\ cli' \in [at : {"idle", "puback", "pubrec", "pubcomp", "subscribed", "pubrel"},
                     pid : Pid, retries : 0..CliRetries, attempt : 0..CliRetries]
        /\ cli'.at = s /\ cli'.retries = 0 /\ cli'.attempt = 0
    BY AtType
  <1>2. LinkTypeOK'
    BY <1>1 DEF LinkTypeOK, LinkMsg
  <1> QED  BY <1>1, <1>2 DEF BudgetInv, Publishing

\* CliIgnores, and the timeouts that CliResends counts.
LEMMA ChargeTypes ==
    ASSUME LinkTypeOK, NEW r \in 0..CliRetries, NEW a \in 0..CliRetries,
           cli' = [cli EXCEPT !.retries = r, !.attempt = a]
    PROVE  /\ cli' \in [at : {"idle", "puback", "pubrec", "pubcomp", "subscribed", "pubrel"},
                        pid : Pid, retries : 0..CliRetries, attempt : 0..CliRetries]
           /\ cli'.at = cli.at /\ cli'.retries = r /\ cli'.attempt = a
  BY DEF LinkTypeOK

\* The acknowledgements of CliAnswers.
LEMMA CliAcksShape ==
    ASSUME LinkTypeOK, NEW kind \in {"Puback", "Pubrec", "Pubrel", "Pubcomp"},
           NEW p \in Pid, NEW s, CliAcks(kind, p, s)
    PROVE  /\ up' = Append(up, [packet |-> Ack(kind, p), n |-> NoNumber])
           /\ [packet |-> Ack(kind, p), n |-> NoNumber] \in LinkMsg
           /\ up' \in Seq(LinkMsg) /\ cli' = At(s, p) /\ outcome' = outcome
  <1>1. Ack(kind, p) \in Packets
    BY AckType
  <1>2. [packet |-> Ack(kind, p), n |-> NoNumber] \in LinkMsg
    BY <1>1 DEF LinkMsg
  <1> QED  BY <1>1, <1>2, SendsType DEF CliAcks, CliSends

\* The cases of CliRecv.
LEMMA CliRecvCases ==
    ASSUME LinkTypeOK, CliRecv
    PROVE  /\ Coalesced(down, down') /\ down' \in Seq(Packets) /\ down # <<>>
           /\ Head(down) \in Packets /\ Head(down) = down[1]
           /\ cli.at # "idle"
           /\ UNCHANGED <<vars, issued, holding, handed, resent, repeated, sends>>
           /\ \/ /\ cli.at = "puback" /\ Head(down).kind = "Puback"
                 /\ CliReturns("ok") /\ up' = up
              \/ /\ cli.at = "pubcomp" /\ Head(down).kind = "Pubcomp"
                 /\ CliReturns("ok") /\ up' = up
              \/ /\ cli.at = "pubrec" /\ Head(down).kind = "Pubrec"
                 /\ CliAcks("Pubrel", Head(down).pid, "pubcomp")
              \/ cli.at = "pubrel" /\ CliAcks("Pubcomp", Head(down).pid, "subscribed")
              \/ cli.at = "subscribed" /\ CliAcks("Puback", Head(down).pid, "subscribed")
              \/ cli.at = "subscribed" /\ CliAcks("Pubrec", Head(down).pid, "pubrel")
              \/ CliIgnores /\ ~(Retrying /\ Spent)
  <1>1. /\ Coalesced(down, down') /\ down # <<>> /\ cli.at # "idle"
        /\ UNCHANGED <<vars, issued, holding, handed, resent, repeated, sends>>
        /\ ~(Retrying /\ Spent)
        /\ IF Awaited(Head(down)) THEN CliAnswers(Head(down)) ELSE CliIgnores
    BY DEF CliRecv
  <1>2. /\ Head(down) \in Packets /\ Head(down) = down[1] /\ down' \in Seq(Packets)
    BY <1>1, StreamTypes, CoalescedSuffix
  <1>3. Awaited(Head(down)) =>
           /\ cli.at = "puback" => Head(down).kind = "Puback"
           /\ cli.at = "pubrec" => Head(down).kind = "Pubrec"
           /\ cli.at = "pubcomp" => Head(down).kind = "Pubcomp"
    <2>1. \A kind, p : Ack(kind, p).kind = kind
      BY DEF Ack
    <2>2. cli.at = "puback" /\ Awaited(Head(down)) => Head(down) = Ack("Puback", cli.pid)
      BY DEF Awaited
    <2>3. cli.at = "pubrec" /\ Awaited(Head(down)) => Head(down) = Ack("Pubrec", cli.pid)
      BY DEF Awaited
    <2>4. cli.at = "pubcomp" /\ Awaited(Head(down)) => Head(down) = Ack("Pubcomp", cli.pid)
      BY DEF Awaited
    <2> QED  BY <2>1, <2>2, <2>3, <2>4
  <1> QED  BY <1>1, <1>2, <1>3 DEF CliAnswers

\* CliRecv.
LEMMA CliRecvTypes ==
    ASSUME LinkTypeOK, BudgetInv, CliRecv
    PROVE  LinkTypeOK' /\ BudgetInv'
  <1>1. /\ down' \in Seq(Packets) /\ Head(down) \in Packets
        /\ UNCHANGED <<inbox, issued, holding, handed, resent, repeated, sends>>
    BY CliRecvCases DEF vars
  <1>2. Head(down).pid \in Pid
    BY <1>1, PacketTypes
  <1>3. CASE CliReturns("ok") /\ up' = up
    BY <1>1, <1>3, ReturnTypes
  <1>4. CASE cli.at = "pubrec" /\ CliAcks("Pubrel", Head(down).pid, "pubcomp")
    <2>1. issued # 0
      BY <1>4 DEF BudgetInv, Publishing
    <2> QED  BY <1>1, <1>2, <1>4, <2>1, CliAcksShape, AckTypes
  <1>5. CASE \/ CliAcks("Pubcomp", Head(down).pid, "subscribed")
             \/ CliAcks("Puback", Head(down).pid, "subscribed")
    BY <1>1, <1>2, <1>5, CliAcksShape, AckTypes
  <1>6. CASE CliAcks("Pubrec", Head(down).pid, "pubrel")
    BY <1>1, <1>2, <1>6, CliAcksShape, AckTypes
  <1>7. CASE CliIgnores /\ ~(Retrying /\ Spent)
    <2>1. UNCHANGED <<up, outcome>>
      BY <1>7 DEF CliIgnores
    <2>2. CASE ~Retrying
      <3>1. cli' = cli
        BY <1>7, <2>2 DEF CliIgnores
      <3> QED  BY <1>1, <2>1, <3>1 DEF LinkTypeOK, BudgetInv, Publishing
    <2>3. CASE Retrying
      <3> DEFINE r == cli.retries + cli.attempt
      <3>1. r \in 0..CliRetries /\ 0 \in 0..CliRetries /\ r \in Nat
        BY <1>7, <2>3, LinkNumbers DEF Spent
      <3>2. cli' = [cli EXCEPT !.retries = r, !.attempt = 0]
        BY <1>7, <2>3 DEF CliIgnores, LinkTypeOK
      <3>3. /\ cli' \in [at : {"idle", "puback", "pubrec", "pubcomp", "subscribed", "pubrel"},
                         pid : Pid, retries : 0..CliRetries, attempt : 0..CliRetries]
            /\ cli'.at = cli.at /\ cli'.retries = r /\ cli'.attempt = 0
        BY <3>1, <3>2, ChargeTypes
      <3>4. cli'.retries + cli'.attempt = cli.retries + cli.attempt
        BY <3>1, <3>3
      <3>5. LinkTypeOK'
        BY <1>1, <2>1, <3>3 DEF LinkTypeOK
      <3>6. ~repeated => r = 0
        BY DEF BudgetInv
      <3> QED  BY <1>1, <3>3, <3>4, <3>5, <3>6 DEF BudgetInv, Publishing
    <2> QED  BY <2>2, <2>3
  <1> QED  BY <1>3, <1>4, <1>5, <1>6, <1>7, CliRecvCases

\* CliResends.
LEMMA CliResendsTypes ==
    ASSUME LinkTypeOK, BudgetInv, CliResends
    PROVE  LinkTypeOK' /\ BudgetInv'
  <1>1. /\ repeated' = TRUE
        /\ UNCHANGED <<inbox, issued, down, holding, handed, outcome, sends>>
    BY DEF CliResends, vars
  <1>2. ~Spent /\ (Publishing \/ Retrying) /\ cli' = Counted
    BY DEF CliResends
  <1>3. LastSent \in Packets /\ (LastSent.kind = "Publish" <=> cli.at \in {"puback", "pubrec"})
    BY <1>2, LastSentType
  <1>4. cli.retries + cli.attempt < CliRetries
    BY <1>2, LinkNumbers DEF Spent
  <1>5. /\ cli' \in [at : {"idle", "puback", "pubrec", "pubcomp", "subscribed", "pubrel"},
                     pid : Pid, retries : 0..CliRetries, attempt : 0..CliRetries]
        /\ cli'.at = cli.at
        /\ cli'.retries + cli'.attempt = cli.retries + cli.attempt + 1
    <2>1. cli.retries + 1 \in 0..CliRetries /\ cli.attempt + 1 \in 0..CliRetries
      BY <1>4, LinkNumbers
    <2>2. cli.retries \in 0..CliRetries /\ cli.attempt \in 0..CliRetries
      BY LinkNumbers
    <2>3. CASE cli.at = "puback"
      <3>1. cli' = [cli EXCEPT !.retries = cli.retries + 1, !.attempt = cli.attempt]
        BY <1>2, <2>3 DEF Counted, LinkTypeOK
      <3>2. /\ cli' \in [at : {"idle", "puback", "pubrec", "pubcomp", "subscribed", "pubrel"},
                         pid : Pid, retries : 0..CliRetries, attempt : 0..CliRetries]
            /\ cli'.at = cli.at /\ cli'.retries = cli.retries + 1
            /\ cli'.attempt = cli.attempt
        BY <2>1, <2>2, <3>1, ChargeTypes
      <3> QED  BY <3>2, LinkNumbers
    <2>4. CASE cli.at # "puback"
      <3>1. cli' = [cli EXCEPT !.retries = cli.retries, !.attempt = cli.attempt + 1]
        BY <1>2, <2>4 DEF Counted, LinkTypeOK
      <3>2. /\ cli' \in [at : {"idle", "puback", "pubrec", "pubcomp", "subscribed", "pubrel"},
                         pid : Pid, retries : 0..CliRetries, attempt : 0..CliRetries]
            /\ cli'.at = cli.at /\ cli'.retries = cli.retries
            /\ cli'.attempt = cli.attempt + 1
        BY <2>1, <2>2, <3>1, ChargeTypes
      <3> QED  BY <3>2, LinkNumbers
    <2> QED  BY <2>3, <2>4
  <1>6. CASE cli.at \in {"puback", "pubrec"}
    <2>1. CliSends(LastSent, issued) /\ resent' = [resent EXCEPT ![issued] = @ + 1]
      BY <1>3, <1>6 DEF CliResends
    <2>2. issued # 0 /\ issued \in Number
      BY <1>6, LinkNumbers DEF BudgetInv, Publishing
    <2>3. up' \in Seq(LinkMsg)
      BY <1>3, <2>1, <2>2, SendsType
    <2>4. resent[issued] <= cli.retries + cli.attempt
      BY <1>6 DEF BudgetInv
    <2>5. resent[issued] + 1 \in 0..CliRetries
      BY <1>4, <2>2, <2>4, LinkNumbers
    <2>6. /\ resent' \in [Number -> 0..CliRetries] /\ resent'[issued] = resent[issued] + 1
          /\ \A n \in Number : n # issued => resent'[n] = resent[n]
      BY <2>1, <2>2, <2>5 DEF LinkTypeOK
    <2>7. LinkTypeOK'
      BY <1>1, <1>5, <2>3, <2>6 DEF LinkTypeOK, LinkMsg
    <2>8. resent'[issued] <= cli'.retries + cli'.attempt
      BY <1>5, <2>2, <2>4, <2>6, LinkNumbers
    <2>9. \A n \in Number : n > issued => n # issued
      BY LinkNumbers
    <2>10. \A n \in Number : n > issued' => resent'[n] = 0
      BY <1>1, <2>6, <2>9 DEF BudgetInv
    <2> QED  BY <1>1, <1>5, <2>2, <2>7, <2>8, <2>10 DEF BudgetInv, Publishing
  <1>7. CASE cli.at \notin {"puback", "pubrec"}
    <2>1. CliSends(LastSent, NoNumber) /\ resent' = resent
      BY <1>3, <1>7 DEF CliResends
    <2>2. up' \in Seq(LinkMsg)
      BY <1>3, <2>1, SendsType
    <2>3. LinkTypeOK'
      BY <1>1, <1>5, <2>1, <2>2 DEF LinkTypeOK, LinkMsg
    <2> QED  BY <1>1, <1>5, <1>7, <2>1, <2>3 DEF BudgetInv, Publishing
  <1> QED  BY <1>6, <1>7

\* The session's steps leave the command's numbers alone.
LEMMA SessionTypes ==
    ASSUME LinkTypeOK, BudgetInv, UNCHANGED <<cli, issued, outcome, resent>>,
           up' \in Seq(LinkMsg), down' \in Seq(Packets),
           holding' \in Number \cup {NoNumber}, handed' \in [Number -> Nat],
           sends' \in 0..MaxTraffic, repeated' \in BOOLEAN, repeated => repeated',
           ~repeated' => \/ inbox' = inbox
                         \/ \A k \in 1..Len(inbox') : inbox'[k].type = "Publish"
    PROVE  LinkTypeOK' /\ BudgetInv'
  <1>1. LinkTypeOK'
    BY DEF LinkTypeOK, LinkMsg
  <1>2. BudgetInv'
    BY DEF BudgetInv, Publishing
  <1> QED  BY <1>1, <1>2

\* What a packet makes the session do.
LEMMA HandleShape ==
    ASSUME NEW pkt \in Packets, Handle(pkt)
    PROVE  /\ open /\ writing = NoWrite /\ UNCHANGED <<open, inbox>>
           /\ ~writing'.acked
           /\ \/ /\ pkt.kind = "Publish" /\ writing'.forward = TRUE
                 /\ writing' # NoWrite /\ writing'.packet.kind \in {"Puback", "Pubrec"}
              \/ /\ pkt.kind \in {"Puback", "Pubcomp"} /\ writing' = writing
              \/ /\ pkt.kind = "Pubrec" /\ writing'.forward = FALSE
                 /\ writing'.packet.kind = "Pubrel"
              \/ /\ pkt.kind = "Pubrel" /\ writing'.forward = FALSE
                 /\ writing'.packet.kind = "Pubcomp"
  <1>1. \A kind, p : Ack(kind, p).kind = kind
    BY DEF Ack
  <1>2. ASSUME NEW a, NEW then, NEW forward, StartWrite(a, then, forward)
        PROVE  /\ writing'.packet = a /\ writing'.forward = forward
               /\ ~writing'.acked /\ (forward = TRUE => writing' # NoWrite)
    BY <1>2 DEF StartWrite, NoWrite
  <1>3. CASE pkt.kind = "Publish" /\ pkt.qos = 1 /\ RecvPublish1(pkt.pid)
    <2>1. Idle /\ StartWrite(Ack("Puback", pkt.pid), None, TRUE) /\ UNCHANGED <<open, inbox>>
      BY <1>3 DEF RecvPublish1
    <2>2. /\ writing'.packet = Ack("Puback", pkt.pid) /\ writing'.forward = TRUE
          /\ writing' # NoWrite /\ ~writing'.acked
      BY <1>2, <2>1
    <2> QED  BY <1>1, <1>3, <2>1, <2>2 DEF Idle
  <1>4. CASE pkt.kind = "Publish" /\ pkt.qos = 2 /\ RecvPublish2(pkt.pid)
    <2>1. Idle /\ StartWrite(Ack("Pubrec", pkt.pid), None, TRUE) /\ UNCHANGED <<open, inbox>>
      BY <1>4 DEF RecvPublish2
    <2>2. /\ writing'.packet = Ack("Pubrec", pkt.pid) /\ writing'.forward = TRUE
          /\ writing' # NoWrite /\ ~writing'.acked
      BY <1>2, <2>1
    <2> QED  BY <1>1, <1>4, <2>1, <2>2 DEF Idle
  <1>5. CASE pkt.kind \in {"Puback", "Pubcomp"} /\ RecvFinal(pkt.pid, pkt.kind)
    BY <1>5 DEF RecvFinal, Idle, NoWrite
  <1>6. CASE pkt.kind = "Pubrec" /\ RecvPubrec(pkt.pid)
    <2>1. /\ Idle /\ UNCHANGED <<open, inbox>>
          /\ StartWrite(Ack("Pubrel", pkt.pid), Ack("Pubrel", pkt.pid), FALSE)
      BY <1>6 DEF RecvPubrec
    <2>2. /\ writing'.packet = Ack("Pubrel", pkt.pid) /\ writing'.forward = FALSE
          /\ ~writing'.acked
      BY <1>2, <2>1
    <2> QED  BY <1>1, <1>6, <2>1, <2>2 DEF Idle
  <1>7. CASE pkt.kind = "Pubrel" /\ RecvPubrel(pkt.pid)
    <2>1. /\ Idle /\ UNCHANGED <<open, inbox>>
          /\ StartWrite(Ack("Pubcomp", pkt.pid), Ack("Pubcomp", pkt.pid), FALSE)
      BY <1>7 DEF RecvPubrel
    <2>2. /\ writing'.packet = Ack("Pubcomp", pkt.pid) /\ writing'.forward = FALSE
          /\ ~writing'.acked
      BY <1>2, <2>1
    <2> QED  BY <1>1, <1>7, <2>1, <2>2 DEF Idle
  <1> QED  BY <1>3, <1>4, <1>5, <1>6, <1>7 DEF Handle

\* LinkWritten: the handler goes on holding what it is to hand over.
LEMMA WrittenShape ==
    ASSUME IInv, LinkWritten
    PROVE  /\ open /\ writing \in Write /\ writing # NoWrite /\ ~writing.acked
           /\ down' = Append(down, writing.packet) /\ writing.packet \in Packets
           /\ UNCHANGED <<open, inbox, cli, issued, up, handed, outcome, resent,
                          repeated, sends>>
           /\ \/ /\ writing.forward /\ writing'.forward /\ writing'.acked
                 /\ holding' = holding
              \/ /\ ~writing.forward /\ writing' = NoWrite
                 /\ holding' = NoNumber
  <1>1. /\ open /\ writing # NoWrite /\ ~writing.acked
        /\ UNCHANGED <<open, inbox, cli, issued, up, handed, outcome, resent,
                       repeated, sends>>
        /\ writing' = IF writing.forward THEN [writing EXCEPT !.acked = TRUE] ELSE NoWrite
        /\ holding' = IF writing.forward THEN holding ELSE NoNumber
        /\ down' = Append(down, writing.packet)
    BY DEF LinkWritten, Written
  <1>2. writing \in Write
    BY <1>1 DEF IInv, RestInv
  <1>3. writing.packet \in Packets
    BY <1>2 DEF Write
  <1>4. [writing EXCEPT !.acked = TRUE].forward = writing.forward
    BY <1>2 DEF Write
  <1>5. [writing EXCEPT !.acked = TRUE].acked = TRUE
    BY <1>2 DEF Write
  <1> QED  BY <1>1, <1>2, <1>3, <1>4, <1>5

\* LinkHandedOver: the message being held is handed over.
LEMMA HandedShape ==
    ASSUME LinkTypeOK, LinkHandedOver
    PROVE  /\ open /\ writing.acked /\ writing' = NoWrite /\ holding' = NoNumber
           /\ UNCHANGED <<open, inbox, cli, issued, up, down, outcome, resent,
                          repeated, sends>>
           /\ handed' \in [Number -> Nat]
           /\ \A n \in Number : handed'[n] = handed[n] + Held(n)
  <1>1. handed \in [Number -> Nat]
    BY DEF LinkTypeOK
  <1>2. \A n \in Number : handed[n] \in Nat /\ handed[n] + 1 \in Nat /\ handed[n] + 0 = handed[n]
    BY <1>1
  <1>3. /\ open /\ writing.acked /\ writing' = NoWrite /\ holding' = NoNumber
        /\ UNCHANGED <<open, inbox, cli, issued, up, down, outcome, resent, repeated,
                       sends>>
        /\ handed' = [handed EXCEPT ![holding] = @ + 1]
    BY DEF LinkHandedOver, HandedOver
  <1>4. CASE holding \in Number
    <2>1. /\ handed' \in [Number -> Nat] /\ handed'[holding] = handed[holding] + 1
          /\ \A n \in Number : n # holding => handed'[n] = handed[n]
      BY <1>1, <1>2, <1>3, <1>4
    <2> QED  BY <1>2, <1>3, <1>4, <2>1 DEF Held
  <1>5. CASE holding \notin Number
    <2>1. handed' = handed
      BY <1>1, <1>3, <1>5
    <2>2. \A n \in Number : Held(n) = 0
      BY <1>5 DEF Held
    <2> QED  BY <1>1, <1>2, <1>3, <2>1, <2>2
  <1> QED  BY <1>4, <1>5

\* The messages in the session's channel are those of other clients, unless
\* something was repeated.
LEMMA InboxPublishes ==
    ASSUME IInv, BudgetInv, ~repeated, inbox # <<>>
    PROVE  /\ Head(inbox).type = "Publish"
           /\ \A k \in 1..Len(Tail(inbox)) : Tail(inbox)[k].type = "Publish"
  <1>1. inbox \in Seq(Msg)
    BY DEF IInv, RestInv
  <1>2. \A k \in 1..Len(inbox) : inbox[k].type = "Publish"
    BY DEF BudgetInv
  <1>3. /\ 1 \in 1..Len(inbox) /\ Head(inbox) = inbox[1]
        /\ \A k \in 1..Len(Tail(inbox)) : Tail(inbox)[k] = inbox[k + 1] /\ k + 1 \in 1..Len(inbox)
    BY <1>1
  <1> QED  BY <1>2, <1>3

\* LinkSends: what BrokerSends appends.
LEMMA LinkSendsShape ==
    ASSUME IInv, LinkSends
    PROVE  \E m \in Msg : /\ m.type = "Publish" /\ m.packet.qos \in {1, 2}
                          /\ inbox' = Append(inbox, m) /\ sends' = sends + m.packet.qos
  <1>1. PICK q \in {1, 2}, p \in Pid :
           inbox' = Append(inbox, [type |-> "Publish", packet |-> Publish(q, p)])
    BY DEF LinkSends, BrokerSends
  <1> DEFINE m == [type |-> "Publish", packet |-> Publish(q, p)]
  <1>2. m \in Msg /\ m.type = "Publish" /\ m.packet.qos = q
    BY DEF Msg, Publish, Publishes
  <1>3. inbox \in Seq(Msg) /\ inbox' = Append(inbox, m)
    BY <1>1 DEF IInv, RestInv
  <1> HIDE DEF m
  <1>4. inbox'[Len(inbox')] = m
    BY <1>2, <1>3
  <1>5. sends' = sends + m.packet.qos
    BY <1>4 DEF LinkSends
  <1> QED  BY <1>2, <1>3, <1>5

\* Every step of the link keeps the types and the budgets.
LEMMA LinkTypesStep ==
    ASSUME IInv, LinkTypeOK, BudgetInv, [LinkNext]_allVars
    PROVE  LinkTypeOK' /\ BudgetInv'
  <1>1. /\ up \in Seq(LinkMsg) /\ down \in Seq(Packets) /\ sends \in 0..MaxTraffic
        /\ holding \in Number \cup {NoNumber} /\ handed \in [Number -> Nat]
        /\ repeated \in BOOLEAN
    BY DEF LinkTypeOK, LinkMsg
  <1>2. CASE \E q \in {1, 2} : CliPublish(q)
    BY <1>2, CliPublishTypes
  <1>3. CASE CliSubscribe
    BY <1>1, <1>3, AckTypes, CliPidAssumption DEF CliSubscribe, vars
  <1>4. CASE CliInterrupt
    <2>1. down' \in Seq(Packets)
      BY <1>1, <1>4, CoalescedSuffix DEF CliInterrupt
    <2> QED  BY <1>4, <2>1, ReturnTypes DEF CliInterrupt, vars
  <1>5. CASE CliRecv
    BY <1>5, CliRecvTypes
  <1>6. CASE CliResends
    BY <1>6, CliResendsTypes
  <1>7. CASE CliGivesUp \/ CliFails
    BY <1>1, <1>7, ReturnTypes DEF CliGivesUp, CliFails, vars
  <1>8. CASE LinkRecv
    <2>1. Head(up).packet \in Packets /\ Head(up).n \in Number \cup {NoNumber}
      BY <1>8, StreamTypes DEF LinkRecv
    <2>2. up' \in Seq(LinkMsg)
      BY <1>1, <1>8, CoalescedSuffix DEF LinkRecv
    <2>3. inbox' = inbox
      BY <1>8, <2>1, HandleShape DEF LinkRecv
    <2> QED  BY <1>1, <1>8, <2>1, <2>2, <2>3, SessionTypes DEF LinkRecv
  <1>9. CASE LinkWritten \/ LinkHandedOver
    <2>1. CASE LinkWritten
      <3>1. down' \in Seq(Packets) /\ holding' \in Number \cup {NoNumber}
        BY <1>1, <2>1, WrittenShape
      <3> QED  BY <1>1, <2>1, <3>1, WrittenShape, SessionTypes
    <2>2. CASE LinkHandedOver
      BY <1>1, <2>2, HandedShape, SessionTypes
    <2> QED  BY <1>9, <2>1, <2>2
  <1>10. CASE LinkInboxStep
    <2>1. inbox # <<>> /\ inbox' = Tail(inbox)
      BY <1>10 DEF LinkInboxStep, InboxStep, HandleBrokerPublish, HandleQosRetry
    <2>2. ~repeated => \A k \in 1..Len(inbox') : inbox'[k].type = "Publish"
      BY <2>1, InboxPublishes
    <2> QED  BY <1>1, <1>10, <2>2, SessionTypes DEF LinkInboxStep, linkVars
  <1>11. ASSUME NEW k \in Task, LinkRetries(k) PROVE LinkTypeOK' /\ BudgetInv'
    BY <1>1, <1>11, SessionTypes DEF LinkRetries
  <1>12. ASSUME NEW k \in Task, RetryGivesUp(k), UNCHANGED linkVars
         PROVE  LinkTypeOK' /\ BudgetInv'
    BY <1>1, <1>12, SessionTypes DEF RetryGivesUp, linkVars
  <1>13. CASE LinkSends
    <2>1. PICK m \in Msg : /\ m.type = "Publish" /\ m.packet.qos \in {1, 2}
                           /\ inbox' = Append(inbox, m) /\ sends' = sends + m.packet.qos
      BY <1>13, LinkSendsShape
    <2>2. sends' \in 0..MaxTraffic
      BY <1>13, <2>1, LinkNumbers DEF LinkSends
    <2>3. ~repeated => \A k \in 1..Len(inbox') : inbox'[k].type = "Publish"
      <3>1. inbox \in Seq(Msg)
        BY DEF IInv, RestInv
      <3>2. \A k \in 1..Len(inbox') : inbox'[k] = m \/ (k \in 1..Len(inbox) /\ inbox'[k] = inbox[k])
        BY <2>1, <3>1
      <3> QED  BY <2>1, <3>2 DEF BudgetInv
    <2> QED  BY <1>1, <1>13, <2>2, <2>3, SessionTypes DEF LinkSends
  <1>14. CASE LinkEnds
    <2>1. up' \in Seq(LinkMsg) /\ holding' \in Number \cup {NoNumber}
      BY <1>1, <1>14 DEF LinkEnds
    <2>2. \A k \in 1..Len(inbox') : inbox'[k].type = "Publish"
      BY <1>14 DEF LinkEnds, ListenEnds
    <2> QED  BY <1>1, <1>14, <2>1, <2>2, SessionTypes DEF LinkEnds
  <1>15. CASE (SessionDropped /\ UNCHANGED linkVars) \/ UNCHANGED allVars
    BY <1>1, <1>15, SessionTypes DEF SessionDropped, linkVars, allVars, vars
  <1> QED  BY <1>2, <1>3, <1>4, <1>5, <1>6, <1>7, <1>8, <1>9, <1>10, <1>11, <1>12, <1>13,
              <1>14, <1>15 DEF LinkNext, CliStep

-----------------------------------------------------------------------------
(* Copies.                                                                 *)

LEMMA CountNumbers ==
    ASSUME LinkTypeOK
    PROVE  \A n \in Number : /\ handed[n] \in Nat /\ Held(n) \in Nat /\ Made(n) \in Nat
                             /\ Cardinality(Copies(up, n)) \in Nat
  <1>1. \A n \in Number : Cardinality(Copies(up, n)) \in Nat
    BY StreamTypes, CopiesFinite
  <1>2. \A n \in Number : Made(n) \in Nat /\ handed[n] \in Nat
    BY LinkNumbers DEF Made
  <1>3. \A n \in Number : Held(n) \in Nat
    BY DEF Held
  <1> QED  BY <1>1, <1>2, <1>3

\* A step that sends nothing on the stream and takes nothing from it.
LEMMA CountQuiet ==
    ASSUME LinkTypeOK, CountInv, UNCHANGED <<up, handed, issued, resent>>,
           \/ writing' = writing /\ holding' = holding
           \/ ~writing'.forward /\ ~writing'.acked
    PROVE  CountInv'
  <1>1. SUFFICES ASSUME NEW n \in Number
                 PROVE  (handed[n] + Held(n) + Cardinality(Copies(up, n)) <= Made(n))'
    BY DEF CountInv
  <1>2. handed[n] + Held(n) + Cardinality(Copies(up, n)) <= Made(n)
    BY DEF CountInv
  <1>3. Held(n)' = Held(n) \/ Held(n)' = 0
    BY DEF Held
  <1>4. Made(n)' = Made(n) /\ Copies(up, n)' = Copies(up, n) /\ handed'[n] = handed[n]
    BY DEF Made, Copies
  <1> QED  BY <1>2, <1>3, <1>4, CountNumbers

\* A step that sends message m.
LEMMA CountSends ==
    ASSUME LinkTypeOK, CountInv, NEW pkt \in Packets, NEW m \in Number \cup {NoNumber},
           CliSends(pkt, m), UNCHANGED <<handed, writing, holding>>,
           \A n \in Number : /\ Made(n)' \in Nat
                             /\ Made(n)' >= Made(n) + (IF n = m THEN 1 ELSE 0)
    PROVE  CountInv'
  <1>1. SUFFICES ASSUME NEW n \in Number
                 PROVE  (handed[n] + Held(n) + Cardinality(Copies(up, n)) <= Made(n))'
    BY DEF CountInv
  <1>2. handed[n] + Held(n) + Cardinality(Copies(up, n)) <= Made(n)
    BY DEF CountInv
  <1>3. Held(n)' = Held(n) /\ handed'[n] = handed[n]
    BY DEF Held
  <1> DEFINE x == [packet |-> pkt, n |-> m]
  <1>4. up' = Append(up, x) /\ x \in LinkMsg /\ x.n = m
    BY DEF CliSends, LinkMsg
  <1> HIDE DEF x
  <1>5. Cardinality(Copies(up', n)) = Cardinality(Copies(up, n)) + (IF m = n THEN 1 ELSE 0)
    BY <1>4, StreamTypes, CopiesAppend
  <1>6. Made(n)' \in Nat /\ Made(n)' >= Made(n) + (IF n = m THEN 1 ELSE 0)
    OBVIOUS
  <1>7. Copies(up, n)' = Copies(up', n)
    BY DEF Copies
  <1> QED  BY <1>2, <1>3, <1>5, <1>6, <1>7, CountNumbers

\* CliPublish makes the first copy of a new message, CliResends another one of
\* the message of the command that runs.
LEMMA CountMakes ==
    ASSUME LinkTypeOK, BudgetInv, CountInv, (\E q \in {1, 2} : CliPublish(q)) \/ CliResends
    PROVE  CountInv'
  <1>1. ASSUME NEW q \in {1, 2}, CliPublish(q) PROVE CountInv'
    <2>1. /\ issued' = issued + 1 /\ CliSends(Publish(q, CliPid), issued + 1)
          /\ UNCHANGED <<handed, writing, holding, resent>> /\ issued + sends < MaxTraffic
      BY <1>1 DEF CliPublish, vars
    <2>2. issued + 1 \in Number /\ issued \in Nat
      BY <2>1, LinkNumbers DEF Number
    <2>3. Publish(q, CliPid) \in Packets
      BY CliPidAssumption DEF Publish, Packets, Publishes
    <2>4. ASSUME NEW n \in Number
          PROVE  /\ Made(n)' \in Nat
                 /\ Made(n)' >= Made(n) + (IF n = issued + 1 THEN 1 ELSE 0)
      BY <2>1, <2>2, LinkNumbers DEF Made
    <2> QED  BY <2>1, <2>2, <2>3, <2>4, CountSends
  <1>2. ASSUME CliResends PROVE CountInv'
    <2>1. (Publishing \/ Retrying) /\ UNCHANGED <<handed, writing, holding, issued>>
      BY <1>2 DEF CliResends, vars
    <2>2. LastSent \in Packets /\ (LastSent.kind = "Publish" <=> cli.at \in {"puback", "pubrec"})
      BY <2>1, LastSentType
    <2>3. CASE LastSent.kind = "Publish"
      <3>1. CliSends(LastSent, issued) /\ resent' = [resent EXCEPT ![issued] = @ + 1]
        BY <1>2, <2>3 DEF CliResends
      <3>2. issued \in Number
        BY <2>2, <2>3, LinkNumbers DEF BudgetInv, Publishing
      <3>3. \A n \in Number : resent'[n] = resent[n] + (IF n = issued THEN 1 ELSE 0)
        BY <3>1, <3>2, LinkNumbers DEF LinkTypeOK
      <3>4. ASSUME NEW n \in Number
            PROVE  /\ Made(n)' \in Nat
                   /\ Made(n)' >= Made(n) + (IF n = issued THEN 1 ELSE 0)
        BY <2>1, <3>2, <3>3, LinkNumbers DEF Made
      <3> QED  BY <2>1, <2>2, <3>1, <3>2, <3>4, CountSends
    <2>4. CASE LastSent.kind # "Publish"
      <3>1. CliSends(LastSent, NoNumber) /\ resent' = resent
        BY <1>2, <2>4 DEF CliResends
      <3>2. ASSUME NEW n \in Number
            PROVE  /\ Made(n)' \in Nat
                   /\ Made(n)' >= Made(n) + (IF n = NoNumber THEN 1 ELSE 0)
        <4>1. Made(n)' = Made(n) /\ n # NoNumber
          BY <2>1, <3>1, LinkNumbers DEF Made
        <4> QED  BY <4>1, CountNumbers
      <3> QED  BY <2>1, <2>2, <3>1, <3>2, CountSends
    <2> QED  BY <2>3, <2>4
  <1> QED  BY <1>1, <1>2

\* An acknowledgement is no copy of a message.
LEMMA CountAcks ==
    ASSUME LinkTypeOK, CountInv, NEW kind \in {"Puback", "Pubrec", "Pubrel", "Pubcomp"},
           NEW p \in Pid, CliSends(Ack(kind, p), NoNumber),
           UNCHANGED <<handed, writing, holding, issued, resent>>
    PROVE  CountInv'
  <1>1. Ack(kind, p) \in Packets
    BY DEF Ack, Packets, Acks
  <1>2. ASSUME NEW n \in Number
        PROVE  Made(n)' \in Nat /\ Made(n)' >= Made(n) + (IF n = NoNumber THEN 1 ELSE 0)
    <2>1. Made(n)' = Made(n) /\ n # NoNumber
      BY LinkNumbers DEF Made
    <2> QED  BY <2>1, CountNumbers
  <1> QED  BY <1>1, <1>2, CountSends

\* LinkRecv takes a copy from the stream, which the handler holds if it is to
\* be handed over.
LEMMA CountRecv ==
    ASSUME LinkTypeOK, CountInv, LinkRecv
    PROVE  CountInv'
  <1>1. SUFFICES ASSUME NEW n \in Number
                 PROVE  (handed[n] + Held(n) + Cardinality(Copies(up, n)) <= Made(n))'
    BY DEF CountInv
  <1>2. handed[n] + Held(n) + Cardinality(Copies(up, n)) <= Made(n)
    BY DEF CountInv
  <1>3. /\ Coalesced(up, up') /\ holding' = Head(up).n
        /\ UNCHANGED <<issued, handed, resent>>
    BY DEF LinkRecv
  <1>4. /\ Cardinality(Copies(up', n)) \in Nat
        /\ Cardinality(Copies(up', n)) + (IF Head(up).n = n THEN 1 ELSE 0)
             <= Cardinality(Copies(up, n))
    BY <1>3, StreamTypes, CopiesCoalesced
  <1>5. Held(n)' \in Nat /\ Held(n)' <= (IF Head(up).n = n THEN 1 ELSE 0)
    BY <1>3 DEF Held
  <1>6. Made(n)' = Made(n) /\ Copies(up, n)' = Copies(up', n) /\ handed'[n] = handed[n]
    BY <1>3 DEF Made, Copies
  <1> QED  BY <1>2, <1>4, <1>5, <1>6, CountNumbers

\* LinkWritten keeps what is held.
LEMMA CountWritten ==
    ASSUME IInv, LinkTypeOK, CountInv, LinkWritten
    PROVE  CountInv'
  <1>1. SUFFICES ASSUME NEW n \in Number
                 PROVE  (handed[n] + Held(n) + Cardinality(Copies(up, n)) <= Made(n))'
    BY DEF CountInv
  <1>2. handed[n] + Held(n) + Cardinality(Copies(up, n)) <= Made(n)
    BY DEF CountInv
  <1>3. UNCHANGED <<up, issued, resent, handed>>
    BY WrittenShape
  <1>4. Held(n)' = Held(n)
    <2>1. CASE writing.forward
      BY <2>1, WrittenShape DEF Held
    <2>2. CASE ~writing.forward
      BY <2>2, WrittenShape DEF Held, NoWrite
    <2> QED  BY <2>1, <2>2
  <1>5. Made(n)' = Made(n) /\ Copies(up, n)' = Copies(up, n)
    BY <1>3 DEF Made, Copies
  <1> QED  BY <1>2, <1>3, <1>4, <1>5, CountNumbers

\* LinkHandedOver hands over what is held.
LEMMA CountHanded ==
    ASSUME LinkTypeOK, CountInv, LinkHandedOver
    PROVE  CountInv'
  <1>1. SUFFICES ASSUME NEW n \in Number
                 PROVE  (handed[n] + Held(n) + Cardinality(Copies(up, n)) <= Made(n))'
    BY DEF CountInv
  <1>2. handed[n] + Held(n) + Cardinality(Copies(up, n)) <= Made(n)
    BY DEF CountInv
  <1>3. handed'[n] = handed[n] + Held(n)
    BY HandedShape
  <1>4. writing' = NoWrite /\ UNCHANGED <<up, issued, resent>>
    BY HandedShape
  <1>5. Held(n)' = 0 /\ Made(n)' = Made(n) /\ Copies(up, n)' = Copies(up, n)
    BY <1>4 DEF Held, NoWrite, Made, Copies
  <1> QED  BY <1>2, <1>3, <1>5, CountNumbers

\* LinkEnds loses what is on the stream.
LEMMA CountEnds ==
    ASSUME LinkTypeOK, CountInv, LinkEnds
    PROVE  CountInv'
  <1>1. SUFFICES ASSUME NEW n \in Number
                 PROVE  (handed[n] + Held(n) + Cardinality(Copies(up, n)) <= Made(n))'
    BY DEF CountInv
  <1>2. handed[n] + Held(n) + Cardinality(Copies(up, n)) <= Made(n)
    BY DEF CountInv
  <1>3. writing' = NoWrite /\ up' = <<>> /\ UNCHANGED <<handed, issued, resent>>
    BY DEF LinkEnds, ListenEnds
  <1>4. Copies(up, n)' = {}
    BY <1>3 DEF Copies
  <1>5. Held(n)' = 0 /\ Made(n)' = Made(n) /\ Cardinality(Copies(up, n)') = 0
    BY <1>3, <1>4, FS_EmptySet DEF Held, NoWrite, Made
  <1> QED  BY <1>2, <1>3, <1>5, CountNumbers

\* Every step of the link.
LEMMA CountStep ==
    ASSUME IInv, LinkTypeOK, BudgetInv, CountInv, [LinkNext]_allVars
    PROVE  CountInv'
  <1>1. CASE (\E q \in {1, 2} : CliPublish(q)) \/ CliResends
    BY <1>1, CountMakes
  <1>2. CASE CliSubscribe \/ CliInterrupt \/ CliGivesUp \/ CliFails
    BY <1>2, CountQuiet DEF CliSubscribe, CliInterrupt, CliGivesUp, CliFails, vars
  <1>3. CASE CliRecv
    <2>1. /\ Head(down) \in Packets
          /\ UNCHANGED <<writing, issued, holding, handed, resent>>
      BY <1>3, CliRecvCases DEF vars
    <2>2. Head(down).pid \in Pid
      BY <2>1, PacketTypes
    <2>3. CASE up' = up
      BY <2>1, <2>3, CountQuiet
    <2>4. ASSUME NEW kind \in {"Puback", "Pubrec", "Pubrel", "Pubcomp"}, NEW s,
                 CliAcks(kind, Head(down).pid, s)
          PROVE  CountInv'
      BY <2>1, <2>2, <2>4, CountAcks DEF CliAcks
    <2> QED  BY <1>3, <2>3, <2>4, CliRecvCases DEF CliIgnores
  <1>4. CASE LinkRecv
    BY <1>4, CountRecv
  <1>5. CASE LinkWritten \/ LinkHandedOver
    BY <1>5, CountWritten, CountHanded
  <1>6. CASE LinkInboxStep
    <2>1. ~writing'.forward /\ ~writing'.acked
      BY <1>6 DEF LinkInboxStep, InboxStep, HandleBrokerPublish, HandleQosRetry, StartWrite
    <2> QED  BY <1>6, <2>1, CountQuiet DEF LinkInboxStep, linkVars
  <1>7. ASSUME NEW k \in Task,
               LinkRetries(k) \/ (RetryGivesUp(k) /\ UNCHANGED linkVars)
        PROVE  CountInv'
    BY <1>7, CountQuiet DEF LinkRetries, RetryFires, RetryGivesUp, linkVars
  <1>8. CASE LinkSends
    BY <1>8, CountQuiet DEF LinkSends, BrokerSends
  <1>9. CASE LinkEnds
    BY <1>9, CountEnds
  <1>10. CASE (SessionDropped /\ UNCHANGED linkVars) \/ UNCHANGED allVars
    BY <1>10, CountQuiet DEF SessionDropped, linkVars, allVars, vars
  <1> QED  BY <1>1, <1>2, <1>3, <1>4, <1>5, <1>6, <1>7, <1>8, <1>9, <1>10
           DEF LinkNext, CliStep

-----------------------------------------------------------------------------
(* Clean runs.                                                             *)

\* A read of the handler leaves no other packet of a publish command than the
\* ones that were there, and not the one it returned.
LEMMA AskingCoalesced ==
    ASSUME NEW q \in Seq(LinkMsg), NEW r, Coalesced(q, r), \A j, k \in Asking(q) : j = k
    PROVE  /\ \A j, k \in Asking(r) : j = k
           /\ \A j \in Asking(r) : \E i \in Asking(q) : r[j] = q[i]
           /\ Head(q).packet.kind \in {"Publish", "Pubrel"} => 1 \in Asking(q) /\ Asking(r) = {}
  <1>1. PICK k \in 1..Len(q) : /\ Len(r) = Len(q) - k
                               /\ \A j \in 1..Len(r) : r[j] = q[j + k]
    BY CoalescedSuffix
  <1>2. Len(q) \in Nat \ {0} /\ Head(q) = q[1] /\ k \in Nat \ {0}
    BY <1>1
  <1>3. \A j \in Asking(r) : /\ j \in Nat \ {0} /\ j + k \in Asking(q) /\ j + k # 1
                             /\ r[j] = q[j + k]
    BY <1>1, <1>2 DEF Asking
  <1>4. Head(q).packet.kind \in {"Publish", "Pubrel"} => 1 \in Asking(q)
    BY <1>2 DEF Asking
  <1>5. \A i, j \in Asking(r) : i = j
    <2>1. \A i, j \in Asking(r) : i + k = j + k
      BY <1>3
    <2> QED  BY <1>2, <1>3, <2>1
  <1> QED  BY <1>3, <1>4, <1>5

\* A read of the command, likewise.
LEMMA AnswersCoalesced ==
    ASSUME NEW q \in Seq(Packets), NEW r, Coalesced(q, r), \A j, k \in Answers(q) : j = k
    PROVE  /\ \A j, k \in Answers(r) : j = k
           /\ Answers(q) = {} => Answers(r) = {}
           /\ Answer(Head(q)) => 1 \in Answers(q) /\ Answers(r) = {}
  <1>1. PICK k \in 1..Len(q) : /\ Len(r) = Len(q) - k
                               /\ \A j \in 1..Len(r) : r[j] = q[j + k]
    BY CoalescedSuffix
  <1>2. Len(q) \in Nat \ {0} /\ Head(q) = q[1] /\ k \in Nat \ {0}
    BY <1>1
  <1>3. \A j \in Answers(r) : j \in Nat \ {0} /\ j + k \in Answers(q) /\ j + k # 1
    BY <1>1, <1>2 DEF Answers
  <1>4. Answer(Head(q)) => 1 \in Answers(q)
    BY <1>2 DEF Answers
  <1>5. \A i, j \in Answers(r) : i = j
    <2>1. \A i, j \in Answers(r) : i + k = j + k
      BY <1>3
    <2> QED  BY <1>2, <1>3, <2>1
  <1> QED  BY <1>3, <1>4, <1>5

\* What a sending of the command adds.
LEMMA AskingSends ==
    ASSUME LinkTypeOK, NEW pkt \in Packets, NEW n \in Number \cup {NoNumber}, CliSends(pkt, n)
    PROVE  /\ pkt.kind \notin {"Publish", "Pubrel"} =>
                 /\ Asking(up') = Asking(up) /\ \A k \in Asking(up) : up'[k] = up[k]
           /\ pkt.kind \in {"Publish", "Pubrel"} /\ Asking(up) = {} =>
                 /\ Asking(up') = {Len(up) + 1}
                 /\ up'[Len(up) + 1].packet = pkt /\ up'[Len(up) + 1].n = n
  <1> DEFINE x == [packet |-> pkt, n |-> n]
  <1>1. up \in Seq(LinkMsg) /\ up' = Append(up, x) /\ x \in LinkMsg
    BY StreamTypes DEF CliSends, LinkMsg
  <1>2. x.packet = pkt /\ x.n = n
    OBVIOUS
  <1> HIDE DEF x
  <1>3. /\ Len(up) \in Nat /\ Len(up') = Len(up) + 1 /\ up'[Len(up) + 1] = x
        /\ \A k \in 1..Len(up) : up'[k] = up[k]
    BY <1>1
  <1>4. ASSUME pkt.kind \notin {"Publish", "Pubrel"} PROVE Asking(up') = Asking(up)
    BY <1>2, <1>3, <1>4 DEF Asking
  <1>5. ASSUME pkt.kind \in {"Publish", "Pubrel"}, Asking(up) = {}
        PROVE  Asking(up') = {Len(up) + 1}
    BY <1>2, <1>3, <1>5 DEF Asking
  <1>6. \A k \in Asking(up) : up'[k] = up[k]
    BY <1>3 DEF Asking
  <1> QED  BY <1>2, <1>3, <1>4, <1>5, <1>6

\* What a write of the handler adds.
LEMMA AnswersWritten ==
    ASSUME NEW q \in Seq(Packets), NEW pkt \in Packets
    PROVE  /\ ~Answer(pkt) => Answers(Append(q, pkt)) = Answers(q)
           /\ Answer(pkt) /\ Answers(q) = {} => Answers(Append(q, pkt)) = {Len(q) + 1}
  <1> DEFINE r == Append(q, pkt)
  <1>1. /\ Len(q) \in Nat /\ Len(r) = Len(q) + 1 /\ r[Len(q) + 1] = pkt
        /\ \A k \in 1..Len(q) : r[k] = q[k]
    OBVIOUS
  <1> HIDE DEF r
  <1>2. ~Answer(pkt) => Answers(r) = Answers(q)
    BY <1>1 DEF Answers
  <1>3. Answer(pkt) /\ Answers(q) = {} => Answers(r) = {Len(q) + 1}
    BY <1>1 DEF Answers
  <1> QED  BY <1>2, <1>3 DEF r

\* A step of the command does not take a message back.
LEMMA TakenStays ==
    ASSUME UNCHANGED <<open, writing, holding, handed>>, NEW n
    PROVE  Taken(n)' <=> Taken(n)
  BY DEF Taken, HandingOver

\* A step that concerns no publish command.
LEMMA CleanQuiet ==
    ASSUME Clean, UNCHANGED <<open, writing, up, down, holding, handed, outcome, issued>>,
           cli'.at = cli.at
    PROVE  Clean'
  <1>1. OneToken'
    BY DEF Clean, OneToken, Asking, Answers, Answering
  <1>2. TokenInv'
    BY TakenStays DEF Clean, TokenInv, Asking, Answers, Answering, Publishing
  <1>3. Delivered'
    BY TakenStays DEF Clean, Delivered
  <1> QED  BY <1>1, <1>2, <1>3 DEF Clean

\* CliPublish.
LEMMA CleanPublish ==
    ASSUME LinkTypeOK, Clean, NEW q \in {1, 2}, CliPublish(q)
    PROVE  Clean'
  <1>1. /\ open /\ cli.at = "idle" /\ issued' = issued + 1
        /\ issued + sends < MaxTraffic
        /\ CliSends(Publish(q, CliPid), issued + 1)
        /\ UNCHANGED <<open, writing, down, holding, handed, outcome>>
        /\ cli' = At(IF q = 1 THEN "puback" ELSE "pubrec", CliPid)
    BY DEF CliPublish, vars
  <1>2. cli'.at \in {"puback", "pubrec"}
    BY <1>1 DEF At
  <1>3. /\ Asking(up) = {} /\ ~Answering /\ Answers(down) = {}
        /\ writing.forward => writing.acked
    BY <1>1 DEF Clean, TokenInv, Publishing
  <1>4. /\ Publish(q, CliPid) \in Packets /\ Publish(q, CliPid).kind = "Publish"
    BY CliPidAssumption DEF Publish, Packets, Publishes
  <1>5. issued + 1 \in Number \cup {NoNumber}
    BY <1>1, LinkNumbers DEF Number
  <1>6. /\ Asking(up') = {Len(up) + 1}
        /\ up'[Len(up) + 1].packet.kind = "Publish" /\ up'[Len(up) + 1].n = issued'
    BY <1>1, <1>3, <1>4, <1>5, AskingSends
  <1>7. Answers(down') = {} /\ ~Answering' /\ (writing'.forward => writing'.acked)
    BY <1>1, <1>3 DEF Answering
  <1>8. OneToken'
    BY <1>6, <1>7 DEF OneToken
  <1>9. TokenInv'
    BY <1>2, <1>6, <1>7 DEF TokenInv, Publishing
  <1>10. Delivered'
    BY <1>1, TakenStays DEF Clean, Delivered
  <1> QED  BY <1>8, <1>9, <1>10 DEF Clean

\* A command that is not publish goes on or returns, having read from the
\* stream or not: CliSubscribe, CliInterrupt, CliRecv.
LEMMA CleanOther ==
    ASSUME LinkTypeOK, Clean, ~Publishing, ~Publishing', down' = down \/ Coalesced(down, down'),
           UNCHANGED <<open, writing, holding, handed, outcome, issued>>,
           \/ up' = up
           \/ \E kind \in {"Puback", "Pubrec", "Pubcomp"}, p \in Pid :
                 CliSends(Ack(kind, p), NoNumber)
    PROVE  Clean'
  <1>1. Asking(up') = Asking(up)
    <2>1. ASSUME NEW kind \in {"Puback", "Pubrec", "Pubcomp"}, NEW p \in Pid,
                 CliSends(Ack(kind, p), NoNumber)
          PROVE  Asking(up') = Asking(up)
      <3>1. Ack(kind, p) \in Packets /\ Ack(kind, p).kind = kind
        BY DEF Ack, Packets, Acks
      <3>2. kind \notin {"Publish", "Pubrel"}
        OBVIOUS
      <3> QED  BY <2>1, <3>1, <3>2, AskingSends
    <2> QED  BY <2>1
  <1>2. /\ \A j, k \in Answers(down') : j = k
        /\ Answers(down) = {} => Answers(down') = {}
    <2>1. \A j, k \in Answers(down) : j = k
      BY DEF Clean, OneToken
    <2> QED  BY <2>1, StreamTypes, AnswersCoalesced
  <1>3. Answering' <=> Answering
    BY DEF Answering
  <1>4. OneToken'
    BY <1>1, <1>2, <1>3 DEF Clean, OneToken
  <1>5. TokenInv'
    BY <1>1, <1>2, <1>3 DEF Clean, TokenInv, Publishing
  <1>6. Delivered'
    BY TakenStays DEF Clean, Delivered
  <1> QED  BY <1>4, <1>5, <1>6 DEF Clean

\* CliRecv: the last answer of a publish command comes.
LEMMA CleanSuccess ==
    ASSUME LinkTypeOK, BudgetInv, Clean, Coalesced(down, down'), Answer(Head(down)),
           Publishing, CliReturns("ok"),
           UNCHANGED <<open, writing, up, holding, handed, issued>>
    PROVE  Clean'
  <1>1. 1 \in Answers(down) /\ Answers(down') = {}
    <2>1. \A j, k \in Answers(down) : j = k
      BY DEF Clean, OneToken
    <2> QED  BY <2>1, StreamTypes, AnswersCoalesced
  <1>2. Asking(up) = {} /\ ~Answering /\ (writing.forward => writing.acked)
    BY <1>1 DEF Clean, OneToken, TokenInv
  <1>3. Taken(issued) /\ issued \in Number
    BY <1>1, LinkNumbers DEF Clean, TokenInv, Publishing, BudgetInv
  <1>4. Asking(up') = {} /\ ~Answering' /\ (writing'.forward => writing'.acked)
    BY <1>2 DEF Answering
  <1>5. cli'.at = "idle"
    BY DEF CliReturns, At
  <1>6. OneToken'
    BY <1>1, <1>4 DEF OneToken
  <1>7. TokenInv'
    BY <1>1, <1>4, <1>5 DEF TokenInv, Publishing
  <1>8. Delivered'
    <2>1. \A n \in Number : n # issued => outcome'[n] = outcome[n]
      BY DEF CliReturns, LinkTypeOK
    <2> QED  BY <1>3, <2>1, TakenStays DEF Clean, Delivered
  <1> QED  BY <1>6, <1>7, <1>8 DEF Clean

\* CliRecv: publish -q 2 goes on to its Pubrel.
LEMMA CleanPubrel ==
    ASSUME LinkTypeOK, BudgetInv, Clean, Coalesced(down, down'), Answer(Head(down)),
           cli.at = "pubrec", NEW p \in Pid, CliAcks("Pubrel", p, "pubcomp"),
           UNCHANGED <<open, writing, holding, handed, issued>>
    PROVE  Clean'
  <1>1. 1 \in Answers(down) /\ Answers(down') = {}
    <2>1. \A j, k \in Answers(down) : j = k
      BY DEF Clean, OneToken
    <2> QED  BY <2>1, StreamTypes, AnswersCoalesced
  <1>2. /\ Asking(up) = {} /\ ~Answering /\ Taken(issued)
        /\ writing.forward => writing.acked
    BY <1>1 DEF Clean, OneToken, TokenInv
  <1>3. Ack("Pubrel", p) \in Packets /\ Ack("Pubrel", p).kind = "Pubrel"
    BY DEF Ack, Packets, Acks
  <1>4. CliSends(Ack("Pubrel", p), NoNumber) /\ cli' = At("pubcomp", p) /\ outcome' = outcome
    BY DEF CliAcks
  <1>5. Asking(up') = {Len(up) + 1} /\ up'[Len(up) + 1].packet.kind = "Pubrel"
    BY <1>2, <1>3, <1>4, AskingSends
  <1>6. ~Answering' /\ (writing'.forward => writing'.acked)
    BY <1>2 DEF Answering
  <1>11. Taken(issued)'
    BY <1>2 DEF Taken, HandingOver
  <1>7. cli'.at = "pubcomp"
    BY <1>4 DEF At
  <1>8. OneToken'
    BY <1>1, <1>5, <1>6 DEF OneToken
  <1>9. TokenInv'
    BY <1>1, <1>5, <1>6, <1>7, <1>11 DEF TokenInv, Publishing
  <1>10. Delivered'
    BY <1>4, TakenStays DEF Clean, Delivered
  <1> QED  BY <1>8, <1>9, <1>10 DEF Clean

\* CliRecv: another packet is ignored.
LEMMA CleanIgnored ==
    ASSUME LinkTypeOK, Clean, Coalesced(down, down'), CliIgnores,
           UNCHANGED <<open, writing, holding, handed, issued>>
    PROVE  Clean'
  <1>1. /\ \A j, k \in Answers(down') : j = k
        /\ Answers(down) = {} => Answers(down') = {}
    <2>1. \A j, k \in Answers(down) : j = k
      BY DEF Clean, OneToken
    <2> QED  BY <2>1, StreamTypes, AnswersCoalesced
  <1>2. up' = up /\ outcome' = outcome /\ cli'.at = cli.at
    BY DEF CliIgnores, LinkTypeOK
  <1>3. (Answering' <=> Answering) /\ Asking(up') = Asking(up)
    BY <1>2 DEF Answering
  <1>4. OneToken'
    BY <1>1, <1>3 DEF Clean, OneToken
  <1>5. TokenInv'
    BY <1>1, <1>2, <1>3, TakenStays DEF Clean, TokenInv, Publishing
  <1>6. Delivered'
    BY <1>2, TakenStays DEF Clean, Delivered
  <1> QED  BY <1>4, <1>5, <1>6 DEF Clean

\* CliRecv.
LEMMA CleanRecv ==
    ASSUME LinkTypeOK, BudgetInv, Clean, CliRecv
    PROVE  Clean'
  <1>1. /\ Coalesced(down, down') /\ Head(down) \in Packets
        /\ UNCHANGED <<open, writing, holding, handed, issued>>
    BY CliRecvCases DEF vars
  <1>2. Head(down).pid \in Pid
    BY <1>1, PacketTypes
  <1>3. CASE /\ \/ cli.at = "puback" /\ Head(down).kind = "Puback"
                \/ cli.at = "pubcomp" /\ Head(down).kind = "Pubcomp"
             /\ CliReturns("ok") /\ up' = up
    <2>1. Answer(Head(down)) /\ Publishing
      BY <1>3 DEF Answer, Publishing
    <2> QED  BY <1>1, <1>3, <2>1, CleanSuccess
  <1>4. CASE /\ cli.at = "pubrec" /\ Head(down).kind = "Pubrec"
             /\ CliAcks("Pubrel", Head(down).pid, "pubcomp")
    <2>1. Answer(Head(down))
      BY <1>4 DEF Answer
    <2> QED  BY <1>1, <1>2, <1>4, <2>1, CleanPubrel
  <1>5. ASSUME cli.at \in {"pubrel", "subscribed"}, NEW kind \in {"Puback", "Pubrec", "Pubcomp"},
               NEW s \in {"subscribed", "pubrel"}, CliAcks(kind, Head(down).pid, s)
        PROVE  Clean'
    <2>1. /\ CliSends(Ack(kind, Head(down).pid), NoNumber) /\ outcome' = outcome
          /\ cli' = At(s, Head(down).pid)
      BY <1>5 DEF CliAcks
    <2>2. ~Publishing /\ ~Publishing'
      BY <1>5, <2>1 DEF Publishing, At
    <2> QED  BY <1>1, <1>2, <2>1, <2>2, CleanOther
  <1>6. CASE CliIgnores
    BY <1>1, <1>6, CleanIgnored
  <1> QED  BY <1>3, <1>4, <1>5, <1>6, CliRecvCases

\* CliFails: the stream has ended.
LEMMA CleanFails ==
    ASSUME LinkTypeOK, Clean, CliFails
    PROVE  Clean'
  <1>1. /\ ~open /\ CliReturns("failed")
        /\ UNCHANGED <<open, writing, up, down, holding, handed, issued>>
    BY DEF CliFails, vars
  <1>2. cli'.at = "idle"
    BY <1>1 DEF CliReturns, At
  <1>3. OneToken'
    BY <1>1 DEF Clean, OneToken, Answering
  <1>4. TokenInv'
    BY <1>1, <1>2 DEF Clean, TokenInv, Answering
  <1>5. Delivered'
    <2>1. \A n \in Number : outcome'[n] = "ok" => outcome[n] = "ok"
      BY <1>1 DEF CliReturns, LinkTypeOK
    <2> QED  BY <1>1, <2>1, TakenStays DEF Clean, Delivered
  <1> QED  BY <1>3, <1>4, <1>5 DEF Clean

\* LinkRecv: a packet of a publish command becomes the answer being written,
\* one of subscribe becomes none.
LEMMA CleanLinkRecv ==
    ASSUME LinkTypeOK, Clean, LinkRecv
    PROVE  Clean'
  <1> DEFINE pkt == Head(up).packet
  <1>1. /\ up # <<>> /\ Coalesced(up, up') /\ Handle(pkt) /\ holding' = Head(up).n
        /\ UNCHANGED <<cli, issued, down, handed, outcome>>
    BY DEF LinkRecv
  <1>2. pkt \in Packets /\ Head(up) = up[1]
    BY <1>1, StreamTypes
  <1>3. open /\ writing = NoWrite /\ open' = open /\ ~writing'.acked
    BY <1>1, <1>2, HandleShape
  <1>9. ASSUME NEW n, Taken(n) PROVE Taken(n)' /\ handed[n] >= 1
    BY <1>1, <1>3, <1>9 DEF Taken, HandingOver, NoWrite
  <1>4. /\ \A j, k \in Asking(up') : j = k
        /\ \A j \in Asking(up') : \E i \in Asking(up) : up'[j] = up[i]
        /\ pkt.kind \in {"Publish", "Pubrel"} => 1 \in Asking(up) /\ Asking(up') = {}
    <2>1. \A j, k \in Asking(up) : j = k
      BY DEF Clean, OneToken
    <2> QED  BY <1>1, <2>1, StreamTypes, AskingCoalesced
  <1>5. Delivered'
    BY <1>1, <1>9 DEF Clean, Delivered
  <1>6. \/ /\ pkt.kind = "Publish" /\ writing'.forward = TRUE
           /\ writing' # NoWrite /\ writing'.packet.kind \in {"Puback", "Pubrec"}
        \/ /\ pkt.kind \in {"Puback", "Pubcomp"} /\ writing' = writing
        \/ /\ pkt.kind = "Pubrec" /\ writing'.forward = FALSE
           /\ writing'.packet.kind = "Pubrel"
        \/ /\ pkt.kind = "Pubrel" /\ writing'.forward = FALSE
           /\ writing'.packet.kind = "Pubcomp"
    BY <1>1, <1>2, HandleShape
  <1>7. CASE pkt.kind \in {"Publish", "Pubrel"}
    <2>1. 1 \in Asking(up) /\ Asking(up') = {} /\ Answers(down) = {} /\ Publishing
      BY <1>3, <1>4, <1>7 DEF Clean, OneToken, TokenInv
    <2>2. pkt.kind = "Publish" => cli.at \in {"puback", "pubrec"} /\ Head(up).n = issued
      BY <1>2, <2>1 DEF Clean, TokenInv, Publishing
    <2>3. pkt.kind = "Pubrel" => cli.at = "pubcomp"
      BY <1>2, <2>1 DEF Clean, TokenInv, Publishing
    <2>9. cli.at = "pubcomp" => pkt.kind = "Pubrel" /\ Taken(issued)
      BY <1>2, <2>1 DEF Clean, TokenInv
    <2>10. cli.at = "pubcomp" => Taken(issued)'
      BY <1>1, <1>9, <2>9 DEF Taken, HandingOver
    <2>4. writing'.forward => pkt.kind = "Publish"
      BY <1>6, <1>7
    <2>5. pkt.kind = "Publish" => writing'.forward
      BY <1>6
    <2>6. pkt.kind = "Publish" => Answering'
      BY <1>3, <1>6 DEF Answering, Answer
    <2>7. OneToken'
      BY <1>1, <2>1 DEF OneToken
    <2>8. TokenInv'
      BY <1>1, <1>7, <2>1, <2>2, <2>3, <2>4, <2>5, <2>6, <2>9, <2>10
         DEF TokenInv, Publishing
    <2> QED  BY <1>5, <2>7, <2>8 DEF Clean
  <1>8. CASE pkt.kind \notin {"Publish", "Pubrel"}
    <2>1. ~Answering' /\ ~writing'.forward
      BY <1>3, <1>6, <1>8 DEF Answering, Answer, NoWrite
    <2>2. OneToken'
      BY <1>1, <1>4, <2>1 DEF Clean, OneToken
    <2>3. open /\ ~Publishing => Asking(up') = {} /\ Answers(down) = {}
      BY <1>4 DEF Clean, TokenInv
    <2>4. cli.at \in {"puback", "pubrec"} =>
             \A k \in Asking(up') : up'[k].packet.kind = "Publish" /\ up'[k].n = issued
      BY <1>4 DEF Clean, TokenInv
    <2>5. cli.at = "pubcomp" =>
             Taken(issued) /\ \A k \in Asking(up') : up'[k].packet.kind = "Pubrel"
      BY <1>4 DEF Clean, TokenInv
    <2>6. cli.at \in {"puback", "pubrec"} => (Answers(down) # {} => Taken(issued))
      BY DEF Clean, TokenInv
    <2>8. Taken(issued) => Taken(issued)'
      BY <1>1, <1>9 DEF Taken, HandingOver
    <2>7. TokenInv'
      BY <1>1, <1>3, <2>1, <2>3, <2>4, <2>5, <2>6, <2>8 DEF TokenInv, Publishing
    <2> QED  BY <1>5, <2>2, <2>7 DEF Clean
  <1> QED  BY <1>7, <1>8

\* LinkWritten: the answer is on its way to the command, and its message in
\* the hand-over.
LEMMA CleanWritten ==
    ASSUME IInv, LinkTypeOK, BudgetInv, Clean, LinkWritten
    PROVE  Clean'
  <1>1. /\ open /\ writing # NoWrite /\ ~writing.acked
        /\ down' = Append(down, writing.packet) /\ writing.packet \in Packets
        /\ UNCHANGED <<open, cli, issued, up, handed, outcome>>
    BY WrittenShape
  <1>2. \/ /\ writing.forward /\ writing'.forward /\ writing'.acked
           /\ holding' = holding
        \/ ~writing.forward /\ writing' = NoWrite
    BY WrittenShape
  <1>3. ASSUME NEW n, Taken(n) PROVE handed[n] >= 1
    BY <1>1, <1>3 DEF Taken, HandingOver
  <1>4. ASSUME NEW n, Taken(n) PROVE Taken(n)'
    BY <1>1, <1>3, <1>4 DEF Taken
  <1>5. Delivered'
    BY <1>1, <1>4 DEF Clean, Delivered
  <1>6. ~Answering' /\ (writing'.forward => writing'.acked)
    BY <1>2 DEF Answering, NoWrite
  <1>7. Taken(issued) => Taken(issued)'
    BY <1>1, <1>3 DEF Taken
  <1>8. CASE Answering
    <2>1. Answer(writing.packet) /\ Asking(up) = {} /\ Answers(down) = {} /\ Publishing
      BY <1>1, <1>8 DEF Answering, Clean, OneToken, TokenInv
    <2>2. Answers(down') = {Len(down) + 1}
      BY <1>1, <2>1, StreamTypes, AnswersWritten
    <2>3. Taken(issued)'
      <3>1. CASE cli.at \in {"puback", "pubrec"}
        <4>1. writing.forward /\ holding = issued
          BY <1>8, <3>1 DEF Clean, TokenInv
        <4>2. writing'.acked /\ holding' = issued'
          BY <1>1, <1>2, <4>1
        <4> QED  BY <4>2 DEF Taken, HandingOver
      <3>2. CASE cli.at = "pubcomp"
        BY <1>7, <3>2 DEF Clean, TokenInv
      <3> QED  BY <2>1, <3>1, <3>2 DEF Publishing
    <2>4. OneToken'
      BY <1>1, <1>6, <2>1, <2>2 DEF OneToken
    <2>5. TokenInv'
      BY <1>1, <1>6, <2>1, <2>3 DEF TokenInv, Publishing
    <2> QED  BY <1>5, <2>4, <2>5 DEF Clean
  <1>9. CASE ~Answering
    <2>1. ~Answer(writing.packet)
      BY <1>1, <1>9 DEF Answering
    <2>2. Answers(down') = Answers(down)
      BY <1>1, <2>1, StreamTypes, AnswersWritten
    <2>3. OneToken'
      BY <1>1, <1>6, <2>2 DEF Clean, OneToken
    <2>4. TokenInv'
      BY <1>1, <1>6, <1>7, <2>2 DEF Clean, TokenInv, Publishing
    <2> QED  BY <1>5, <2>3, <2>4 DEF Clean
  <1> QED  BY <1>8, <1>9

\* LinkHandedOver: what was in the hand-over has been handed over.
LEMMA CleanHanded ==
    ASSUME LinkTypeOK, BudgetInv, Clean, LinkHandedOver
    PROVE  Clean'
  <1>1. /\ open /\ writing.acked /\ writing' = NoWrite
        /\ UNCHANGED <<open, cli, issued, up, down, outcome>>
        /\ \A n \in Number : handed'[n] = handed[n] + Held(n)
    BY HandedShape
  <1>2. ~Answering /\ ~Answering' /\ ~writing'.forward
    BY <1>1 DEF Answering, NoWrite
  <1>3. ASSUME NEW n \in Number, Taken(n) PROVE handed'[n] >= 1
    <2>1. handed[n] >= 1 \/ holding = n
      BY <1>3 DEF Taken, HandingOver
    <2>2. CASE holding = n
      <3>1. Held(n) = 1
        BY <1>1, <2>2 DEF Held
      <3> QED  BY <1>1, <3>1, LinkNumbers
    <2>3. CASE handed[n] >= 1
      <3>1. Held(n) \in {0, 1}
        BY DEF Held
      <3> QED  BY <1>1, <2>3, <3>1, LinkNumbers
    <2> QED  BY <2>1, <2>2, <2>3
  <1>4. Delivered'
    BY <1>1, <1>3 DEF Clean, Delivered, Taken
  <1>5. Publishing /\ Taken(issued) => Taken(issued)'
    <2>1. Publishing => issued \in Number
      BY LinkNumbers DEF BudgetInv
    <2> QED  BY <1>1, <1>3, <2>1 DEF Taken
  <1>6. OneToken'
    BY <1>1, <1>2 DEF Clean, OneToken
  <1>7. TokenInv'
    BY <1>1, <1>2, <1>5 DEF Clean, TokenInv, Publishing
  <1> QED  BY <1>4, <1>6, <1>7 DEF Clean

\* LinkInboxStep: without retries, a message of another client is written.
LEMMA CleanInbox ==
    ASSUME IInv, BudgetInv, ~repeated, Clean, LinkInboxStep
    PROVE  Clean'
  <1>1. /\ inbox # <<>> /\ Idle
        /\ UNCHANGED <<open, cli, issued, up, down, holding, handed, outcome>>
    BY DEF LinkInboxStep, InboxStep, HandleBrokerPublish, HandleQosRetry, linkVars
  <1>2. Head(inbox).type = "Publish" /\ Head(inbox) \in Msg
    <2>1. inbox \in Seq(Msg)
      BY DEF IInv, RestInv
    <2> QED  BY <1>1, <2>1, InboxPublishes
  <1>3. Head(inbox).packet.kind = "Publish"
    BY <1>2 DEF Msg, Publishes
  <1>4. StartWrite(Head(inbox).packet, Head(inbox).packet, FALSE)
    BY <1>2 DEF LinkInboxStep, InboxStep, HandleBrokerPublish, HandleQosRetry
  <1>5. writing'.packet = Head(inbox).packet /\ ~writing'.forward
    BY <1>4 DEF StartWrite
  <1>6. ~Answering'
    BY <1>3, <1>5 DEF Answering, Answer
  <1>7. OneToken'
    BY <1>1, <1>6 DEF Clean, OneToken
  <1>10. open /\ ~writing.acked
    BY <1>1 DEF Idle, NoWrite
  <1>11. ASSUME NEW n, Taken(n) PROVE handed[n] >= 1
    BY <1>10, <1>11 DEF Taken, HandingOver
  <1>12. Taken(issued) => Taken(issued)'
    BY <1>1, <1>11 DEF Taken
  <1>8. TokenInv'
    BY <1>1, <1>5, <1>6, <1>12 DEF Clean, TokenInv, Publishing
  <1>9. Delivered'
    BY <1>1, <1>11 DEF Clean, Delivered, Taken
  <1> QED  BY <1>7, <1>8, <1>9 DEF Clean

\* LinkEnds loses the packets that the handler has not read.
LEMMA CleanEnds ==
    ASSUME Clean, LinkEnds
    PROVE  Clean'
  <1>1. /\ open' = FALSE /\ up' = <<>> /\ writing' = NoWrite
        /\ UNCHANGED <<cli, issued, down, holding, handed, outcome>>
    BY DEF LinkEnds, ListenEnds
  <1>2. Asking(up') = {} /\ ~Answering' /\ ~writing'.forward
    BY <1>1 DEF Asking, Answering, NoWrite
  <1>3. OneToken'
    BY <1>1, <1>2 DEF Clean, OneToken
  <1>6. ASSUME NEW n, Taken(n) PROVE handed[n] >= 1 \/ holding = n
    BY <1>6 DEF Taken, HandingOver
  <1>7. Taken(issued) => Taken(issued)'
    BY <1>1, <1>6 DEF Taken, HandingOver
  <1>4. TokenInv'
    BY <1>1, <1>2, <1>7 DEF Clean, TokenInv, Publishing
  <1>5. Delivered'
    BY <1>1, <1>6 DEF Clean, Delivered, Taken, HandingOver
  <1> QED  BY <1>3, <1>4, <1>5 DEF Clean

\* CliGivesUp needs a timeout.
LEMMA CleanKeepsOn ==
    ASSUME LinkTypeOK, BudgetInv, CliGivesUp
    PROVE  repeated
  <1>1. cli.retries + cli.attempt >= CliRetries
    BY DEF CliGivesUp, Spent
  <1>2. CliRetries >= 1
    BY CliRetriesAssumption
  <1> QED  BY <1>1, <1>2, LinkNumbers DEF BudgetInv

\* Every step of the link.
LEMMA CleanStep ==
    ASSUME IInv, LinkTypeOK, BudgetInv, CleanInv, [LinkNext]_allVars
    PROVE  CleanInv'
  <1>1. CASE CliResends
    BY <1>1 DEF CliResends, CleanInv
  <1>2. ASSUME NEW k \in Task, LinkRetries(k) PROVE CleanInv'
    BY <1>2 DEF LinkRetries, CleanInv
  <1>3. CASE CliResends \/ \E k \in Task : LinkRetries(k)
    BY <1>1, <1>2, <1>3
  <1>4. CASE ~(CliResends \/ \E k \in Task : LinkRetries(k))
    <2>1. repeated' = repeated
      BY <1>4 DEF LinkNext, CliStep, CliPublish, CliSubscribe, CliInterrupt, CliRecv,
                  CliGivesUp, CliFails, LinkRecv, LinkWritten, LinkHandedOver,
                  LinkInboxStep, LinkSends, LinkEnds, linkVars, allVars
    <2>2. SUFFICES ASSUME ~repeated, Clean PROVE Clean'
      BY <2>1 DEF CleanInv
    <2>3. ASSUME NEW q \in {1, 2}, CliPublish(q) PROVE Clean'
      BY <2>2, <2>3, CleanPublish
    <2>4. CASE CliSubscribe
      <3>1. /\ cli' = At("subscribed", CliPid)
            /\ cli.at = "idle" /\ up' = up /\ down' = down
            /\ UNCHANGED <<open, writing, holding, handed, outcome, issued>>
        BY <2>4 DEF CliSubscribe, vars
      <3>2. ~Publishing /\ ~Publishing'
        BY <3>1 DEF Publishing, At
      <3> QED  BY <2>2, <3>1, <3>2, CleanOther
    <2>5. CASE CliInterrupt
      <3>1. /\ CliReturns("ok") /\ cli.at = "subscribed" /\ up' = up
            /\ down' = down \/ Coalesced(down, down')
            /\ UNCHANGED <<open, writing, holding, handed, issued>>
        BY <2>5 DEF CliInterrupt, vars
      <3>2. ~Publishing
        BY <3>1 DEF Publishing
      <3>3. ~Publishing' /\ outcome' = outcome
        BY <3>1, <3>2 DEF CliReturns, Publishing, At
      <3> QED  BY <2>2, <3>1, <3>2, <3>3, CleanOther
    <2>6. CASE CliRecv
      BY <2>2, <2>6, CleanRecv
    <2>7. CASE CliGivesUp
      BY <2>2, <2>7, CleanKeepsOn
    <2>8. CASE CliFails
      BY <2>2, <2>8, CleanFails
    <2>9. CASE LinkRecv
      BY <2>2, <2>9, CleanLinkRecv
    <2>10. CASE LinkWritten \/ LinkHandedOver
      BY <2>2, <2>10, CleanWritten, CleanHanded
    <2>11. CASE LinkInboxStep
      BY <2>2, <2>11, CleanInbox
    <2>12. ASSUME NEW k \in Task, RetryGivesUp(k), UNCHANGED linkVars PROVE Clean'
      BY <2>2, <2>12, CleanQuiet DEF RetryGivesUp, linkVars
    <2>13. CASE LinkSends
      BY <2>2, <2>13, CleanQuiet DEF LinkSends, BrokerSends
    <2>14. CASE LinkEnds
      BY <2>2, <2>14, CleanEnds
    <2>15. CASE (SessionDropped /\ UNCHANGED linkVars) \/ UNCHANGED allVars
      BY <2>2, <2>15, CleanQuiet DEF SessionDropped, linkVars, allVars, vars
    <2> QED  BY <1>4, <2>3, <2>4, <2>5, <2>6, <2>7, <2>8, <2>9, <2>10, <2>11, <2>12,
                <2>13, <2>14, <2>15 DEF LinkNext, CliStep
  <1> QED  BY <1>3, <1>4

-----------------------------------------------------------------------------
(* The theorems.                                                           *)

\* The initial state satisfies the link's part of the invariant.
LEMMA LinkInitInv ==
    ASSUME LinkInit
    PROVE  LinkTypeOK /\ BudgetInv /\ CountInv /\ CleanInv
  <1>1. /\ writing = NoWrite /\ inbox = <<>> /\ cli = At("idle", CliPid) /\ issued = 0
        /\ up = <<>> /\ down = <<>> /\ holding = NoNumber
        /\ handed = [n \in Number |-> 0] /\ outcome = [n \in Number |-> "none"]
        /\ resent = [n \in Number |-> 0] /\ repeated = FALSE /\ sends = 0
    BY DEF LinkInit, Init
  <1>2. /\ cli \in [at : {"idle", "puback", "pubrec", "pubcomp", "subscribed", "pubrel"},
                    pid : Pid, retries : 0..CliRetries, attempt : 0..CliRetries]
        /\ cli.at = "idle" /\ cli.retries = 0 /\ cli.attempt = 0
    BY <1>1, AtType, CliPidAssumption
  <1>3. /\ 0 \in 0..MaxTraffic /\ 0 \in 0..CliRetries /\ 0 \in Nat
        /\ \A n \in Number : n \in Nat /\ n >= 1
    BY TrafficAssumption, CliRetriesAssumption DEF Number
  <1>4. LinkTypeOK
    <2>1. handed \in [Number -> Nat] /\ resent \in [Number -> 0..CliRetries]
      BY <1>1, <1>3
    <2>2. outcome \in [Number -> {"none", "ok", "failed"}]
      BY <1>1
    <2>3. /\ up \in Seq([packet : Packets, n : Number \cup {NoNumber}])
          /\ down \in Seq(Packets)
      BY <1>1
    <2> QED  BY <1>1, <1>2, <1>3, <2>1, <2>2, <2>3 DEF LinkTypeOK
  <1>5. BudgetInv
    BY <1>1, <1>2 DEF BudgetInv, Publishing
  <1>6. CountInv
    <2>1. SUFFICES ASSUME NEW n \in Number
                   PROVE  handed[n] + Held(n) + Cardinality(Copies(up, n)) <= Made(n)
      BY DEF CountInv
    <2>2. Copies(up, n) = {}
      BY <1>1 DEF Copies
    <2>3. Held(n) = 0 /\ handed[n] = 0 /\ Cardinality(Copies(up, n)) = 0
      BY <1>1, <2>2, FS_EmptySet DEF Held, NoWrite
    <2> QED  BY <2>3, CountNumbers, <1>4
  <1>7. Asking(up) = {} /\ Answers(down) = {} /\ ~Answering /\ ~writing.forward
    BY <1>1 DEF Asking, Answers, Answering, NoWrite
  <1>8. OneToken
    BY <1>7 DEF OneToken
  <1>9. TokenInv
    BY <1>2, <1>7 DEF TokenInv
  <1>10. Delivered
    BY <1>1 DEF Delivered
  <1> QED  BY <1>4, <1>5, <1>6, <1>8, <1>9, <1>10 DEF CleanInv, Clean

\* The invariant holds in every state of the link: the trackers and retry tasks
\* of the session, the budget of the command, the copies of its messages and,
\* as long as nothing is repeated, where its packet or the answer is and how
\* far its message has come.
THEOREM LinkInvariance == LinkSpec => []LinkInv
  <1>1. LinkInit => LinkInv
    BY LinkInitInv, InitIInv DEF LinkInit, LinkInv
  <1>2. LinkInv /\ [LinkNext]_allVars => LinkInv'
    <2>1. SUFFICES ASSUME LinkInv, [LinkNext]_allVars PROVE LinkInv'
      OBVIOUS
    <2>2. [Next]_vars
      BY <2>1, LinkIsSession DEF LinkInv
    <2>3. IInv'
      BY <2>1, <2>2, NextIInv DEF LinkInv
    <2>4. LinkTypeOK' /\ BudgetInv'
      BY <2>1, LinkTypesStep DEF LinkInv
    <2>5. CountInv'
      BY <2>1, CountStep DEF LinkInv
    <2>6. CleanInv'
      BY <2>1, CleanStep DEF LinkInv
    <2> QED  BY <2>3, <2>4, <2>5, <2>6 DEF LinkInv
  <1> QED  BY <1>1, <1>2, PTL DEF LinkSpec

\* The handler's end of the stream behaves as the session of QosSession with an
\* arbitrary client: what is proved of the session holds of the link.
THEOREM LinkImplementsSession == LinkSpec => Spec
  <1>1. LinkInit => Init
    BY DEF LinkInit
  <1>2. LinkInv /\ [LinkNext]_allVars => [Next]_vars
    BY LinkIsSession DEF LinkInv
  <1> QED  BY <1>1, <1>2, LinkInvariance, PTL DEF LinkSpec, Spec

\* The command's retries never exceed CliRetries, and the streams carry packets.
THEOREM LinkTypes == LinkSpec => []LinkTypeOK
  <1>1. LinkInv => LinkTypeOK
    BY DEF LinkInv
  <1> QED  BY <1>1, LinkInvariance, PTL

\* A message is handed to the broker at most once for each time the publish
\* command sent it, whatever is retransmitted and lost.
THEOREM ResendsOnly == LinkSpec => []DuplicatesAreResends
  <1>1. LinkInv => DuplicatesAreResends
    <2>1. SUFFICES ASSUME LinkInv, NEW n \in Number PROVE handed[n] <= 1 + resent[n]
      BY DEF DuplicatesAreResends
    <2>2. handed[n] + Held(n) + Cardinality(Copies(up, n)) <= Made(n)
      BY <2>1 DEF LinkInv, CountInv
    <2>3. LinkTypeOK
      BY <2>1 DEF LinkInv
    <2>4. Made(n) <= 1 + resent[n]
      BY <2>3, LinkNumbers DEF Made
    <2> QED  BY <2>2, <2>3, <2>4, CountNumbers, LinkNumbers
  <1> QED  BY <1>1, LinkInvariance, PTL

\* While no timeout has passed at either end, a message is handed over at most
\* once; if its publish command has succeeded, it has been handed over or the
\* handler is just doing so (or was when the broker ended).
THEOREM CleanDeliveries == LinkSpec => []CleanDelivery
  <1>1. LinkInv => CleanDelivery
    <2>1. SUFFICES ASSUME LinkInv, ~repeated, NEW n \in Number
                   PROVE  /\ handed[n] <= 1
                          /\ outcome[n] = "ok" => handed[n] = 1 \/ HandingOver(n)
      BY DEF CleanDelivery
    <2>2. LinkTypeOK
      BY <2>1 DEF LinkInv
    <2>3. handed[n] + Held(n) + Cardinality(Copies(up, n)) <= Made(n)
      BY <2>1 DEF LinkInv, CountInv
    <2>4. resent[n] = 0
      BY <2>1 DEF LinkInv, BudgetInv
    <2>5. Made(n) <= 1
      BY <2>4 DEF Made
    <2>6. handed[n] <= 1 /\ handed[n] \in Nat
      BY <2>2, <2>3, <2>5, CountNumbers
    <2>7. outcome[n] = "ok" => handed[n] >= 1 \/ HandingOver(n)
      BY <2>1 DEF LinkInv, CleanInv, Clean, Delivered, Taken
    <2> QED  BY <2>6, <2>7
  <1> QED  BY <1>1, LinkInvariance, PTL
=============================================================================
