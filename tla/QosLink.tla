------------------------------ MODULE QosLink ------------------------------
(***************************************************************************)
(* One mqtt-cli client and its session in the broker, joined by a TCP      *)
(* connection: the publish and subscribe commands of mqtt-cli              *)
(* (commands/publish.rs, commands/subscribe.rs) with their timeouts and    *)
(* retries at one end, module QosSession with its retry tasks at the other.*)
(*                                                                         *)
(* TCP keeps the order and loses nothing, but each end decodes only the    *)
(* first packet of what one read returns, so packets that arrive together  *)
(* are lost all the same (Coalesced).  mqtt-cli uses packet identifier 1   *)
(* for everything it publishes, and the broker passes on the identifiers   *)
(* that publishers chose, so transactions of both directions and of        *)
(* several commands meet under one identifier.  Subscribe, Unsubscribe and *)
(* their answers carry no transaction and are left out.                    *)
(***************************************************************************)
EXTENDS QosSession

CONSTANTS
    CliPid,        \* Pid::new(), the identifier of all that mqtt-cli publishes
    CliRetries,    \* MAX_RETRIES of publish.rs and subscribe.rs
    MaxTraffic,    \* bound: publish commands typed, and messages of other
                   \* clients, which count as much as their QoS
    MaxStream      \* bound: packets in the stream for a write of the session
                   \* or an acknowledgement of subscribe to wait

ASSUME CliPidAssumption == CliPid \in Pid
ASSUME CliRetriesAssumption == CliRetries \in Nat \ {0}
ASSUME TrafficAssumption == MaxTraffic \in Nat /\ MaxStream \in Nat

VARIABLES
    cli,       \* the command being run: what it waits for and its retries
    issued,    \* publish commands typed so far; numbers their messages
    up,        \* packets on the way to the broker, a Publish with its number
    down,      \* packets on the way to the command
    holding,   \* the number of the Publish that the handler is answering and
               \* handing over, or was when it ended
    handed,    \* times each message was handed to the broker
    outcome,   \* how each publish command ended
    resent,    \* times the command sent each message again
    repeated,  \* has either end sent anything again?
    sends      \* traffic of other clients so far

linkVars == <<cli, issued, up, down, holding, handed, outcome, resent,
              repeated, sends>>
allVars == <<vars, linkVars>>

Number == 1..MaxTraffic
NoNumber == 0

-----------------------------------------------------------------------------
(* The stream.                                                             *)

\* A mistake in read_into_buf: what was read is not consumed.
NotConsumed(stream, rest) ==
    \E k \in 0..Len(stream) : rest = SubSeq(stream, k + 1, Len(stream))

\* One read takes the first packet of the stream and loses the next k - 1.
Coalesced(stream, rest) ==
    \E k \in 1..Len(stream) : rest = SubSeq(stream, k + 1, Len(stream))

\* The command sends pkt, which carries message n if it is a Publish.
CliSends(pkt, n) == up' = Append(up, [packet |-> pkt, n |-> n])

-----------------------------------------------------------------------------
(* The command.                                                            *)
(*   "idle"        no publish or subscribe runs                            *)
(*   "puback"      publish -q 1 waits for its Puback                       *)
(*   "pubrec", "pubcomp"  publish -q 2, handle_qos_exactly_once            *)
(*   "subscribed"  the loop of subscribe                                   *)
(*   "pubrel"      subscribe waits for the Pubrel of a QoS 2 message       *)

At(s, p) == [at |-> s, pid |-> p, retries |-> 0, attempt |-> 0]
Publishing == cli.at \in {"puback", "pubrec", "pubcomp"}
Retrying == cli.at \in {"pubrec", "pubcomp", "pubrel"}

\* A mistake in the count: one sending too many.
SpentLate == cli.retries + cli.attempt > CliRetries

\* Every timeout was followed by one more sending.
Spent == cli.retries + cli.attempt >= CliRetries

\* The command returns.
CliReturns(result) ==
    /\ cli' = At("idle", CliPid)
    /\ outcome' = IF Publishing THEN [outcome EXCEPT ![issued] = result]
                                ELSE outcome

\* publish sends its packet and begins to wait.
CliPublish(q) ==
    /\ open /\ cli.at = "idle" /\ issued + sends < MaxTraffic
    /\ issued' = issued + 1
    /\ CliSends(Publish(q, CliPid), issued + 1)
    /\ cli' = At(IF q = 1 THEN "puback" ELSE "pubrec", CliPid)
    /\ UNCHANGED <<vars, down, holding, handed, outcome, resent, repeated, sends>>

CliSubscribe ==
    /\ open /\ cli.at = "idle"
    /\ cli' = At("subscribed", CliPid)
    /\ UNCHANGED <<vars, issued, up, down, holding, handed, outcome, resent,
                   repeated, sends>>

\* Ctrl-c ends subscribe, which takes one more packet as its Unsuback, if one
\* comes in time.
CliInterrupt ==
    /\ cli.at = "subscribed"
    /\ CliReturns("ok")
    /\ down' = down \/ (down # <<>> /\ Coalesced(down, down'))
    /\ UNCHANGED <<vars, issued, up, holding, handed, resent, repeated, sends>>

\* A mistake in publish: whatever comes is taken for the answer.
AwaitedUnchecked(pkt) ==
    CASE cli.at \in {"puback", "pubrec", "pubcomp"} -> TRUE
      [] cli.at = "pubrel" -> pkt = Ack("Pubrel", cli.pid)
      [] cli.at = "subscribed" -> pkt.kind = "Publish"

\* The packet the command waits for.
Awaited(pkt) ==
    CASE cli.at = "puback" -> pkt = Ack("Puback", cli.pid)
      [] cli.at = "pubrec" -> pkt = Ack("Pubrec", cli.pid)
      [] cli.at = "pubcomp" -> pkt = Ack("Pubcomp", cli.pid)
      [] cli.at = "pubrel" -> pkt = Ack("Pubrel", cli.pid)
      [] cli.at = "subscribed" -> pkt.kind = "Publish"

\* An acknowledgement is sent, and the command goes on in state s.
CliAcks(kind, p, s) ==
    /\ CliSends(Ack(kind, p), NoNumber)
    /\ cli' = At(s, p)
    /\ outcome' = outcome

\* The packet comes: publish goes on to the next one or is done, subscribe
\* acknowledges it.
CliAnswers(pkt) ==
    \/ cli.at \in {"puback", "pubcomp"} /\ CliReturns("ok") /\ up' = up
    \/ cli.at = "pubrec" /\ CliAcks("Pubrel", pkt.pid, "pubcomp")
    \/ cli.at = "pubrel" /\ CliAcks("Pubcomp", pkt.pid, "subscribed")
    \/ /\ cli.at = "subscribed" /\ pkt.qos = 1
       /\ CliAcks("Puback", pkt.pid, "subscribed")
    \/ /\ cli.at = "subscribed" /\ pkt.qos = 2
       /\ CliAcks("Pubrec", pkt.pid, "pubrel")

\* Another packet is ignored; where wait_on_response_with_retry returned it,
\* the timeouts before it are charged to the budget.
CliIgnores ==
    /\ cli' = IF Retrying THEN [cli EXCEPT !.retries = @ + cli.attempt,
                                           !.attempt = 0] ELSE cli
    /\ UNCHANGED <<up, outcome>>

CliRecv ==
    /\ cli.at # "idle" /\ down # <<>> /\ ~(Retrying /\ Spent)
    /\ Publishing \/ Len(up) < MaxStream
    /\ Coalesced(down, down')
    /\ IF Awaited(Head(down)) THEN CliAnswers(Head(down)) ELSE CliIgnores
    /\ UNCHANGED <<vars, issued, holding, handed, resent, repeated, sends>>

\* One more timeout has passed.
Counted == IF cli.at = "puback" THEN [cli EXCEPT !.retries = @ + 1]
                                ELSE [cli EXCEPT !.attempt = @ + 1]

\* What the command sent last.
LastSent ==
    CASE cli.at = "puback" -> Publish(1, cli.pid)
      [] cli.at = "pubrec" -> Publish(2, cli.pid)
      [] cli.at = "pubcomp" -> Ack("Pubrel", cli.pid)
      [] cli.at = "pubrel" -> Ack("Pubrec", cli.pid)

\* Nothing came in time: the last packet is sent again.
CliResends ==
    /\ open /\ (Publishing \/ Retrying) /\ ~Spent
    /\ cli' = Counted
    /\ IF LastSent.kind = "Publish"
       THEN /\ CliSends(LastSent, issued)
            /\ resent' = [resent EXCEPT ![issued] = @ + 1]
       ELSE CliSends(LastSent, NoNumber) /\ resent' = resent
    /\ repeated' = TRUE
    /\ UNCHANGED <<vars, issued, down, holding, handed, outcome, sends>>

\* A mistake in the loop: it goes on when the retries are spent.
CliWaitsOn ==
    /\ open /\ (Publishing \/ Retrying) /\ Spent
    /\ UNCHANGED <<vars, linkVars>>

\* Or the command gives up; subscribe, too.
CliGivesUp ==
    /\ open /\ (Publishing \/ Retrying) /\ Spent
    /\ CliReturns("failed")
    /\ UNCHANGED <<vars, issued, up, down, holding, handed, resent, repeated,
                   sends>>

\* The stream has ended: the next send or receive of the command fails.
CliFails ==
    /\ ~open /\ cli.at # "idle"
    /\ CliReturns("failed")
    /\ UNCHANGED <<vars, issued, up, down, holding, handed, resent, repeated,
                   sends>>

-----------------------------------------------------------------------------
(* The session: module QosSession, with the stream as its client.          *)

\* handle_packet.
Handle(pkt) ==
    \/ pkt.kind = "Publish" /\ pkt.qos = 1 /\ RecvPublish1(pkt.pid)
    \/ pkt.kind = "Publish" /\ pkt.qos = 2 /\ RecvPublish2(pkt.pid)
    \/ pkt.kind \in {"Puback", "Pubcomp"} /\ RecvFinal(pkt.pid, pkt.kind)
    \/ pkt.kind = "Pubrec" /\ RecvPubrec(pkt.pid)
    \/ pkt.kind = "Pubrel" /\ RecvPubrel(pkt.pid)

\* The handler reads from the stream.
LinkRecv ==
    /\ up # <<>>
    /\ Coalesced(up, up')
    /\ Handle(Head(up).packet)
    /\ holding' = Head(up).n
    /\ UNCHANGED <<cli, issued, down, handed, outcome, resent, repeated, sends>>

\* A write ends: the packet is on its way to the command.
LinkWritten ==
    /\ Written /\ Len(down) < MaxStream
    /\ down' = Append(down, writing.packet)
    /\ holding' = IF writing.forward THEN holding ELSE NoNumber
    /\ UNCHANGED <<cli, issued, up, handed, outcome, resent, repeated, sends>>

\* A message that has been acknowledged is taken by the broker's channel.
LinkHandedOver ==
    /\ HandedOver
    /\ handed' = [handed EXCEPT ![holding] = @ + 1]
    /\ holding' = NoNumber
    /\ UNCHANGED <<cli, issued, up, down, outcome, resent, repeated, sends>>

LinkInboxStep ==
    /\ InboxStep
    /\ UNCHANGED linkVars

LinkRetries(k) ==
    /\ RetryFires(k)
    /\ repeated' = TRUE
    /\ UNCHANGED <<cli, issued, up, down, holding, handed, outcome, resent, sends>>

\* Other clients' messages come at any time: subscriptions outlive subscribe
\* when it gives up before its Unsubscribe or the Unsubscribe is lost, and they
\* outlive the connection (MqttBroker!AllTracesRemoved).
LinkSends ==
    /\ BrokerSends
    /\ sends' = sends + inbox'[Len(inbox')].packet.qos
    /\ issued + sends' <= MaxTraffic
    /\ UNCHANGED <<cli, issued, up, down, holding, handed, outcome, resent,
                   repeated>>

LinkEnds ==
    /\ ListenEnds
    /\ up' = <<>>
    /\ UNCHANGED <<cli, issued, down, holding, handed, outcome, resent, repeated,
                   sends>>

LinkInit ==
    /\ Init
    /\ cli = At("idle", CliPid)
    /\ issued = 0
    /\ up = <<>>
    /\ down = <<>>
    /\ holding = NoNumber
    /\ handed = [n \in Number |-> 0]
    /\ outcome = [n \in Number |-> "none"]
    /\ resent = [n \in Number |-> 0]
    /\ repeated = FALSE
    /\ sends = 0

CliStep == CliRecv \/ CliResends \/ CliGivesUp \/ CliFails

LinkNext ==
    \/ \E q \in {1, 2} : CliPublish(q)
    \/ CliSubscribe \/ CliInterrupt
    \/ CliStep
    \/ LinkRecv \/ LinkWritten \/ LinkHandedOver \/ LinkInboxStep
    \/ \E k \in Task : LinkRetries(k) \/ (RetryGivesUp(k) /\ UNCHANGED linkVars)
    \/ LinkSends
    \/ LinkEnds
    \/ SessionDropped /\ UNCHANGED linkVars

LinkSpec == LinkInit /\ [][LinkNext]_allVars

\* The fairness of QosSession, and a command that runs goes on.  The user and
\* the broker owe nothing.
LinkFairness ==
    /\ WF_allVars(CliStep)
    /\ WF_allVars(LinkWritten)
    /\ SF_allVars(LinkInboxStep)
    /\ \A k \in Task : SF_allVars(LinkRetries(k))

FairLinkSpec == LinkSpec /\ LinkFairness

-----------------------------------------------------------------------------
(* Properties.                                                             *)

\* The types of the variables.
LinkTypeOK ==
    /\ cli \in [at : {"idle", "puback", "pubrec", "pubcomp", "subscribed",
                      "pubrel"},
                pid : Pid, retries : 0..CliRetries, attempt : 0..CliRetries]
    /\ issued \in 0..MaxTraffic
    /\ up \in Seq([packet : Packets, n : Number \cup {NoNumber}])
    /\ down \in Seq(Packets)
    /\ holding \in Number \cup {NoNumber}
    /\ handed \in [Number -> Nat]
    /\ outcome \in [Number -> {"none", "ok", "failed"}]
    /\ resent \in [Number -> 0..CliRetries]
    /\ repeated \in BOOLEAN
    /\ sends \in 0..MaxTraffic

\* Pubrels and retransmissions of the broker's own packets never hand a
\* message over again: however the retries of both ends cross, a message is
\* handed to the broker at most once for each time the command sent it.
DuplicatesAreResends ==
    \A n \in Number : handed[n] <= 1 + resent[n]

\* The handler has acknowledged message n and is handing it over, or was when
\* it ended.
HandingOver(n) == holding = n /\ (writing.acked \/ ~open)

\* As long as no timeout has passed at either end, a message is handed over
\* at most once.  When its command has reported success it has been handed over,
\* or is just being: the acknowledgement leaves before the hand-over, which the
\* broker may keep waiting.  Packets that arrive together are lost, commands
\* before it failed and messages of other clients share its packet identifier.
CleanDelivery ==
    ~repeated => \A n \in Number :
        /\ handed[n] <= 1
        /\ outcome[n] = "ok" => handed[n] = 1 \/ HandingOver(n)

\* Every publish command returns, at the latest when its retries are spent,
\* whatever is lost or comes instead of the answer, provided that the broker
\* stops sending at some time: packets that are not the answer are ignored
\* without being counted, and with MaxRetries = 0 the broker's own
\* retransmissions go on for ever.
CommandsEnd == <>[][~LinkWritten]_allVars => (Publishing ~> ~Publishing)
=============================================================================
