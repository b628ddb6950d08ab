------------------------------- MODULE MqttCli -------------------------------
(***************************************************************************)
(* mqtt-cli: the shell's input and execution threads (cli/shell.rs), the   *)
(* MqttContext that commands share (mqtt.rs), and the threads that connect *)
(* starts: one for the TCP stream (tcp.rs), one for the keep-alive pings   *)
(* (mqtt/keep_alive.rs).                                                   *)
(*                                                                         *)
(* The user types any line at any prompt.  The broker and the network are  *)
(* the environment: a read brings a packet, nothing, an error or the end   *)
(* of the stream, a write may fail, and what a received packet is, is      *)
(* chosen when a command looks at it.  Waits have no durations, so a       *)
(* keep_alive::Msg::Reset, which restarts one, is left out.                *)
(***************************************************************************)
EXTENDS Naturals, Sequences

CONSTANTS
    Line,         \* the lines the user types
    None,         \* "no thread"
    MaxRetries,   \* MAX_RETRIES of publish and subscribe
    MaxTyped,     \* bound: lines the user types
    MaxConnects,  \* bound: connect lines among them
    MaxQueue,     \* bound: a ping is queued only behind fewer lines
    MaxPackets    \* bound: packets read from one connection

Thread == 1..MaxConnects

\* "help" stands for every line that touches no connection (help, debug, an
\* empty, unknown or malformed line), "publish" for publish with QoS 0 and
\* connack, "exit all" for exit with operands.
Connects == {"connect", "connect -k 0"}
Anytime == {"help", "exit", "exit all"}
WhenConnected == {"disconnect", "ping", "unsubscribe", "publish",
                  "publish -q 1", "publish -q 2", "subscribe"}
Internal == {"disconnect -c", "ping -n -q"}
Lines == Connects \cup Anytime \cup WhenConnected \cup Internal

ASSUME LineAssumption == Line \subseteq Lines
ASSUME NoneAssumption == None \notin Nat
ASSUME RetriesAssumption == MaxRetries \in Nat \ {0}
ASSUME BoundsAssumption ==
    {MaxTyped, MaxConnects, MaxQueue, MaxPackets} \subseteq Nat

VARIABLES
    input,      \* where the input thread is
    typed,      \* lines typed so far
    dials,      \* connect lines typed so far
    cmdQ,       \* the channel of command lines to the execution thread
    responded,  \* does a response wait for the input thread?
    exec,       \* where the execution thread is, and its retry counters
    ctxTcp,     \* MqttContext: tcp_write_tx and tcp_read_rx
    ctxKa,      \* MqttContext: keep_alive_tx
    tcpAt,      \* where each TCP thread is
    writeQ,     \* the channel into each TCP thread
    readQ,      \* packets in the channel from each TCP thread
    got,        \* packets each TCP thread has read
    kaTx,       \* the keep_alive_tx each TCP thread was given
    kaAt,       \* where each keep-alive thread is
    suspended,  \* is_suspended of each keep-alive thread
    mail        \* the channel into each keep-alive thread

inputVars == <<input, typed, dials>>
tcpVars == <<tcpAt, got, kaTx>>
kaVars == <<kaAt, suspended>>
vars == <<inputVars, cmdQ, responded, exec, ctxTcp, ctxKa, tcpVars, writeQ,
          readQ, kaVars, mail>>

-----------------------------------------------------------------------------
(* The execution thread.                                                   *)
(*   "idle"        waits for a line                                        *)
(*   "connecting"  in TcpStream::connect                                   *)
(*   "connack"     connect waits for the Connack                           *)
(*   "reply"       ping, unsubscribe, or subscribe's end wait for a packet *)
(*   "puback"      publish -q 1                                            *)
(*   "pubrec", "pubcomp"  publish -q 2                                     *)
(*   "subscribed", "pubrel"  subscribe, and within it a QoS 2 receipt      *)
(*   "closing"     disconnect has sent its packet                          *)
(*   "done"        the thread has returned                                 *)

Retrying == {"pubrec", "pubcomp", "pubrel"}
ExecPoints == Retrying \cup {"idle", "connecting", "connack", "reply", "puback",
                             "subscribed", "closing", "done"}

At(p) == [at |-> p, retries |-> 0, attempt |-> 0]

\* The process ends with its two scoped threads.
Alive == input # "done" \/ exec.at # "done"

\* A command has returned, with Ok or an error.  The response cannot be sent
\* once the input thread has ended, and then the execution thread ends.
Respond == IF input = "done"
           THEN exec' = At("done") /\ UNCHANGED responded
           ELSE exec' = At("idle") /\ responded' = TRUE

\* The execution thread takes line c.  Connect is enabled without, the
\* commands of WhenConnected and Internal with a connection in the context.
Takes(c) == /\ exec.at = "idle" /\ cmdQ # <<>> /\ Head(cmdQ) = c
            /\ cmdQ' = Tail(cmdQ)
Enabled(c) == CASE c \in Connects -> ctxTcp = None
                [] c \in Anytime -> TRUE
                [] OTHER -> ctxTcp # None

\* The channel into the TCP thread: a run of packets is one entry.
Put(q, m) == IF q # <<>> /\ q[Len(q)] = m THEN q ELSE Append(q, m)
Sendable == tcpAt[ctxTcp] \in {"read", "write"}

\* tcp_send and then, or the command fails: with its thread gone, the channel
\* rejects the packet.
SendThen(then) ==
    \/ /\ Sendable
       /\ writeQ' = [writeQ EXCEPT ![ctxTcp] = Put(@, "Packet")]
       /\ exec' = then /\ UNCHANGED responded
    \/ ~Sendable /\ UNCHANGED writeQ /\ Respond

\* tcp_recv_timeout: a packet, or a timeout or a closed channel.
Receives == /\ readQ[ctxTcp] > 0
            /\ readQ' = [readQ EXCEPT ![ctxTcp] = @ - 1]
NothingCame == readQ[ctxTcp] = 0 /\ UNCHANGED readQ

\* Lines without a callback to run, and those that touch no connection.
NoEffect ==
    /\ \E c \in Lines : Takes(c) /\ (c = "help" \/ ~Enabled(c))
    /\ Respond
    /\ UNCHANGED <<inputVars, ctxTcp, ctxKa, tcpVars, writeQ, readQ, kaVars, mail>>

\* exit: Abort ends the thread, and its channels with it.
Exit ==
    /\ Takes("exit") \/ Takes("exit all")
    /\ exec' = At("done")
    /\ UNCHANGED <<inputVars, responded, ctxTcp, ctxKa, tcpVars, writeQ, readQ,
                   kaVars, mail>>

FirstFree(at) == CHOOSE n \in Thread :
                    at[n] = "none" /\ \A k \in Thread : at[k] = "none" => n <= k

\* connect: the keep-alive thread starts, suspended, before the connection is
\* attempted.  Without a keep-alive interval the context's one stays.
Connect ==
    /\ ctxTcp = None
    /\ exec' = At("connecting")
    /\ \/ LET n == FirstFree(kaAt) IN
          /\ Takes("connect")
          /\ kaAt' = [kaAt EXCEPT ![n] = "running"]
          /\ mail' = [mail EXCEPT ![n] = <<"Suspend">>]
          /\ ctxKa' = n
       \/ /\ Takes("connect -k 0")
          /\ UNCHANGED <<kaAt, mail, ctxKa>>
    /\ UNCHANGED <<inputVars, responded, ctxTcp, tcpVars, writeQ, readQ, suspended>>

\* spawn_tcp_thread, and the Connect packet.
ConnectTcp ==
    LET g == FirstFree(tcpAt) IN
    /\ exec.at = "connecting"
    /\ \/ /\ Respond
          /\ UNCHANGED <<ctxTcp, tcpVars, writeQ>>
       \/ /\ tcpAt' = [tcpAt EXCEPT ![g] = "read"]
          /\ kaTx' = [kaTx EXCEPT ![g] = ctxKa]
          /\ writeQ' = [writeQ EXCEPT ![g] = <<"Packet">>]
          /\ ctxTcp' = g
          /\ exec' = At("connack")
          /\ UNCHANGED <<responded, got>>
    /\ UNCHANGED <<inputVars, cmdQ, ctxKa, readQ, kaVars, mail>>

\* The end of connect: only a Connack resumes the keep-alive thread; all other
\* outcomes leave the context as it is.
AwaitConnack ==
    /\ exec.at = "connack"
    /\ \/ /\ Receives
          /\ mail' = IF ctxKa # None /\ kaAt[ctxKa] = "running"
                     THEN [mail EXCEPT ![ctxKa] = Append(@, "Resume")] ELSE mail
       \/ (Receives \/ NothingCame) /\ UNCHANGED mail
    /\ Respond
    /\ UNCHANGED <<inputVars, cmdQ, ctxTcp, ctxKa, tcpVars, writeQ, kaVars>>

\* ping, keep-alive's ping, unsubscribe: a packet, then one packet back.
Request ==
    /\ ctxTcp # None
    /\ Takes("ping") \/ Takes("ping -n -q") \/ Takes("unsubscribe")
    /\ SendThen(At("reply"))
    /\ UNCHANGED <<inputVars, ctxTcp, ctxKa, tcpVars, readQ, kaVars, mail>>

AwaitReply ==
    /\ exec.at = "reply"
    /\ Receives \/ NothingCame
    /\ Respond
    /\ UNCHANGED <<inputVars, cmdQ, ctxTcp, ctxKa, tcpVars, writeQ, kaVars, mail>>

\* publish with QoS 0, and connack.
Publish0 ==
    /\ ctxTcp # None /\ Takes("publish")
    /\ writeQ' = IF Sendable THEN [writeQ EXCEPT ![ctxTcp] = Put(@, "Packet")]
                             ELSE writeQ
    /\ Respond
    /\ UNCHANGED <<inputVars, ctxTcp, ctxKa, tcpVars, readQ, kaVars, mail>>

\* publish with QoS 1 or 2, and subscribe.
Start ==
    /\ ctxTcp # None
    /\ \/ Takes("publish -q 1") /\ SendThen(At("puback"))
       \/ Takes("publish -q 2") /\ SendThen(At("pubrec"))
       \/ Takes("subscribe") /\ SendThen(At("subscribed"))
    /\ UNCHANGED <<inputVars, ctxTcp, ctxKa, tcpVars, readQ, kaVars, mail>>

\* A mistake in the loop of publish -q 1: the retries are not limited.
AwaitPubackForever ==
    /\ exec.at = "puback"
    /\ \/ Receives /\ Respond /\ UNCHANGED writeQ
       \/ Receives /\ UNCHANGED <<exec, responded, writeQ>>
       \/ /\ NothingCame
          /\ SendThen([at |-> "puback", retries |-> exec.retries + 1, attempt |-> 0])
    /\ UNCHANGED <<inputVars, cmdQ, ctxTcp, ctxKa, tcpVars, kaVars, mail>>

\* The loop of publish -q 1: packets other than the Puback are ignored.
AwaitPuback ==
    /\ exec.at = "puback"
    /\ \/ Receives /\ Respond /\ UNCHANGED writeQ
       \/ Receives /\ UNCHANGED <<exec, responded, writeQ>>
       \/ /\ NothingCame /\ exec.retries >= MaxRetries
          /\ Respond /\ UNCHANGED writeQ
       \/ /\ NothingCame /\ exec.retries < MaxRetries
          /\ SendThen([at |-> "puback", retries |-> exec.retries + 1, attempt |-> 0])
    /\ UNCHANGED <<inputVars, cmdQ, ctxTcp, ctxKa, tcpVars, kaVars, mail>>

\* A mistake in the count: the successful attempt is charged too.
ChargedOneMore == [at |-> exec.at, retries |-> exec.retries + exec.attempt + 1,
                   attempt |-> 0]

\* A packet that wait_on_response_with_retry returned: the timeouts before it
\* are charged to the budget.
Charged == [at |-> exec.at, retries |-> exec.retries + exec.attempt, attempt |-> 0]

\* The packet waited for: publish -q 2 sends Pubrel and waits for Pubcomp,
\* which ends it; subscribe answers Pubrel with Pubcomp.
Answered == CASE exec.at = "pubrec" -> SendThen(At("pubcomp"))
              [] exec.at = "pubcomp" -> Respond /\ UNCHANGED writeQ
              [] exec.at = "pubrel" -> SendThen(At("subscribed"))

\* A mistake in wait_on_response_with_retry: the attempts are not counted.
AwaitUncounted ==
    /\ exec.at \in Retrying
    /\ \/ Receives /\ Answered
       \/ Receives /\ exec' = Charged /\ UNCHANGED <<responded, writeQ>>
       \/ Receives /\ Respond /\ UNCHANGED writeQ
       \/ NothingCame /\ SendThen(exec)
    /\ UNCHANGED <<inputVars, cmdQ, ctxTcp, ctxKa, tcpVars, kaVars, mail>>

\* handle_qos_exactly_once and subscribe's QoS 2 receipt, around
\* wait_on_response_with_retry: it makes max_retries - retries attempts.
AwaitRetrying ==
    /\ exec.at \in Retrying
    /\ IF exec.attempt + exec.retries >= MaxRetries
       THEN Respond /\ UNCHANGED <<readQ, writeQ>>
       ELSE \/ Receives /\ Answered
            \/ Receives /\ exec' = Charged /\ UNCHANGED <<responded, writeQ>>
            \/ Receives /\ Respond /\ UNCHANGED writeQ
            \/ /\ NothingCame
               /\ SendThen([at |-> exec.at, retries |-> exec.retries,
                            attempt |-> exec.attempt + 1])
    /\ UNCHANGED <<inputVars, cmdQ, ctxTcp, ctxKa, tcpVars, kaVars, mail>>

\* The loop of subscribe: a packet is printed or ignored, answered with a
\* Puback, answered with a Pubrec, or ends it; so does a closed channel.
Subscribed ==
    /\ exec.at = "subscribed"
    /\ \/ Receives /\ UNCHANGED <<exec, responded, writeQ>>
       \/ Receives /\ SendThen(At("subscribed"))
       \/ Receives /\ SendThen(At("pubrel"))
       \/ Receives /\ Respond /\ UNCHANGED writeQ
       \/ NothingCame /\ ~Sendable /\ Respond /\ UNCHANGED writeQ
    /\ UNCHANGED <<inputVars, cmdQ, ctxTcp, ctxKa, tcpVars, kaVars, mail>>

\* Ctrl-c: subscribe sends Unsubscribe and waits for a packet.
Interrupt ==
    /\ exec.at = "subscribed"
    /\ SendThen(At("reply"))
    /\ UNCHANGED <<inputVars, cmdQ, ctxTcp, ctxKa, tcpVars, readQ, kaVars, mail>>

\* disconnect sends its packet, ...
Disconnect ==
    /\ ctxTcp # None /\ Takes("disconnect")
    /\ SendThen(At("closing"))
    /\ UNCHANGED <<inputVars, ctxTcp, ctxKa, tcpVars, readQ, kaVars, mail>>

\* Mistakes in disconnect: it drops the sender of one of the two threads and
\* does not tell the thread.
DropWithoutKill ==
    /\ exec.at = "closing"
    /\ Respond
    /\ ctxKa' = None
    /\ IF Sendable
       THEN /\ writeQ' = [writeQ EXCEPT ![ctxTcp] = Put(@, "Close")]
            /\ readQ' = [readQ EXCEPT ![ctxTcp] = 0]
            /\ ctxTcp' = None
       ELSE UNCHANGED <<writeQ, readQ, ctxTcp>>
    /\ UNCHANGED <<inputVars, cmdQ, tcpVars, kaVars, mail>>
DropWithoutClose ==
    /\ exec.at = "closing"
    /\ Respond
    /\ mail' = IF ctxKa # None /\ kaAt[ctxKa] = "running"
               THEN [mail EXCEPT ![ctxKa] = Append(@, "Kill")] ELSE mail
    /\ ctxKa' = None
    /\ readQ' = [readQ EXCEPT ![ctxTcp] = 0]
    /\ ctxTcp' = None
    /\ UNCHANGED <<inputVars, cmdQ, tcpVars, writeQ, kaVars>>

\* ... kills the keep-alive thread and closes the TCP thread.  A send that
\* fails ends the command with the rest of the context as it was.
KillAndClose ==
    LET killed == ctxKa = None \/ kaAt[ctxKa] = "running" IN
    /\ exec.at = "closing"
    /\ Respond
    /\ mail' = IF killed /\ ctxKa # None
               THEN [mail EXCEPT ![ctxKa] = Append(@, "Kill")] ELSE mail
    /\ ctxKa' = IF killed THEN None ELSE ctxKa
    /\ IF killed /\ Sendable
       THEN /\ writeQ' = [writeQ EXCEPT ![ctxTcp] = Put(@, "Close")]
            /\ readQ' = [readQ EXCEPT ![ctxTcp] = 0]
            /\ ctxTcp' = None
       ELSE UNCHANGED <<writeQ, readQ, ctxTcp>>
    /\ UNCHANGED <<inputVars, cmdQ, tcpVars, kaVars>>

\* A mistake in disconnect -c: it is what its help text says.
CleanupWithoutClose ==
    /\ ctxTcp # None /\ Takes("disconnect -c")
    /\ Respond
    /\ mail' = IF ctxKa # None /\ kaAt[ctxKa] = "running"
               THEN [mail EXCEPT ![ctxKa] = Append(@, "Kill")] ELSE mail
    /\ ctxKa' = None
    /\ readQ' = [readQ EXCEPT ![ctxTcp] = 0]
    /\ ctxTcp' = None
    /\ UNCHANGED <<inputVars, tcpVars, writeQ, kaVars>>

\* Another one: like disconnect, it gives up when a send fails.
CleanupMayFail ==
    /\ ctxTcp # None /\ Takes("disconnect -c")
    /\ Respond
    /\ IF Sendable
       THEN /\ writeQ' = [writeQ EXCEPT ![ctxTcp] = Put(@, "Close")]
            /\ readQ' = [readQ EXCEPT ![ctxTcp] = 0]
            /\ ctxTcp' = None /\ ctxKa' = None
       ELSE UNCHANGED <<writeQ, readQ, ctxTcp, ctxKa>>
    /\ UNCHANGED <<inputVars, tcpVars, kaVars, mail>>

\* disconnect -c, queued by a TCP thread: no packet, and no send may fail it.
Cleanup ==
    /\ ctxTcp # None /\ Takes("disconnect -c")
    /\ Respond
    /\ mail' = IF ctxKa # None /\ kaAt[ctxKa] = "running"
               THEN [mail EXCEPT ![ctxKa] = Append(@, "Kill")] ELSE mail
    /\ ctxKa' = None
    /\ writeQ' = IF Sendable THEN [writeQ EXCEPT ![ctxTcp] = Put(@, "Close")]
                             ELSE writeQ
    /\ readQ' = [readQ EXCEPT ![ctxTcp] = 0]
    /\ ctxTcp' = None
    /\ UNCHANGED <<inputVars, tcpVars, kaVars>>

-----------------------------------------------------------------------------
(* The input thread.                                                       *)
(*   "waiting"    for the response to a command                            *)
(*   "prompting"  for the locks on state and shell, which the execution    *)
(*                thread holds while it runs a command                     *)
(*   "reading"    a line                                                   *)
(*   "done"       the thread has returned                                  *)

\* Responses are drained: one prompt may stand for several.
TakeResponses ==
    /\ input = "waiting" /\ responded
    /\ responded' = FALSE
    /\ input' = "prompting"
    /\ UNCHANGED <<typed, dials, cmdQ, exec, ctxTcp, ctxKa, tcpVars, writeQ,
                   readQ, kaVars, mail>>

\* The execution thread is gone and so is the channel.
InputEnds ==
    /\ input = "waiting" /\ ~responded /\ exec.at = "done"
    /\ input' = "done"
    /\ UNCHANGED <<typed, dials, cmdQ, responded, exec, ctxTcp, ctxKa, tcpVars,
                   writeQ, readQ, kaVars, mail>>

Prompt ==
    /\ input = "prompting" /\ exec.at \in {"idle", "done"}
    /\ input' = "reading"
    /\ UNCHANGED <<typed, dials, cmdQ, responded, exec, ctxTcp, ctxKa, tcpVars,
                   writeQ, readQ, kaVars, mail>>

\* The user types c.  Only the plain "exit" ends this thread at once.
Type(c) ==
    /\ input = "reading" /\ typed < MaxTyped
    /\ c \in Connects => dials < MaxConnects
    /\ typed' = typed + 1
    /\ dials' = IF c \in Connects THEN dials + 1 ELSE dials
    /\ cmdQ' = IF exec.at = "done" THEN cmdQ ELSE Append(cmdQ, c)
    /\ input' = IF exec.at = "done" \/ c = "exit" THEN "done" ELSE "waiting"
    /\ UNCHANGED <<responded, exec, ctxTcp, ctxKa, tcpVars, writeQ, readQ,
                   kaVars, mail>>

-----------------------------------------------------------------------------
(* The TCP thread: reads until a timeout or a packet, then writes out its  *)
(* channel.                                                                *)

Returns(g) == /\ tcpAt' = [tcpAt EXCEPT ![g] = "done"]
              /\ writeQ' = [writeQ EXCEPT ![g] = <<>>]

\* The stream has ended: the shell is told to clean up.
ReadEof(g) ==
    /\ Alive /\ tcpAt[g] = "read"
    /\ Returns(g)
    /\ cmdQ' = IF exec.at = "done" THEN cmdQ ELSE Append(cmdQ, "disconnect -c")
    /\ UNCHANGED <<inputVars, responded, exec, ctxTcp, ctxKa, got, kaTx, readQ,
                   kaVars, mail>>

\* An error ends the thread, and so does a packet nobody receives any more.
ReadFails(g) ==
    /\ Alive /\ tcpAt[g] = "read"
    /\ Returns(g)
    /\ UNCHANGED <<inputVars, cmdQ, responded, exec, ctxTcp, ctxKa, got, kaTx,
                   readQ, kaVars, mail>>

ReadPacket(g) ==
    /\ Alive /\ tcpAt[g] = "read" /\ ctxTcp = g /\ got[g] < MaxPackets
    /\ readQ' = [readQ EXCEPT ![g] = @ + 1]
    /\ got' = [got EXCEPT ![g] = @ + 1]
    /\ tcpAt' = [tcpAt EXCEPT ![g] = "write"]
    /\ UNCHANGED <<inputVars, cmdQ, responded, exec, ctxTcp, ctxKa, kaTx, writeQ,
                   kaVars, mail>>

ReadTimesOut(g) ==
    /\ Alive /\ tcpAt[g] = "read"
    /\ tcpAt' = [tcpAt EXCEPT ![g] = "write"]
    /\ UNCHANGED <<inputVars, cmdQ, responded, exec, ctxTcp, ctxKa, got, kaTx,
                   writeQ, readQ, kaVars, mail>>

\* The write loop: packets are written, or a write fails; Close ends the
\* thread; an empty channel ends the loop.
Write(g) ==
    /\ Alive /\ tcpAt[g] = "write"
    /\ \/ /\ writeQ[g] = <<>>
          /\ tcpAt' = [tcpAt EXCEPT ![g] = "read"]
          /\ UNCHANGED writeQ
       \/ /\ writeQ[g] # <<>> /\ Head(writeQ[g]) = "Packet"
          /\ writeQ' = [writeQ EXCEPT ![g] = Tail(@)]
          /\ UNCHANGED tcpAt
       \/ /\ writeQ[g] # <<>>
          /\ Returns(g)
    /\ UNCHANGED <<inputVars, cmdQ, responded, exec, ctxTcp, ctxKa, got, kaTx,
                   readQ, kaVars, mail>>

-----------------------------------------------------------------------------
(* The keep-alive thread.                                                  *)

KaReceives(n) ==
    /\ Alive /\ kaAt[n] = "running" /\ mail[n] # <<>>
    /\ mail' = [mail EXCEPT ![n] = Tail(@)]
    /\ suspended' = [suspended EXCEPT ![n] =
         CASE Head(mail[n]) = "Suspend" -> TRUE
           [] Head(mail[n]) = "Resume" -> FALSE
           [] OTHER -> @]
    /\ kaAt' = [kaAt EXCEPT ![n] = IF Head(mail[n]) = "Kill" THEN "done" ELSE @]
    /\ UNCHANGED <<inputVars, cmdQ, responded, exec, ctxTcp, ctxKa, tcpVars,
                   writeQ, readQ>>

\* The context and the TCP threads hold the sending ends.
HasSender(n) == \/ ctxKa = n
                \/ \E g \in Thread : kaTx[g] = n /\ tcpAt[g] \in {"read", "write"}

\* recv_timeout times out: a ping is queued.  (Suspended, it does nothing.)
KaTimesOut(n) ==
    /\ Alive /\ kaAt[n] = "running" /\ mail[n] = <<>> /\ HasSender(n)
    /\ ~suspended[n]
    /\ exec.at # "done" /\ Len(cmdQ) < MaxQueue
    /\ cmdQ' = Append(cmdQ, "ping -n -q")
    /\ UNCHANGED <<inputVars, responded, exec, ctxTcp, ctxKa, tcpVars, writeQ,
                   readQ, kaVars, mail>>

\* A mistake in the keep-alive thread: it loops on a disconnected channel.
KaSpins(n) ==
    /\ Alive /\ kaAt[n] = "running" /\ mail[n] = <<>> /\ ~HasSender(n)
    /\ UNCHANGED vars

KaDisconnected(n) ==
    /\ Alive /\ kaAt[n] = "running" /\ mail[n] = <<>> /\ ~HasSender(n)
    /\ kaAt' = [kaAt EXCEPT ![n] = "done"]
    /\ UNCHANGED <<inputVars, cmdQ, responded, exec, ctxTcp, ctxKa, tcpVars,
                   writeQ, readQ, suspended, mail>>

-----------------------------------------------------------------------------
Init ==
    /\ input = "waiting" /\ typed = 0 /\ dials = 0
    /\ cmdQ = <<"help">>
    /\ responded = FALSE
    /\ exec = At("idle")
    /\ ctxTcp = None /\ ctxKa = None
    /\ tcpAt = [g \in Thread |-> "none"]
    /\ writeQ = [g \in Thread |-> <<>>]
    /\ readQ = [g \in Thread |-> 0]
    /\ got = [g \in Thread |-> 0]
    /\ kaTx = [g \in Thread |-> None]
    /\ kaAt = [n \in Thread |-> "none"]
    /\ suspended = [n \in Thread |-> FALSE]
    /\ mail = [n \in Thread |-> <<>>]

ExecStep ==
    \/ NoEffect \/ Exit
    \/ Connect \/ ConnectTcp \/ AwaitConnack
    \/ Request \/ AwaitReply
    \/ Publish0 \/ Start \/ AwaitPuback \/ AwaitRetrying \/ Subscribed
    \/ Disconnect \/ KillAndClose \/ Cleanup

InputStep == TakeResponses \/ InputEnds \/ Prompt

TcpStep(g) == ReadEof(g) \/ ReadFails(g) \/ ReadPacket(g) \/ ReadTimesOut(g) \/ Write(g)

KaStep(n) == KaReceives(n) \/ KaTimesOut(n) \/ KaDisconnected(n)

Next ==
    \/ ExecStep
    \/ Interrupt
    \/ InputStep
    \/ \E c \in Line : Type(c)
    \/ \E g \in Thread : TcpStep(g) \/ KaStep(g)

Spec == Init /\ [][Next]_vars

\* Every thread runs on, and each of its waits is bounded, except that for a
\* line, that for the locks, which std::sync::Mutex does not hand over in
\* order, and subscribe's loop.  One bound is an assumption about the peer: the
\* TCP thread's stream.write has no timeout, so that the peer goes on reading
\* or the connection fails is what makes a TcpStep with a write end.
Fairness ==
    /\ WF_vars(ExecStep)
    /\ WF_vars(TakeResponses \/ InputEnds)
    /\ \A g \in Thread : WF_vars(TcpStep(g)) /\ WF_vars(KaReceives(g) \/ KaDisconnected(g))

FairSpec == Spec /\ Fairness

-----------------------------------------------------------------------------
(* Properties.                                                             *)

\* The types of the variables.
TypeOK ==
    /\ input \in {"waiting", "prompting", "reading", "done"}
    /\ typed \in 0..MaxTyped /\ dials \in 0..MaxConnects
    /\ cmdQ \in Seq(Lines)
    /\ responded \in BOOLEAN
    /\ exec \in [at : ExecPoints, retries : 0..MaxRetries, attempt : 0..MaxRetries]
    /\ ctxTcp \in Thread \cup {None} /\ ctxKa \in Thread \cup {None}
    /\ tcpAt \in [Thread -> {"none", "read", "write", "done"}]
    /\ writeQ \in [Thread -> Seq({"Packet", "Close"})]
    /\ readQ \in [Thread -> 0..MaxPackets] /\ got \in [Thread -> 0..MaxPackets]
    /\ kaTx \in [Thread -> Thread \cup {None}]
    /\ kaAt \in [Thread -> {"none", "running", "done"}]
    /\ suspended \in [Thread -> BOOLEAN]
    /\ mail \in [Thread -> Seq({"Suspend", "Resume", "Kill"})]

Holds(q, m) == \E k \in 1..Len(q) : q[k] = m

\* A running TCP thread is the one of the context, or has been told to close:
\* whatever a command runs into, no stream is left open that the user cannot
\* reach any more.
StreamsAreReachable ==
    \A g \in Thread : tcpAt[g] \in {"read", "write"} =>
        ctxTcp = g \/ Holds(writeQ[g], "Close")

\* Will the keep-alive thread send pings once it has read its mail?
Pings(n) == /\ kaAt[n] = "running" /\ ~Holds(mail[n], "Kill")
            /\ IF mail[n] = <<>> THEN ~suspended[n]
                                 ELSE mail[n][Len(mail[n])] = "Resume"

\* A keep-alive thread pings only for a connection the context has: neither a
\* failed connect nor a disconnect leaves one pinging behind.
PingsAreForConnection ==
    \A n \in Thread : Pings(n) => ctxKa = n /\ ctxTcp # None

\* The usize subtraction max_retries - retries never underflows, and leaves
\* wait_on_response_with_retry at least one attempt, however many unexpected
\* packets come in between.
RetryBudget == exec.at \in Retrying =>
    /\ exec.retries < MaxRetries
    /\ exec.attempt + exec.retries <= MaxRetries

\* A TCP thread that the context has let go of ends.
StreamsEnd ==
    \A g \in Thread :
        tcpAt[g] \in {"read", "write"} /\ ctxTcp # g ~> tcpAt[g] = "done" \/ ~Alive

\* A keep-alive thread that the context has let go of ends.
PingersEnd ==
    \A n \in Thread :
        kaAt[n] = "running" /\ ctxKa # n ~> kaAt[n] = "done" \/ ~Alive

\* A queued exit ends both threads, whatever is queued before it, unless
\* subscribe waits for Ctrl-c.  It needs that the broker sends finitely many
\* packets (MaxPackets): publish -q 1 ignores unrelated ones uncounted, and an
\* endless stream of them would keep exit waiting behind it.
ExitEnds ==
    Holds(cmdQ, "exit") ~> ~Alive \/ exec.at = "subscribed"

\* A connection that the broker has ended is given up, so that the user can
\* connect again: the clean-up gets its turn behind commands that still wait
\* for the broker with retries, and behind pings, and finishes although every
\* send to the ended thread fails.  Only an exit may come before it.
HangupIsNoticed ==
    \A g \in Thread :
        ctxTcp = g /\ tcpAt[g] = "done" /\ Holds(cmdQ, "disconnect -c")
            ~> ctxTcp # g \/ exec.at = "done"

-----------------------------------------------------------------------------
(* What the help text of disconnect says and the code does not do.         *)

\* disconnect -c: "Run all disconnect actions except closing tcp connection."
\* The clean-up that a TCP thread queues when its stream ends does not close
\* another one.
CleanupClosesNothing ==
    [][\A g \in Thread : exec.at = "idle" /\ cmdQ # <<>>
            /\ Head(cmdQ) = "disconnect -c" /\ cmdQ' = Tail(cmdQ)
         => Holds(writeQ'[g], "Close") = Holds(writeQ[g], "Close")]_vars
=============================================================================
