---------------------------- MODULE MqttCliProofs ----------------------------
(***************************************************************************)
(* Proofs of the safety invariants of MqttCli, for any lines, any number   *)
(* of connections and any retry limit.  They follow from one inductive     *)
(* invariant, IInv, which adds to them what keeps the commands' accesses   *)
(* to the context and to the threads within bounds.                        *)
(***************************************************************************)
EXTENDS MqttCli, FiniteSetTheorems, NaturalsInduction,
        SequenceTheorems, TLAPS

\* A command that waits for a packet has a connection in the context; connect
\* has none until its stream is there.
WaitsHaveStream ==
    /\ exec.at \notin {"idle", "connecting", "done"} => ctxTcp # None
    /\ exec.at = "connecting" => ctxTcp = None

\* Packets in a channel have been read.
ReadsAreCounted == \A g \in Thread : readQ[g] <= got[g]

Used(at) == {n \in Thread : at[n] # "none"}
Dialling(q) == {k \in 1..Len(q) : q[k] \in Connects}

\* There is a thread for every connect line that the user has typed.
ThreadsSuffice ==
    /\ Cardinality(Used(kaAt)) + Cardinality(Dialling(cmdQ)) <= dials
    /\ Cardinality(Used(tcpAt)) + Cardinality(Dialling(cmdQ))
          + (IF exec.at = "connecting" THEN 1 ELSE 0) <= dials

IInv ==
    /\ TypeOK
    /\ WaitsHaveStream
    /\ ReadsAreCounted
    /\ ThreadsSuffice
    /\ StreamsAreReachable
    /\ PingsAreForConnection
    /\ RetryBudget

-----------------------------------------------------------------------------
(* Counting.                                                               *)

LEMMA Bounds ==
    /\ MaxTyped \in Nat /\ MaxConnects \in Nat /\ MaxQueue \in Nat
    /\ MaxPackets \in Nat
    /\ None \notin Thread
  BY BoundsAssumption, NoneAssumption DEF Thread

\* The counters of the TCP threads are numbers.
LEMMA ReadTypes ==
    ASSUME TypeOK
    PROVE  \A g \in Thread : /\ readQ[g] \in Nat /\ readQ[g] <= MaxPackets
                             /\ got[g] \in Nat /\ got[g] <= MaxPackets
  BY Bounds DEF TypeOK

\* The connect lines of a queue are finitely many.
LEMMA DiallingFinite ==
    ASSUME NEW q \in Seq(Lines)
    PROVE  IsFiniteSet(Dialling(q)) /\ Cardinality(Dialling(q)) \in Nat
  <1>1. Len(q) \in Nat /\ Dialling(q) \in SUBSET (1..Len(q))
    BY DEF Dialling
  <1>2. IsFiniteSet(1..Len(q))
    BY <1>1, FS_Interval
  <1>3. IsFiniteSet(Dialling(q))
    BY <1>1, <1>2, FS_Subset
  <1> QED  BY <1>3, FS_CardinalityType

\* A line that is queued adds itself.
LEMMA DiallingAppend ==
    ASSUME NEW q \in Seq(Lines), NEW c \in Lines
    PROVE  Cardinality(Dialling(Append(q, c))) =
              Cardinality(Dialling(q)) + (IF c \in Connects THEN 1 ELSE 0)
  <1> DEFINE r == Append(q, c)
  <1>1. /\ Len(q) \in Nat /\ Len(r) = Len(q) + 1
        /\ r[Len(q) + 1] = c
        /\ \A k \in 1..Len(q) : r[k] = q[k]
    OBVIOUS
  <1> HIDE DEF r
  <1>2. CASE c \in Connects
    <2>1. Dialling(r) = Dialling(q) \cup {Len(q) + 1}
      BY <1>1, <1>2 DEF Dialling
    <2>2. Len(q) + 1 \notin Dialling(q)
      BY <1>1 DEF Dialling
    <2>3. Cardinality(Dialling(q) \cup {Len(q) + 1}) = Cardinality(Dialling(q)) + 1
      BY <2>2, DiallingFinite, FS_AddElement
    <2> QED  BY <1>2, <2>1, <2>3 DEF r
  <1>3. CASE c \notin Connects
    <2>1. Dialling(r) = Dialling(q)
      BY <1>1, <1>3 DEF Dialling
    <2> QED  BY <1>3, <2>1, DiallingFinite DEF r
  <1> QED  BY <1>2, <1>3

\* A line that is taken no longer counts.
LEMMA DiallingTail ==
    ASSUME NEW q \in Seq(Lines), q # <<>>
    PROVE  Cardinality(Dialling(Tail(q))) + (IF Head(q) \in Connects THEN 1 ELSE 0)
              <= Cardinality(Dialling(q))
  <1> DEFINE r == Tail(q)
             rest == Dialling(q) \ {1}
             f == [k \in Dialling(r) |-> k + 1]
  <1>1. /\ Len(q) \in Nat \ {0} /\ Len(r) = Len(q) - 1
        /\ Head(q) = q[1]
        /\ \A k \in 1..Len(r) : r[k] = q[k + 1]
    OBVIOUS
  <1> HIDE DEF r
  <1>2. \A k \in Dialling(r) : k \in Nat /\ k + 1 \in rest
    BY <1>1 DEF Dialling
  <1>3. f \in [Dialling(r) -> rest]
    BY <1>2
  <1>4. IsInjective(f)
    BY <1>2 DEF IsInjective
  <1>5. f \in Injection(Dialling(r), rest)
    BY <1>3, <1>4 DEF Injection
  <1>6. /\ IsFiniteSet(rest)
        /\ Cardinality(rest) = IF 1 \in Dialling(q) THEN Cardinality(Dialling(q)) - 1
                               ELSE Cardinality(Dialling(q))
    BY DiallingFinite, FS_RemoveElement
  <1>7. 1 \in Dialling(q) <=> Head(q) \in Connects
    BY <1>1 DEF Dialling
  <1>8. IsFiniteSet(Dialling(r)) /\ Cardinality(Dialling(r)) <= Cardinality(rest)
    BY <1>5, <1>6, FS_Injection
  <1>9. Cardinality(Dialling(r)) \in Nat /\ Cardinality(Dialling(q)) \in Nat
    BY <1>8, FS_CardinalityType, DiallingFinite
  <1> QED  BY <1>6, <1>7, <1>8, <1>9 DEF r

\* The used threads are finitely many.
LEMMA UsedFinite ==
    ASSUME NEW at
    PROVE  /\ IsFiniteSet(Used(at)) /\ Cardinality(Used(at)) \in Nat
           /\ Used(at) # Thread => Cardinality(Used(at)) < MaxConnects
           /\ Cardinality(Used(at)) < MaxConnects => Used(at) # Thread
  <1>1. IsFiniteSet(Thread) /\ Cardinality(Thread) = MaxConnects
    BY BoundsAssumption, FS_Interval DEF Thread
  <1>2. Used(at) \in SUBSET Thread
    BY DEF Used
  <1>3. /\ IsFiniteSet(Used(at)) /\ Cardinality(Used(at)) <= MaxConnects
        /\ Cardinality(Used(at)) = MaxConnects => Used(at) = Thread
    BY <1>1, <1>2, FS_Subset
  <1>4. Cardinality(Used(at)) \in Nat
    BY <1>3, FS_CardinalityType
  <1> QED  BY <1>1, <1>3, <1>4, BoundsAssumption

\* A thread that starts is counted.
LEMMA UsedStart ==
    ASSUME NEW S, NEW at \in [Thread -> S], NEW n \in Thread, NEW s, s # "none",
           at[n] = "none"
    PROVE  Cardinality(Used([at EXCEPT ![n] = s])) = Cardinality(Used(at)) + 1
  <1>1. Used([at EXCEPT ![n] = s]) = Used(at) \cup {n}
    BY DEF Used
  <1>2. n \notin Used(at)
    BY DEF Used
  <1> QED  BY <1>1, <1>2, UsedFinite, FS_AddElement

\* A thread that goes on or ends was counted before.
LEMMA UsedMove ==
    ASSUME NEW S, NEW at \in [Thread -> S], NEW n \in Thread, NEW s,
           at[n] # "none", s # "none"
    PROVE  Used([at EXCEPT ![n] = s]) = Used(at)
  BY DEF Used

\* FirstFree finds a thread as long as there is one.
LEMMA FirstFreeIsFree ==
    ASSUME NEW at, Cardinality(Used(at)) < MaxConnects
    PROVE  FirstFree(at) \in Thread /\ at[FirstFree(at)] = "none"
  <1> DEFINE Free == {n \in Nat : n \in Thread /\ at[n] = "none"}
             R == OpToRel(<, Nat)
  <1>1. Free # {}
    <2>1. Used(at) # Thread
      BY UsedFinite
    <2>2. Thread \subseteq Nat
      BY BoundsAssumption DEF Thread
    <2> QED  BY <2>1, <2>2 DEF Used
  <1>2. \A x, y \in Nat : <<x, y>> \in R <=> x < y
    BY DEF OpToRel
  <1>3. IsWellFoundedOn(R, Nat)
    BY NatLessThanWellFounded
  <1> HIDE DEF R
  <1>4. PICK n \in Free : \A m \in Free : ~(<<m, n>> \in R)
    <2>1. Free \subseteq Nat
      OBVIOUS
    <2> QED  BY <1>1, <1>3, <2>1, WFMin
  <1>5. ASSUME NEW k \in Thread, at[k] = "none" PROVE n <= k
    <2>1. k \in Nat /\ n \in Nat
      BY BoundsAssumption DEF Thread
    <2>2. ~(k < n)
      BY <1>2, <1>4, <1>5, <2>1
    <2> QED  BY <2>1, <2>2
  <1>6. \E m \in Thread : at[m] = "none" /\ \A k \in Thread : at[k] = "none" => m <= k
    BY <1>4, <1>5
  <1> QED  BY <1>6 DEF FirstFree

-----------------------------------------------------------------------------
(* Channels.                                                               *)

\* What is put into a channel is there, and so is what was there before.
LEMMA PutHolds ==
    ASSUME NEW C, NEW q \in Seq(C), NEW m \in C
    PROVE  /\ Put(q, m) \in Seq(C) /\ Holds(Put(q, m), m)
           /\ \A x : Holds(q, x) => Holds(Put(q, m), x)
  <1> DEFINE r == Append(q, m)
  <1>1. /\ Len(q) \in Nat /\ r \in Seq(C) /\ Len(r) = Len(q) + 1
        /\ r[Len(q) + 1] = m
        /\ \A k \in 1..Len(q) : r[k] = q[k]
    OBVIOUS
  <1>2. Put(q, m) = r \/ (Put(q, m) = q /\ q # <<>> /\ q[Len(q)] = m)
    BY DEF Put
  <1> HIDE DEF r
  <1>3. Holds(r, m) /\ \A x : Holds(q, x) => Holds(r, x)
    BY <1>1 DEF Holds
  <1>4. q # <<>> => Len(q) \in 1..Len(q)
    BY <1>1
  <1> QED  BY <1>1, <1>2, <1>3, <1>4 DEF Holds

\* The same for an unconditional send.
LEMMA AppendHolds ==
    ASSUME NEW C, NEW q \in Seq(C), NEW m
    PROVE  /\ Holds(Append(q, m), m)
           /\ \A x : Holds(q, x) => Holds(Append(q, m), x)
           /\ Append(q, m) # <<>>
           /\ Append(q, m)[Len(Append(q, m))] = m
  <1> DEFINE r == Append(q, m)
  <1>1. /\ Len(q) \in Nat /\ Len(r) = Len(q) + 1
        /\ r[Len(q) + 1] = m
        /\ \A k \in 1..Len(q) : r[k] = q[k]
    OBVIOUS
  <1> HIDE DEF r
  <1>2. r # <<>>
    BY <1>1
  <1>3. Holds(r, m) /\ \A x : Holds(q, x) => Holds(r, x)
    BY <1>1 DEF Holds
  <1>4. r[Len(r)] = m
    BY <1>1
  <1> QED  BY <1>2, <1>3, <1>4 DEF r

\* Receiving removes the head and nothing else.
LEMMA TailHolds ==
    ASSUME NEW C, NEW q \in Seq(C), q # <<>>
    PROVE  /\ Tail(q) \in Seq(C) /\ Head(q) \in C
           /\ \A x : Holds(q, x) => Head(q) = x \/ Holds(Tail(q), x)
           /\ IF Tail(q) = <<>> THEN q[Len(q)] = Head(q)
              ELSE q[Len(q)] = Tail(q)[Len(Tail(q))]
  <1> DEFINE r == Tail(q)
  <1>1. /\ Len(q) \in Nat \ {0} /\ r \in Seq(C) /\ Len(r) = Len(q) - 1
        /\ Head(q) = q[1] /\ q[1] \in C
        /\ \A k \in 1..Len(r) : r[k] = q[k + 1]
    OBVIOUS
  <1> HIDE DEF r
  <1>2. ASSUME NEW x, Holds(q, x), Head(q) # x PROVE Holds(r, x)
    <2>1. PICK k \in 1..Len(q) : q[k] = x
      BY <1>2 DEF Holds
    <2>2. k # 1 /\ k - 1 \in 1..Len(r) /\ (k - 1) + 1 = k
      BY <1>1, <1>2, <2>1
    <2> QED  BY <1>1, <2>1, <2>2 DEF Holds
  <1>3. CASE r = <<>>
    <2>1. Len(r) = 0
      BY <1>3
    <2>2. Len(q) = 1
      BY <1>1, <2>1
    <2> QED  BY <1>1, <1>2, <1>3, <2>2 DEF r
  <1>4. CASE r # <<>>
    <2>1. Len(r) # 0
      BY <1>1, <1>4, EmptySeq
    <2>2. Len(r) \in 1..Len(r) /\ Len(r) + 1 = Len(q)
      BY <1>1, <2>1
    <2>3. q[Len(q)] = r[Len(r)]
      BY <1>1, <2>2
    <2> QED  BY <1>1, <1>2, <1>4, <2>3 DEF r
  <1> QED  BY <1>3, <1>4

-----------------------------------------------------------------------------
(* The execution thread while it leaves the context alone.                 *)

ExecStates == [at : ExecPoints, retries : 0..MaxRetries, attempt : 0..MaxRetries]
Waiting == ExecPoints \ {"idle", "connecting", "done"}

\* A state that wait_on_response_with_retry may be in.
InBudget(e) == e.at \in Retrying => /\ e.retries < MaxRetries
                                    /\ e.attempt + e.retries <= MaxRetries

\* Where a command that is not connect may go.
ExecGoes ==
    /\ exec' \in ExecStates /\ InBudget(exec')
    /\ exec'.at # "connecting"
    /\ exec'.at \in Waiting => ctxTcp # None
    /\ responded' \in BOOLEAN

TakesSome == cmdQ # <<>> /\ cmdQ' = Tail(cmdQ)
Writes == /\ ctxTcp \in Thread
          /\ writeQ' = [writeQ EXCEPT ![ctxTcp] = Put(@, "Packet")]
Reads == /\ ctxTcp \in Thread /\ readQ[ctxTcp] > 0
         /\ readQ' = [readQ EXCEPT ![ctxTcp] = @ - 1]

\* What most commands do: they send packets, receive packets, and go on.
ExecMoves ==
    /\ ExecGoes
    /\ TakesSome \/ UNCHANGED cmdQ
    /\ Writes \/ UNCHANGED writeQ
    /\ Reads \/ UNCHANGED readQ
    /\ UNCHANGED <<inputVars, ctxTcp, ctxKa, tcpVars, kaVars, mail>>

\* The start of a wait has its whole budget.
LEMMA AtOK ==
    ASSUME NEW p \in ExecPoints
    PROVE  At(p) \in ExecStates /\ InBudget(At(p)) /\ At(p).at = p
  BY RetriesAssumption DEF At, ExecStates, InBudget

\* The end of a command.
LEMMA RespondGoes ==
    ASSUME TypeOK, Respond
    PROVE  ExecGoes /\ exec'.at \in {"idle", "done"}
  <1>1. {"idle", "done"} \subseteq ExecPoints
    BY DEF ExecPoints
  <1>2. exec' = At("idle") \/ exec' = At("done")
    BY DEF Respond
  <1>3. responded' \in BOOLEAN
    BY DEF Respond, TypeOK
  <1>4. exec' \in ExecStates /\ InBudget(exec') /\ exec'.at \in {"idle", "done"}
    BY <1>1, <1>2, AtOK
  <1> QED  BY <1>3, <1>4 DEF ExecGoes, Waiting

\* tcp_send.
LEMMA SendGoes ==
    ASSUME TypeOK, ctxTcp # None,
           NEW e \in ExecStates, InBudget(e), e.at \in Waiting, SendThen(e)
    PROVE  ExecGoes /\ (Writes \/ UNCHANGED writeQ)
  <1>1. CASE Sendable /\ exec' = e /\ UNCHANGED responded
             /\ writeQ' = [writeQ EXCEPT ![ctxTcp] = Put(@, "Packet")]
    BY <1>1 DEF TypeOK, ExecGoes, Writes, Waiting
  <1>2. CASE ~Sendable /\ UNCHANGED writeQ /\ Respond
    BY <1>2, RespondGoes
  <1> QED  BY <1>1, <1>2 DEF SendThen

\* tcp_recv_timeout.
LEMMA ReceivesReads ==
    ASSUME TypeOK, ctxTcp # None, Receives \/ NothingCame
    PROVE  Reads \/ UNCHANGED readQ
  BY DEF TypeOK, Receives, NothingCame, Reads

\* The commands whose steps are of that kind.
LEMMA ExecStepsMove ==
    ASSUME TypeOK, WaitsHaveStream, RetryBudget
    PROVE  NoEffect \/ Exit \/ Request \/ AwaitReply \/ Publish0 \/ Start
              \/ AwaitPuback \/ AwaitRetrying \/ Subscribed \/ Interrupt
              \/ Disconnect
           => ExecMoves
  <1> USE DEF ExecMoves
  <1>1. ASSUME NEW c, Takes(c) PROVE TakesSome
    BY <1>1 DEF Takes, TakesSome
  <1>2. exec \in ExecStates /\ InBudget(exec)
    BY DEF TypeOK, ExecStates, RetryBudget, InBudget
  <1>3. exec.at \in Waiting => ctxTcp # None
    BY DEF WaitsHaveStream, Waiting
  <1>4. \A p \in Waiting : At(p) \in ExecStates /\ InBudget(At(p)) /\ At(p).at \in Waiting
    BY AtOK DEF Waiting
  <1>5. {"reply", "puback", "pubrec", "pubcomp", "pubrel", "subscribed", "closing"}
           \subseteq Waiting
    BY DEF Waiting, ExecPoints, Retrying
  <1>6. ASSUME NoEffect PROVE ExecMoves
    BY <1>1, <1>6, RespondGoes DEF NoEffect
  <1>7. ASSUME Exit PROVE ExecMoves
    <2>1. "done" \in ExecPoints
      BY DEF ExecPoints
    <2>2. ExecGoes
      BY <1>7, <2>1, AtOK DEF Exit, ExecGoes, Waiting, TypeOK
    <2> QED  BY <1>1, <1>7, <2>2 DEF Exit
  <1>8. ASSUME Request PROVE ExecMoves
    BY <1>1, <1>4, <1>5, <1>8, SendGoes DEF Request
  <1>9. ASSUME AwaitReply PROVE ExecMoves
    BY <1>3, <1>5, <1>9, RespondGoes, ReceivesReads DEF AwaitReply
  <1>10. ASSUME Publish0 PROVE ExecMoves
    <2>1. Writes \/ UNCHANGED writeQ
      BY <1>10 DEF Publish0, Writes, TypeOK
    <2> QED  BY <1>1, <1>10, <2>1, RespondGoes DEF Publish0
  <1>11. ASSUME Start PROVE ExecMoves
    BY <1>1, <1>4, <1>5, <1>11, SendGoes DEF Start
  <1>12. ASSUME Interrupt PROVE ExecMoves
    BY <1>3, <1>4, <1>5, <1>12, SendGoes DEF Interrupt
  <1>13. ASSUME Disconnect PROVE ExecMoves
    BY <1>1, <1>4, <1>5, <1>13, SendGoes DEF Disconnect
  <1>14. ASSUME exec.at \in Waiting, UNCHANGED <<exec, responded>> PROVE ExecGoes
    BY <1>2, <1>3, <1>14 DEF ExecGoes, TypeOK, Waiting
  <1>15. ASSUME Subscribed PROVE ExecMoves
    <2>1. ctxTcp # None /\ exec.at \in Waiting
      BY <1>3, <1>5, <1>15 DEF Subscribed
    <2>2. Reads \/ UNCHANGED readQ
      BY <1>15, <2>1, ReceivesReads DEF Subscribed
    <2>3. ExecGoes /\ (Writes \/ UNCHANGED writeQ)
      BY <1>4, <1>5, <1>14, <1>15, <2>1, SendGoes, RespondGoes DEF Subscribed
    <2> QED  BY <1>15, <2>2, <2>3 DEF Subscribed
  <1>16. ASSUME AwaitPuback PROVE ExecMoves
    <2>1. ctxTcp # None /\ exec.at \in Waiting
      BY <1>3, <1>5, <1>16 DEF AwaitPuback
    <2>2. Reads \/ UNCHANGED readQ
      BY <1>16, <2>1, ReceivesReads DEF AwaitPuback
    <2> DEFINE again == [at |-> "puback", retries |-> exec.retries + 1, attempt |-> 0]
    <2>3. exec.retries < MaxRetries =>
             again \in ExecStates /\ InBudget(again) /\ again.at \in Waiting
      BY <1>2, <1>5, RetriesAssumption DEF ExecStates, InBudget, Retrying, Waiting
    <2> HIDE DEF again
    <2>4. exec.retries < MaxRetries /\ SendThen(again)
             => ExecGoes /\ (Writes \/ UNCHANGED writeQ)
      BY <2>1, <2>3, SendGoes
    <2>5. ExecGoes /\ (Writes \/ UNCHANGED writeQ)
      BY <1>14, <1>16, <2>1, <2>4, RespondGoes DEF AwaitPuback, again
    <2> QED  BY <1>16, <2>2, <2>5 DEF AwaitPuback
  <1>17. ASSUME AwaitRetrying PROVE ExecMoves
    <2>1. ctxTcp # None /\ exec.at \in Waiting
      BY <1>3, <1>5, <1>17 DEF AwaitRetrying, Retrying
    <2>2. Reads \/ UNCHANGED readQ
      BY <1>17, <2>1, ReceivesReads DEF AwaitRetrying
    <2> DEFINE again == [at |-> exec.at, retries |-> exec.retries,
                         attempt |-> exec.attempt + 1]
    <2>3. exec.attempt + exec.retries < MaxRetries =>
             /\ again \in ExecStates /\ InBudget(again) /\ again.at \in Waiting
             /\ Charged \in ExecStates /\ InBudget(Charged)
             /\ Charged.at \in Waiting /\ Charged.at # "connecting"
      BY <1>2, <2>1, RetriesAssumption DEF ExecStates, InBudget, Waiting, Charged
    <2> HIDE DEF again
    <2>4. exec.attempt + exec.retries < MaxRetries /\ SendThen(again)
             => ExecGoes /\ (Writes \/ UNCHANGED writeQ)
      BY <2>1, <2>3, SendGoes
    <2>5. exec.attempt + exec.retries < MaxRetries /\ exec' = Charged
             /\ UNCHANGED responded => ExecGoes
      BY <2>1, <2>3 DEF ExecGoes, TypeOK
    <2>6. Answered => ExecGoes /\ (Writes \/ UNCHANGED writeQ)
      BY <1>4, <1>5, <1>17, <2>1, SendGoes, RespondGoes DEF Answered, AwaitRetrying, Retrying
    <2>7. exec.attempt + exec.retries \in Nat
      BY <1>2, RetriesAssumption DEF ExecStates
    <2>8. ExecGoes /\ (Writes \/ UNCHANGED writeQ)
      BY <1>17, <2>4, <2>5, <2>6, <2>7, RespondGoes, RetriesAssumption
         DEF AwaitRetrying, again
    <2> QED  BY <1>17, <2>2, <2>8 DEF AwaitRetrying
  <1> QED  BY <1>6, <1>7, <1>8, <1>9, <1>10, <1>11, <1>12, <1>13, <1>15, <1>16, <1>17

\* Lines that are taken leave no more connect lines behind.
LEMMA TakenCounts ==
    ASSUME TypeOK, TakesSome \/ UNCHANGED cmdQ
    PROVE  /\ cmdQ' \in Seq(Lines)
           /\ Cardinality(Dialling(cmdQ)) \in Nat
           /\ Cardinality(Dialling(cmdQ')) \in Nat
           /\ Cardinality(Dialling(cmdQ')) <= Cardinality(Dialling(cmdQ))
           /\ TakesSome /\ Head(cmdQ) \in Connects
                 => Cardinality(Dialling(cmdQ')) + 1 <= Cardinality(Dialling(cmdQ))
  <1>1. cmdQ \in Seq(Lines)
    BY DEF TypeOK
  <1>2. cmdQ # <<>> => Tail(cmdQ) \in Seq(Lines)
    BY <1>1
  <1>3. cmdQ' \in Seq(Lines)
    BY <1>1, <1>2 DEF TakesSome
  <1>4. Cardinality(Dialling(cmdQ)) \in Nat /\ Cardinality(Dialling(cmdQ')) \in Nat
    BY <1>1, <1>3, DiallingFinite
  <1>5. TakesSome => Cardinality(Dialling(cmdQ')) + (IF Head(cmdQ) \in Connects THEN 1 ELSE 0)
                        <= Cardinality(Dialling(cmdQ))
    BY <1>1, DiallingTail DEF TakesSome
  <1> QED  BY <1>3, <1>4, <1>5

\* A packet that is received has left the channel.
LEMMA ReadingKeeps ==
    ASSUME TypeOK, Reads \/ UNCHANGED readQ
    PROVE  /\ readQ' \in [Thread -> 0..MaxPackets]
           /\ \A g \in Thread : readQ'[g] <= readQ[g]
  <1>1. CASE Reads
    <2>1. readQ[ctxTcp] - 1 \in 0..MaxPackets /\ readQ[ctxTcp] - 1 <= readQ[ctxTcp]
      BY <1>1, Bounds, ReadTypes DEF Reads
    <2>2. \A g \in Thread : readQ[g] <= readQ[g]
      BY ReadTypes
    <2> QED  BY <1>1, <2>1, <2>2 DEF TypeOK, Reads
  <1>2. CASE UNCHANGED readQ
    BY <1>2, ReadTypes DEF TypeOK
  <1> QED  BY <1>1, <1>2

\* They preserve the invariant.
LEMMA ExecMovesKeep == IInv /\ ExecMoves => IInv'
  <1> SUFFICES ASSUME IInv, ExecMoves PROVE IInv'
    OBVIOUS
  <1> USE DEF inputVars, tcpVars, kaVars
  <1>1. TypeOK
    BY DEF IInv
  <1>2. /\ UNCHANGED <<input, typed, dials, ctxTcp, ctxKa, tcpAt, got, kaTx, kaAt,
                       suspended, mail>>
        /\ ExecGoes
    BY DEF ExecMoves
  <1>3. TakesSome \/ UNCHANGED cmdQ
    BY DEF ExecMoves
  <1>4. /\ writeQ' \in [Thread -> Seq({"Packet", "Close"})]
        /\ \A g \in Thread : Holds(writeQ[g], "Close") => Holds(writeQ'[g], "Close")
    <2>1. CASE Writes
      <3>1. /\ Put(writeQ[ctxTcp], "Packet") \in Seq({"Packet", "Close"})
            /\ \A x : Holds(writeQ[ctxTcp], x) => Holds(Put(writeQ[ctxTcp], "Packet"), x)
        BY <1>1, <2>1, PutHolds DEF TypeOK, Writes
      <3> QED  BY <1>1, <2>1, <3>1 DEF TypeOK, Writes
    <2>2. CASE UNCHANGED writeQ
      BY <1>1, <2>2 DEF TypeOK
    <2> QED  BY <2>1, <2>2 DEF ExecMoves
  <1>5. /\ readQ' \in [Thread -> 0..MaxPackets]
        /\ \A g \in Thread : readQ'[g] <= readQ[g]
    BY <1>1, ReadingKeeps DEF ExecMoves
  <1>6. TypeOK'
    BY <1>1, <1>2, <1>3, <1>4, <1>5, TakenCounts DEF TypeOK, ExecGoes, ExecStates
  <1>7. WaitsHaveStream'
    BY <1>2 DEF ExecGoes, WaitsHaveStream, Waiting, ExecStates
  <1>8. ReadsAreCounted'
    BY <1>1, <1>2, <1>5, ReadTypes DEF IInv, ReadsAreCounted
  <1>9. ThreadsSuffice'
    <2>1. Used(kaAt)' = Used(kaAt) /\ Used(tcpAt)' = Used(tcpAt)
      BY <1>2 DEF Used
    <2>2. exec'.at # "connecting" /\ dials' = dials /\ dials \in Nat
      BY <1>1, <1>2, BoundsAssumption DEF ExecGoes, TypeOK
    <2>3. Cardinality(Used(kaAt)) \in Nat /\ Cardinality(Used(tcpAt)) \in Nat
      BY UsedFinite
    <2> QED  BY <1>1, <1>3, <2>1, <2>2, <2>3, TakenCounts DEF IInv, ThreadsSuffice
  <1>10. StreamsAreReachable'
    BY <1>2, <1>4 DEF IInv, StreamsAreReachable
  <1>11. PingsAreForConnection'
    BY <1>2 DEF IInv, PingsAreForConnection, Pings
  <1>12. RetryBudget'
    BY <1>2 DEF ExecGoes, RetryBudget, InBudget
  <1> QED  BY <1>6, <1>7, <1>8, <1>9, <1>10, <1>11, <1>12 DEF IInv

-----------------------------------------------------------------------------
(* The commands that change the context.                                   *)

KillsKa ==
    /\ ctxKa' = None
    /\ mail' = IF ctxKa # None /\ kaAt[ctxKa] = "running"
               THEN [mail EXCEPT ![ctxKa] = Append(@, "Kill")] ELSE mail

ClosesTcp ==
    /\ ctxTcp' = None
    /\ readQ' = [readQ EXCEPT ![ctxTcp] = 0]
    /\ writeQ' = IF Sendable THEN [writeQ EXCEPT ![ctxTcp] = Put(@, "Close")]
                             ELSE writeQ

\* What disconnect and its clean-up do when they get through to the
\* keep-alive thread.
Drops ==
    /\ ctxTcp # None
    /\ Respond
    /\ TakesSome \/ UNCHANGED cmdQ
    /\ KillsKa
    /\ ClosesTcp \/ UNCHANGED <<writeQ, readQ, ctxTcp>>
    /\ UNCHANGED <<inputVars, tcpVars, kaVars>>

\* disconnect may also find that the keep-alive thread has ended.
LEMMA ClosingDrops ==
    ASSUME IInv, KillAndClose \/ Cleanup
    PROVE  ExecMoves \/ Drops
  <1>1. CASE Cleanup
    BY <1>1 DEF Cleanup, Drops, KillsKa, ClosesTcp, Takes, TakesSome
  <1>2. CASE KillAndClose /\ (ctxKa = None \/ kaAt[ctxKa] = "running")
    <2>1. ctxTcp # None
      BY <1>2 DEF KillAndClose, IInv, WaitsHaveStream
    <2> QED  BY <1>2, <2>1 DEF KillAndClose, Drops, KillsKa, ClosesTcp
  <1>3. CASE KillAndClose /\ ~(ctxKa = None \/ kaAt[ctxKa] = "running")
    <2>1. TypeOK
      BY DEF IInv
    <2> QED  BY <1>3, <2>1, RespondGoes DEF KillAndClose, ExecMoves
  <1> QED  BY <1>1, <1>2, <1>3

\* They preserve the invariant: a thread whose sender is dropped has ended or
\* has been told to.
LEMMA DropsKeep == IInv /\ Drops => IInv'
  <1> SUFFICES ASSUME IInv, Drops PROVE IInv'
    OBVIOUS
  <1> USE DEF inputVars, tcpVars, kaVars
  <1>1. TypeOK
    BY DEF IInv
  <1>2. /\ UNCHANGED <<input, typed, dials, tcpAt, got, kaTx, kaAt, suspended>>
        /\ ExecGoes /\ exec'.at \in {"idle", "done"}
        /\ ctxTcp \in Thread /\ KillsKa
    BY <1>1, RespondGoes DEF Drops, TypeOK
  <1>3. TakesSome \/ UNCHANGED cmdQ
    BY DEF Drops
  <1>4. /\ writeQ' \in [Thread -> Seq({"Packet", "Close"})]
        /\ ctxTcp' \in {ctxTcp, None}
        /\ \A g \in Thread : Holds(writeQ[g], "Close") => Holds(writeQ'[g], "Close")
        /\ ctxTcp' = ctxTcp \/ ~Sendable \/ Holds(writeQ'[ctxTcp], "Close")
    <2>1. CASE ClosesTcp /\ Sendable
      <3>1. /\ Put(writeQ[ctxTcp], "Close") \in Seq({"Packet", "Close"})
            /\ Holds(Put(writeQ[ctxTcp], "Close"), "Close")
        BY <1>1, <1>2, PutHolds DEF TypeOK
      <3> QED  BY <1>1, <1>2, <2>1, <3>1 DEF TypeOK, ClosesTcp
    <2>2. CASE ClosesTcp /\ ~Sendable
      BY <1>1, <2>2 DEF TypeOK, ClosesTcp
    <2>3. CASE UNCHANGED <<writeQ, readQ, ctxTcp>>
      BY <1>1, <2>3 DEF TypeOK
    <2> QED  BY <2>1, <2>2, <2>3 DEF Drops
  <1>5. /\ readQ' \in [Thread -> 0..MaxPackets]
        /\ \A g \in Thread : readQ'[g] <= readQ[g]
    <2>1. \A g \in Thread : 0 <= readQ[g] /\ readQ[g] <= readQ[g] /\ 0 \in 0..MaxPackets
      BY <1>1, Bounds, ReadTypes
    <2>2. CASE readQ' = [readQ EXCEPT ![ctxTcp] = 0]
      <3>1. \A g \in Thread : readQ'[g] = IF g = ctxTcp THEN 0 ELSE readQ[g]
        BY <1>1, <2>2 DEF TypeOK
      <3>2. readQ' \in [Thread -> 0..MaxPackets]
        BY <1>1, <2>1, <2>2 DEF TypeOK
      <3> QED  BY <2>1, <3>1, <3>2
    <2>3. CASE UNCHANGED readQ
      BY <1>1, <2>1, <2>3 DEF TypeOK
    <2> QED  BY <2>2, <2>3 DEF ClosesTcp, Drops
  <1>6. /\ mail' \in [Thread -> Seq({"Suspend", "Resume", "Kill"})]
        /\ \A n \in Thread : ctxKa # n => mail'[n] = mail[n]
        /\ ctxKa # None /\ kaAt[ctxKa] = "running" => Holds(mail'[ctxKa], "Kill")
    <2>1. CASE ctxKa # None /\ kaAt[ctxKa] = "running"
      <3>1. ctxKa \in Thread
        BY <1>1, <2>1 DEF TypeOK
      <3>2. /\ Append(mail[ctxKa], "Kill") \in Seq({"Suspend", "Resume", "Kill"})
            /\ Holds(Append(mail[ctxKa], "Kill"), "Kill")
        BY <1>1, <3>1, AppendHolds DEF TypeOK
      <3> QED  BY <1>1, <1>2, <2>1, <3>1, <3>2 DEF TypeOK, KillsKa
    <2>2. CASE ~(ctxKa # None /\ kaAt[ctxKa] = "running")
      BY <1>1, <1>2, <2>2 DEF TypeOK, KillsKa
    <2> QED  BY <2>1, <2>2
  <1>7. TypeOK'
    BY <1>1, <1>2, <1>3, <1>4, <1>5, <1>6, TakenCounts
       DEF TypeOK, ExecGoes, ExecStates, KillsKa
  <1>8. WaitsHaveStream'
    BY <1>2 DEF WaitsHaveStream
  <1>9. ReadsAreCounted'
    BY <1>1, <1>2, <1>5, ReadTypes DEF IInv, ReadsAreCounted
  <1>10. ThreadsSuffice'
    <2>1. Used(kaAt)' = Used(kaAt) /\ Used(tcpAt)' = Used(tcpAt)
      BY <1>2 DEF Used
    <2>2. exec'.at # "connecting" /\ dials' = dials /\ dials \in Nat
      BY <1>1, <1>2, BoundsAssumption DEF ExecGoes, TypeOK
    <2>3. Cardinality(Used(kaAt)) \in Nat /\ Cardinality(Used(tcpAt)) \in Nat
      BY UsedFinite
    <2> QED  BY <1>1, <1>3, <2>1, <2>2, <2>3, TakenCounts DEF IInv, ThreadsSuffice
  <1>11. StreamsAreReachable'
    BY <1>2, <1>4 DEF IInv, StreamsAreReachable, Sendable
  <1>12. PingsAreForConnection'
    <2> SUFFICES ASSUME NEW n \in Thread, Pings(n)' PROVE FALSE
      BY DEF PingsAreForConnection
    <2>1. ctxKa # n
      <3> SUFFICES ASSUME ctxKa = n PROVE FALSE
        OBVIOUS
      <3>1. kaAt[n] = "running" /\ n # None
        BY <1>1, <1>2, NoneAssumption, BoundsAssumption DEF Pings, Thread
      <3> QED  BY <1>6, <3>1 DEF Pings
    <2>2. Pings(n)
      BY <1>2, <1>6, <2>1 DEF Pings
    <2> QED  BY <2>1, <2>2 DEF IInv, PingsAreForConnection
  <1>13. RetryBudget'
    BY <1>2 DEF ExecGoes, RetryBudget, InBudget
  <1> QED  BY <1>7, <1>8, <1>9, <1>10, <1>11, <1>12, <1>13 DEF IInv

\* connect starts a keep-alive thread, which finds its mail before it can
\* ping; the one it replaces belonged to no connection and does not ping.
LEMMA ConnectKeeps == IInv /\ Connect => IInv'
  <1> SUFFICES ASSUME IInv, Connect PROVE IInv'
    OBVIOUS
  <1> USE DEF inputVars, tcpVars, kaVars
  <1> DEFINE n == FirstFree(kaAt)
  <1>1. TypeOK /\ ThreadsSuffice /\ ctxTcp = None
    BY DEF IInv, Connect
  <1>2. UNCHANGED <<input, typed, dials, responded, ctxTcp, tcpAt, got, kaTx, writeQ,
                    readQ, suspended>>
    BY DEF Connect
  <1>3. exec' = At("connecting") /\ exec' \in ExecStates /\ exec'.at = "connecting"
    <2>1. "connecting" \in ExecPoints
      BY DEF ExecPoints
    <2> QED  BY <2>1, AtOK DEF Connect
  <1>4. TakesSome /\ Head(cmdQ) \in Connects
    BY DEF Connect, Takes, TakesSome, Connects
  <1>5. /\ cmdQ' \in Seq(Lines)
        /\ Cardinality(Dialling(cmdQ)) \in Nat /\ Cardinality(Dialling(cmdQ')) \in Nat
        /\ Cardinality(Dialling(cmdQ')) + 1 <= Cardinality(Dialling(cmdQ))
    BY <1>1, <1>4, TakenCounts
  <1>6. Cardinality(Used(kaAt)) \in Nat /\ Cardinality(Used(tcpAt)) \in Nat
    BY UsedFinite
  <1>7. dials \in Nat /\ dials <= MaxConnects
    BY <1>1, Bounds DEF TypeOK
  <1>8. n \in Thread /\ kaAt[n] = "none"
    <2>1. Cardinality(Used(kaAt)) < MaxConnects
      BY <1>1, <1>5, <1>6, <1>7, Bounds DEF ThreadsSuffice
    <2> QED  BY <2>1, FirstFreeIsFree
  <1> DEFINE Starts == /\ kaAt' = [kaAt EXCEPT ![n] = "running"]
                       /\ mail' = [mail EXCEPT ![n] = <<"Suspend">>]
                       /\ ctxKa' = n
  <1>9. Starts \/ UNCHANGED <<kaAt, mail, ctxKa>>
    BY DEF Connect
  <1> HIDE DEF n
  <1>10. <<"Suspend">> \in Seq({"Suspend", "Resume", "Kill"})
    OBVIOUS
  <1>11. TypeOK'
    <2>1. /\ ctxKa' \in Thread \cup {None}
          /\ kaAt' \in [Thread -> {"none", "running", "done"}]
          /\ mail' \in [Thread -> Seq({"Suspend", "Resume", "Kill"})]
      <3>1. CASE Starts
        BY <1>1, <1>8, <1>10, <3>1 DEF TypeOK
      <3>2. CASE UNCHANGED <<kaAt, mail, ctxKa>>
        BY <1>1, <3>2 DEF TypeOK
      <3> QED  BY <1>9, <3>1, <3>2
    <2> QED  BY <1>1, <1>2, <1>3, <1>5, <2>1 DEF TypeOK, ExecStates
  <1>12. WaitsHaveStream'
    BY <1>1, <1>2, <1>3 DEF WaitsHaveStream
  <1>13. ReadsAreCounted'
    BY <1>2 DEF IInv, ReadsAreCounted
  <1>14. ThreadsSuffice'
    <2>1. Used(tcpAt)' = Used(tcpAt)
      BY <1>2 DEF Used
    <2>2. Cardinality(Used(kaAt))' \in {Cardinality(Used(kaAt)), Cardinality(Used(kaAt)) + 1}
      <3>1. CASE Starts
        <4>1. kaAt \in [Thread -> {"none", "running", "done"}]
          BY <1>1 DEF TypeOK
        <4>2. Cardinality(Used([kaAt EXCEPT ![n] = "running"])) = Cardinality(Used(kaAt)) + 1
          BY <1>8, <4>1, UsedStart
        <4>3. Used(kaAt)' = Used([kaAt EXCEPT ![n] = "running"])
          BY <3>1 DEF Used
        <4> QED  BY <4>2, <4>3
      <3>2. CASE UNCHANGED <<kaAt, mail, ctxKa>>
        BY <3>2 DEF Used
      <3> QED  BY <1>9, <3>1, <3>2
    <2>3. exec.at # "connecting"
      BY DEF Connect, Takes
    <2>4. dials' = dials
      BY <1>2
    <2> QED  BY <1>1, <1>3, <1>5, <1>6, <1>7, <2>1, <2>2, <2>3, <2>4 DEF ThreadsSuffice
  <1>15. StreamsAreReachable'
    BY <1>2 DEF IInv, StreamsAreReachable
  <1>16. PingsAreForConnection'
    <2> SUFFICES ASSUME NEW m \in Thread, Pings(m)' PROVE FALSE
      BY DEF PingsAreForConnection
    <2>1. ~Pings(m)
      BY <1>1 DEF IInv, PingsAreForConnection
    <2>2. CASE m = n /\ Starts
      <3>1. mail'[m] = <<"Suspend">>
        BY <1>1, <1>8, <2>2 DEF TypeOK
      <3>2. mail'[m] # <<>> /\ mail'[m][Len(mail'[m])] = "Suspend"
        BY <3>1
      <3> QED  BY <3>2 DEF Pings
    <2>3. CASE ~(m = n /\ Starts)
      <3>1. kaAt'[m] = kaAt[m] /\ mail'[m] = mail[m] /\ suspended'[m] = suspended[m]
        BY <1>1, <1>2, <1>9, <2>3 DEF TypeOK
      <3> QED  BY <2>1, <3>1 DEF Pings
    <2> QED  BY <2>2, <2>3
  <1>17. RetryBudget'
    BY <1>3 DEF RetryBudget, Retrying
  <1> QED  BY <1>11, <1>12, <1>13, <1>14, <1>15, <1>16, <1>17 DEF IInv

\* The stream is there: the context has none to lose.
LEMMA ConnectTcpKeeps == IInv /\ ConnectTcp => IInv'
  <1> SUFFICES ASSUME IInv, ConnectTcp PROVE IInv'
    OBVIOUS
  <1> USE DEF inputVars, tcpVars, kaVars
  <1> DEFINE g == FirstFree(tcpAt)
  <1>1. TypeOK /\ ThreadsSuffice /\ exec.at = "connecting" /\ ctxTcp = None
    BY DEF IInv, ConnectTcp, WaitsHaveStream
  <1>2. UNCHANGED <<input, typed, dials, cmdQ, ctxKa, readQ, kaAt, suspended, mail, got>>
    BY DEF ConnectTcp
  <1>3. CASE Respond /\ UNCHANGED <<ctxTcp, tcpVars, writeQ>>
    <2>1. ExecMoves
      BY <1>1, <1>2, <1>3, RespondGoes DEF ExecMoves
    <2> QED  BY <2>1, ExecMovesKeep
  <1>4. CASE /\ tcpAt' = [tcpAt EXCEPT ![g] = "read"]
             /\ kaTx' = [kaTx EXCEPT ![g] = ctxKa]
             /\ writeQ' = [writeQ EXCEPT ![g] = <<"Packet">>]
             /\ ctxTcp' = g
             /\ exec' = At("connack")
             /\ UNCHANGED responded
    <2>1. /\ Cardinality(Dialling(cmdQ)) \in Nat
          /\ Cardinality(Used(kaAt)) \in Nat /\ Cardinality(Used(tcpAt)) \in Nat
      BY <1>1, DiallingFinite, UsedFinite DEF TypeOK
    <2>2. dials \in Nat /\ dials <= MaxConnects
      BY <1>1, Bounds DEF TypeOK
    <2>3. g \in Thread /\ tcpAt[g] = "none"
      <3>1. Cardinality(Used(tcpAt)) < MaxConnects
        BY <1>1, <2>1, <2>2, Bounds DEF ThreadsSuffice
      <3> QED  BY <3>1, FirstFreeIsFree
    <2> HIDE DEF g
    <2>4. exec' \in ExecStates /\ InBudget(exec') /\ exec'.at = "connack"
      <3>1. "connack" \in ExecPoints
        BY DEF ExecPoints
      <3> QED  BY <1>4, <3>1, AtOK
    <2>5. <<"Packet">> \in Seq({"Packet", "Close"})
      OBVIOUS
    <2>6. TypeOK'
      BY <1>1, <1>2, <1>4, <2>3, <2>4, <2>5 DEF TypeOK, ExecStates
    <2>7. WaitsHaveStream'
      BY <1>4, <2>3, <2>4, Bounds DEF WaitsHaveStream
    <2>8. ReadsAreCounted'
      BY <1>2 DEF IInv, ReadsAreCounted
    <2>9. ThreadsSuffice'
      <3>1. Cardinality(Used(tcpAt))' = Cardinality(Used(tcpAt)) + 1
        <4>1. tcpAt \in [Thread -> {"none", "read", "write", "done"}]
          BY <1>1 DEF TypeOK
        <4>2. Cardinality(Used([tcpAt EXCEPT ![g] = "read"])) = Cardinality(Used(tcpAt)) + 1
          BY <2>3, <4>1, UsedStart
        <4> QED  BY <1>4, <4>2 DEF Used
      <3>2. Used(kaAt)' = Used(kaAt) /\ Dialling(cmdQ)' = Dialling(cmdQ) /\ dials' = dials
        BY <1>2 DEF Used, Dialling
      <3> QED  BY <1>1, <2>1, <2>2, <2>4, <3>1, <3>2 DEF ThreadsSuffice
    <2>10. StreamsAreReachable'
      <3> SUFFICES ASSUME NEW h \in Thread, tcpAt'[h] \in {"read", "write"}, h # g
                   PROVE  Holds(writeQ'[h], "Close")
        BY <1>4 DEF StreamsAreReachable
      <3>1. tcpAt'[h] = tcpAt[h] /\ writeQ'[h] = writeQ[h]
        BY <1>1, <1>4, <2>3 DEF TypeOK
      <3> QED  BY <1>1, <3>1, Bounds DEF IInv, StreamsAreReachable
    <2>11. PingsAreForConnection'
      BY <1>1, <1>2 DEF IInv, PingsAreForConnection, Pings
    <2>12. RetryBudget'
      BY <2>4 DEF RetryBudget, InBudget
    <2> QED  BY <2>6, <2>7, <2>8, <2>9, <2>10, <2>11, <2>12 DEF IInv
  <1> QED  BY <1>3, <1>4 DEF ConnectTcp

\* A Connack resumes the pings of the connection.
LEMMA AwaitConnackKeeps == IInv /\ AwaitConnack => IInv'
  <1> SUFFICES ASSUME IInv, AwaitConnack PROVE IInv'
    OBVIOUS
  <1> USE DEF inputVars, tcpVars, kaVars
  <1>1. TypeOK /\ ctxTcp # None /\ (Receives \/ NothingCame) /\ Respond
    BY DEF IInv, AwaitConnack, WaitsHaveStream
  <1>2. Reads \/ UNCHANGED readQ
    BY <1>1, ReceivesReads
  <1>3. UNCHANGED <<input, typed, dials, cmdQ, ctxTcp, ctxKa, tcpAt, got, kaTx, writeQ,
                    kaAt, suspended>>
    BY DEF AwaitConnack
  <1>4. ExecGoes /\ exec'.at \in {"idle", "done"}
    BY <1>1, RespondGoes
  <1>5. CASE UNCHANGED mail
    <2>1. ExecMoves
      BY <1>2, <1>3, <1>4, <1>5 DEF ExecMoves
    <2> QED  BY <2>1, ExecMovesKeep
  <1>6. CASE ctxKa # None /\ mail' = [mail EXCEPT ![ctxKa] = Append(@, "Resume")]
    <2>1. /\ readQ' \in [Thread -> 0..MaxPackets]
          /\ \A h \in Thread : readQ'[h] <= readQ[h]
      BY <1>1, <1>2, ReadingKeeps
    <2>2. ctxKa \in Thread
      BY <1>1, <1>6 DEF TypeOK
    <2>3. Append(mail[ctxKa], "Resume") \in Seq({"Suspend", "Resume", "Kill"})
      BY <1>1, <2>2 DEF TypeOK
    <2>4. TypeOK'
      BY <1>1, <1>3, <1>4, <1>6, <2>1, <2>2, <2>3 DEF TypeOK, ExecGoes, ExecStates
    <2>5. WaitsHaveStream'
      BY <1>4 DEF WaitsHaveStream
    <2>6. ReadsAreCounted'
      BY <1>1, <1>3, <2>1, <2>4, ReadTypes DEF IInv, ReadsAreCounted
    <2>7. ThreadsSuffice'
      <3>1. UNCHANGED <<Used(kaAt), Used(tcpAt), Dialling(cmdQ), dials>>
        BY <1>3 DEF Used, Dialling
      <3>2. exec.at = "connack" /\ exec'.at # "connecting"
        BY <1>4 DEF AwaitConnack
      <3> QED  BY <3>1, <3>2 DEF IInv, ThreadsSuffice
    <2>8. StreamsAreReachable'
      BY <1>3 DEF IInv, StreamsAreReachable
    <2>9. PingsAreForConnection'
      <3> SUFFICES ASSUME NEW n \in Thread, Pings(n)', n # ctxKa PROVE FALSE
        BY <1>1, <1>3 DEF PingsAreForConnection
      <3>1. mail'[n] = mail[n]
        BY <1>1, <1>6 DEF TypeOK
      <3>2. Pings(n)
        BY <1>3, <3>1 DEF Pings
      <3> QED  BY <3>2 DEF IInv, PingsAreForConnection
    <2>10. RetryBudget'
      BY <1>4 DEF ExecGoes, RetryBudget, InBudget
    <2> QED  BY <2>4, <2>5, <2>6, <2>7, <2>8, <2>9, <2>10 DEF IInv
  <1> QED  BY <1>5, <1>6 DEF AwaitConnack

-----------------------------------------------------------------------------
(* The input thread, the TCP threads and the keep-alive threads.           *)

\* A line of another thread is none of connect.
LEMMA InternalLines ==
    /\ "disconnect -c" \in Lines /\ "disconnect -c" \notin Connects
    /\ "ping -n -q" \in Lines /\ "ping -n -q" \notin Connects
  BY DEF Lines, Internal, Connects

\* A line is queued.
LEMMA QueueCounts ==
    ASSUME TypeOK, NEW c \in Lines, cmdQ' = cmdQ \/ cmdQ' = Append(cmdQ, c)
    PROVE  /\ cmdQ' \in Seq(Lines)
           /\ Cardinality(Dialling(cmdQ)) \in Nat
           /\ Cardinality(Dialling(cmdQ')) \in Nat
           /\ Cardinality(Dialling(cmdQ')) <=
                 Cardinality(Dialling(cmdQ)) + (IF c \in Connects THEN 1 ELSE 0)
           /\ c \notin Connects => Cardinality(Dialling(cmdQ')) <= Cardinality(Dialling(cmdQ))
  <1>1. cmdQ \in Seq(Lines)
    BY DEF TypeOK
  <1>2. Append(cmdQ, c) \in Seq(Lines)
    BY <1>1
  <1>3. Cardinality(Dialling(cmdQ)) \in Nat
    BY <1>1, DiallingFinite
  <1>4. Cardinality(Dialling(Append(cmdQ, c))) =
           Cardinality(Dialling(cmdQ)) + (IF c \in Connects THEN 1 ELSE 0)
    BY <1>1, DiallingAppend
  <1>5. CASE cmdQ' = cmdQ
    BY <1>1, <1>3, <1>5
  <1>6. CASE cmdQ' = Append(cmdQ, c)
    BY <1>2, <1>3, <1>4, <1>6
  <1> QED  BY <1>5, <1>6

\* The input thread between two lines.
LEMMA InputStepKeeps == IInv /\ InputStep => IInv'
  <1> SUFFICES ASSUME IInv, InputStep PROVE IInv'
    OBVIOUS
  <1>1. /\ UNCHANGED <<typed, dials, cmdQ, exec, ctxTcp, ctxKa, tcpVars, writeQ, readQ,
                       kaVars, mail>>
        /\ input' \in {"prompting", "reading", "done"}
        /\ responded' \in BOOLEAN
    BY DEF InputStep, TakeResponses, InputEnds, Prompt, IInv, TypeOK
  <1>2. UNCHANGED <<typed, dials, cmdQ, exec, ctxTcp, ctxKa, tcpAt, got, kaTx, writeQ,
                    readQ, kaAt, suspended, mail>>
    BY <1>1 DEF tcpVars, kaVars
  <1>3. TypeOK'
    BY <1>1, <1>2 DEF IInv, TypeOK
  <1>4. (WaitsHaveStream /\ ReadsAreCounted /\ RetryBudget)'
    BY <1>2 DEF IInv, WaitsHaveStream, ReadsAreCounted, RetryBudget
  <1>5. ThreadsSuffice'
    BY <1>2 DEF IInv, ThreadsSuffice, Used, Dialling
  <1>6. (StreamsAreReachable /\ PingsAreForConnection)'
    BY <1>2 DEF IInv, StreamsAreReachable, PingsAreForConnection, Pings
  <1> QED  BY <1>3, <1>4, <1>5, <1>6 DEF IInv

\* A connect line is counted when it is typed.
LEMMA TypeKeeps ==
    ASSUME NEW c \in Line
    PROVE  IInv /\ Type(c) => IInv'
  <1> SUFFICES ASSUME IInv, Type(c) PROVE IInv'
    OBVIOUS
  <1>1. UNCHANGED <<responded, exec, ctxTcp, ctxKa, tcpAt, got, kaTx, writeQ,
                    readQ, kaAt, suspended, mail>>
    BY DEF Type, tcpVars, kaVars
  <1>2. TypeOK /\ c \in Lines
    BY LineAssumption DEF IInv
  <1>3. /\ typed \in Nat /\ typed < MaxTyped /\ typed' = typed + 1
        /\ dials \in Nat /\ dials' = dials + (IF c \in Connects THEN 1 ELSE 0)
        /\ dials' <= MaxConnects
    BY <1>2, Bounds DEF TypeOK, Type
  <1>4. /\ cmdQ' \in Seq(Lines)
        /\ Cardinality(Dialling(cmdQ)) \in Nat /\ Cardinality(Dialling(cmdQ')) \in Nat
        /\ Cardinality(Dialling(cmdQ')) <=
              Cardinality(Dialling(cmdQ)) + (IF c \in Connects THEN 1 ELSE 0)
    BY <1>2, QueueCounts DEF Type
  <1>5. TypeOK'
    <2>1. typed' \in 0..MaxTyped /\ dials' \in 0..MaxConnects
      BY <1>3, Bounds
    <2>2. input' \in {"waiting", "done"}
      BY DEF Type
    <2> QED  BY <1>1, <1>2, <1>4, <2>1, <2>2 DEF TypeOK
  <1>6. (WaitsHaveStream /\ ReadsAreCounted /\ RetryBudget)'
    BY <1>1 DEF IInv, WaitsHaveStream, ReadsAreCounted, RetryBudget
  <1>7. ThreadsSuffice'
    <2>1. UNCHANGED <<Used(kaAt), Used(tcpAt), exec>>
      BY <1>1 DEF Used
    <2>2. Cardinality(Used(kaAt)) \in Nat /\ Cardinality(Used(tcpAt)) \in Nat
      BY UsedFinite
    <2> QED  BY <1>3, <1>4, <2>1, <2>2 DEF IInv, ThreadsSuffice
  <1>8. (StreamsAreReachable /\ PingsAreForConnection)'
    BY <1>1 DEF IInv, StreamsAreReachable, PingsAreForConnection, Pings
  <1> QED  BY <1>5, <1>6, <1>7, <1>8 DEF IInv

\* A TCP thread keeps what it has to do until it ends.
LEMMA TcpStepKeeps ==
    ASSUME NEW g \in Thread
    PROVE  IInv /\ TcpStep(g) => IInv'
  <1> SUFFICES ASSUME IInv, TcpStep(g) PROVE IInv'
    OBVIOUS
  <1> USE DEF inputVars, kaVars
  <1>1. UNCHANGED <<input, typed, dials, responded, exec, ctxTcp, ctxKa, kaTx,
                    kaAt, suspended, mail>>
    BY DEF TcpStep, ReadEof, ReadFails, ReadPacket, ReadTimesOut, Write
  <1>2. TypeOK /\ tcpAt[g] \in {"read", "write"}
    BY DEF IInv, TcpStep, ReadEof, ReadFails, ReadPacket, ReadTimesOut, Write
  <1>3. /\ cmdQ' \in Seq(Lines)
        /\ Cardinality(Dialling(cmdQ)) \in Nat /\ Cardinality(Dialling(cmdQ')) \in Nat
        /\ Cardinality(Dialling(cmdQ')) <= Cardinality(Dialling(cmdQ))
    <2>1. cmdQ' = cmdQ \/ cmdQ' = Append(cmdQ, "disconnect -c")
      BY DEF TcpStep, ReadEof, ReadFails, ReadPacket, ReadTimesOut, Write
    <2>2. PICK c \in Lines : /\ c \notin Connects
                             /\ cmdQ' = cmdQ \/ cmdQ' = Append(cmdQ, c)
      BY <2>1, InternalLines
    <2> QED  BY <1>2, <2>2, QueueCounts
  <1>4. \/ /\ tcpAt' = [tcpAt EXCEPT ![g] = "done"]
           /\ writeQ' = [writeQ EXCEPT ![g] = <<>>]
        \/ /\ \E s \in {"read", "write"} : tcpAt' = [tcpAt EXCEPT ![g] = s]
           /\ UNCHANGED writeQ
        \/ /\ UNCHANGED tcpAt
           /\ writeQ[g] # <<>> /\ Head(writeQ[g]) = "Packet"
           /\ writeQ' = [writeQ EXCEPT ![g] = Tail(@)]
    BY DEF TcpStep, ReadEof, ReadFails, ReadPacket, ReadTimesOut, Write, Returns
  <1>5. \/ UNCHANGED <<readQ, got>>
        \/ /\ got[g] < MaxPackets
           /\ readQ' = [readQ EXCEPT ![g] = @ + 1]
           /\ got' = [got EXCEPT ![g] = @ + 1]
    BY DEF TcpStep, ReadEof, ReadFails, ReadPacket, ReadTimesOut, Write
  <1>6. /\ tcpAt' \in [Thread -> {"none", "read", "write", "done"}]
        /\ Used(tcpAt)' = Used(tcpAt)
        /\ \A h \in Thread : tcpAt'[h] \in {"read", "write"} => tcpAt[h] \in {"read", "write"}
    BY <1>2, <1>4 DEF TypeOK, Used
  <1>7. /\ writeQ' \in [Thread -> Seq({"Packet", "Close"})]
        /\ \A h \in Thread : tcpAt'[h] \in {"read", "write"} /\ Holds(writeQ[h], "Close")
              => Holds(writeQ'[h], "Close")
    <2>1. CASE tcpAt' = [tcpAt EXCEPT ![g] = "done"] /\ writeQ' = [writeQ EXCEPT ![g] = <<>>]
      <3>1. <<>> \in Seq({"Packet", "Close"})
        OBVIOUS
      <3> QED  BY <1>2, <2>1, <3>1 DEF TypeOK
    <2>2. CASE UNCHANGED writeQ
      BY <1>2, <2>2 DEF TypeOK
    <2>3. CASE /\ writeQ[g] # <<>> /\ Head(writeQ[g]) = "Packet"
               /\ writeQ' = [writeQ EXCEPT ![g] = Tail(@)]
      <3>1. writeQ[g] \in Seq({"Packet", "Close"})
        BY <1>2 DEF TypeOK
      <3>2. /\ Tail(writeQ[g]) \in Seq({"Packet", "Close"})
            /\ Holds(writeQ[g], "Close") => Holds(Tail(writeQ[g]), "Close")
        BY <2>3, <3>1, TailHolds
      <3> QED  BY <1>2, <2>3, <3>2 DEF TypeOK
    <2> QED  BY <1>4, <2>1, <2>2, <2>3
  <1>8. /\ readQ' \in [Thread -> 0..MaxPackets] /\ got' \in [Thread -> 0..MaxPackets]
        /\ ReadsAreCounted'
    <2>1. CASE UNCHANGED <<readQ, got>>
      BY <1>2, <2>1 DEF TypeOK, IInv, ReadsAreCounted
    <2>2. CASE /\ got[g] < MaxPackets
               /\ readQ' = [readQ EXCEPT ![g] = @ + 1]
               /\ got' = [got EXCEPT ![g] = @ + 1]
      <3>1. /\ readQ[g] + 1 \in 0..MaxPackets /\ got[g] + 1 \in 0..MaxPackets
            /\ readQ[g] + 1 <= got[g] + 1
        BY <1>2, <2>2, Bounds, ReadTypes DEF IInv, ReadsAreCounted
      <3> QED  BY <1>2, <2>2, <3>1 DEF TypeOK, IInv, ReadsAreCounted
    <2> QED  BY <1>5, <2>1, <2>2
  <1>9. TypeOK'
    BY <1>1, <1>2, <1>3, <1>6, <1>7, <1>8 DEF TypeOK
  <1>10. WaitsHaveStream' /\ RetryBudget'
    BY <1>1 DEF IInv, WaitsHaveStream, RetryBudget
  <1>11. ThreadsSuffice'
    <2>1. UNCHANGED <<Used(kaAt), exec, dials>>
      BY <1>1 DEF Used
    <2>2. Cardinality(Used(kaAt)) \in Nat /\ Cardinality(Used(tcpAt)) \in Nat
      BY UsedFinite
    <2>3. dials \in Nat
      BY <1>2, Bounds DEF TypeOK
    <2> QED  BY <1>3, <1>6, <2>1, <2>2, <2>3 DEF IInv, ThreadsSuffice
  <1>12. StreamsAreReachable'
    BY <1>1, <1>6, <1>7 DEF IInv, StreamsAreReachable
  <1>13. PingsAreForConnection'
    BY <1>1 DEF IInv, PingsAreForConnection, Pings
  <1> QED  BY <1>8, <1>9, <1>10, <1>11, <1>12, <1>13 DEF IInv

\* A keep-alive thread that would not ping after its mail still would not
\* when it has read some of it.
LEMMA KaStepKeeps ==
    ASSUME NEW n \in Thread
    PROVE  IInv /\ KaStep(n) => IInv'
  <1> SUFFICES ASSUME IInv, KaStep(n) PROVE IInv'
    OBVIOUS
  <1> USE DEF inputVars, tcpVars
  <1>1. UNCHANGED <<input, typed, dials, responded, exec, ctxTcp, ctxKa, tcpAt, got,
                    kaTx, writeQ, readQ>>
    BY DEF KaStep, KaReceives, KaTimesOut, KaDisconnected
  <1>2. TypeOK /\ kaAt[n] = "running"
    BY DEF IInv, KaStep, KaReceives, KaTimesOut, KaDisconnected
  <1>3. /\ cmdQ' \in Seq(Lines)
        /\ Cardinality(Dialling(cmdQ)) \in Nat /\ Cardinality(Dialling(cmdQ')) \in Nat
        /\ Cardinality(Dialling(cmdQ')) <= Cardinality(Dialling(cmdQ))
    <2>1. cmdQ' = cmdQ \/ cmdQ' = Append(cmdQ, "ping -n -q")
      BY DEF KaStep, KaReceives, KaTimesOut, KaDisconnected
    <2>2. PICK c \in Lines : /\ c \notin Connects
                             /\ cmdQ' = cmdQ \/ cmdQ' = Append(cmdQ, c)
      BY <2>1, InternalLines
    <2> QED  BY <1>2, <2>2, QueueCounts
  <1>4. /\ kaAt' \in [Thread -> {"none", "running", "done"}]
        /\ suspended' \in [Thread -> BOOLEAN]
        /\ mail' \in [Thread -> Seq({"Suspend", "Resume", "Kill"})]
        /\ Used(kaAt)' = Used(kaAt)
        /\ \A m \in Thread : Pings(m)' => Pings(m)
    <2>1. CASE KaTimesOut(n)
      <3>1. UNCHANGED <<kaAt, suspended, mail>>
        BY <2>1 DEF KaTimesOut, kaVars
      <3> QED  BY <1>2, <3>1 DEF TypeOK, Used, Pings
    <2>2. CASE KaDisconnected(n)
      <3>1. UNCHANGED <<suspended, mail>> /\ kaAt' = [kaAt EXCEPT ![n] = "done"]
        BY <2>2 DEF KaDisconnected
      <3>2. \A m \in Thread : m # n => kaAt'[m] = kaAt[m]
        BY <1>2, <3>1 DEF TypeOK
      <3>3. kaAt'[n] = "done"
        BY <1>2, <3>1 DEF TypeOK
      <3>4. Used(kaAt)' = Used(kaAt)
        BY <1>2, <3>2, <3>3 DEF Used
      <3>5. \A m \in Thread : Pings(m)' => Pings(m)
        BY <3>1, <3>2, <3>3 DEF Pings
      <3> QED  BY <1>2, <3>1, <3>4, <3>5 DEF TypeOK
    <2>3. CASE KaReceives(n)
      <3> DEFINE q == mail[n]
                 next == CASE Head(q) = "Suspend" -> TRUE
                           [] Head(q) = "Resume" -> FALSE
                           [] OTHER -> suspended[n]
      <3>1. q \in Seq({"Suspend", "Resume", "Kill"}) /\ q # <<>>
        BY <1>2, <2>3 DEF TypeOK, KaReceives
      <3>2. /\ mail' = [mail EXCEPT ![n] = Tail(q)]
            /\ suspended' = [suspended EXCEPT ![n] = next]
            /\ kaAt' = [kaAt EXCEPT ![n] = IF Head(q) = "Kill" THEN "done" ELSE "running"]
        BY <1>2, <2>3 DEF KaReceives
      <3>3. /\ Tail(q) \in Seq({"Suspend", "Resume", "Kill"})
            /\ Head(q) \in {"Suspend", "Resume", "Kill"}
            /\ Holds(q, "Kill") => Head(q) = "Kill" \/ Holds(Tail(q), "Kill")
            /\ IF Tail(q) = <<>> THEN q[Len(q)] = Head(q)
               ELSE q[Len(q)] = Tail(q)[Len(Tail(q))]
        BY <3>1, TailHolds
      <3>4. /\ next \in BOOLEAN
            /\ Head(q) = "Suspend" => next
        BY <1>2, <3>3 DEF TypeOK
      <3> HIDE DEF next
      <3>5. /\ mail'[n] = Tail(q) /\ suspended'[n] = next
            /\ kaAt'[n] = IF Head(q) = "Kill" THEN "done" ELSE "running"
        BY <1>2, <3>2 DEF TypeOK
      <3>6. \A m \in Thread : m # n => kaAt'[m] = kaAt[m] /\ mail'[m] = mail[m]
                                          /\ suspended'[m] = suspended[m]
        BY <1>2, <3>2 DEF TypeOK
      <3>7. Used(kaAt)' = Used(kaAt)
        BY <1>2, <3>5, <3>6 DEF Used
      <3>8. /\ kaAt' \in [Thread -> {"none", "running", "done"}]
            /\ mail' \in [Thread -> Seq({"Suspend", "Resume", "Kill"})]
        BY <1>2, <3>2, <3>3 DEF TypeOK
      <3>9. suspended' \in [Thread -> BOOLEAN]
        BY <1>2, <3>2, <3>4 DEF TypeOK
      <3>10. ASSUME Pings(n)' PROVE Pings(n)
        <4>1. Head(q) # "Kill" /\ ~Holds(Tail(q), "Kill")
          BY <3>5, <3>10 DEF Pings
        <4>2. ~Holds(q, "Kill")
          BY <3>3, <4>1
        <4>3. CASE Tail(q) = <<>>
          <5>1. ~next
            BY <3>5, <3>10, <4>3 DEF Pings
          <5>2. q[Len(q)] = "Resume"
            BY <3>3, <3>4, <4>1, <4>3, <5>1
          <5> QED  BY <1>2, <3>1, <4>2, <5>2 DEF Pings
        <4>4. CASE Tail(q) # <<>>
          <5>1. Tail(q)[Len(Tail(q))] = "Resume"
            BY <3>5, <3>10, <4>4 DEF Pings
          <5> QED  BY <1>2, <3>1, <3>3, <4>2, <4>4, <5>1 DEF Pings
        <4> QED  BY <4>3, <4>4
      <3>11. \A m \in Thread : m # n /\ Pings(m)' => Pings(m)
        BY <3>6 DEF Pings
      <3> QED  BY <3>7, <3>8, <3>9, <3>10, <3>11
    <2> QED  BY <2>1, <2>2, <2>3 DEF KaStep
  <1>5. TypeOK'
    BY <1>1, <1>2, <1>3, <1>4 DEF TypeOK
  <1>6. (WaitsHaveStream /\ ReadsAreCounted /\ RetryBudget)'
    BY <1>1 DEF IInv, WaitsHaveStream, ReadsAreCounted, RetryBudget
  <1>7. ThreadsSuffice'
    <2>1. UNCHANGED <<Used(tcpAt), exec, dials>>
      BY <1>1 DEF Used
    <2>2. Cardinality(Used(kaAt)) \in Nat /\ Cardinality(Used(tcpAt)) \in Nat
      BY UsedFinite
    <2>3. dials \in Nat
      BY <1>2, Bounds DEF TypeOK
    <2> QED  BY <1>3, <1>4, <2>1, <2>2, <2>3 DEF IInv, ThreadsSuffice
  <1>8. StreamsAreReachable'
    BY <1>1 DEF IInv, StreamsAreReachable
  <1>9. PingsAreForConnection'
    BY <1>1, <1>4 DEF IInv, PingsAreForConnection
  <1> QED  BY <1>5, <1>6, <1>7, <1>8, <1>9 DEF IInv

-----------------------------------------------------------------------------
(* The theorems.                                                           *)

LEMMA InitIInv == Init => IInv
  <1> SUFFICES ASSUME Init PROVE IInv
    OBVIOUS
  <1> USE DEF Init
  <1>1. exec \in ExecStates /\ InBudget(exec) /\ exec.at = "idle"
    <2>1. "idle" \in ExecPoints
      BY DEF ExecPoints
    <2> QED  BY <2>1, AtOK
  <1>2. cmdQ \in Seq(Lines)
    <2>1. "help" \in Lines
      BY DEF Lines, Anytime
    <2> QED  BY <2>1
  <1>3. TypeOK
    <2>1. 0 \in 0..MaxTyped /\ 0 \in 0..MaxConnects /\ 0 \in 0..MaxPackets
      BY Bounds
    <2>2. /\ tcpAt \in [Thread -> {"none", "read", "write", "done"}]
          /\ kaAt \in [Thread -> {"none", "running", "done"}]
          /\ kaTx \in [Thread -> Thread \cup {None}]
          /\ suspended \in [Thread -> BOOLEAN]
      OBVIOUS
    <2>3. /\ writeQ \in [Thread -> Seq({"Packet", "Close"})]
          /\ mail \in [Thread -> Seq({"Suspend", "Resume", "Kill"})]
      OBVIOUS
    <2>4. readQ \in [Thread -> 0..MaxPackets] /\ got \in [Thread -> 0..MaxPackets]
      BY <2>1
    <2> QED  BY <1>1, <1>2, <2>1, <2>2, <2>3, <2>4 DEF TypeOK, ExecStates
  <1>4. WaitsHaveStream /\ ReadsAreCounted /\ RetryBudget
    BY <1>1 DEF WaitsHaveStream, ReadsAreCounted, RetryBudget, InBudget
  <1>5. ThreadsSuffice
    <2>1. Used(kaAt) = {} /\ Used(tcpAt) = {}
      BY DEF Used
    <2>2. Dialling(cmdQ) = {}
      <3>1. "help" \notin Connects
        BY DEF Connects
      <3>2. Len(cmdQ) = 1 /\ cmdQ[1] = "help"
        OBVIOUS
      <3>3. \A k \in 1..Len(cmdQ) : k = 1
        BY <3>2
      <3> QED  BY <3>1, <3>2, <3>3 DEF Dialling
    <2>3. Cardinality({}) = 0
      BY FS_EmptySet
    <2>4. dials = 0
      OBVIOUS
    <2> HIDE DEF Init
    <2> QED  BY <1>1, <2>1, <2>2, <2>3, <2>4 DEF ThreadsSuffice
  <1>6. StreamsAreReachable /\ PingsAreForConnection
    BY DEF StreamsAreReachable, PingsAreForConnection, Pings
  <1> QED  BY <1>3, <1>4, <1>5, <1>6 DEF IInv

\* IInv is inductive.
LEMMA NextIInv == IInv /\ [Next]_vars => IInv'
  <1> SUFFICES ASSUME IInv, [Next]_vars PROVE IInv'
    OBVIOUS
  <1>1. CASE ExecStep \/ Interrupt
    <2>1. TypeOK /\ WaitsHaveStream /\ RetryBudget
      BY DEF IInv
    <2>2. ExecMoves \/ Drops \/ Connect \/ ConnectTcp \/ AwaitConnack
      BY <1>1, <2>1, ExecStepsMove, ClosingDrops DEF ExecStep
    <2> QED  BY <2>2, ExecMovesKeep, DropsKeep, ConnectKeeps, ConnectTcpKeeps,
                AwaitConnackKeeps
  <1>2. CASE InputStep
    BY <1>2, InputStepKeeps
  <1>3. CASE \E c \in Line : Type(c)
    BY <1>3, TypeKeeps
  <1>4. CASE \E g \in Thread : TcpStep(g) \/ KaStep(g)
    BY <1>4, TcpStepKeeps, KaStepKeeps
  <1>5. CASE UNCHANGED vars
    <2>1. UNCHANGED <<input, typed, dials, cmdQ, responded, exec, ctxTcp, ctxKa, tcpAt,
                      got, kaTx, writeQ, readQ, kaAt, suspended, mail>>
      BY <1>5 DEF vars, inputVars, tcpVars, kaVars
    <2>2. TypeOK'
      BY <2>1 DEF IInv, TypeOK
    <2>3. (WaitsHaveStream /\ ReadsAreCounted /\ RetryBudget)'
      BY <2>1 DEF IInv, WaitsHaveStream, ReadsAreCounted, RetryBudget
    <2>4. ThreadsSuffice'
      BY <2>1 DEF IInv, ThreadsSuffice, Used, Dialling
    <2>5. (StreamsAreReachable /\ PingsAreForConnection)'
      BY <2>1 DEF IInv, StreamsAreReachable, PingsAreForConnection, Pings
    <2> QED  BY <2>2, <2>3, <2>4, <2>5 DEF IInv
  <1> QED  BY <1>1, <1>2, <1>3, <1>4, <1>5 DEF Next

\* The inductive invariant holds in every reachable state of mqtt-cli.
THEOREM Invariance == Spec => []IInv
  BY InitIInv, NextIInv, PTL DEF Spec

\* Every variable keeps its type: in particular no command waits on a channel
\* that the context does not have, and connect always finds a thread to start.
THEOREM TypeCorrect == Spec => []TypeOK
  <1>1. IInv => TypeOK
    BY DEF IInv
  <1> QED  BY <1>1, Invariance, PTL

\* Whatever order commands, hang-ups, failed sends and time-outs come in, a TCP
\* thread that the context has lost has been told to close.
THEOREM ReachableStreams == Spec => []StreamsAreReachable
  <1>1. IInv => StreamsAreReachable
    BY DEF IInv
  <1> QED  BY <1>1, Invariance, PTL

\* Neither a failed connect nor a disconnect leaves a keep-alive thread behind
\* that pings.
THEOREM NoStrayPings == Spec => []PingsAreForConnection
  <1>1. IInv => PingsAreForConnection
    BY DEF IInv
  <1> QED  BY <1>1, Invariance, PTL

\* max_retries - retries never underflows, for any MAX_RETRIES.
THEOREM RetriesInBudget == Spec => []RetryBudget
  <1>1. IInv => RetryBudget
    BY DEF IInv
  <1> QED  BY <1>1, Invariance, PTL
=============================================================================
