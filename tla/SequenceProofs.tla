--------------------------- MODULE SequenceProofs ---------------------------
(***************************************************************************)
(* The sequence numbers and the logs of both endpoints agree: the          *)
(* invariant SeqInv of SenderProofs through every step of either endpoint. *)
(* Out of it, no frame a compliant peer sends is refused, and ackQueue is  *)
(* in the order of sending.                                                *)
(***************************************************************************)
EXTENDS SenderProofs

-----------------------------------------------------------------------------
(* A step of one endpoint and the other one.                               *)

(* No step shortens a log, so what has been said of a frame stays true.    *)
LEMMA FramesKept ==
    ASSUME IndInv, SeqInv,
           \A n \in Node : Grown(sentLog[n], sentLog'[n]) /\ Grown(rcvdLog[n], rcvdLog'[n]),
           \A n \in Node : Len(sentLog'[n]) \in Nat /\ Len(rcvdLog'[n]) \in Nat
    PROVE  \A p \in net : FrameInv(p)'
<1> SUFFICES ASSUME NEW p \in net PROVE FrameInv(p)'
  BY Zenon
<1>1. p \in Frame
  BY Zenon DEF IndInv, TypeOK
<1>2. p.to \in Node /\ p.ans \in Nat /\ p.anr \in Nat
  BY <1>1, Zenon DEF Frame
<1>3. PICK m \in Node : m = Peer(p.to)
  BY <1>2, Peers, Zenon
<1>4. /\ Len(sentLog[m]) \in Nat /\ Len(rcvdLog[m]) \in Nat
      /\ Len(sentLog'[m]) \in Nat /\ Len(rcvdLog'[m]) \in Nat
      /\ Grown(sentLog[m], sentLog'[m]) /\ Grown(rcvdLog[m], rcvdLog'[m])
  BY NodeTypes, Zenon
<1>5. FrameInv(p)
  BY Zenon DEF SeqInv
<1>6. p.anr <= Len(rcvdLog'[m])
  BY <1>2, <1>3, <1>4, <1>5 DEF FrameInv, Grown
<1>7. p.type = "msg" => p.ans < Len(sentLog'[m]) /\ sentLog'[m][p.ans + 1] = p.id
  <2> SUFFICES ASSUME p.type = "msg" PROVE p.ans < Len(sentLog'[m]) /\ sentLog'[m][p.ans + 1] = p.id
    BY Zenon
  <2>1. p.ans < Len(sentLog[m]) /\ sentLog[m][p.ans + 1] = p.id
    BY <1>3, <1>5, Zenon DEF FrameInv
  <2>2. p.ans + 1 \in 1 .. Len(sentLog[m])
    BY <1>2, <1>4, <2>1
  <2> QED
    BY <1>2, <1>4, <2>1, <2>2 DEF Grown
<1> QED
  BY <1>3, <1>5, <1>6, <1>7, Zenon DEF FrameInv

(* A step of n leaves the variables of m alone.                            *)
Unmoved(m) ==
    /\ ss'[m] = ss[m] /\ xmit'[m] = xmit[m] /\ txQueue'[m] = txQueue[m] /\ ackQueue'[m] = ackQueue[m]
    /\ rxQueue'[m] = rxQueue[m] /\ spc'[m] = spc[m] /\ cur'[m] = cur[m] /\ nri'[m] = nri[m]
    /\ rpc'[m] = rpc[m] /\ pend'[m] = pend[m] /\ helloInFlight'[m] = helloInFlight[m]
    /\ accepted'[m] = accepted[m] /\ sentLog'[m] = sentLog[m] /\ rcvdLog'[m] = rcvdLog[m]
    /\ helloTimer'[m] = helloTimer[m] /\ seenNr'[m] = seenNr[m]

(* What the endpoint that does not move keeps.  What its peer has accepted *)
(* may grow, within what was sent.                                         *)
LEMMA PeerKept ==
    ASSUME IndInv, SeqInv, NEW n \in Node, NEW m \in Node, m = Peer(n), Unmoved(m),
           net \subseteq net', Grown(rcvdLog[n], rcvdLog'[n]), Len(rcvdLog'[n]) \in Nat,
           rcvdLog'[n] = rcvdLog[n] \/ PrefixInv(m)'
    PROVE  SenderInv(m)' /\ WireInv(m)' /\ RxInv(m)'
<1>1. SenderInv(m) /\ WireInv(m) /\ RxInv(m) /\ Peer(m) = n
  BY Peers, Zenon DEF SeqInv
<1>2. SenderInv(m)'
  <2>1. CounterInv(m)'
    BY <1>1, Zenon DEF Unmoved, SenderInv, CounterInv, NextAns
  <2>2. NumberedInv(m)'
    BY <1>1, SMTT(60) DEF Unmoved, SenderInv, NumberedInv, Elements
  <2>3. QueueInv(m)'
    BY <1>1 DEF Unmoved, SenderInv, QueueInv
  <2>4. GapInv(m)'
    <3>1. GapInv(m) /\ ackQueue'[m] = ackQueue[m] /\ sentLog'[m] = sentLog[m]
      BY <1>1, Zenon DEF Unmoved, SenderInv
    <3>2. /\ \A k \in DOMAIN ackQueue[m] : Ans(m, k)' = Ans(m, k)
          /\ Pending(m)' = Pending(m) /\ HelloGap(m)' = HelloGap(m)
      BY ZenonT(60) DEF Unmoved, Ans, Pending, HelloGap
    <3> QED
      BY ONLY <3>1, <3>2, Zenon DEF GapInv
  <2>5. HelloInv(m)'
    BY <1>1, Zenon DEF Unmoved, SenderInv, HelloInv, isComplete
  <2> QED
    BY <2>1, <2>2, <2>3, <2>4, <2>5, Zenon DEF SenderInv
<1>3. RxInv(m)'
  BY <1>1 DEF Unmoved, RxInv
<1>4. ASSUME rcvdLog'[n] = rcvdLog[n] PROVE PrefixInv(m)'
  <2>1. Pending(m)' = Pending(m) /\ HelloGap(m)' = HelloGap(m)
    BY Zenon DEF Unmoved, Pending, HelloGap
  <2>2. /\ rcvdLog'[Peer(m)] = rcvdLog[Peer(m)] /\ sentLog'[m] = sentLog[m]
        /\ spc'[m] = spc[m] /\ ackQueue'[m] = ackQueue[m]
    BY <1>1, <1>4, Zenon DEF Unmoved
  <2>3. PrefixInv(m)
    BY <1>1, Zenon DEF WireInv
  <2> HIDE DEF Unmoved
  <2> QED
    BY ONLY <2>1, <2>2, <2>3, Zenon DEF PrefixInv
<1>5. Len(rcvdLog[n]) \in Nat /\ pend[m].anr \in Nat /\ nri[m].anr \in Nat
  BY NodeTypes, Zenon
<1>6. PendInv(m)'
  <2>1. /\ PendInv(m) /\ pend'[m] = pend[m] /\ rpc'[m] = rpc[m] /\ ackQueue'[m] = ackQueue[m]
        /\ sentLog'[m] = sentLog[m] /\ spc'[m] = spc[m]
    BY <1>1, Zenon DEF Unmoved, WireInv
  <2>2. Ans(m, 1)' = Ans(m, 1) /\ Pending(m)' = Pending(m) /\ HelloGap(m)' = HelloGap(m)
    BY Zenon DEF Unmoved, Ans, Pending, HelloGap
  <2>3. pend[m].anr <= Len(rcvdLog[n]) => pend[m].anr <= Len(rcvdLog'[n])
    BY <1>5, SMTT(60) DEF Grown
  <2> QED
    BY ONLY <1>1, <2>1, <2>2, <2>3, Zenon DEF PendInv
<1>7. AckInv(m)'
  BY <1>1, <1>5, SMTT(60) DEF Unmoved, WireInv, AckInv, Grown, Ans
<1> QED
  BY <1>2, <1>3, <1>4, <1>6, <1>7, Zenon DEF WireInv

(* A step of one endpoint.                                                 *)

(* The step of an endpoint moves only its own variables, and the network   *)
(* forgets no frame.                                                       *)
LEMMA OneMoves ==
    ASSUME IndInv, NEW n \in Node, NEW m \in Node, m # n,
           User(n) \/ SenderRetry(n) \/ SenderSelect(n) \/ SenderBusy(n) \/ Receiver(n) \/ Timers(n)
    PROVE  Unmoved(m) /\ net \subseteq net'
<1> USE DEF IndInv, TypeOK, Unmoved, senderVars, timerVars, rxVars, userVars, histVars, resetHelloTimer
<1>1. CASE User(n)
  BY <1>1, Zenon DEF User, Call, Close, UserRecv
<1>2. CASE SenderRetry(n)
  <2>1. PICK i \in AnyId : RetryIgnored(n, i) \/ Retransmit(n, i) \/ RetryFail(n, i)
    BY <1>2, Zenon DEF SenderRetry
  <2>2. CASE RetryIgnored(n, i)
    BY <2>2, Zenon DEF RetryIgnored
  <2>3. CASE Retransmit(n, i)
    BY <2>3, ZenonT(60) DEF Retransmit
  <2>4. CASE RetryFail(n, i)
    BY <2>4, Zenon DEF RetryFail, GoDown
  <2> QED
    BY <2>1, <2>2, <2>3, <2>4, ZenonT(60)
<1>3. CASE SenderSelect(n)
  <2>1. CASE Accept(n)
    BY <2>1, Zenon DEF Accept
  <2>2. CASE NrHandoff(n)
    BY <2>2, ZenonT(60) DEF NrHandoff, EndOfNr
  <2>3. CASE Closed(n) \/ NrClosed(n) \/ HelloWriteFail(n) \/ ExplicitAckFail(n)
    BY <2>3, SMTT(60) DEF Closed, NrClosed, HelloWriteFail, ExplicitAckFail, GoDown
  <2>4. CASE HelloIgnored(n) \/ ExplicitAck(n)
    BY <2>4, Zenon DEF HelloIgnored, ExplicitAck
  <2>5. CASE HelloWrite(n)
    BY <2>5, ZenonT(60) DEF HelloWrite
  <2> QED
    BY <1>3, <2>1, <2>2, <2>3, <2>4, <2>5, Zenon DEF SenderSelect
<1>4. CASE SenderBusy(n)
  <2>1. CASE TxWrite(n)
    BY <2>1, ZenonT(60) DEF TxWrite
  <2>2. CASE TxWriteFail(n)
    BY <2>2, Zenon DEF TxWriteFail, GoDown
  <2>3. CASE Sent(n)
    BY <2>3, Zenon DEF Sent
  <2>4. CASE SentHello(n)
    BY <2>4, Zenon DEF SentHello
  <2>5. CASE AckOne(n)
    BY <2>5, ZenonT(60) DEF AckOne, EndOfNr
  <2>6. CASE Drain(n)
    BY <2>6, Zenon DEF Drain
  <2>7. CASE DownDone(n)
    BY <2>7, Zenon DEF DownDone
  <2> QED
    BY <1>4, <2>1, <2>2, <2>3, <2>4, <2>5, <2>6, <2>7, Zenon DEF SenderBusy
<1>5. CASE Receiver(n)
  <2>1. ASSUME NEW p \in net, Recv(n, p) PROVE Unmoved(m) /\ net \subseteq net'
    BY <2>1, ZenonT(60) DEF Recv
  <2>2. CASE RxAccept(n)
    BY <2>2, Zenon DEF RxAccept
  <2>3. CASE RxDrop(n) \/ RecvUnknownAvp(n) \/ ReadFail(n)
    BY <2>3, ZenonT(60) DEF RxDrop, RecvUnknownAvp, ReadFail
  <2> QED
    BY <1>5, <2>1, <2>2, <2>3, ZenonT(60) DEF Receiver, ReceiverBusy
<1>6. CASE Timers(n)
  BY <1>6, Zenon DEF Timers, AckTimerFires, RetryTimerFires
<1> QED
  BY <1>1, <1>2, <1>3, <1>4, <1>5, <1>6, ZenonT(60)
-----------------------------------------------------------------------------
(* processAckQueue and down().                                             *)

(* What down() keeps when it is called.                                    *)
LEMMA DownKept ==
    ASSUME IndInv, SeqInv, NEW n \in Node, spc[n] \in {"select", "tx"}, spc'[n] = "down",
           UNCHANGED <<ss, ackQueue, cur, sentLog, rcvdLog, pend, rpc>>,
           \A i \in AnyId : /\ xmit'[n][i].ns = xmit[n][i].ns /\ xmit'[n][i].ans = xmit[n][i].ans
                            /\ xmit'[n][i].timer # "off" => xmit[n][i].timer # "off",
           QueueInv(n)'
    PROVE  SenderInv(n)' /\ WireInv(n)'
<1>1. /\ CounterInv(n) /\ NumberedInv(n) /\ GapInv(n) /\ PrefixInv(n) /\ PendInv(n)
      /\ ackQueue[n] \in Seq(AnyId) /\ HelloGap(n) \in 0 .. 1 /\ Len(ackQueue[n]) \in Nat
      /\ Len(sentLog[n]) \in Nat /\ pend[n].anr \in Nat
  BY NodeTypes, ZenonT(60) DEF SeqInv, SenderInv, WireInv
<1>2. CounterInv(n)'
  BY <1>1, ZenonT(60) DEF CounterInv, NextAns
<1>3. NumberedInv(n)'
  BY <1>1, ZenonT(60) DEF NumberedInv, Elements
<1>4. Pending(n) = 0 /\ Pending(n)' = 0 /\ HelloGap(n)' = 1
  BY Zenon DEF Pending, HelloGap
<1>5. /\ \A k \in DOMAIN ackQueue[n] : Ans(n, k)' = Ans(n, k) /\ Ans(n, k) \in Nat
      /\ ackQueue[n] # <<>> => Ans(n, 1)' = Ans(n, 1)
  <2>1. \A k \in DOMAIN ackQueue[n] : Ans(n, k)' = Ans(n, k) /\ Ans(n, k) \in Nat
    BY AnsType, ZenonT(60) DEF Ans
  <2> QED
    BY <1>1, <2>1, SMTT(60)
<1>6. GapInv(n)'
  <2> SUFFICES ASSUME NEW k \in DOMAIN ackQueue[n]
               PROVE  /\ Ans(n, k) + (Len(ackQueue[n]) - k) + 0 <= Len(sentLog[n]) - 1
                      /\ Len(sentLog[n]) - 1 <= Ans(n, k) + (Len(ackQueue[n]) - k) + 0 + 1
                      /\ \A j \in DOMAIN ackQueue[n] : j < k => Ans(n, j) < Ans(n, k)
    BY <1>4, <1>5, ZenonT(60) DEF GapInv
  <2>1. /\ Ans(n, k) + (Len(ackQueue[n]) - k) + 0 <= Len(sentLog[n]) - 1
        /\ Len(sentLog[n]) - 1 <= Ans(n, k) + (Len(ackQueue[n]) - k) + 0 + HelloGap(n)
        /\ \A j \in DOMAIN ackQueue[n] : j < k => Ans(n, j) < Ans(n, k)
    BY <1>1, <1>4, ZenonT(60) DEF GapInv
  <2>2. k \in Nat /\ Ans(n, k) \in Nat
    BY <1>1, <1>5, SMTT(60)
  <2>3. Len(sentLog[n]) - 1 <= Ans(n, k) + (Len(ackQueue[n]) - k) + 0 + 1
    BY <1>1, <2>1, <2>2, SMTT(60)
  <2> QED
    BY <2>1, <2>3, ZenonT(60)
<1>7. HelloInv(n)'
  BY Zenon DEF HelloInv
<1>8. PrefixInv(n)'
  BY <1>1, Zenon DEF PrefixInv
<1>9. PendInv(n)'
  <2>1. pend[n] # NoNr /\ ackQueue[n] = <<>> => Len(sentLog[n]) + 1 <= pend[n].anr + SeqHalf + 0 + 1
    <3>1. pend[n] # NoNr /\ ackQueue[n] = <<>> =>
            Len(sentLog[n]) + 1 <= pend[n].anr + SeqHalf + 0 + HelloGap(n)
      BY <1>1, <1>4, ZenonT(60) DEF PendInv
    <3> QED
      BY <1>1, <3>1, HalfTwice, SMTT(60)
  <2> QED
    BY <1>1, <1>4, <1>5, <2>1, ZenonT(60) DEF PendInv
<1>10. AckInv(n)'
  BY Zenon DEF AckInv
<1> QED
  BY <1>2, <1>3, <1>6, <1>7, <1>8, <1>9, <1>10, ZenonT(60) DEF SenderInv, WireInv

(* The calls of down() from the select and from processTxQueue.            *)
LEMMA GoDownStep ==
    ASSUME IndInv, SeqInv, NEW n \in Node,
           \/ Closed(n) \/ NrClosed(n) \/ HelloWriteFail(n) \/ ExplicitAckFail(n) \/ TxWriteFail(n)
           \/ \E i \in AnyId : RetryFail(n, i)
    PROVE  SenderInv(n)' /\ WireInv(n)'
<1>1. QueueInv(n) /\ txQueue[n] \in Seq(AnyId) /\ accepted[n] \in Nat
  BY NodeTypes, ZenonT(60) DEF SeqInv, SenderInv
<1>2. CASE Closed(n) \/ NrClosed(n) \/ HelloWriteFail(n) \/ ExplicitAckFail(n)
  <2>1. /\ spc[n] = "select" /\ spc'[n] = "down"
        /\ UNCHANGED <<ss, xmit, txQueue, ackQueue, cur, accepted, sentLog, rcvdLog, pend, rpc>>
    BY <1>2, ZenonT(60) DEF Closed, NrClosed, HelloWriteFail, ExplicitAckFail, GoDown, rxVars, userVars, histVars,
                IndInv, TypeOK
  <2>2. QueueInv(n)'
    BY <1>1, <2>1, ZenonT(60) DEF QueueInv
  <2> QED
    BY <2>1, <2>2, DownKept, ZenonT(60)
<1>3. ASSUME NEW i \in AnyId, RetryFail(n, i) PROVE SenderInv(n)' /\ WireInv(n)'
  <2>1. /\ spc[n] = "select" /\ spc'[n] = "down"
        /\ UNCHANGED <<ss, txQueue, ackQueue, cur, accepted, sentLog, rcvdLog, pend, rpc>>
    BY <1>3, ZenonT(60) DEF RetryFail, GoDown, rxVars, userVars, histVars, IndInv, TypeOK
  <2>2. QueueInv(n)'
    BY <1>1, <2>1, ZenonT(60) DEF QueueInv
  <2>3. /\ xmit'[n] = [xmit[n] EXCEPT ![i] = txComplete(retryTaken(xmit[n][i]), "failed")]
        /\ xmit[n] \in [AnyId -> XmitMsg] /\ xmit[n][i].timer = "fired"
    BY <1>3, ZenonT(60) DEF RetryFail, IndInv, TypeOK
  <2>4. \A j \in AnyId : /\ xmit'[n][j].ns = xmit[n][j].ns /\ xmit'[n][j].ans = xmit[n][j].ans
                         /\ xmit'[n][j].timer # "off" => xmit[n][j].timer # "off"
    <3>1. retryTaken(xmit[n][i]) \in XmitMsg /\ xmit[n][i] \in XmitMsg
      BY <2>3, XmitMsgType, Zenon
    <3>2. /\ txComplete(retryTaken(xmit[n][i]), "failed").ns = xmit[n][i].ns
          /\ txComplete(retryTaken(xmit[n][i]), "failed").ans = xmit[n][i].ans
      BY <3>1, SameNumber, SMTT(60)
    <3> QED
      BY <2>3, <3>2, ZenonT(60)
  <2> QED
    BY <2>1, <2>2, <2>4, DownKept, ZenonT(60)
<1>4. CASE TxWriteFail(n)
  <2>1. /\ spc[n] = "tx" /\ spc'[n] = "down" /\ txQueue[n] # <<>> /\ txQueue'[n] = Tail(txQueue[n])
        /\ UNCHANGED <<ss, ackQueue, cur, accepted, sentLog, rcvdLog, pend, rpc>>
    BY <1>4, ZenonT(60) DEF TxWriteFail, GoDown, rxVars, userVars, histVars, IndInv, TypeOK, LocationInv
  <2>2. QueueInv(n)'
    <3>1. PICK T \in Nat : T = Len(txQueue[n]) /\ T > 0
      BY <1>1, <2>1, SMTT(60)
    <3>2. PICK a \in Nat : a = accepted[n]
      BY <1>1, Zenon
    <3>3. /\ Len(txQueue'[n]) = T - 1 /\ DOMAIN txQueue'[n] = 1 .. T - 1
          /\ \A k \in 1 .. T - 1 : txQueue'[n][k] = txQueue[n][k + 1]
      BY <1>1, <2>1, <3>1, TailFacts, SMTT(60)
    <3>4. T <= a /\ \A k \in 1 .. T : txQueue[n][k] = a - T + k
      BY <1>1, <3>1, <3>2, SMTT(60) DEF QueueInv
    <3>5. ASSUME NEW k \in 1 .. T - 1 PROVE txQueue'[n][k] = a - (T - 1) + k
      <4>1. k + 1 \in 1 .. T
        BY SMTT(60)
      <4>2. txQueue'[n][k] = a - T + (k + 1)
        BY <3>3, <3>4, <4>1, ZenonT(60)
      <4> QED
        BY <4>2, SMTT(60)
    <3>6. \A k \in DOMAIN ackQueue[n] : ackQueue[n][k] \in 1 .. a - (T - 1)
      BY <1>1, <3>1, <3>2, SMTT(60) DEF QueueInv
    <3>7. accepted'[n] = a /\ T - 1 <= a /\ ackQueue'[n] = ackQueue[n] /\ spc'[n] # "sent"
      BY <2>1, <3>1, <3>2, <3>4, SMTT(60)
    <3> QED
      BY ONLY <3>3, <3>5, <3>6, <3>7, ZenonT(60) DEF QueueInv
  <2>3. PICK i \in AnyId : i = Head(txQueue[n])
    BY <1>1, <2>1, SMTT(60)
  <2>4. xmit'[n] = [xmit[n] EXCEPT ![i] = txComplete(xmit[n][i], "failed")] /\ xmit[n] \in [AnyId -> XmitMsg]
    BY <1>4, <2>3, Zenon DEF TxWriteFail, IndInv, TypeOK
  <2>5. \A j \in AnyId : /\ xmit'[n][j].ns = xmit[n][j].ns /\ xmit'[n][j].ans = xmit[n][j].ans
                         /\ xmit'[n][j].timer # "off" => xmit[n][j].timer # "off"
    BY <2>4, SameNumber
  <2> QED
    BY <2>1, <2>2, <2>5, DownKept, ZenonT(60)
<1> QED
  BY <1>2, <1>3, <1>4, Zenon

(* processAckQueue: the head of ackQueue is complete, and if the loop goes *)
(* on its test of the next message is sound too.                           *)
LEMMA AckOneStep ==
    ASSUME IndInv, SeqInv, NEW n \in Node, AckOne(n)
    PROVE  SenderInv(n)' /\ WireInv(n)'
(* An ack moves the window and leaves the counters.                        *)
<1>OnAckKeepsNumbers. \A s \in SlowStartState : onAck(s).ns = s.ns /\ onAck(s).nr = s.nr
    BY Zenon DEF onAck, SlowStartState
<1>1. /\ CounterInv(n) /\ NumberedInv(n) /\ QueueInv(n) /\ GapInv(n) /\ HelloInv(n)
      /\ PrefixInv(n) /\ PendInv(n) /\ AckInv(n) /\ ackQueue[n] \in Seq(AnyId)
      /\ Len(sentLog[n]) \in Nat /\ accepted[n] \in Nat /\ Len(txQueue[n]) \in Nat
      /\ HelloGap(n) \in 0 .. 1 /\ pend[n].anr \in Nat /\ nri[n].anr \in Nat
      /\ Peer(n) \in Node /\ Len(rcvdLog[Peer(n)]) \in Nat /\ ss[n] \in SlowStartState
  BY NodeTypes, Peers, ZenonT(60) DEF SeqInv, SenderInv, WireInv
<1>2. /\ spc[n] = "ack" /\ ackQueue[n] # <<>> /\ spc'[n] \in {"ack", "tx", "select"}
      /\ ss'[n] = onAck(ss[n]) /\ ackQueue'[n] = Tail(ackQueue[n])
      /\ xmit'[n] = [xmit[n] EXCEPT ![Head(ackQueue[n])] = txComplete(@, "acked")]
      /\ UNCHANGED <<txQueue, cur, helloInFlight, accepted, sentLog, rcvdLog, pend, rpc>>
      /\ xmit[n] \in [AnyId -> XmitMsg]
  <2>1. spc'[n] \in {"ack", "tx", "select"}
    BY Zenon DEF AckOne, EndOfNr, IndInv, TypeOK
  <2> QED
    BY <2>1, ZenonT(60) DEF AckOne, rxVars, userVars, histVars, IndInv, TypeOK, LocationInv
<1>3. spc'[n] = "ack" => nri'[n] = nri[n] /\ HeadIsAcked(n, nri[n].nr, Tail(ackQueue[n]))
  BY Zenon DEF AckOne, EndOfNr, IndInv, TypeOK
<1>num. /\ HelloGap(n) \in 0 .. 1 /\ pend[n].anr \in Nat /\ nri[n].anr \in Nat
        /\ Len(rcvdLog[Peer(n)]) \in Nat
  BY <1>1, Zenon
<1>que. ackQueue[n] \in Seq(AnyId) /\ ackQueue[n] # <<>> /\ ackQueue'[n] = Tail(ackQueue[n])
  BY <1>1, <1>2, Zenon
<1>4. PICK A \in Nat : A = Len(ackQueue[n]) /\ A > 0
  BY <1>que, SMTT(60)
<1>5. PICK L \in Nat : L = Len(sentLog[n])
  BY <1>1, Zenon
<1>6. PICK h \in AnyId : h = ackQueue[n][1] /\ h = Head(ackQueue[n])
  BY <1>que, SMTT(60)
<1>7. /\ Len(ackQueue'[n]) = A - 1 /\ DOMAIN ackQueue'[n] = 1 .. A - 1 /\ DOMAIN ackQueue[n] = 1 .. A
      /\ \A k \in 1 .. A - 1 : ackQueue'[n][k] = ackQueue[n][k + 1]
  BY <1>que, <1>4, TailFacts, SMTT(60)
<1>8. /\ \A j \in AnyId : /\ xmit'[n][j].ns = xmit[n][j].ns /\ xmit'[n][j].ans = xmit[n][j].ans
                          /\ xmit'[n][j].timer # "off" => xmit[n][j].timer # "off"
      /\ \A j \in AnyId \ {h} : xmit'[n][j] = xmit[n][j]
  <2>1. xmit'[n] = [xmit[n] EXCEPT ![h] = txComplete(xmit[n][h], "acked")]
    BY <1>2, <1>6, ZenonT(60)
  <2> QED
    BY <1>2, <2>1, SameNumber
<1>9. \A k \in 1 .. A - 1 : /\ k + 1 \in 1 .. A /\ Ans(n, k)' = Ans(n, k + 1)
                            /\ ackQueue[n][k + 1] \in AnyId /\ Ans(n, k + 1) \in Nat
  <2> SUFFICES ASSUME NEW k \in 1 .. A - 1
               PROVE  /\ k + 1 \in 1 .. A /\ Ans(n, k)' = Ans(n, k + 1)
                      /\ ackQueue[n][k + 1] \in AnyId /\ Ans(n, k + 1) \in Nat
    BY Zenon
  <2>1. k + 1 \in 1 .. A
    BY SMTT(60)
  <2>2. ackQueue[n][k + 1] \in AnyId /\ Ans(n, k + 1) \in Nat /\ ackQueue'[n][k] = ackQueue[n][k + 1]
    BY <1>7, <2>1, AnsType, ZenonT(60)
  <2> QED
    BY <1>8, <2>1, <2>2, ZenonT(60) DEF Ans
<1>10. /\ Pending(n) = 0 /\ Pending(n)' = 0 /\ HelloGap(n)' = HelloGap(n)
  BY <1>2, Zenon DEF Pending, HelloGap
<1>11. Ans(n, 1) \in Nat /\ Ans(n, 1) + (A - 1) <= L - 1 /\ L - 1 <= Ans(n, 1) + (A - 1) + HelloGap(n)
  <2>1. 1 \in DOMAIN ackQueue[n] /\ Ans(n, 1) \in Nat
    BY <1>4, <1>7, AnsType, SMTT(60)
  <2>2. /\ Ans(n, 1) + (A - 1) + Pending(n) <= L - 1
        /\ L - 1 <= Ans(n, 1) + (A - 1) + Pending(n) + HelloGap(n)
    BY <1>1, <1>4, <1>5, <2>1, Zenon DEF GapInv
  <2> QED
    BY <1>num, <1>10, <2>1, <2>2, SMTT(60)
<1>12. /\ nri[n].nr = nri[n].anr % SeqMod /\ nri[n].anr <= Len(rcvdLog[Peer(n)])
       /\ Ans(n, 1) < nri[n].anr
  BY <1>1, <1>2, ZenonT(60) DEF AckInv
<1>13. CounterInv(n)'
  BY <1>1, <1>2, <1>OnAckKeepsNumbers, ZenonT(60) DEF CounterInv, NextAns
<1>14. NumberedInv(n)'
  <2>1. \A j \in AnyId : j \in Elements(ackQueue'[n]) => j \in Elements(ackQueue[n])
    BY <1>7, <1>9, ZenonT(60) DEF Elements
  <2>2. spc'[n] # "sent" /\ sentLog'[n] = sentLog[n]
    BY <1>2, ZenonT(60)
  <2> SUFFICES ASSUME NEW j \in AnyId, xmit'[n][j].timer # "off" \/ j \in Elements(ackQueue'[n])
               PROVE  /\ xmit'[n][j].ns = xmit'[n][j].ans % SeqMod
                      /\ xmit'[n][j].ans < Len(sentLog'[n]) /\ sentLog'[n][xmit'[n][j].ans + 1] = j
    BY <2>2, ZenonT(60) DEF NumberedInv, Elements
  <2>3. xmit[n][j].timer # "off" \/ j \in Elements(ackQueue[n])
    BY <1>8, <2>1, Zenon
  <2>4. /\ xmit[n][j].ns = xmit[n][j].ans % SeqMod
        /\ xmit[n][j].ans < Len(sentLog[n]) /\ sentLog[n][xmit[n][j].ans + 1] = j
    BY <1>1, <2>3, ZenonT(60) DEF NumberedInv
  <2> QED
    BY <1>8, <2>2, <2>4, ZenonT(60)
<1>15. QueueInv(n)'
  <2>1. \A k \in 1 .. A - 1 : ackQueue'[n][k] \in 1 .. accepted[n] - Len(txQueue[n])
    BY <1>1, <1>7, <1>9, ZenonT(60) DEF QueueInv
  <2>2. QueueInv(n) /\ txQueue'[n] = txQueue[n] /\ accepted'[n] = accepted[n] /\ spc'[n] # "sent"
    BY <1>1, <1>2, ZenonT(60)
  <2> QED
    BY ONLY <1>7, <2>1, <2>2, ZenonT(60) DEF QueueInv
<1>16. GapInv(n)'
  <2> SUFFICES ASSUME NEW k \in 1 .. A - 1
               PROVE  /\ Ans(n, k)' + ((A - 1) - k) + Pending(n)' <= Len(sentLog'[n]) - 1
                      /\ Len(sentLog'[n]) - 1 <= Ans(n, k)' + ((A - 1) - k) + Pending(n)' + HelloGap(n)'
                      /\ \A j \in 1 .. A - 1 : j < k => Ans(n, j)' < Ans(n, k)'
    BY <1>7, ZenonT(60) DEF GapInv
  <2>1. k + 1 \in 1 .. A /\ Ans(n, k)' = Ans(n, k + 1) /\ Ans(n, k + 1) \in Nat
    BY <1>9, Zenon
  <2>2. /\ Ans(n, k + 1) + (A - (k + 1)) + Pending(n) <= L - 1
        /\ L - 1 <= Ans(n, k + 1) + (A - (k + 1)) + Pending(n) + HelloGap(n)
        /\ \A j \in DOMAIN ackQueue[n] : j < k + 1 => Ans(n, j) < Ans(n, k + 1)
    BY <1>1, <1>4, <1>5, <1>7, <2>1, ZenonT(60) DEF GapInv
  <2>3. /\ Ans(n, k + 1) + ((A - 1) - k) + 0 <= L - 1
        /\ L - 1 <= Ans(n, k + 1) + ((A - 1) - k) + 0 + HelloGap(n)
    BY <1>num, <1>10, <2>1, <2>2, SMTT(60)
  <2>4. ASSUME NEW j \in 1 .. A - 1, j < k PROVE Ans(n, j)' < Ans(n, k)'
    <3>1. j + 1 \in DOMAIN ackQueue[n] /\ j + 1 < k + 1 /\ Ans(n, j)' = Ans(n, j + 1)
      BY <1>7, <1>9, <2>4, SMTT(60)
    <3> QED
      BY <2>1, <2>2, <3>1, ZenonT(60)
  <2> QED
    BY <1>2, <1>5, <1>10, <2>1, <2>3, <2>4, ZenonT(60)
<1>17. HelloInv(n)'
  <2>1. h \in 1 .. accepted[n] - Len(txQueue[n])
    <3>1. 1 \in DOMAIN ackQueue[n]
      BY <1>4, <1>7, SMTT(60)
    <3> QED
      BY <1>1, <1>6, <3>1, Zenon DEF QueueInv
  <2>2. h # Hello /\ Hello \in AnyId
    BY <1>1, <2>1, Constants, SMTT(60) DEF Hello
  <2>3. xmit'[n][Hello] = xmit[n][Hello] /\ xmit[n][Hello].result = "none"
    BY <1>1, <1>2, <1>8, <2>2, Zenon DEF HelloInv, isComplete
  <2> QED
    BY <2>3, Zenon DEF HelloInv, isComplete
<1>18. PrefixInv(n)'
  <2>1. PICK R \in Nat : R = Len(rcvdLog[Peer(n)])
    BY <1>1, Zenon
  <2>2. /\ R <= L /\ \A k \in 1 .. R : rcvdLog[Peer(n)][k] = sentLog[n][k]
        /\ L - R <= TxWindowSize + 1
    BY <1>1, <1>5, <2>1, Zenon DEF PrefixInv
  <2>3. L - R <= (A - 1) + Pending(n)' + HelloGap(n)'
    BY <1>num, <1>10, <1>11, <1>12, <2>1, SMTT(60)
  <2>4. rcvdLog'[Peer(n)] = rcvdLog[Peer(n)] /\ sentLog'[n] = sentLog[n]
    BY <1>2, ZenonT(60)
  <2> QED
    BY ONLY <1>5, <1>7, <2>1, <2>2, <2>3, <2>4, ZenonT(60) DEF PrefixInv
<1>19. PendInv(n)'
  <2> SUFFICES ASSUME pend[n] # NoNr PROVE PendInv(n)'
    BY <1>2, ZenonT(60) DEF PendInv
  <2>1. /\ rpc[n] = "nr" /\ pend[n].nr = pend[n].anr % SeqMod
        /\ pend[n].anr <= Len(rcvdLog[Peer(n)]) /\ L + 1 <= pend[n].anr + SeqHalf
    BY <1>1, <1>2, <1>5, ZenonT(60) DEF PendInv
  <2>2. ackQueue'[n] # <<>> => Ans(n, 1)' <= pend[n].anr + SeqHalf
    <3> SUFFICES ASSUME ackQueue'[n] # <<>> PROVE Ans(n, 1)' <= pend[n].anr + SeqHalf
      BY ZenonT(60)
    <3>1. ackQueue'[n] \in Seq(AnyId)
      BY <1>que, TailFacts, ZenonT(60)
    <3>2. 1 \in 1 .. A - 1
      BY <1>4, <1>7, <3>1
    <3>3. Ans(n, 1)' = Ans(n, 2) /\ Ans(n, 2) \in Nat /\ 2 \in 1 .. A
      BY <1>9, <3>2, SMTT(60)
    <3>4. Ans(n, 2) + (A - 2) + Pending(n) <= L - 1
      BY <1>1, <1>4, <1>5, <1>7, <3>3, ZenonT(60) DEF GapInv
    <3>5. PICK x \in Nat : x = Ans(n, 2)
      BY <3>3, Zenon
    <3>6. x <= L
      BY <1>10, <3>3, <3>4, <3>5, SMTT(60)
    <3> QED
      BY <1>num, <2>1, <3>3, <3>5, <3>6, HalfTwice, SMTT(60)
  <2>3. L + 1 <= pend[n].anr + SeqHalf + Pending(n)' + HelloGap(n)'
    BY <1>num, <1>10, <2>1, HalfTwice, SMTT(60)
  <2> QED
    BY <1>2, <1>5, <2>1, <2>2, <2>3, ZenonT(60) DEF PendInv
<1>20. AckInv(n)'
  <2> SUFFICES ASSUME spc'[n] = "ack" PROVE Ans(n, 1)' < nri[n].anr
    BY <1>2, <1>3, <1>12, ZenonT(60) DEF AckInv
  <2>1. Tail(ackQueue[n]) # <<>> /\ seqCompare(nri[n].nr, xmit[n][Head(Tail(ackQueue[n]))].ns) > 0
    BY <1>3, Zenon DEF HeadIsAcked
  <2>2. ackQueue'[n] \in Seq(AnyId) /\ ackQueue'[n] # <<>> /\ Head(ackQueue'[n]) = ackQueue'[n][1]
    <3>1. ackQueue'[n] \in Seq(AnyId) /\ ackQueue'[n] # <<>>
      BY <1>que, <2>1, TailFacts, ZenonT(60)
    <3> QED
      BY <3>1, TailFacts, ZenonT(60)
  <2>3. 1 \in 1 .. A - 1
    BY <1>4, <1>7, <2>2, SMTT(60)
  <2>4. /\ Ans(n, 1)' = Ans(n, 2) /\ Ans(n, 2) \in Nat /\ 2 \in 1 .. A /\ ackQueue[n][2] \in AnyId
        /\ Head(Tail(ackQueue[n])) = ackQueue[n][2]
    BY <1>que, <1>7, <1>9, <2>2, <2>3, SMTT(60)
  <2>5. xmit[n][ackQueue[n][2]].ns = Ans(n, 2) % SeqMod
    BY <1>1, <1>7, <2>4, Zenon DEF NumberedInv, Elements, Ans
  <2>6. Ans(n, 2) + (A - 2) + Pending(n) <= L - 1
    BY <1>1, <1>4, <1>5, <1>7, <2>4, ZenonT(60) DEF GapInv
  <2>7. Ans(n, 2) <= nri[n].anr + SeqHalf
    <3>1. PICK x \in Nat : x = Ans(n, 2)
      BY <2>4, Zenon
    <3>2. PICK y, r \in Nat : y = nri[n].anr /\ r = Len(rcvdLog[Peer(n)])
      BY <1>num, Zenon
    <3>3. A >= 2 /\ x + (A - 2) + 0 <= L - 1 /\ L - 1 <= Ans(n, 1) + (A - 1) + HelloGap(n)
      BY <1>10, <1>11, <2>4, <2>6, <3>1, SMTT(60)
    <3>4. Ans(n, 1) \in Nat /\ Ans(n, 1) < y /\ HelloGap(n) \in 0 .. 1
      BY <1>num, <1>11, <1>12, <3>2, Zenon
    <3>5. x <= y + 1
      BY <3>3, <3>4, SMTT(60)
    <3> QED
      BY <3>1, <3>2, <3>5, HalfTwice, SMTT(60)
  <2> QED
    BY <1>1, <1>12, <2>1, <2>4, <2>5, <2>7, AckSound, ZenonT(60)
<1> QED
  BY <1>13, <1>14, <1>15, <1>16, <1>17, <1>18, <1>19, <1>20, Zenon DEF SenderInv, WireInv

(* The end of down(): both queues are empty, and no nr is on offer.        *)
LEMMA DownDoneStep ==
    ASSUME IndInv, SeqInv, NEW n \in Node, DownDone(n)
    PROVE  SenderInv(n)' /\ WireInv(n)'
<1>1. /\ CounterInv(n) /\ NumberedInv(n) /\ PrefixInv(n) /\ PendInv(n)
  BY Zenon DEF SeqInv, SenderInv, WireInv
<1>2. /\ spc[n] = "down" /\ spc'[n] = "exited" /\ rpc[n] = "exited"
      /\ txQueue'[n] = <<>> /\ ackQueue'[n] = <<>>
      /\ UNCHANGED <<ss, cur, accepted, sentLog, rcvdLog, pend, rpc>> /\ accepted[n] \in Nat
  BY ZenonT(60) DEF DownDone, rxVars, userVars, histVars, IndInv, TypeOK
<1>3. \A i \in AnyId : /\ xmit'[n][i].ns = xmit[n][i].ns /\ xmit'[n][i].ans = xmit[n][i].ans
                       /\ xmit'[n][i].timer # "off" => xmit[n][i].timer # "off"
  <2> SUFFICES ASSUME NEW i \in AnyId
               PROVE  /\ xmit'[n][i].ns = xmit[n][i].ns /\ xmit'[n][i].ans = xmit[n][i].ans
                      /\ xmit'[n][i].timer # "off" => xmit[n][i].timer # "off"
    BY ZenonT(60)
  <2>1. xmit[n][i] \in XmitMsg /\ xmit'[n][i] \in {xmit[n][i], txComplete(xmit[n][i], "failed")}
    BY SMTT(60) DEF DownDone, IndInv, TypeOK
  <2> QED
    BY <2>1, SameNumber, SMTT(60)
<1>4. CounterInv(n)'
  BY <1>1, <1>2, ZenonT(60) DEF CounterInv, NextAns
<1>5. NumberedInv(n)'
  <2> SUFFICES ASSUME NEW j \in AnyId, xmit'[n][j].timer # "off"
               PROVE  /\ xmit'[n][j].ns = xmit'[n][j].ans % SeqMod
                      /\ xmit'[n][j].ans < Len(sentLog'[n]) /\ sentLog'[n][xmit'[n][j].ans + 1] = j
    BY <1>2, SMTT(60) DEF NumberedInv, Elements
  <2> QED
    BY <1>1, <1>2, <1>3, ZenonT(60) DEF NumberedInv
<1>6. QueueInv(n)' /\ GapInv(n)' /\ HelloInv(n)'
  BY <1>2, SMTT(60) DEF QueueInv, GapInv, HelloInv
<1>7. PrefixInv(n)'
  BY <1>1, <1>2, Zenon DEF PrefixInv
<1>8. PendInv(n)' /\ AckInv(n)'
  BY <1>1, <1>2, ZenonT(60) DEF PendInv, AckInv
<1> QED
  BY <1>4, <1>5, <1>6, <1>7, <1>8, ZenonT(60) DEF SenderInv, WireInv
-----------------------------------------------------------------------------

(* The receiver goroutine, the timers and the calls of the user.           *)

(* Frames wait unmoved, or the first one leaves.                           *)
LEMMA RxKept ==
    ASSUME IndInv, SeqInv, NEW n \in Node, rcvdLog'[n] = rcvdLog[n], net \subseteq net',
           rxQueue'[n] \in {<<>>, rxQueue[n]} \/ (rxQueue[n] # <<>> /\ rxQueue'[n] = Tail(rxQueue[n]))
    PROVE  RxInv(n)'
<1>1. RxInv(n) /\ rxQueue[n] \in Seq(Frame) /\ net \subseteq Frame /\ Len(rcvdLog[n]) \in Nat
      /\ MaxRxQueue \in Nat
  BY NodeTypes, TransportAssumption, ZenonT(60) DEF SeqInv, IndInv, TypeOK
<1>2. CASE rxQueue'[n] = <<>>
  BY <1>1, <1>2, SMTT(60) DEF RxInv
<1>3. CASE rxQueue'[n] = rxQueue[n]
  BY <1>1, <1>3, Zenon DEF RxInv
<1>4. CASE rxQueue[n] # <<>> /\ rxQueue'[n] = Tail(rxQueue[n])
  <2>1. PICK Q \in Nat : Q = Len(rxQueue[n]) /\ Q > 0
    BY <1>1, <1>4, SMTT(60)
  <2>2. /\ Len(rxQueue'[n]) = Q - 1 /\ DOMAIN rxQueue'[n] = 1 .. Q - 1 /\ DOMAIN rxQueue[n] = 1 .. Q
        /\ \A k \in 1 .. Q - 1 : rxQueue'[n][k] = rxQueue[n][k + 1]
    BY <1>1, <1>4, <2>1, TailFacts, SMTT(60)
  <2>3. Q - 1 <= MaxRxQueue
    BY <1>1, <2>1, SMTT(60) DEF RxInv
  <2>4. ASSUME NEW k \in 1 .. Q - 1
        PROVE  /\ rxQueue'[n][k] \in net' /\ rxQueue'[n][k].to = n
               /\ Len(rcvdLog'[n]) + k - rxQueue'[n][k].ans <= SeqHalf + MaxRxQueue
    <3>1. k + 1 \in 1 .. Q /\ rxQueue'[n][k] = rxQueue[n][k + 1]
      BY <2>2, SMTT(60)
    <3>2. PICK p \in net : p = rxQueue[n][k + 1]
      BY <1>1, <2>2, <3>1, Zenon DEF RxInv
    <3>3. p.to = n /\ Len(rcvdLog[n]) + (k + 1) - p.ans <= SeqHalf + MaxRxQueue /\ p.ans \in Nat
      BY <1>1, <2>2, <3>1, <3>2, ZenonT(60) DEF RxInv, Frame
    <3>4. PICK a \in Nat : a = p.ans
      BY <3>3, Zenon
    <3>5. PICK R \in Nat : R = Len(rcvdLog[n])
      BY <1>1, Zenon
    <3>6. R + k - a <= SeqHalf + MaxRxQueue
      <4>1. R + (k + 1) - a <= SeqHalf + MaxRxQueue
        BY <3>3, <3>4, <3>5, ZenonT(60)
      <4> QED
        BY <1>1, <4>1, HalfTwice, SMTT(60)
    <3> QED
      BY <3>1, <3>2, <3>3, <3>4, <3>5, <3>6, Zenon
  <2> QED
    BY <2>2, <2>3, <2>4, Zenon DEF RxInv
<1> QED
  BY <1>2, <1>3, <1>4, Zenon

(* The user's calls and what the sender goroutine ignores.                 *)
LEMMA UserStep ==
    ASSUME IndInv, SeqInv, NEW n \in Node, User(n) \/ HelloIgnored(n) \/ AckTimerFires(n)
    PROVE  SenderInv(n)' /\ WireInv(n)'
<1>1. /\ UNCHANGED <<senderVars, accepted, sentLog, rcvdLog, pend>>
      /\ rpc'[n] = rpc[n] \/ rpc[n] = "deliver"
  BY Zenon DEF User, Call, Close, UserRecv, HelloIgnored, AckTimerFires, rxVars, userVars, histVars, IndInv, TypeOK
<1>2. CounterInv(n) /\ PendInv(n)
  BY Zenon DEF SeqInv, SenderInv, WireInv
<1>3. SenderSame(n) /\ ss'[n].nr = Len(rcvdLog'[n]) % SeqMod /\ rcvdLog'[Peer(n)] = rcvdLog[Peer(n)]
  BY <1>1, <1>2, ZenonT(60) DEF senderVars, SenderSame, CoreSame, CounterInv
<1>4. pend'[n] = NoNr \/ (pend'[n] = pend[n] /\ rpc'[n] = rpc[n])
  BY <1>1, <1>2, ZenonT(60) DEF PendInv
<1> QED
  BY <1>3, <1>4, SenderKept, ZenonT(60)

(* The receiver goroutine, when it accepts nothing.                        *)
LEMMA ReceiverStep ==
    ASSUME IndInv, SeqInv, NEW n \in Node, RxDrop(n) \/ ReadFail(n) \/ RecvUnknownAvp(n) \/ Drain(n)
    PROVE  SenderInv(n)' /\ WireInv(n)' /\ RxInv(n)'
<1>1. /\ UNCHANGED <<senderVars, accepted, sentLog, rcvdLog, net>>
      /\ pend'[n] = NoNr \/ (pend'[n] = pend[n] /\ rpc[n] # "nr")
      /\ rxQueue'[n] \in {<<>>, rxQueue[n]} \/ (rxQueue[n] # <<>> /\ rxQueue'[n] = Tail(rxQueue[n]))
  BY Zenon DEF RxDrop, ReadFail, RecvUnknownAvp, Drain, rxVars, userVars, histVars, IndInv, TypeOK, LocationInv
<1>2. CounterInv(n) /\ PendInv(n)
  BY Zenon DEF SeqInv, SenderInv, WireInv
<1>3. SenderSame(n) /\ ss'[n].nr = Len(rcvdLog'[n]) % SeqMod /\ rcvdLog'[Peer(n)] = rcvdLog[Peer(n)]
  BY <1>1, <1>2, ZenonT(60) DEF senderVars, SenderSame, CoreSame, CounterInv
<1>4. pend'[n] = NoNr
  BY <1>1, <1>2, ZenonT(60) DEF PendInv
<1>5. SenderInv(n)' /\ WireInv(n)'
  BY <1>3, <1>4, SenderKept, ZenonT(60)
<1>6. RxInv(n)'
  BY <1>1, RxKept, Zenon
<1> QED
  BY <1>5, <1>6, Zenon

(* A retry timer fires, or its message is complete by the time it is heard.*)
LEMMA TimerStep ==
    ASSUME IndInv, SeqInv, NEW n \in Node, NEW i \in AnyId, RetryIgnored(n, i) \/ RetryTimerFires(n, i)
    PROVE  SenderInv(n)' /\ WireInv(n)'
<1>1. /\ UNCHANGED <<ss, txQueue, ackQueue, spc, cur, nri, helloInFlight, accepted, sentLog, rcvdLog,
                     pend, rpc>>
      /\ xmit[n] \in [AnyId -> XmitMsg] /\ xmit[n][i].timer # "off"
  BY Zenon DEF RetryIgnored, RetryTimerFires, rxVars, userVars, histVars, IndInv, TypeOK
<1>2. \/ xmit'[n] = [xmit[n] EXCEPT ![i] = [xmit[n][i] EXCEPT !.timer = "off"]]
      \/ xmit'[n] = [xmit[n] EXCEPT ![i] = [xmit[n][i] EXCEPT !.timer = "fired"]]
  BY ZenonT(60) DEF RetryIgnored, RetryTimerFires, IndInv, TypeOK
<1>3. PICK t \in {"off", "fired"} : xmit'[n] = [xmit[n] EXCEPT ![i] = [xmit[n][i] EXCEPT !.timer = t]]
  BY <1>2, Zenon
<1>4. CounterInv(n)
  BY Zenon DEF SeqInv, SenderInv
<1>5. \A j \in AnyId : /\ xmit'[n][j].ns = xmit[n][j].ns /\ xmit'[n][j].ans = xmit[n][j].ans
                       /\ xmit'[n][j].result = xmit[n][j].result
                       /\ xmit'[n][j].timer # "off" => xmit[n][j].timer # "off"
  BY <1>1, <1>3 DEF XmitMsg
<1>6. SenderSame(n) /\ ss'[n].nr = Len(rcvdLog'[n]) % SeqMod /\ rcvdLog'[Peer(n)] = rcvdLog[Peer(n)]
  BY <1>1, <1>4, <1>5, ZenonT(60) DEF SenderSame, CoreSame, CounterInv
<1> QED
  BY <1>1, <1>6, SenderKept, ZenonT(60)

(* retransmitMessage: the frame carries the number the message has.        *)
LEMMA RetransmitStep ==
    ASSUME IndInv, SeqInv, NEW n \in Node, NEW i \in AnyId, Retransmit(n, i)
    PROVE  SenderInv(n)' /\ WireInv(n)' /\ \A p \in net' \ net : FrameInv(p)'
<1>1. /\ UNCHANGED <<txQueue, ackQueue, spc, cur, nri, helloInFlight, accepted, sentLog, rcvdLog,
                     pend, rpc>>
      /\ ss'[n] = onRetransmit(ss[n]) /\ xmit[n] \in [AnyId -> XmitMsg] /\ xmit[n][i].timer = "fired"
      /\ xmit'[n] = [xmit[n] EXCEPT ![i] = startRetryTimer(retryTaken(xmit[n][i]))]
      /\ net' = net \cup {sendMessage1(n, i, TRUE)}
  BY ZenonT(60) DEF Retransmit, rxVars, userVars, histVars, IndInv, TypeOK
<1>2. CounterInv(n) /\ NumberedInv(n) /\ ss[n] \in SlowStartState
  BY NodeTypes, Zenon DEF SeqInv, SenderInv
<1>3. ss'[n].ns = ss[n].ns /\ ss'[n].nr = ss[n].nr
  BY <1>1, <1>2, Zenon DEF onRetransmit, SlowStartState
<1>4. \A j \in AnyId : /\ xmit'[n][j].ns = xmit[n][j].ns /\ xmit'[n][j].ans = xmit[n][j].ans
                       /\ xmit'[n][j].result = xmit[n][j].result
                       /\ xmit'[n][j].timer # "off" => xmit[n][j].timer # "off"
  BY <1>1, SMTT(60) DEF XmitMsg, startRetryTimer, retryTaken
<1>5. SenderSame(n) /\ ss'[n].nr = Len(rcvdLog'[n]) % SeqMod /\ rcvdLog'[Peer(n)] = rcvdLog[Peer(n)]
  BY <1>1, <1>2, <1>3, <1>4, ZenonT(60) DEF SenderSame, CoreSame, CounterInv
<1>6. SenderInv(n)' /\ WireInv(n)'
  BY <1>1, <1>5, SenderKept, ZenonT(60)
<1>7. /\ xmit[n][i].ns = xmit[n][i].ans % SeqMod /\ xmit[n][i].ans \in Nat
      /\ xmit[n][i].ans < Len(sentLog'[n]) /\ sentLog'[n][xmit[n][i].ans + 1] = i
  BY <1>1, <1>2, ZenonT(60) DEF NumberedInv, XmitMsg
<1>8. ASSUME NEW p \in net' \ net PROVE FrameInv(p)'
  <2>1. p = FrameOf(n, "msg", i, xmit[n][i].ns, xmit[n][i].ans)
    BY <1>1, Zenon DEF sendMessage1
  <2> QED
    BY <1>1, <1>7, <2>1, NewFrame, ZenonT(60)
<1> QED
  BY <1>6, <1>8, Zenon

(* sendExplicitAck: the frame carries the next number.                     *)
LEMMA ExplicitAckStep ==
    ASSUME IndInv, SeqInv, NEW n \in Node, ExplicitAck(n)
    PROVE  SenderInv(n)' /\ WireInv(n)' /\ \A p \in net' \ net : FrameInv(p)'
<1>1. /\ UNCHANGED <<senderVars, accepted, sentLog, rcvdLog, pend, rpc>> /\ spc[n] = "select"
      /\ net' = net \cup {FrameOf(n, "ack", Hello, ss[n].ns, Len(sentLog[n]))}
  BY Zenon DEF ExplicitAck, rxVars, userVars, histVars
<1>2. CounterInv(n) /\ Len(sentLog[n]) \in Nat
  BY NodeTypes, Zenon DEF SeqInv, SenderInv
<1>3. SenderSame(n) /\ ss'[n].nr = Len(rcvdLog'[n]) % SeqMod /\ rcvdLog'[Peer(n)] = rcvdLog[Peer(n)]
  BY <1>1, <1>2, ZenonT(60) DEF senderVars, SenderSame, CoreSame, CounterInv
<1>4. SenderInv(n)' /\ WireInv(n)'
  BY <1>1, <1>3, SenderKept, ZenonT(60)
<1>5. ss[n].ns = Len(sentLog[n]) % SeqMod
  BY <1>1, <1>2, Zenon DEF CounterInv, NextAns
<1>6. ASSUME NEW p \in net' \ net PROVE FrameInv(p)'
  <2>1. p = FrameOf(n, "ack", Hello, ss[n].ns, Len(sentLog[n]))
    BY <1>1, ZenonT(60)
  <2> QED
    BY <1>1, <1>2, <1>5, <2>1, NewFrame, ZenonT(60)
<1> QED
  BY <1>4, <1>6, Zenon

(* recvFrame: a fresh frame joins rxQueue, and its nr is offered to the    *)
(* sender goroutine.                                                       *)
LEMMA RecvStep ==
    ASSUME IndInv, SeqInv, NEW n \in Node, NEW p \in net, Recv(n, p)
    PROVE  SenderInv(n)' /\ WireInv(n)' /\ RxInv(n)'
<1>1. /\ UNCHANGED <<senderVars, accepted, sentLog, rcvdLog, net>>
      /\ rpc[n] = "read" /\ rpc'[n] = "nr" /\ p.to = n /\ Fresh(n, p) /\ Len(rxQueue[n]) < MaxRxQueue
      /\ \/ rxQueue'[n] = rxQueue[n] /\ pend'[n] = pend[n]
         \/ /\ rxQueue'[n] = Append(rxQueue[n], p)
            /\ pend'[n] = [type |-> p.type, nr |-> p.nr, anr |-> p.anr]
  BY ZenonT(60) DEF Recv, rxVars, userVars, histVars, IndInv, TypeOK
<1>2. /\ CounterInv(n) /\ PendInv(n) /\ GapInv(n) /\ RxInv(n) /\ FrameInv(p) /\ p \in Frame
      /\ rxQueue[n] \in Seq(Frame) /\ ackQueue[n] \in Seq(AnyId) /\ Len(ackQueue[n]) \in Nat
      /\ Pending(n) \in 0 .. 1 /\ HelloGap(n) \in 0 .. 1 /\ MaxRxQueue \in Nat
  BY NodeTypes, TransportAssumption, ZenonT(60) DEF SeqInv, SenderInv, WireInv, IndInv, TypeOK
<1>3. SenderSame(n) /\ ss'[n].nr = Len(rcvdLog'[n]) % SeqMod /\ rcvdLog'[Peer(n)] = rcvdLog[Peer(n)]
  BY <1>1, <1>2, ZenonT(60) DEF senderVars, SenderSame, CoreSame, CounterInv
<1>4. PICK L \in Nat : L = Len(sentLog[n])
  BY NodeTypes, ZenonT(60)
<1>5. PICK R \in Nat : R = Len(rcvdLog[n])
  BY NodeTypes, Zenon
<1>6. PICK a \in Nat, b \in Nat : a = p.ans /\ b = p.anr
  <2>1. p.ans \in Nat /\ p.anr \in Nat
    BY <1>2, ZenonT(60) DEF Frame
  <2> QED
    BY <2>1, Zenon
<1>7. R - a <= SeqHalf /\ L + 1 - b <= SeqHalf
  BY <1>1, <1>4, <1>5, <1>6, ZenonT(60) DEF Fresh
<1>8. CASE rxQueue'[n] = rxQueue[n] /\ pend'[n] = pend[n]
  <2>1. pend'[n] = NoNr
    BY <1>1, <1>2, <1>8, ZenonT(60) DEF PendInv
  <2>2. RxInv(n)'
    BY <1>1, <1>8, RxKept, ZenonT(60)
  <2> QED
    BY <1>3, <2>1, <2>2, SenderKept, ZenonT(60)
<1>9. CASE /\ rxQueue'[n] = Append(rxQueue[n], p)
           /\ pend'[n] = [type |-> p.type, nr |-> p.nr, anr |-> p.anr]
  <2>1. pend'[n].nr = p.nr /\ pend'[n].anr = b
    BY <1>6, <1>9, SMTT(60)
  <2>2. p.nr = b % SeqMod /\ b <= Len(rcvdLog[Peer(n)])
    BY <1>1, <1>2, <1>6, ZenonT(60) DEF FrameInv
  <2>3. L + 1 <= b + SeqHalf
    BY <1>7, HalfTwice, SMTT(60)
  <2>4. ackQueue[n] # <<>> => Ans(n, 1) <= b + SeqHalf
    <3> SUFFICES ASSUME ackQueue[n] # <<>> PROVE Ans(n, 1) <= b + SeqHalf
      BY Zenon
    <3>1. 1 \in DOMAIN ackQueue[n] /\ Len(ackQueue[n]) > 0
      BY <1>2, SMTT(60)
    <3>2. Ans(n, 1) \in Nat /\ Ans(n, 1) + (Len(ackQueue[n]) - 1) + Pending(n) <= L - 1
      BY <1>2, <1>4, <3>1, AnsType, ZenonT(60) DEF GapInv
    <3>3. Ans(n, 1) <= L
      BY <1>2, <3>1, <3>2, SMTT(60)
    <3> QED
      BY <2>3, <3>2, <3>3, HalfTwice, SMTT(60)
  <2>5. L + 1 <= b + SeqHalf + Pending(n)' + HelloGap(n)'
    <3>1. Pending(n)' = Pending(n) /\ HelloGap(n)' = HelloGap(n)
      BY <1>1, ZenonT(60) DEF senderVars, Pending, HelloGap
    <3> QED
      BY <1>2, <2>3, <3>1, HalfTwice, SMTT(60)
  <2>6. PendInv(n)'
    <3>1. Ans(n, 1)' = Ans(n, 1) /\ ackQueue'[n] = ackQueue[n]
      BY <1>1, ZenonT(60) DEF senderVars, Ans
    <3> QED
      BY <1>1, <1>4, <2>1, <2>2, <2>3, <2>4, <2>5, <3>1, ZenonT(60) DEF PendInv
  <2>7. RxInv(n)'
    <3>1. PICK Q \in Nat : Q = Len(rxQueue[n])
      BY <1>2, SMTT(60)
    <3>2. /\ Len(rxQueue'[n]) = Q + 1 /\ DOMAIN rxQueue'[n] = 1 .. Q + 1 /\ rxQueue'[n][Q + 1] = p
          /\ \A k \in 1 .. Q : rxQueue'[n][k] = rxQueue[n][k]
      <4>1. rxQueue[n] \in Seq(Frame) /\ p \in Frame /\ rxQueue'[n] = Append(rxQueue[n], p)
        BY <1>2, <1>9, Zenon DEF IndInv, TypeOK
      <4> QED
        BY <3>1, <4>1, AppendFacts, SMTT(60)
    <3>3. Q + 1 <= MaxRxQueue
      BY <1>1, <1>2, <3>1, SMTT(60)
    <3>4. ASSUME NEW k \in 1 .. Q + 1
          PROVE  /\ rxQueue'[n][k] \in net /\ rxQueue'[n][k].to = n
                 /\ R + k - rxQueue'[n][k].ans <= SeqHalf + MaxRxQueue
      <4>1. CASE k = Q + 1
        <5>1. R + (Q + 1) - a <= SeqHalf + MaxRxQueue
          BY <1>2, <1>7, <3>3, HalfTwice, SMTT(60)
        <5> QED
          BY <1>1, <1>6, <3>2, <4>1, <5>1, ZenonT(60)
      <4>2. CASE k \in 1 .. Q
        <5>1. k \in DOMAIN rxQueue[n] /\ rxQueue'[n][k] = rxQueue[n][k]
          BY <1>2, <3>1, <3>2, <4>2, SMTT(60)
        <5> QED
          BY <1>2, <1>5, <5>1, ZenonT(60) DEF RxInv
      <4> QED
        BY <4>1, <4>2, SMTT(60)
    <3>5. rcvdLog'[n] = rcvdLog[n] /\ net' = net
      BY <1>1, Zenon
    <3> QED
      BY ONLY <1>5, <3>2, <3>3, <3>4, <3>5, ZenonT(60) DEF RxInv
  <2> QED
    BY <1>3, <2>6, <2>7, SenderKept, ZenonT(60)
<1> QED
  BY <1>1, <1>8, <1>9, ZenonT(60)

(* Equal numbers compare as equal, and no others.                          *)
LEMMA CompareZero == \A a, b \in SeqNum : seqCompare(a, b) = 0 => a = b
  BY HalfTwice, SMTT(60) DEF seqCompare, SeqNum

(* processRxQueue: a message that passes the test of msgIsInSequence is    *)
(* the next one of the peer's log, although the test sees only its number  *)
(* modulo the sequence space.                                              *)
LEMMA AcceptedInOrder ==
    ASSUME IndInv, SeqInv, NEW n \in Node, NEW m \in Node, m = Peer(n), RxAccept(n)
    PROVE  /\ Head(rxQueue[n]).id = sentLog[m][Len(rcvdLog[n]) + 1]
           /\ Len(rcvdLog[n]) < Len(sentLog[m])
<1>1. /\ RxInv(n) /\ CounterInv(n) /\ PrefixInv(m) /\ Peer(m) = n /\ rxQueue[n] # <<>>
      /\ rxQueue[n] \in Seq(Frame) /\ net \subseteq Frame
  BY NodeTypes, Peers, ZenonT(60) DEF SeqInv, SenderInv, WireInv, RxAccept, IndInv, TypeOK, LocationInv
<1>2. PICK p \in net : p = Head(rxQueue[n]) /\ p = rxQueue[n][1] /\ 1 \in DOMAIN rxQueue[n]
  BY <1>1, SMTT(60) DEF RxInv
<1>3. p.to = n /\ p.type = "msg" /\ FrameInv(p) /\ p.ans \in Nat
  <2>1. p.to = n /\ p.type = "msg" /\ FrameInv(p)
    BY <1>1, <1>2, ZenonT(60) DEF RxInv, SeqInv, RxAccept
  <2> QED
    BY <1>1, <2>1, Zenon DEF Frame
<1>4. PICK R \in Nat : R = Len(rcvdLog[n])
  BY NodeTypes, ZenonT(60)
<1>5. PICK L \in Nat : L = Len(sentLog[m])
  BY NodeTypes, Zenon
<1>6. PICK a \in Nat : a = p.ans
  BY <1>3, Zenon
<1>7. p.ns = a % SeqMod /\ a < L /\ sentLog[m][a + 1] = p.id
  BY <1>3, <1>5, <1>6, Zenon DEF FrameInv
<1>8. R % SeqMod = a % SeqMod
  <2>1. seqCompare(R % SeqMod, a % SeqMod) = 0
    BY <1>1, <1>2, <1>4, <1>7, ZenonT(60) DEF RxAccept, msgIsInSequence, CounterInv
  <2> QED
    BY <2>1, ModRange, CompareZero, Zenon
<1>9. R + 1 - a <= SeqHalf + MaxRxQueue
  BY <1>1, <1>2, <1>4, <1>6, ZenonT(60) DEF RxInv
<1>10. R < a + SeqMod
  BY <1>9, HalfTwice, TransportAssumption, SMTT(60)
<1>11. a < R + SeqMod
  <2>1. L - R <= TxWindowSize + 1
    BY <1>1, <1>4, <1>5, Zenon DEF PrefixInv
  <2> QED
    BY <1>7, <2>1, SeqModAssumption, TxWindowAssumption, WindowPositive, SMTT(60)
<1>12. R = a
  <2>1. CASE R <= a
    BY <1>8, <1>11, <2>1, ModEqual, ZenonT(60)
  <2>2. CASE a <= R
    BY <1>8, <1>10, <2>2, ModEqual, ZenonT(60)
  <2> QED
    BY <2>1, <2>2, SMTT(60)
<1> QED
  BY <1>2, <1>4, <1>5, <1>7, <1>12, ZenonT(60)

(* What accepting a message does at either end.                            *)
LEMMA RxAcceptStep ==
    ASSUME IndInv, SeqInv, NEW n \in Node, NEW m \in Node, m = Peer(n), RxAccept(n)
    PROVE  SenderInv(n)' /\ WireInv(n)' /\ RxInv(n)' /\ PrefixInv(m)'
<1>1. /\ UNCHANGED <<xmit, txQueue, ackQueue, spc, cur, nri, helloInFlight, accepted, sentLog, pend, net>>
      /\ ss'[n] = incrementNr(ss[n]) /\ rpc[n] = "rx" /\ rxQueue[n] # <<>>
      /\ rcvdLog'[n] = Append(rcvdLog[n], Head(rxQueue[n]).id) /\ rcvdLog'[m] = rcvdLog[m]
      /\ rxQueue'[n] = Tail(rxQueue[n]) /\ Peer(m) = n
  BY Peers, ZenonT(60) DEF RxAccept, userVars, IndInv, TypeOK, LocationInv
<1>2. /\ CounterInv(n) /\ PendInv(n) /\ RxInv(n) /\ PrefixInv(m) /\ rxQueue[n] \in Seq(Frame)
      /\ ss[n] \in SlowStartState /\ net \subseteq Frame /\ rcvdLog[n] \in Seq(AnyId)
      /\ MaxRxQueue \in Nat /\ Len(ackQueue[m]) \in Nat /\ Pending(m) \in 0 .. 1 /\ HelloGap(m) \in 0 .. 1
  BY NodeTypes, TransportAssumption, Zenon DEF SeqInv, SenderInv, WireInv, IndInv, TypeOK
<1>3. PICK R \in Nat : R = Len(rcvdLog[n])
  BY NodeTypes, Zenon
<1>4. PICK L \in Nat : L = Len(sentLog[m])
  BY NodeTypes, ZenonT(60)
<1>5. PICK i \in AnyId : i = Head(rxQueue[n]).id
  <2>1. Head(rxQueue[n]) \in Frame
    BY <1>1, <1>2, SMTT(60)
  <2> QED
    BY <2>1, Zenon DEF Frame
<1>6. R < L /\ sentLog[m][R + 1] = i
  BY <1>3, <1>4, <1>5, AcceptedInOrder, Zenon
<1>7. /\ Len(rcvdLog'[n]) = R + 1 /\ rcvdLog'[n][R + 1] = i
      /\ \A k \in 1 .. R : rcvdLog'[n][k] = rcvdLog[n][k]
  <2>1. rcvdLog'[n] = Append(rcvdLog[n], i) /\ rcvdLog[n] \in Seq(AnyId)
    BY <1>1, <1>2, <1>5, Zenon
  <2> QED
    BY <1>3, <2>1, AppendFacts, SMTT(60)
<1>8. SenderInv(n)' /\ WireInv(n)'
  <2>1. ss'[n].ns = ss[n].ns /\ ss'[n].nr = seqIncrement(ss[n].nr)
    BY <1>1, <1>2, Zenon DEF incrementNr, SlowStartState
  <2>2. ss'[n].nr = Len(rcvdLog'[n]) % SeqMod
    BY <1>2, <1>3, <1>7, <2>1, ModInc, ZenonT(60) DEF CounterInv
  <2>3. SenderSame(n)
    BY <1>1, <2>1, ZenonT(60) DEF SenderSame, CoreSame
  <2>4. pend'[n] = NoNr
    BY <1>1, <1>2, ZenonT(60) DEF PendInv
  <2> QED
    BY <1>1, <2>2, <2>3, <2>4, SenderKept, Zenon
<1>9. RxInv(n)'
  <2>1. PICK Q \in Nat : Q = Len(rxQueue[n]) /\ Q > 0
    BY <1>1, <1>2, SMTT(60)
  <2>2. /\ Len(rxQueue'[n]) = Q - 1 /\ DOMAIN rxQueue'[n] = 1 .. Q - 1 /\ DOMAIN rxQueue[n] = 1 .. Q
        /\ \A k \in 1 .. Q - 1 : rxQueue'[n][k] = rxQueue[n][k + 1]
    BY <1>1, <1>2, <2>1, TailFacts, SMTT(60)
  <2>3. Q - 1 <= MaxRxQueue
    BY <1>2, <2>1, SMTT(60) DEF RxInv
  <2>4. ASSUME NEW k \in 1 .. Q - 1
        PROVE  /\ rxQueue'[n][k] \in net /\ rxQueue'[n][k].to = n
               /\ (R + 1) + k - rxQueue'[n][k].ans <= SeqHalf + MaxRxQueue
    <3>1. k + 1 \in 1 .. Q /\ rxQueue'[n][k] = rxQueue[n][k + 1]
      BY <2>2, SMTT(60)
    <3>2. PICK p \in net : p = rxQueue[n][k + 1]
      BY <1>2, <2>2, <3>1, ZenonT(60) DEF RxInv
    <3>3. p.to = n /\ R + (k + 1) - p.ans <= SeqHalf + MaxRxQueue /\ p.ans \in Nat
      BY <1>2, <1>3, <2>2, <3>1, <3>2, ZenonT(60) DEF RxInv, Frame
    <3>4. (R + 1) + k - p.ans <= SeqHalf + MaxRxQueue
      BY <3>3, R + (k + 1) = (R + 1) + k, SMTT(60)
    <3> QED
      BY <3>1, <3>2, <3>3, <3>4, ZenonT(60)
  <2>5. net' = net
    BY <1>1, Zenon
  <2> QED
    BY ONLY <1>7, <2>2, <2>3, <2>4, <2>5, ZenonT(60) DEF RxInv
<1>10. PrefixInv(m)'
  <2>1. /\ L - R <= TxWindowSize + 1 /\ \A k \in 1 .. R : rcvdLog[n][k] = sentLog[m][k]
        /\ spc[m] \notin {"down", "exited"} => L - R <= Len(ackQueue[m]) + Pending(m) + HelloGap(m)
    BY <1>1, <1>2, <1>3, <1>4, Zenon DEF PrefixInv
  <2>2. /\ R + 1 <= L /\ L - (R + 1) <= TxWindowSize + 1
        /\ spc[m] \notin {"down", "exited"} => L - (R + 1) <= Len(ackQueue[m]) + Pending(m) + HelloGap(m)
    BY <1>2, <1>6, <2>1, WindowPositive, SMTT(60)
  <2>3. ASSUME NEW k \in 1 .. R + 1 PROVE rcvdLog'[n][k] = sentLog[m][k]
    <3>1. CASE k = R + 1
      BY <1>6, <1>7, <3>1, Zenon
    <3>2. CASE k \in 1 .. R
      BY <1>7, <2>1, <3>2, ZenonT(60)
    <3> QED
      BY <3>1, <3>2, SMTT(60)
  <2>4. /\ Pending(m)' = Pending(m) /\ HelloGap(m)' = HelloGap(m) /\ Peer(m) = n
        /\ sentLog'[m] = sentLog[m] /\ spc'[m] = spc[m] /\ ackQueue'[m] = ackQueue[m]
    BY <1>1, ZenonT(60) DEF Pending, HelloGap
  <2> QED
    BY ONLY <1>4, <1>7, <2>2, <2>3, <2>4, ZenonT(60) DEF PrefixInv
<1> QED
  BY <1>8, <1>9, <1>10, ZenonT(60)
-----------------------------------------------------------------------------

(* The invariant.                                                          *)

(* A step of one endpoint, as in Next.                                     *)
Step(n) == User(n) \/ SenderRetry(n) \/ SenderSelect(n) \/ SenderBusy(n) \/ Receiver(n) \/ Timers(n)

(* Only the receiver goroutine touches rxQueue and accepts messages.       *)
LEMMA ReceiverOnly ==
    ASSUME NEW n \in Node,
           User(n) \/ SenderRetry(n) \/ SenderSelect(n) \/ SenderBusy(n) \/ Timers(n)
    PROVE  rxQueue' = rxQueue /\ rcvdLog' = rcvdLog
<1> USE DEF rxVars, histVars
<1>1. CASE User(n)
  BY <1>1, ZenonT(60) DEF User, Call, Close, UserRecv
<1>2. CASE SenderRetry(n)
  BY <1>2, ZenonT(60) DEF SenderRetry, RetryIgnored, Retransmit, RetryFail
<1>3. CASE SenderSelect(n)
  BY <1>3, Zenon DEF SenderSelect, Accept, Closed, NrHandoff, NrClosed, HelloIgnored, HelloWrite,
              HelloWriteFail, ExplicitAck, ExplicitAckFail
<1>4. CASE SenderBusy(n)
  BY <1>4, ZenonT(60) DEF SenderBusy, TxWrite, TxWriteFail, Sent, SentHello, AckOne, Drain, DownDone
<1>5. CASE Timers(n)
  BY <1>5, Zenon DEF Timers, AckTimerFires, RetryTimerFires
<1> QED
  BY <1>1, <1>2, <1>3, <1>4, <1>5, ZenonT(60)

(* The step of an endpoint and its own part of the invariant.              *)
LEMMA OwnStep ==
    ASSUME IndInv, WindowInv, SeqInv, NEW n \in Node, Step(n)
    PROVE  SenderInv(n)' /\ WireInv(n)' /\ RxInv(n)' /\ \A p \in net' \ net : FrameInv(p)'
<1>1. net \subseteq net'
  BY OneMoves, Peers, Zenon DEF Step
<1>2. CASE User(n) \/ SenderRetry(n) \/ SenderSelect(n) \/ SenderBusy(n) \/ Timers(n)
  <2>1. RxInv(n)'
    BY <1>1, <1>2, ReceiverOnly, RxKept, ZenonT(60)
  <2>2. CASE User(n)
    <3>1. net' = net
      BY <2>2, ZenonT(60) DEF User, Call, Close, UserRecv
    <3> QED
      BY <2>1, <2>2, <3>1, UserStep, ZenonT(60)
  <2>3. CASE SenderRetry(n)
    <3>1. PICK i \in AnyId : RetryIgnored(n, i) \/ Retransmit(n, i) \/ RetryFail(n, i)
      BY <2>3, Zenon DEF SenderRetry
    <3>2. CASE Retransmit(n, i)
      BY <2>1, <3>2, RetransmitStep, ZenonT(60)
    <3>3. CASE RetryIgnored(n, i)
      <4>1. net' = net
        BY <3>3, Zenon DEF RetryIgnored
      <4> QED
        BY <2>1, <3>3, <4>1, TimerStep, ZenonT(60)
    <3>4. CASE RetryFail(n, i)
      <4>1. net' = net
        BY <3>4, Zenon DEF RetryFail
      <4> QED
        BY <2>1, <3>4, <4>1, GoDownStep, ZenonT(60)
    <3> QED
      BY <3>1, <3>2, <3>3, <3>4, ZenonT(60)
  <2>4. CASE SenderSelect(n)
    <3>1. CASE HelloWrite(n)
      BY <2>1, <3>1, WriteSteps, Zenon
    <3>2. CASE ExplicitAck(n)
      BY <2>1, <3>2, ExplicitAckStep, ZenonT(60)
    <3>3. CASE Accept(n)
      <4>1. net' = net
        BY <3>3, ZenonT(60) DEF Accept
      <4> QED
        BY <2>1, <3>3, <4>1, AcceptStep, ZenonT(60)
    <3>4. CASE NrHandoff(n)
      <4>1. net' = net
        BY <3>4, ZenonT(60) DEF NrHandoff
      <4> QED
        BY <2>1, <3>4, <4>1, NrHandoffStep, Zenon
    <3>5. CASE HelloIgnored(n)
      <4>1. net' = net
        BY <3>5, Zenon DEF HelloIgnored
      <4> QED
        BY <2>1, <3>5, <4>1, UserStep, ZenonT(60)
    <3>6. CASE Closed(n) \/ NrClosed(n) \/ HelloWriteFail(n) \/ ExplicitAckFail(n)
      <4>1. net' = net
        BY <3>6, ZenonT(60) DEF Closed, NrClosed, HelloWriteFail, ExplicitAckFail
      <4> QED
        BY <2>1, <3>6, <4>1, GoDownStep, ZenonT(60)
    <3> QED
      BY <2>4, <3>1, <3>2, <3>3, <3>4, <3>5, <3>6, ZenonT(60) DEF SenderSelect
  <2>5. CASE SenderBusy(n)
    <3>1. CASE TxWrite(n)
      BY <2>1, <3>1, WriteSteps, Zenon
    <3>2. net' = net \/ TxWrite(n)
      BY <2>5, ZenonT(60) DEF SenderBusy, TxWriteFail, Sent, SentHello, AckOne, Drain, DownDone
    <3>3. CASE TxWriteFail(n)
      BY <2>1, <3>1, <3>2, <3>3, GoDownStep, ZenonT(60)
    <3>4. CASE Sent(n)
      BY <2>1, <3>1, <3>2, <3>4, SentSteps, Zenon
    <3>5. CASE SentHello(n)
      BY <2>1, <3>1, <3>2, <3>5, SentSteps, Zenon
    <3>6. CASE AckOne(n)
      BY <2>1, <3>1, <3>2, <3>6, AckOneStep, ZenonT(60)
    <3>7. CASE Drain(n)
      BY <2>1, <3>1, <3>2, <3>7, ReceiverStep, SMTT(60)
    <3>8. CASE DownDone(n)
      BY <2>1, <3>1, <3>2, <3>8, DownDoneStep, Zenon
    <3> QED
      BY <2>5, <3>1, <3>3, <3>4, <3>5, <3>6, <3>7, <3>8, SMTT(60) DEF SenderBusy
  <2>6. CASE Timers(n)
    <3>1. net' = net
      BY <2>6, Zenon DEF Timers, AckTimerFires, RetryTimerFires
    <3>2. CASE AckTimerFires(n)
      BY <2>1, <3>1, <3>2, UserStep, ZenonT(60)
    <3>3. CASE \E i \in AnyId : RetryTimerFires(n, i)
      BY <2>1, <3>1, <3>3, TimerStep, ZenonT(60)
    <3> QED
      BY <2>6, <3>2, <3>3, ZenonT(60) DEF Timers
  <2> QED
    BY <1>2, <2>2, <2>3, <2>4, <2>5, <2>6, ZenonT(60)
<1>3. CASE Receiver(n)
  <2>1. net' = net
    BY <1>3, ZenonT(60) DEF Receiver, ReceiverBusy, Recv, RecvUnknownAvp, ReadFail, RxAccept, RxDrop
  <2>2. ASSUME NEW p \in net, Recv(n, p) PROVE SenderInv(n)' /\ WireInv(n)' /\ RxInv(n)'
    BY <2>2, RecvStep, Zenon
  <2>3. ASSUME RxAccept(n) PROVE SenderInv(n)' /\ WireInv(n)' /\ RxInv(n)'
    <3>1. PICK m \in Node : m = Peer(n)
      BY Peers, Zenon
    <3> QED
      BY <2>3, <3>1, RxAcceptStep, ZenonT(60)
  <2>4. ASSUME RxDrop(n) \/ ReadFail(n) \/ RecvUnknownAvp(n)
        PROVE  SenderInv(n)' /\ WireInv(n)' /\ RxInv(n)'
    <3>1. RxDrop(n) \/ ReadFail(n) \/ RecvUnknownAvp(n) \/ Drain(n)
      BY <2>4, Zenon
    <3> QED
      BY <3>1, ReceiverStep, ZenonT(60)
  <2> QED
    BY <1>3, <2>1, <2>2, <2>3, <2>4, ZenonT(60) DEF Receiver, ReceiverBusy
<1> QED
  BY <1>2, <1>3, Zenon DEF Step

(* How the logs of an endpoint change.                                     *)
LEMMA LogsGrow ==
    ASSUME IndInv, NEW n \in Node, Step(n)
    PROVE  /\ Grown(sentLog[n], sentLog'[n]) /\ Grown(rcvdLog[n], rcvdLog'[n])
           /\ rcvdLog'[n] = rcvdLog[n] \/ RxAccept(n)
<1> USE DEF IndInv, TypeOK, rxVars, histVars
<1>1. sentLog[n] \in Seq(AnyId) /\ rcvdLog[n] \in Seq(AnyId) /\ Hello \in AnyId
  BY Constants, Zenon
<1>2. rcvdLog'[n] = rcvdLog[n] \/ RxAccept(n)
  <2>1. CASE Receiver(n)
    BY <2>1, ZenonT(60) DEF Receiver, ReceiverBusy, Recv, RecvUnknownAvp, ReadFail, RxDrop
  <2> QED
    BY <2>1, ReceiverOnly, ZenonT(60) DEF Step
<1>3. Grown(rcvdLog[n], rcvdLog'[n])
  <2>1. CASE RxAccept(n)
    <3>1. PICK i \in AnyId : i = Head(rxQueue[n]).id
      <4>1. rxQueue[n] # <<>> /\ rxQueue[n] \in Seq(Frame)
        BY <2>1, Zenon DEF RxAccept, LocationInv
      <4>2. Head(rxQueue[n]) \in Frame
        BY <4>1, SMTT(60)
      <4> QED
        BY <4>2, ZenonT(60) DEF Frame
    <3>2. rcvdLog'[n] = Append(rcvdLog[n], i)
      BY <2>1, <3>1, ZenonT(60) DEF RxAccept
    <3> QED
      BY <1>1, <3>2, GrownAppend, SMTT(60)
  <2> QED
    BY <1>1, <1>2, <2>1, GrownAppend, Constants, ZenonT(60)
<1>4. Grown(sentLog[n], sentLog'[n])
  <2>1. CASE TxWrite(n)
    <3>1. PICK i \in AnyId : i = Head(txQueue[n])
      BY <2>1, SMTT(60) DEF TxWrite, LocationInv
    <3>2. sentLog'[n] = Append(sentLog[n], i)
      BY <2>1, <3>1, ZenonT(60) DEF TxWrite
    <3> QED
      BY <1>1, <3>2, GrownAppend, SMTT(60)
  <2>2. CASE HelloWrite(n)
    <3>1. sentLog'[n] = Append(sentLog[n], Hello)
      BY <2>2, Zenon DEF HelloWrite
    <3> QED
      BY <1>1, <3>1, GrownAppend, SMTT(60)
  <2>3. CASE sentLog' = sentLog
    BY <1>1, <2>3, GrownAppend, Zenon
  <2>4. TxWrite(n) \/ HelloWrite(n) \/ sentLog' = sentLog
    <3>1. CASE User(n) \/ Timers(n)
      BY <3>1, ZenonT(60) DEF User, Call, Close, UserRecv, Timers, AckTimerFires, RetryTimerFires
    <3>2. CASE SenderRetry(n)
      BY <3>2, ZenonT(60) DEF SenderRetry, RetryIgnored, Retransmit, RetryFail
    <3>3. CASE SenderSelect(n)
      BY <3>3, Zenon DEF SenderSelect, Accept, Closed, NrHandoff, NrClosed, HelloIgnored,
                  HelloWriteFail, ExplicitAck, ExplicitAckFail
    <3>4. CASE SenderBusy(n)
      BY <3>4, ZenonT(60) DEF SenderBusy, TxWriteFail, Sent, SentHello, AckOne, Drain, DownDone
    <3>5. CASE Receiver(n)
      BY <3>5, ZenonT(60) DEF Receiver, ReceiverBusy, Recv, RecvUnknownAvp, ReadFail, RxAccept, RxDrop
    <3> QED
      BY <3>1, <3>2, <3>3, <3>4, <3>5, Zenon DEF Step
  <2> QED
    BY <2>1, <2>2, <2>3, <2>4, Zenon
<1> QED
  BY <1>2, <1>3, <1>4, ZenonT(60)

(* Every step keeps the invariant.                                         *)
LEMMA SeqStep == IndInv /\ IndInv' /\ WindowInv /\ SeqInv /\ [Next]_vars => SeqInv'
<1> SUFFICES ASSUME IndInv, IndInv', WindowInv, SeqInv, [Next]_vars PROVE SeqInv'
  BY Zenon
<1>1. CASE UNCHANGED vars
  <2>1. \A n \in Node : Unmoved(n)
    BY <1>1, ZenonT(60) DEF vars, senderVars, timerVars, rxVars, userVars, histVars, Unmoved
  <2>2. net' = net
    BY <1>1, Zenon DEF vars
  <2>3. \A n \in Node : /\ Grown(sentLog[n], sentLog'[n]) /\ Grown(rcvdLog[n], rcvdLog'[n])
                        /\ rcvdLog'[n] = rcvdLog[n]
                        /\ Len(sentLog'[n]) \in Nat /\ Len(rcvdLog'[n]) \in Nat
    BY <2>1, NodeTypes, GrownAppend, Constants, Zenon DEF Unmoved
  <2>4. ASSUME NEW m \in Node PROVE SenderInv(m)' /\ WireInv(m)' /\ RxInv(m)'
    <3>1. PICK n \in Node : m = Peer(n)
      BY Peers, Zenon
    <3> QED
      BY <2>1, <2>2, <2>3, <3>1, PeerKept, ZenonT(60)
  <2>5. \A p \in net : FrameInv(p)'
    BY <2>3, FramesKept, Zenon
  <2> QED
    BY <2>2, <2>4, <2>5, ZenonT(60) DEF SeqInv
<1>2. CASE Next
  <2>1. PICK n \in Node : Step(n)
    BY <1>2, Zenon DEF Next, Step
  <2>2. PICK m \in Node : m = Peer(n) /\ m # n /\ \A k \in Node : k = n \/ k = m
    BY Peers, Zenon
  <2>3. SenderInv(n)' /\ WireInv(n)' /\ RxInv(n)' /\ \A p \in net' \ net : FrameInv(p)'
    BY <2>1, OwnStep, Zenon
  <2>4. Unmoved(m) /\ net \subseteq net'
    BY <2>1, <2>2, OneMoves, ZenonT(60) DEF Step
  <2>5. /\ Grown(sentLog[n], sentLog'[n]) /\ Grown(rcvdLog[n], rcvdLog'[n])
        /\ rcvdLog'[n] = rcvdLog[n] \/ RxAccept(n)
    BY <2>1, LogsGrow, ZenonT(60)
  <2>6. \A k \in Node : Len(sentLog'[k]) \in Nat /\ Len(rcvdLog'[k]) \in Nat
    <3>1. sentLog' \in [Node -> Seq(AnyId)] /\ rcvdLog' \in [Node -> Seq(AnyId)]
      BY ZenonT(60) DEF IndInv, TypeOK
    <3> QED
      BY <3>1, SMTT(60)
  <2>7. rcvdLog'[n] = rcvdLog[n] \/ PrefixInv(m)'
    <3>1. ASSUME RxAccept(n) PROVE PrefixInv(m)'
      BY <2>2, <3>1, RxAcceptStep, ZenonT(60)
    <3> QED
      BY <2>5, <3>1, Zenon
  <2>8. SenderInv(m)' /\ WireInv(m)' /\ RxInv(m)'
    BY <2>2, <2>4, <2>5, <2>6, <2>7, PeerKept, ZenonT(60)
  <2>9. \A p \in net : FrameInv(p)'
    <3>1. Grown(sentLog[m], sentLog'[m]) /\ Grown(rcvdLog[m], rcvdLog'[m])
      BY <2>2, <2>4, NodeTypes, GrownAppend, Constants, Zenon DEF Unmoved
    <3>2. \A k \in Node : Grown(sentLog[k], sentLog'[k]) /\ Grown(rcvdLog[k], rcvdLog'[k])
      BY <2>2, <2>5, <3>1, ZenonT(60)
    <3> QED
      BY <2>6, <3>2, FramesKept, ZenonT(60)
  <2> QED
    BY <2>2, <2>3, <2>8, <2>9, ZenonT(60) DEF SeqInv
<1> QED
  BY <1>1, <1>2, Zenon

(* Nothing has been sent.                                                  *)
LEMMA SeqInit == Init => SeqInv
<1> SUFFICES ASSUME Init PROVE SeqInv
  BY Zenon
<1>1. 0 % SeqMod = 0 /\ TxWindowSize \in Nat /\ MaxRxQueue \in Nat
  BY SeqModAssumption, WindowPositive, TransportAssumption, SMTT(60)
<1>2. ASSUME NEW n \in Node PROVE SenderInv(n) /\ WireInv(n) /\ RxInv(n)
  <2>logs. sentLog[n] = <<>> /\ rcvdLog[n] = <<>> /\ rcvdLog[Peer(n)] = <<>>
    BY Peers, Zenon DEF Init
  <2>queues. txQueue[n] = <<>> /\ ackQueue[n] = <<>> /\ accepted[n] = 0
    BY Zenon DEF Init
  <2>select. spc[n] = "select" /\ pend[n] = NoNr
    BY Zenon DEF Init
  <2>msgs. \A i \in AnyId : xmit[n][i] = NewXmitMsg
    BY Zenon DEF Init
  <2>2. CounterInv(n)
    <3>1. ss[n].ns = 0 /\ ss[n].nr = 0
      BY Zenon DEF Init, SlowStartInit
    <3> QED
      BY <1>1, <2>logs, <2>select, <3>1, SMTT(60) DEF CounterInv, NextAns
  <2>3. NumberedInv(n) /\ HelloInv(n)
    <3>1. Elements(ackQueue[n]) = {}
      BY <2>queues, SMTT(60) DEF Elements
    <3> QED
      BY <2>select, <2>msgs, <3>1, Constants, SMTT(60)
      DEF NumberedInv, HelloInv, isComplete, NewXmitMsg
  <2>4. QueueInv(n) /\ GapInv(n)
    BY <2>queues, <2>select, SMTT(60) DEF QueueInv, GapInv
  <2>5. PendInv(n) /\ AckInv(n)
    BY <2>select, Zenon DEF PendInv, AckInv
  <2>6. PrefixInv(n)
    BY <1>1, <2>logs, <2>queues, <2>select, SMTT(60) DEF PrefixInv, Pending, HelloGap
  <2>7. RxInv(n)
    <3>1. rxQueue[n] = <<>>
      BY Zenon DEF Init
    <3> QED
      BY <1>1, <3>1, SMTT(60) DEF RxInv
  <2> QED
    BY <2>2, <2>3, <2>4, <2>5, <2>6, <2>7, Zenon DEF SenderInv, WireInv
<1>3. net = {}
  BY Zenon DEF Init
<1> QED
  BY <1>2, <1>3, Zenon DEF SeqInv

(* The sequence numbers on the wire always stand for the counters they are *)
(* taken from.                                                             *)
LEMMA SeqInduction == Spec => []SeqInv
<1>1. Init => SeqInv
  BY SeqInit, Zenon
<1>2. IndInv /\ IndInv' /\ WindowInv /\ SeqInv /\ [Next]_vars => SeqInv'
  BY SeqStep, Zenon
<1> QED
  BY <1>1, <1>2, Induction, WindowCorrect, PTL DEF Spec
-----------------------------------------------------------------------------

(* What the invariant says of the code.                                    *)

(* recvFrame's sanity check never refuses a frame of a well-behaved peer,  *)
(* for every size of the sequence space and every window.                  *)
THEOREM GoodFramesAccepted == Spec => []NoGoodFrameRefused
<1>1. IndInv /\ SeqInv => NoGoodFrameRefused
  <2> SUFFICES ASSUME IndInv, SeqInv, NEW n \in Node, NEW p \in net, p.to = n, Fresh(n, p)
               PROVE  NrIsSane(n, p)
    BY Zenon DEF NoGoodFrameRefused
  <2>1. /\ CounterInv(n) /\ PrefixInv(n) /\ FrameInv(p) /\ p \in Frame /\ Peer(n) \in Node
    BY Peers, Zenon DEF SeqInv, SenderInv, WireInv, IndInv, TypeOK
  <2>2. PICK L \in Nat : L = Len(sentLog[n])
    BY NodeTypes, ZenonT(60)
  <2>3. PICK R \in Nat : R = Len(rcvdLog[Peer(n)])
    BY <2>1, NodeTypes, ZenonT(60)
  <2>4. PICK b \in Nat : b = p.anr
    BY <2>1, Zenon DEF Frame
  <2>5. p.nr = b % SeqMod /\ b <= R /\ R <= L /\ L + 1 - b <= SeqHalf
    <3>1. R <= L
      BY <2>1, <2>2, <2>3, Zenon DEF PrefixInv
    <3> QED
      BY <2>1, <2>2, <2>3, <2>4, <3>1, ZenonT(60) DEF FrameInv, Fresh
  <2>6. PICK t \in Nat : t = NextAns(n) /\ t <= L /\ L <= t + 1
    BY <2>1, <2>2, SMTT(60) DEF NextAns, CounterInv
  <2>7. seqIncrement(ss[n].ns) = (t + 1) % SeqMod
    BY <2>1, <2>6, ModInc, ZenonT(60) DEF CounterInv
  <2>8. seqCompare(b % SeqMod, (t + 1) % SeqMod) = IF b = t + 1 THEN 0 ELSE -1
    <3>1. t + 1 \in Nat /\ b <= t + 1 /\ (t + 1) - b <= SeqHalf
      BY <2>5, <2>6, HalfTwice
    <3> QED
      BY <3>1, CompareBehind, Zenon
  <2> QED
    BY <2>5, <2>7, <2>8, SMTT(60) DEF NrIsSane
<1> QED
  BY <1>1, Induction, SeqInduction, PTL

(* ackQueue is in the order of the sequence numbers, as processAckQueue's  *)
(* loop needs, for every window that is at most half the sequence space.   *)
THEOREM AckQueueInOrder == TxWindowSize <= SeqHalf => (Spec => []AckQueueOrdered)
<1> SUFFICES ASSUME TxWindowSize <= SeqHalf PROVE Spec => []AckQueueOrdered
  BY Zenon
<1>1. IndInv /\ WindowInv /\ HeldInv /\ SeqInv => AckQueueOrdered
  <2> SUFFICES ASSUME IndInv, WindowInv, HeldInv, SeqInv, NEW n \in Node,
                      NEW j \in DOMAIN ackQueue[n], NEW k \in DOMAIN ackQueue[n], j < k
               PROVE  seqCompare(xmit[n][ackQueue[n][j]].ns, xmit[n][ackQueue[n][k]].ns) = -1
    BY Zenon DEF AckQueueOrdered
  <2>1. /\ GapInv(n) /\ NumberedInv(n) /\ ackQueue[n] \in Seq(AnyId) /\ HelloGap(n) \in 0 .. 1
        /\ Pending(n) \in 0 .. 1 /\ ackQueue[n][j] \in AnyId /\ ackQueue[n][k] \in AnyId
    BY NodeTypes, AnsType, ZenonT(60) DEF SeqInv, SenderInv
  <2>2. PICK A \in Nat : A = Len(ackQueue[n])
    BY <2>1, SMTT(60)
  <2>3. j \in 1 .. A /\ k \in 1 .. A
    BY <2>1, <2>2, SMTT(60)
  <2>4. PICK x \in Nat : x = Ans(n, j)
    BY AnsType, Zenon
  <2>5. PICK y \in Nat : y = Ans(n, k)
    BY AnsType, Zenon
  <2>6. x < y /\ y - x <= A
    <3>1. /\ y + (A - k) + Pending(n) <= Len(sentLog[n]) - 1 /\ x < y
          /\ Len(sentLog[n]) - 1 <= x + (A - j) + Pending(n) + HelloGap(n)
      BY <2>1, <2>2, <2>4, <2>5, ZenonT(60) DEF GapInv
    <3>2. Len(sentLog[n]) \in Nat
      BY NodeTypes, Zenon
    <3> QED
      BY <2>1, <2>3, <3>1, <3>2, SMTT(60)
  <2>7. A <= TxWindowSize
    <3>1. spc[n] # "exited"
      BY Zenon DEF HeldInv, Flushed, Elements
    <3> QED
      BY <2>2, <3>1, Zenon DEF WindowInv
  <2>8. /\ xmit[n][ackQueue[n][j]].ns = x % SeqMod
        /\ xmit[n][ackQueue[n][k]].ns = y % SeqMod
    BY <2>1, <2>4, <2>5, ZenonT(60) DEF NumberedInv, Elements, Ans
  <2>9. seqCompare(x % SeqMod, y % SeqMod) = IF x = y THEN 0 ELSE -1
    <3>1. x <= y /\ y - x <= SeqHalf
      BY <2>6, <2>7, HalfTwice, WindowPositive
    <3> QED
      BY <3>1, CompareBehind, Zenon
  <2> QED
    BY <2>6, <2>8, <2>9, SMTT(60)
<1> QED
  BY <1>1, Induction, WindowCorrect, HeldInduction, SeqInduction, PTL
=============================================================================
