-------------------------- MODULE ReliabilityProofs -------------------------
(***************************************************************************)
(* Each direction of the transport implements ControlChannel, and a frame  *)
(* the peer has acknowledged is not transmitted again.                     *)
(***************************************************************************)
EXTENDS SequenceProofs
-----------------------------------------------------------------------------

(* Each direction implements the abstract channel.                         *)

(* The steps of ControlChannel, for the messages n sends.                  *)
Results(n) == [i \in AnyId |-> xmit[n][i].result]

ChannelSend(n) ==
    /\ \E i \in AnyId : sentLog'[n] = Append(sentLog[n], i)
    /\ rcvdLog'[Peer(n)] = rcvdLog[Peer(n)] /\ Results(n)' = Results(n)

ChannelDeliver(n) ==
    /\ Len(rcvdLog[Peer(n)]) < Len(sentLog[n])
    /\ rcvdLog'[Peer(n)] = Append(rcvdLog[Peer(n)], sentLog[n][Len(rcvdLog[Peer(n)]) + 1])
    /\ sentLog'[n] = sentLog[n] /\ Results(n)' = Results(n)

ChannelAck(n) ==
    /\ \E i \in AnyId :
         /\ Results(n)[i] = "none" /\ \E k \in DOMAIN rcvdLog[Peer(n)] : rcvdLog[Peer(n)][k] = i
         /\ Results(n)' = [Results(n) EXCEPT ![i] = "acked"]
    /\ sentLog'[n] = sentLog[n] /\ rcvdLog'[Peer(n)] = rcvdLog[Peer(n)]

ChannelFail(n) ==
    /\ \E S \in SUBSET {i \in AnyId : Results(n)[i] = "none"} :
          Results(n)' = [i \in AnyId |-> IF i \in S THEN "failed" ELSE Results(n)[i]]
    /\ sentLog'[n] = sentLog[n] /\ rcvdLog'[Peer(n)] = rcvdLog[Peer(n)]

ChannelStep(n) == ChannelSend(n) \/ ChannelDeliver(n) \/ ChannelAck(n) \/ ChannelFail(n)

(* What the operations on an xmitMsg report to send().                     *)
LEMMA ResultOf ==
    ASSUME NEW m \in XmitMsg
    PROVE  /\ startRetryTimer(m).result = m.result /\ retryTaken(m).result = m.result
           /\ \A t : [m EXCEPT !.timer = t].result = m.result
           /\ \A x, y : [m EXCEPT !.ns = x, !.ans = y].result = m.result
           /\ \A r : txComplete(m, r).result = IF m.result = "none" THEN r ELSE m.result
<1>1. ASSUME NEW r PROVE txComplete(m, r).result = IF m.result = "none" THEN r ELSE m.result
  BY Zenon DEF txComplete, XmitMsg
<1>2. startRetryTimer(m).result = m.result
  BY Zenon DEF startRetryTimer, XmitMsg
<1>3. retryTaken(m).result = m.result
  BY Zenon DEF retryTaken, XmitMsg
<1>4. \A t : [m EXCEPT !.timer = t].result = m.result
  BY Zenon DEF XmitMsg
<1>5. \A x, y : [m EXCEPT !.ns = x, !.ans = y].result = m.result
  BY ZenonT(60) DEF XmitMsg
<1> QED
  BY <1>1, <1>2, <1>3, <1>4, <1>5, Zenon

(* Messages of n that were pending fail, or nothing happens.               *)
FailsOnly(n) ==
    \A i \in AnyId : \/ xmit'[n][i].result = xmit[n][i].result
                     \/ xmit[n][i].result = "none" /\ xmit'[n][i].result = "failed"

(* Such a step is a Fail of the channel.                                   *)
LEMMA FailsIsFail ==
    ASSUME NEW n \in Node, FailsOnly(n), sentLog'[n] = sentLog[n],
           rcvdLog'[Peer(n)] = rcvdLog[Peer(n)]
    PROVE  ChannelFail(n)
<1> DEFINE S == {i \in AnyId : xmit'[n][i].result # xmit[n][i].result}
<1>1. S \in SUBSET {i \in AnyId : Results(n)[i] = "none"}
  BY Zenon DEF FailsOnly, Results
<1>2. Results(n)' = [i \in AnyId |-> IF i \in S THEN "failed" ELSE Results(n)[i]]
  <2>1. ASSUME NEW i \in AnyId
        PROVE  xmit'[n][i].result = IF i \in S THEN "failed" ELSE Results(n)[i]
    BY Zenon DEF FailsOnly, Results
  <2> HIDE DEF S
  <2> QED
    BY <2>1, ZenonT(60) DEF Results
<1> HIDE DEF S
<1> QED
  BY <1>1, <1>2, ZenonT(60) DEF ChannelFail

(* TxWrite and HelloWrite number a message.                                *)
LEMMA WriteIsSend ==
    ASSUME IndInv, SeqInv, NEW n \in Node, TxWrite(n) \/ HelloWrite(n)
    PROVE  ChannelSend(n)
<1>1. xmit[n] \in [AnyId -> XmitMsg] /\ Hello \in AnyId /\ rcvdLog' = rcvdLog
  BY Constants, ZenonT(60) DEF IndInv, TypeOK, TxWrite, HelloWrite
<1>2. CASE TxWrite(n)
  <2>1. PICK i \in AnyId : i = Head(txQueue[n])
    <3>1. txQueue[n] # <<>> /\ txQueue[n] \in Seq(AnyId)
      BY <1>2, Zenon DEF TxWrite, IndInv, TypeOK, LocationInv
    <3> QED
      BY <3>1, SMTT(60)
  <2>2. /\ sentLog'[n] = Append(sentLog[n], i)
        /\ xmit'[n] = [xmit[n] EXCEPT ![i] = [xmit[n][i] EXCEPT !.ns = ss[n].ns, !.ans = Len(sentLog[n])]]
    BY <1>2, <2>1, Zenon DEF TxWrite, IndInv, TypeOK
  <2>3. \A j \in AnyId : xmit'[n][j].result = xmit[n][j].result
    <3>1. [xmit[n][i] EXCEPT !.ns = ss[n].ns, !.ans = Len(sentLog[n])].result = xmit[n][i].result
      <4>1. xmit[n][i] \in XmitMsg
        BY <1>1, Zenon
      <4> QED
        BY <4>1, SMTT(60) DEF XmitMsg
    <3>2. /\ xmit'[n][i] = [xmit[n][i] EXCEPT !.ns = ss[n].ns, !.ans = Len(sentLog[n])]
          /\ \A j \in AnyId \ {i} : xmit'[n][j] = xmit[n][j]
      BY <1>1, <2>2, Zenon
    <3> QED
      BY <3>1, <3>2, Zenon
  <2>4. Results(n)' = Results(n)
    BY <2>3, Zenon DEF Results
  <2> QED
    BY <1>1, <2>2, <2>4, Zenon DEF ChannelSend
<1>3. CASE HelloWrite(n)
  <2>1. /\ sentLog'[n] = Append(sentLog[n], Hello) /\ spc[n] = "select"
        /\ xmit'[n] = [xmit[n] EXCEPT ![Hello] =
                         [NewXmitMsg EXCEPT !.ns = ss[n].ns, !.ans = Len(sentLog[n])]]
    BY <1>3, ZenonT(60) DEF HelloWrite, IndInv, TypeOK
  <2>2. xmit[n][Hello].result = "none"
    BY <2>1, ZenonT(60) DEF SeqInv, SenderInv, HelloInv, isComplete
  <2>3. [NewXmitMsg EXCEPT !.ns = ss[n].ns, !.ans = Len(sentLog[n])].result = "none"
    BY Zenon DEF NewXmitMsg
  <2>4. \A j \in AnyId : xmit'[n][j].result = xmit[n][j].result
    BY <1>1, <2>1, <2>2, <2>3, ZenonT(60)
  <2>5. Results(n)' = Results(n)
    BY <2>4, ZenonT(60) DEF Results
  <2> QED
    BY <1>1, <2>1, <2>5, ZenonT(60) DEF ChannelSend
<1> QED
  BY <1>2, <1>3, ZenonT(60)

(* processAckQueue reports success only for what the peer has accepted.    *)
LEMMA AckIsAck ==
    ASSUME IndInv, SeqInv, NEW n \in Node, AckOne(n)
    PROVE  ChannelAck(n) \/ ChannelFail(n)
<1>1. /\ ackQueue[n] # <<>> /\ ackQueue[n] \in Seq(AnyId) /\ xmit[n] \in [AnyId -> XmitMsg]
      /\ sentLog' = sentLog /\ rcvdLog' = rcvdLog /\ spc[n] = "ack"
      /\ xmit'[n] = [xmit[n] EXCEPT ![Head(ackQueue[n])] = txComplete(@, "acked")]
  BY Zenon DEF AckOne, histVars, IndInv, TypeOK, LocationInv
<1>2. PICK h \in AnyId : h = Head(ackQueue[n]) /\ h = ackQueue[n][1] /\ 1 \in DOMAIN ackQueue[n]
  BY <1>1
<1>3. /\ xmit'[n][h].result = IF xmit[n][h].result = "none" THEN "acked" ELSE xmit[n][h].result
      /\ \A j \in AnyId \ {h} : xmit'[n][j].result = xmit[n][j].result
  <2>1. xmit'[n] = [xmit[n] EXCEPT ![h] = txComplete(xmit[n][h], "acked")]
    BY <1>1, <1>2, ZenonT(60)
  <2>2. txComplete(xmit[n][h], "acked").result = IF xmit[n][h].result = "none" THEN "acked" ELSE xmit[n][h].result
    BY <1>1, ResultOf, Zenon
  <2> QED
    BY <1>1, <2>1, <2>2, Zenon
<1>4. CASE xmit[n][h].result # "none"
  <2>1. FailsOnly(n)
    BY <1>3, <1>4, ZenonT(60) DEF FailsOnly
  <2> QED
    BY <1>1, <2>1, FailsIsFail, ZenonT(60)
<1>5. CASE xmit[n][h].result = "none"
  <2>1. Results(n)' = [Results(n) EXCEPT ![h] = "acked"]
    BY <1>3, <1>5, ZenonT(60) DEF Results
  <2>2. Results(n)[h] = "none"
    BY <1>5, Zenon DEF Results
  <2>3. \E k \in DOMAIN rcvdLog[Peer(n)] : rcvdLog[Peer(n)][k] = h
    <3>1. /\ AckInv(n) /\ PrefixInv(n) /\ NumberedInv(n) /\ rcvdLog[Peer(n)] \in Seq(AnyId)
          /\ nri[n].anr \in Nat /\ Ans(n, 1) \in Nat
      BY <1>2, Peers, NodeTypes, AnsType, Zenon DEF SeqInv, SenderInv, WireInv
    <3>2. Ans(n, 1) < nri[n].anr /\ nri[n].anr <= Len(rcvdLog[Peer(n)])
      BY <1>1, <3>1, Zenon DEF AckInv
    <3>3. PICK k \in 1 .. Len(rcvdLog[Peer(n)]) : k = Ans(n, 1) + 1
      <4>1. nri[n].anr \in Nat /\ Ans(n, 1) \in Nat /\ Len(rcvdLog[Peer(n)]) \in Nat
        BY <3>1, Peers, NodeTypes, Zenon
      <4> QED
        BY <3>2, <4>1, SMTT(60)
    <3>4. sentLog[n][k] = h
      BY <1>2, <3>1, <3>3, Zenon DEF NumberedInv, Elements, Ans
    <3>5. rcvdLog[Peer(n)][k] = sentLog[n][k]
      BY <3>1, <3>3, Zenon DEF PrefixInv
    <3>6. k \in DOMAIN rcvdLog[Peer(n)]
      <4>1. rcvdLog[Peer(n)] \in Seq(AnyId)
        BY <3>1, Zenon
      <4> QED
        BY <4>1, SMTT(60)
    <3> QED
      BY <3>4, <3>5, <3>6, Zenon
  <2>4. sentLog'[n] = sentLog[n] /\ rcvdLog'[Peer(n)] = rcvdLog[Peer(n)]
    BY <1>1, Zenon
  <2> QED
    BY <2>1, <2>2, <2>3, <2>4, Zenon DEF ChannelAck
<1> QED
  BY <1>4, <1>5, Zenon

(* Every other step of n fails some pending messages, or none.             *)
LEMMA OthersFail ==
    ASSUME IndInv, NEW n \in Node, Step(n), ~TxWrite(n), ~HelloWrite(n), ~AckOne(n)
    PROVE  FailsOnly(n) /\ sentLog'[n] = sentLog[n]
<1> USE DEF histVars
<1>1. xmit[n] \in [AnyId -> XmitMsg]
  BY Zenon DEF IndInv, TypeOK
<1>2. ASSUME NEW m \in XmitMsg
      PROVE  /\ startRetryTimer(m).result = m.result /\ retryTaken(m) \in XmitMsg
             /\ startRetryTimer(retryTaken(m)).result = m.result
             /\ \A t : [m EXCEPT !.timer = t].result = m.result
             /\ txComplete(m, "failed").result = IF m.result = "none" THEN "failed" ELSE m.result
             /\ txComplete(retryTaken(m), "failed").result = IF m.result = "none" THEN "failed" ELSE m.result
  <2>1. retryTaken(m) \in XmitMsg
    BY XmitMsgType, ZenonT(60)
  <2> QED
    BY <2>1, ResultOf, ZenonT(60)
<1>3. CASE xmit' = xmit /\ sentLog' = sentLog
  BY <1>3, ZenonT(60) DEF FailsOnly
<1>one. ASSUME NEW i \in AnyId, \A j \in AnyId \ {i} : xmit'[n][j] = xmit[n][j], sentLog' = sentLog,
               \/ xmit'[n][i].result = xmit[n][i].result
               \/ xmit[n][i].result = "none" /\ xmit'[n][i].result = "failed"
        PROVE  FailsOnly(n) /\ sentLog'[n] = sentLog[n]
  BY <1>1, <1>one, Zenon DEF FailsOnly
<1>4. CASE User(n)
  BY <1>3, <1>4, ZenonT(60) DEF User, Call, Close, UserRecv, senderVars
<1>5. CASE SenderRetry(n)
  <2>1. PICK i \in AnyId : RetryIgnored(n, i) \/ Retransmit(n, i) \/ RetryFail(n, i)
    BY <1>5, ZenonT(60) DEF SenderRetry
  <2>2. CASE RetryIgnored(n, i)
    <3>1. xmit'[n] = [xmit[n] EXCEPT ![i] = [xmit[n][i] EXCEPT !.timer = "off"]] /\ sentLog' = sentLog
      BY <2>2, Zenon DEF RetryIgnored, IndInv, TypeOK
    <3>2. [xmit[n][i] EXCEPT !.timer = "off"].result = xmit[n][i].result
      BY <1>1, <1>2, Zenon
    <3>3. xmit'[n][i] = [xmit[n][i] EXCEPT !.timer = "off"] /\ \A j \in AnyId \ {i} : xmit'[n][j] = xmit[n][j]
      BY <1>1, <3>1, Zenon
    <3> QED
      BY <1>one, <3>1, <3>2, <3>3, Zenon
  <2>3. CASE Retransmit(n, i)
    <3>1. xmit'[n] = [xmit[n] EXCEPT ![i] = startRetryTimer(retryTaken(xmit[n][i]))] /\ sentLog' = sentLog
      BY <2>3, Zenon DEF Retransmit, IndInv, TypeOK
    <3>2. startRetryTimer(retryTaken(xmit[n][i])).result = xmit[n][i].result
      BY <1>1, <1>2, Zenon
    <3>3. xmit'[n][i] = startRetryTimer(retryTaken(xmit[n][i])) /\ \A j \in AnyId \ {i} : xmit'[n][j] = xmit[n][j]
      BY <1>1, <3>1, Zenon
    <3> QED
      BY <1>one, <3>1, <3>2, <3>3, Zenon
  <2>4. CASE RetryFail(n, i)
    <3>1. xmit'[n] = [xmit[n] EXCEPT ![i] = txComplete(retryTaken(xmit[n][i]), "failed")] /\ sentLog' = sentLog
      BY <2>4, Zenon DEF RetryFail, IndInv, TypeOK
    <3>2. txComplete(retryTaken(xmit[n][i]), "failed").result
            = IF xmit[n][i].result = "none" THEN "failed" ELSE xmit[n][i].result
      BY <1>1, <1>2, Zenon
    <3>3. /\ xmit'[n][i] = txComplete(retryTaken(xmit[n][i]), "failed")
          /\ \A j \in AnyId \ {i} : xmit'[n][j] = xmit[n][j]
      BY <1>1, <3>1, Zenon
    <3> QED
      BY <1>one, <3>1, <3>2, <3>3, Zenon
  <2> QED
    BY <2>1, <2>2, <2>3, <2>4, ZenonT(60)
<1>6. CASE SenderSelect(n)
  BY <1>3, <1>6, Zenon DEF SenderSelect, Accept, Closed, NrHandoff, NrClosed, HelloIgnored, HelloWriteFail,
                    ExplicitAck, ExplicitAckFail, senderVars
<1>7. CASE SenderBusy(n)
  <2>1. CASE TxWriteFail(n)
    <3>1. PICK i \in AnyId : i = Head(txQueue[n])
      <4>1. txQueue[n] # <<>> /\ txQueue[n] \in Seq(AnyId)
        BY <2>1, Zenon DEF TxWriteFail, IndInv, TypeOK, LocationInv
      <4> QED
        BY <4>1, SMTT(60)
    <3>2. xmit'[n] = [xmit[n] EXCEPT ![i] = txComplete(xmit[n][i], "failed")] /\ sentLog' = sentLog
      BY <2>1, <3>1, ZenonT(60) DEF TxWriteFail, IndInv, TypeOK
    <3>3. txComplete(xmit[n][i], "failed").result
            = IF xmit[n][i].result = "none" THEN "failed" ELSE xmit[n][i].result
      BY <1>1, <1>2, Zenon
    <3>4. xmit'[n][i] = txComplete(xmit[n][i], "failed") /\ \A j \in AnyId \ {i} : xmit'[n][j] = xmit[n][j]
      BY <1>1, <3>2, Zenon
    <3> QED
      BY <1>one, <3>2, <3>3, <3>4, Zenon
  <2>2. CASE Sent(n)
    <3>1. PICK i \in AnyId : i = cur[n]
      BY Zenon DEF IndInv, TypeOK
    <3>2. xmit'[n] = [xmit[n] EXCEPT ![i] = startRetryTimer(xmit[n][i])] /\ sentLog' = sentLog
      BY <2>2, <3>1, Zenon DEF Sent, IndInv, TypeOK
    <3>3. startRetryTimer(xmit[n][i]).result = xmit[n][i].result
      BY <1>1, <1>2, Zenon
    <3>4. xmit'[n][i] = startRetryTimer(xmit[n][i]) /\ \A j \in AnyId \ {i} : xmit'[n][j] = xmit[n][j]
      BY <1>1, <3>2, Zenon
    <3> QED
      BY <1>one, <3>2, <3>3, <3>4, Zenon
  <2>3. CASE SentHello(n)
    <3>1. /\ xmit'[n] = [xmit[n] EXCEPT ![Hello] = startRetryTimer(xmit[n][Hello])] /\ sentLog' = sentLog
          /\ Hello \in AnyId
      BY <2>3, Constants, Zenon DEF SentHello, IndInv, TypeOK
    <3>2. startRetryTimer(xmit[n][Hello]).result = xmit[n][Hello].result
      BY <1>1, <1>2, Constants, Zenon
    <3>3. xmit'[n][Hello] = startRetryTimer(xmit[n][Hello]) /\ \A j \in AnyId \ {Hello} : xmit'[n][j] = xmit[n][j]
      BY <1>1, <3>1, Zenon
    <3> QED
      BY <1>one, <3>1, <3>2, <3>3, Zenon
  <2>4. CASE Drain(n)
    BY <1>3, <2>4, Zenon DEF Drain, senderVars
  <2>5. CASE DownDone(n)
    <3>1. \A i \in AnyId : xmit'[n][i] \in {xmit[n][i], txComplete(xmit[n][i], "failed")}
      BY <2>5, ZenonT(60) DEF DownDone, IndInv, TypeOK
    <3>2. sentLog' = sentLog
      BY <2>5, ZenonT(60) DEF DownDone
    <3> QED
      BY <1>1, <1>2, <3>1, <3>2, Zenon DEF FailsOnly
  <2> QED
    BY <1>7, <2>1, <2>2, <2>3, <2>4, <2>5, Zenon DEF SenderBusy
<1>8. CASE Receiver(n)
  BY <1>3, <1>8, ZenonT(60) DEF Receiver, ReceiverBusy, Recv, RecvUnknownAvp, ReadFail, RxAccept, RxDrop, senderVars
<1>9. CASE Timers(n)
  <2>1. CASE AckTimerFires(n)
    BY <1>3, <2>1, Zenon DEF AckTimerFires, senderVars
  <2>2. ASSUME NEW i \in AnyId, RetryTimerFires(n, i) PROVE FailsOnly(n) /\ sentLog'[n] = sentLog[n]
    <3>1. xmit'[n] = [xmit[n] EXCEPT ![i] = [xmit[n][i] EXCEPT !.timer = "fired"]] /\ sentLog' = sentLog
      BY <2>2, Zenon DEF RetryTimerFires, IndInv, TypeOK
    <3>2. [xmit[n][i] EXCEPT !.timer = "fired"].result = xmit[n][i].result
      BY <1>1, <1>2, Zenon
    <3>3. xmit'[n][i] = [xmit[n][i] EXCEPT !.timer = "fired"] /\ \A j \in AnyId \ {i} : xmit'[n][j] = xmit[n][j]
      BY <1>1, <3>1, Zenon
    <3> QED
      BY <1>one, <3>1, <3>2, <3>3, Zenon
  <2> QED
    BY <1>9, <2>1, <2>2, Zenon DEF Timers
<1> QED
  BY <1>4, <1>5, <1>6, <1>7, <1>8, <1>9, Zenon DEF Step

(* A step of either endpoint is a step of the channel from n, or leaves it *)
(* alone.                                                                  *)
LEMMA ChannelMoves ==
    ASSUME IndInv, SeqInv, NEW n \in Node, [Next]_vars
    PROVE  ChannelStep(n)
<1>1. PICK m \in Node : m = Peer(n) /\ m # n /\ Peer(m) = n /\ \A k \in Node : k = n \/ k = m
  BY Peers, Zenon
<1>2. CASE UNCHANGED vars
  <2>1. FailsOnly(n) /\ sentLog'[n] = sentLog[n] /\ rcvdLog'[Peer(n)] = rcvdLog[Peer(n)]
    BY <1>2, ZenonT(60) DEF vars, senderVars, histVars, FailsOnly
  <2> QED
    BY <2>1, FailsIsFail, Zenon DEF ChannelStep
<1>3. CASE Step(n)
  <2>1. rcvdLog'[Peer(n)] = rcvdLog[Peer(n)]
    BY <1>1, <1>3, OneMoves, ZenonT(60) DEF Step, Unmoved
  <2>2. CASE TxWrite(n) \/ HelloWrite(n)
    BY <2>2, WriteIsSend, ZenonT(60) DEF ChannelStep
  <2>3. CASE AckOne(n)
    BY <2>3, AckIsAck, ZenonT(60) DEF ChannelStep
  <2>4. CASE ~TxWrite(n) /\ ~HelloWrite(n) /\ ~AckOne(n)
    BY <1>3, <2>1, <2>4, OthersFail, FailsIsFail, Zenon DEF ChannelStep
  <2> QED
    BY <2>2, <2>3, <2>4, ZenonT(60)
<1>4. CASE Step(m)
  <2>1. xmit'[n] = xmit[n] /\ sentLog'[n] = sentLog[n]
    BY <1>1, <1>4, OneMoves, Zenon DEF Step, Unmoved
  <2>2. FailsOnly(n) /\ Results(n)' = Results(n)
    BY <2>1, ZenonT(60) DEF FailsOnly, Results
  <2>3. CASE rcvdLog'[m] = rcvdLog[m]
    BY <1>1, <2>1, <2>2, <2>3, FailsIsFail, Zenon DEF ChannelStep
  <2>4. CASE RxAccept(m)
    <3>1. /\ Head(rxQueue[m]).id = sentLog[n][Len(rcvdLog[m]) + 1]
          /\ Len(rcvdLog[m]) < Len(sentLog[n])
      BY <1>1, <2>4, AcceptedInOrder, Zenon
    <3>2. rcvdLog'[m] = Append(rcvdLog[m], Head(rxQueue[m]).id)
      BY <2>4, ZenonT(60) DEF RxAccept, IndInv, TypeOK
    <3> QED
      BY <1>1, <2>1, <2>2, <3>1, <3>2, Zenon DEF ChannelStep, ChannelDeliver
  <2> QED
    BY <1>4, <2>3, <2>4, LogsGrow, Zenon
<1> QED
  BY <1>1, <1>2, <1>3, <1>4, Zenon DEF Next, Step

(* From a to b: exactly once, in order, and send() at a succeeds only for  *)
(* what b has accepted, for every size of the sequence space, window,      *)
(* number of retries and number of messages.                               *)
THEOREM AtoBReliable == Spec => AtoBIsReliable
<1>1. Init => AtoB!Init
  BY DEF Init, AtoB!Init, Node, NewXmitMsg
<1>2. IndInv /\ SeqInv /\ [Next]_vars => [AtoB!Next]_(AtoB!vars)
  <2> SUFFICES ASSUME IndInv, SeqInv, [Next]_vars PROVE AtoB!Next
    BY Zenon
  <2>1. ChannelStep("a") /\ Peer("a") = "b"
    BY ChannelMoves, ZenonT(60) DEF Node, Peer
  <2>2. ChannelSend("a") => \E i \in AnyId : AtoB!Send(i)
    BY <2>1, ZenonT(60) DEF ChannelSend, Results, AtoB!Send
  <2>3. ChannelDeliver("a") => AtoB!Deliver
    BY <2>1, ZenonT(60) DEF ChannelDeliver, Results, AtoB!Deliver
  <2>4. ChannelAck("a") => \E i \in AnyId : AtoB!Ack(i)
    BY <2>1, ZenonT(60) DEF ChannelAck, Results, AtoB!Ack
  <2>5. ChannelFail("a") => AtoB!Fail
    BY <2>1, ZenonT(60) DEF ChannelFail, Results, AtoB!Fail
  <2> QED
    BY <2>1, <2>2, <2>3, <2>4, <2>5, Zenon DEF ChannelStep, AtoB!Next
<1> QED
  BY <1>1, <1>2, Induction, SeqInduction, PTL DEF Spec, AtoBIsReliable, AtoB!Spec

(* The same of the other direction, hence of both at once.                 *)
THEOREM BothReliable == Spec => BothWaysReliable
<1>1. Init => BtoA!Init
  BY DEF Init, BtoA!Init, Node, NewXmitMsg
<1>2. IndInv /\ SeqInv /\ [Next]_vars => [BtoA!Next]_(BtoA!vars)
  <2> SUFFICES ASSUME IndInv, SeqInv, [Next]_vars PROVE BtoA!Next
    BY Zenon
  <2>1. ChannelStep("b") /\ Peer("b") = "a"
    BY ChannelMoves, Zenon DEF Node, Peer
  <2>2. ChannelSend("b") => \E i \in AnyId : BtoA!Send(i)
    BY <2>1, ZenonT(60) DEF ChannelSend, Results, BtoA!Send
  <2>3. ChannelDeliver("b") => BtoA!Deliver
    BY <2>1, ZenonT(60) DEF ChannelDeliver, Results, BtoA!Deliver
  <2>4. ChannelAck("b") => \E i \in AnyId : BtoA!Ack(i)
    BY <2>1, ZenonT(60) DEF ChannelAck, Results, BtoA!Ack
  <2>5. ChannelFail("b") => BtoA!Fail
    BY <2>1, ZenonT(60) DEF ChannelFail, Results, BtoA!Fail
  <2> QED
    BY <2>1, <2>2, <2>3, <2>4, <2>5, Zenon DEF ChannelStep, BtoA!Next
<1>3. Spec => BtoA!Spec
  BY <1>1, <1>2, Induction, SeqInduction, PTL DEF Spec, BtoA!Spec
<1> QED
  BY <1>3, AtoBReliable, ZenonT(60) DEF BothWaysReliable, AtoBIsReliable
-----------------------------------------------------------------------------

(* Acked messages are not sent again.                                      *)

(* Without a HelloTimeout no HELLO is ever sent.                           *)
NoHelloInv(n) ==
    /\ ~helloTimer[n] /\ ~helloInFlight[n] /\ xmit[n][Hello].timer = "off"
    /\ spc[n] = "sent" => cur[n] # Hello

(* A message whose retry timer is armed waits for its ack, or is complete. *)
ArmedInv(n) ==
    spc[n] \notin {"down", "exited"} =>
        \A i \in AnyId : xmit[n][i].timer # "off" /\ xmit[n][i].result = "none" =>
                         i \in Elements(ackQueue[n])

(* What the sender has heard of is no longer in ackQueue, unless it is     *)
(* still working on it.                                                    *)
SeenInv(n) ==
    /\ seenNr[n] <= Len(rcvdLog[Peer(n)])
    /\ spc[n] = "sent" => seenNr[n] < Len(sentLog[n])
    /\ spc[n] = "ack" => seenNr[n] = nri[n].anr
    /\ spc[n] # "ack" /\ ackQueue[n] # <<>> => seenNr[n] <= Ans(n, 1)

(* A step that adds nothing to ackQueue and takes nothing from it.         *)
AckQueueSame(n) ==
    /\ seenNr'[n] = seenNr[n] /\ ackQueue'[n] = ackQueue[n] /\ sentLog'[n] = sentLog[n] /\ cur'[n] = cur[n]
    /\ spc'[n] = "sent" => spc[n] = "sent"
    /\ spc'[n] = "ack" <=> spc[n] = "ack"
    /\ spc'[n] = "ack" => nri'[n] = nri[n]
    /\ spc[n] \in {"down", "exited"} => spc'[n] \in {"down", "exited"}
    /\ helloInFlight'[n] => helloInFlight[n]
    /\ helloTimer'[n] => helloTimer[n] \/ n \in HelloNodes
    /\ \A i \in AnyId : /\ xmit'[n][i].ans = xmit[n][i].ans
                        /\ xmit'[n][i].timer # "off" => xmit[n][i].timer # "off"
                        /\ xmit'[n][i].result = "none" => xmit[n][i].result = "none"

(* The steps that do: the hand-over of an nr, the ack of a message, and    *)
(* the sending of one.                                                     *)
MovesAckQueue(n) ==
    NrHandoff(n) \/ AckOne(n) \/ TxWrite(n) \/ Sent(n) \/ HelloWrite(n) \/ SentHello(n) \/ DownDone(n)

(* All other steps leave the queue and what it says alone.                 *)
LEMMA AckQueueKept ==
    ASSUME IndInv, NEW n \in Node, Step(n), ~MovesAckQueue(n)
    PROVE  AckQueueSame(n)
<1> USE DEF histVars, resetHelloTimer
<1>1. /\ xmit[n] \in [AnyId -> XmitMsg] /\ helloTimer \in [Node -> BOOLEAN]
      /\ helloInFlight \in [Node -> BOOLEAN]
      /\ spc \in [Node -> {"select", "ack", "tx", "sent", "down", "exited"}]
  BY ZenonT(60) DEF IndInv, TypeOK
<1>2. CASE UNCHANGED <<seenNr, ackQueue, sentLog, spc, nri, cur, helloInFlight, helloTimer, xmit>>
  BY <1>2, ZenonT(60) DEF AckQueueSame
<1>one. ASSUME NEW i \in AnyId, NEW v, xmit'[n] = [xmit[n] EXCEPT ![i] = v],
               v.ans = xmit[n][i].ans, v.timer # "off" => xmit[n][i].timer # "off",
               v.result = "none" => xmit[n][i].result = "none"
        PROVE  \A j \in AnyId : /\ xmit'[n][j].ans = xmit[n][j].ans
                                /\ xmit'[n][j].timer # "off" => xmit[n][j].timer # "off"
                                /\ xmit'[n][j].result = "none" => xmit[n][j].result = "none"
  <2>1. xmit'[n][i] = v /\ \A j \in AnyId \ {i} : xmit'[n][j] = xmit[n][j]
    BY <1>1, <1>one, Zenon
  <2> QED
    BY <1>one, <2>1, Zenon
<1>3. CASE User(n)
  BY <1>2, <1>3, ZenonT(60) DEF User, Call, Close, UserRecv, senderVars, timerVars
<1>4. CASE SenderRetry(n)
  <2>1. PICK i \in AnyId : RetryIgnored(n, i) \/ Retransmit(n, i) \/ RetryFail(n, i)
    BY <1>4, ZenonT(60) DEF SenderRetry
  <2>2. CASE RetryIgnored(n, i)
    <3>1. /\ xmit[n][i] \in XmitMsg /\ xmit[n][i].timer = "fired"
          /\ xmit'[n] = [xmit[n] EXCEPT ![i] = [xmit[n][i] EXCEPT !.timer = "off"]]
      BY <1>1, <2>2, Zenon DEF RetryIgnored, IndInv, TypeOK
    <3>2. PICK v : v = [xmit[n][i] EXCEPT !.timer = "off"] /\ xmit'[n] = [xmit[n] EXCEPT ![i] = v]
      BY <3>1, Zenon
    <3>3. v.ans = xmit[n][i].ans /\ v.timer = "off" /\ v.result = xmit[n][i].result
      <4>1. PICK m \in XmitMsg : m = xmit[n][i]
        BY <3>1, Zenon
      <4> QED
        BY <3>2, <4>1, SMTT(60) DEF XmitMsg
    <3>4. UNCHANGED <<seenNr, ackQueue, sentLog, spc, nri, cur, helloInFlight, helloTimer>>
      BY <2>2, Zenon DEF RetryIgnored, timerVars
    <3>5. \A j \in AnyId : /\ xmit'[n][j].ans = xmit[n][j].ans
                           /\ xmit'[n][j].timer # "off" => xmit[n][j].timer # "off"
                           /\ xmit'[n][j].result = "none" => xmit[n][j].result = "none"
      BY <1>one, <3>1, <3>2, <3>3, Zenon
    <3> QED
      BY <3>1, <3>4, <3>5, Zenon DEF AckQueueSame
  <2>3. CASE Retransmit(n, i)
    <3>1. /\ xmit[n][i] \in XmitMsg /\ xmit[n][i].timer = "fired"
          /\ xmit'[n] = [xmit[n] EXCEPT ![i] = startRetryTimer(retryTaken(xmit[n][i]))]
      BY <1>1, <2>3, Zenon DEF Retransmit, IndInv, TypeOK
    <3>2. PICK v : v = startRetryTimer(retryTaken(xmit[n][i])) /\ xmit'[n] = [xmit[n] EXCEPT ![i] = v]
      BY <3>1, Zenon
    <3>3. v.ans = xmit[n][i].ans /\ v.result = xmit[n][i].result
      <4>1. retryTaken(xmit[n][i]) \in XmitMsg
        BY <3>1, XmitMsgType, Zenon
      <4> QED
        BY <3>1, <3>2, <4>1, SameNumber, ResultOf, Zenon
    <3>4. UNCHANGED <<seenNr, ackQueue, sentLog, spc, nri, cur, helloInFlight>>
      BY <2>3, Zenon DEF Retransmit
    <3>5. helloTimer'[n] => helloTimer[n] \/ n \in HelloNodes
      BY <1>1, <2>3, Zenon DEF Retransmit
    <3>6. \A j \in AnyId : /\ xmit'[n][j].ans = xmit[n][j].ans
                           /\ xmit'[n][j].timer # "off" => xmit[n][j].timer # "off"
                           /\ xmit'[n][j].result = "none" => xmit[n][j].result = "none"
      BY <1>one, <3>1, <3>2, <3>3, ZenonT(60)
    <3> QED
      BY <3>1, <3>4, <3>5, <3>6, Zenon DEF AckQueueSame
  <2>4. CASE RetryFail(n, i)
    <3>1. /\ xmit'[n] = [xmit[n] EXCEPT ![i] = txComplete(retryTaken(xmit[n][i]), "failed")]
          /\ UNCHANGED <<ackQueue, cur, helloTimer, seenNr, sentLog>> /\ spc[n] = "select" /\ spc'[n] = "down"
          /\ helloInFlight'[n] => helloInFlight[n]
      BY <2>4, ZenonT(60) DEF RetryFail, GoDown, IndInv, TypeOK, timerVars
    <3>2. xmit[n][i] \in XmitMsg /\ retryTaken(xmit[n][i]) \in XmitMsg
      BY <1>1, XmitMsgType, ZenonT(60)
    <3>3. /\ xmit'[n][i].ans = xmit[n][i].ans
          /\ xmit'[n][i].timer # "off" => xmit[n][i].timer # "off"
          /\ xmit'[n][i].result # "none"
      <4>1. xmit'[n][i] = txComplete(retryTaken(xmit[n][i]), "failed")
        BY <1>1, <3>1, Zenon
      <4> QED
        <5>1. PICK m \in XmitMsg : m = retryTaken(xmit[n][i])
          BY <3>2, Zenon
        <5>2. m.ans = xmit[n][i].ans
          BY <3>2, <5>1, SameNumber, Zenon
        <5>3. txComplete(m, "failed").ans = m.ans /\ txComplete(m, "failed").result # "none"
          BY SMTT(60) DEF txComplete, XmitMsg
        <5> QED
          BY <2>4, <4>1, <5>1, <5>2, <5>3, Zenon DEF RetryFail
    <3>4. \A j \in AnyId \ {i} : xmit'[n][j] = xmit[n][j]
      BY <1>1, <3>1, ZenonT(60)
    <3> QED
      BY <3>1, <3>3, <3>4, Zenon DEF AckQueueSame
  <2> QED
    BY <2>1, <2>2, <2>3, <2>4, Zenon
<1>5. CASE SenderSelect(n)
  <2>1. CASE Accept(n)
    BY <1>1, <2>1, Zenon DEF Accept, AckQueueSame, timerVars
  <2>2. CASE Closed(n) \/ NrClosed(n) \/ HelloWriteFail(n) \/ ExplicitAckFail(n)
    <3>1. /\ UNCHANGED <<seenNr, ackQueue, sentLog, cur, helloInFlight, xmit>>
          /\ spc[n] = "select" /\ spc'[n] = "down" /\ (helloTimer'[n] => helloTimer[n])
      BY <1>1, <2>2, Zenon DEF Closed, NrClosed, HelloWriteFail, ExplicitAckFail, GoDown, timerVars
    <3> QED
      BY <3>1, Zenon DEF AckQueueSame
  <2>3. CASE HelloIgnored(n)
    BY <1>1, <2>3, ZenonT(60) DEF HelloIgnored, senderVars, AckQueueSame
  <2>4. CASE ExplicitAck(n)
    BY <1>2, <2>4, Zenon DEF ExplicitAck, senderVars
  <2> QED
    BY <1>5, <2>1, <2>2, <2>3, <2>4, Zenon DEF SenderSelect, MovesAckQueue
<1>6. CASE SenderBusy(n)
  <2>1. CASE TxWriteFail(n)
    <3>1. PICK i \in AnyId : i = Head(txQueue[n])
      <4>1. txQueue[n] # <<>> /\ txQueue[n] \in Seq(AnyId)
        BY <2>1, Zenon DEF TxWriteFail, IndInv, TypeOK, LocationInv
      <4> QED
        BY <4>1, SMTT(60)
    <3>2. /\ xmit'[n] = [xmit[n] EXCEPT ![i] = txComplete(xmit[n][i], "failed")]
          /\ UNCHANGED <<ackQueue, cur, helloTimer, helloInFlight, seenNr, sentLog>>
          /\ spc[n] = "tx" /\ spc'[n] = "down"
      BY <2>1, <3>1, Zenon DEF TxWriteFail, GoDown, IndInv, TypeOK, timerVars
    <3>3. /\ xmit'[n][i].ans = xmit[n][i].ans
          /\ xmit'[n][i].timer # "off" => xmit[n][i].timer # "off"
          /\ xmit'[n][i].result # "none"
      <4>1. xmit'[n][i] = txComplete(xmit[n][i], "failed")
        BY <1>1, <3>2, Zenon
      <4> QED
        <5>1. PICK m \in XmitMsg : m = xmit[n][i]
          BY <1>1, Zenon
        <5>2. /\ txComplete(m, "failed").ans = m.ans /\ txComplete(m, "failed").result # "none"
              /\ txComplete(m, "failed").timer # "off" => m.timer # "off"
          BY SMTT(60) DEF txComplete, XmitMsg
        <5> QED
          BY <4>1, <5>1, <5>2, Zenon
    <3>4. \A j \in AnyId \ {i} : xmit'[n][j] = xmit[n][j]
      BY <1>1, <3>2, Zenon
    <3> QED
      BY <3>2, <3>3, <3>4, Zenon DEF AckQueueSame
  <2>2. CASE Drain(n)
    BY <1>2, <2>2, ZenonT(60) DEF Drain, senderVars, timerVars
  <2> QED
    BY <1>6, <2>1, <2>2, Zenon DEF SenderBusy, MovesAckQueue
<1>7. CASE Receiver(n)
  <2>1. CASE RxAccept(n)
    BY <1>2, <2>1, Zenon DEF RxAccept, timerVars
  <2> QED
    BY <1>2, <1>7, <2>1, Zenon DEF Receiver, ReceiverBusy, Recv, RecvUnknownAvp, ReadFail, RxDrop, senderVars,
                          timerVars
<1>8. CASE Timers(n)
  <2>1. CASE AckTimerFires(n)
    BY <1>2, <2>1, ZenonT(60) DEF AckTimerFires, senderVars
  <2>2. ASSUME NEW i \in AnyId, RetryTimerFires(n, i) PROVE AckQueueSame(n)
    <3>1. /\ xmit[n][i] \in XmitMsg /\ xmit[n][i].timer = "running"
          /\ xmit'[n] = [xmit[n] EXCEPT ![i] = [xmit[n][i] EXCEPT !.timer = "fired"]]
      BY <1>1, <2>2, Zenon DEF RetryTimerFires, IndInv, TypeOK
    <3>2. PICK v : v = [xmit[n][i] EXCEPT !.timer = "fired"] /\ xmit'[n] = [xmit[n] EXCEPT ![i] = v]
      BY <3>1, Zenon
    <3>3. v.ans = xmit[n][i].ans /\ v.result = xmit[n][i].result
      <4>1. PICK m \in XmitMsg : m = xmit[n][i]
        BY <3>1, Zenon
      <4> QED
        BY <3>2, <4>1, SMTT(60) DEF XmitMsg
    <3>4. UNCHANGED <<seenNr, ackQueue, sentLog, spc, nri, cur, helloInFlight, helloTimer>>
      BY <2>2, Zenon DEF RetryTimerFires, timerVars
    <3>5. \A j \in AnyId : /\ xmit'[n][j].ans = xmit[n][j].ans
                           /\ xmit'[n][j].timer # "off" => xmit[n][j].timer # "off"
                           /\ xmit'[n][j].result = "none" => xmit[n][j].result = "none"
      <4>1. xmit[n][i].timer # "off"
        BY <3>1, Zenon
      <4> QED
        BY <1>one, <3>2, <3>3, <4>1, Zenon
    <3> QED
      BY <3>1, <3>4, <3>5, Zenon DEF AckQueueSame
  <2> QED
    BY <1>8, <2>1, <2>2, Zenon DEF Timers
<1> QED
  BY <1>3, <1>4, <1>5, <1>6, <1>7, <1>8, Zenon DEF Step

AckedInv == \A n \in Node : NoHelloInv(n) /\ ArmedInv(n) /\ SeenInv(n)

(* processAckQueue's test recognises every message that is acked: without  *)
(* a HELLO in between, what waits in ackQueue fits the window, and the     *)
(* window is less than half the sequence space.                            *)
LEMMA AckRecognised ==
    ASSUME IndInv, WindowInv, SeqInv, TxWindowSize < SeqHalf, NEW n \in Node, NoHelloInv(n),
           spc[n] \in {"select", "ack"}, NEW k \in DOMAIN ackQueue[n], NEW b \in Nat,
           b <= Len(rcvdLog[Peer(n)]), Ans(n, k) < b
    PROVE  seqCompare(b % SeqMod, xmit[n][ackQueue[n][k]].ns) > 0
<1>1. /\ GapInv(n) /\ NumberedInv(n) /\ PrefixInv(n) /\ ackQueue[n] \in Seq(AnyId)
      /\ ackQueue[n][k] \in AnyId /\ Peer(n) \in Node
  BY NodeTypes, AnsType, Peers, Zenon DEF SeqInv, SenderInv, WireInv
<1>2. PICK A \in Nat : A = Len(ackQueue[n]) /\ A <= TxWindowSize
  <2>1. Len(ackQueue[n]) \in Nat /\ ss[n].ntx = Len(ackQueue[n]) /\ ss[n].ntx <= TxWindowSize
    BY NodeTypes, Zenon DEF WindowInv
  <2> QED
    BY <2>1, ZenonT(60)
<1>3. PICK x \in Nat : x = Ans(n, k)
  BY AnsType, ZenonT(60)
<1>4. PICK L \in Nat : L = Len(sentLog[n])
  BY NodeTypes, ZenonT(60)
<1>5. b <= L
  <2>1. Len(rcvdLog[Peer(n)]) <= L
    BY <1>1, <1>4, Zenon DEF PrefixInv
  <2>2. Len(rcvdLog[Peer(n)]) \in Nat
    BY <1>1, NodeTypes, Zenon
  <2> QED
    BY <1>4, <2>1, <2>2, SMTT(60)
<1>6. k \in 1 .. A
  <2>1. ackQueue[n] \in Seq(AnyId)
    BY <1>1, Zenon
  <2> QED
    BY <1>2, <2>1, SMTT(60)
<1>7. L - 1 <= x + (A - k)
  <2>1. Pending(n) = 0 /\ HelloGap(n) = 0
    BY ZenonT(60) DEF Pending, HelloGap, NoHelloInv
  <2>2. L - 1 <= x + (A - k) + Pending(n) + HelloGap(n)
    BY <1>1, <1>2, <1>3, <1>4, Zenon DEF GapInv
  <2> QED
    BY <1>6, <2>1, <2>2, SMTT(60)
<1>8. x < b /\ b - x < SeqHalf
  BY <1>2, <1>3, <1>5, <1>6, <1>7, HalfTwice, WindowPositive, SMTT(60)
<1>9. seqCompare(b % SeqMod, x % SeqMod) = 1
  BY <1>8, CompareAhead, ZenonT(60)
<1>10. xmit[n][ackQueue[n][k]].ns = x % SeqMod
  BY <1>1, <1>3, Zenon DEF NumberedInv, Elements, Ans
<1> QED
  BY <1>9, <1>10, SMTT(60)

(* The three together are inductive.                                       *)
LEMMA AckedInduction == HelloNodes = {} /\ TxWindowSize < SeqHalf => (Spec => []AckedInv)
(* No step arms the hello timer.                                           *)
<1>NoHelloStep.
    ASSUME IndInv, HelloNodes = {}, NEW n \in Node, NoHelloInv(n), QueueInv(n), Step(n)
    PROVE  NoHelloInv(n)'
  <2> USE <1>NoHelloStep
  <2>1. /\ xmit[n] \in [AnyId -> XmitMsg] /\ helloTimer \in [Node -> BOOLEAN] /\ Hello \in AnyId
        /\ helloInFlight \in [Node -> BOOLEAN] /\ accepted[n] \in Nat /\ Len(txQueue[n]) \in Nat
        /\ txQueue[n] \in Seq(AnyId) /\ ackQueue[n] \in Seq(AnyId) /\ cur[n] \in AnyId
    BY NodeTypes, Constants, Zenon DEF IndInv, TypeOK
  <2> USE DEF histVars, resetHelloTimer
  <2>2. CASE ~MovesAckQueue(n)
    BY <2>1, <2>2, AckQueueKept, Zenon DEF AckQueueSame, NoHelloInv
  <2>3. CASE NrHandoff(n)
    <3>1. spc'[n] # "sent" /\ UNCHANGED <<helloInFlight, xmit>>
      BY <2>3, ZenonT(60) DEF NrHandoff, EndOfNr, IndInv, TypeOK
    <3>2. helloTimer'[n] = helloTimer[n]
      BY <2>1, <2>3, ZenonT(60) DEF NrHandoff, EndOfNr, timerVars
    <3> QED
      BY <3>1, <3>2, Zenon DEF NoHelloInv
  <2>4. CASE AckOne(n)
    <3>1. PICK h \in AnyId : h = Head(ackQueue[n]) /\ h \in 1 .. accepted[n] - Len(txQueue[n])
      <4>1. ackQueue[n] # <<>> /\ ackQueue[n] \in Seq(AnyId)
        BY <2>1, <2>4, Zenon DEF AckOne, IndInv, LocationInv
      <4>2. 1 \in DOMAIN ackQueue[n] /\ Head(ackQueue[n]) = ackQueue[n][1] /\ Head(ackQueue[n]) \in AnyId
        BY <4>1, SMTT(60)
      <4> QED
        BY <4>2, Zenon DEF QueueInv
    <3>2. h # Hello
      <4>1. accepted[n] \in Nat /\ Len(txQueue[n]) \in Nat
        BY <2>1, Zenon
      <4> QED
        BY <3>1, <4>1, SMTT(60) DEF Hello
    <3>3. xmit'[n][Hello] = xmit[n][Hello]
      <4>1. xmit'[n] = [xmit[n] EXCEPT ![h] = txComplete(xmit[n][h], "acked")]
        BY <2>4, <3>1, Zenon DEF AckOne, IndInv, TypeOK
      <4> QED
        BY <2>1, <3>2, <4>1, Zenon
    <3>4. helloTimer'[n] = helloTimer[n] /\ helloInFlight' = helloInFlight
      BY <2>1, <2>4, Zenon DEF AckOne, EndOfNr, timerVars
    <3>5. spc'[n] # "sent"
      BY <2>4, ZenonT(60) DEF AckOne, EndOfNr, IndInv, TypeOK
    <3> QED
      BY <3>3, <3>4, <3>5, Zenon DEF NoHelloInv
  <2>5. CASE TxWrite(n)
    <3>1. txQueue[n] # <<>>
      BY <2>5, ZenonT(60) DEF TxWrite, IndInv, LocationInv
    <3>2. 1 \in DOMAIN txQueue[n] /\ Head(txQueue[n]) = txQueue[n][1]
      <4>1. txQueue[n] \in Seq(AnyId)
        BY <2>1, Zenon
      <4> QED
        BY <3>1, <4>1, SMTT(60)
    <3>3. PICK h \in AnyId : h = Head(txQueue[n]) /\ h = accepted[n] - Len(txQueue[n]) + 1
      <4>1. txQueue[n][1] \in AnyId
        BY <2>1, <3>1, <3>2, TailFacts, ZenonT(60)
      <4> QED
        BY <3>2, <4>1, Zenon DEF QueueInv
    <3>4. h # Hello
      <4>1. accepted[n] \in Nat /\ Len(txQueue[n]) \in Nat /\ Len(txQueue[n]) <= accepted[n]
        BY <2>1, Zenon DEF QueueInv
      <4> QED
        BY <3>3, <4>1, SMTT(60) DEF Hello
    <3>5. xmit'[n][Hello] = xmit[n][Hello] /\ cur'[n] = h
      BY <2>1, <2>5, <3>3, <3>4, Zenon DEF TxWrite, IndInv, TypeOK
    <3>6. ~helloTimer'[n] /\ ~helloInFlight'[n]
      BY <2>5, ZenonT(60) DEF TxWrite, NoHelloInv, timerVars
    <3> QED
      BY <3>4, <3>5, <3>6, ZenonT(60) DEF NoHelloInv
  <2>6. CASE Sent(n)
    <3>1. xmit'[n][Hello] = xmit[n][Hello]
      <4>1. /\ xmit'[n] = [xmit[n] EXCEPT ![cur[n]] = startRetryTimer(xmit[n][cur[n]])]
            /\ spc[n] = "sent" /\ cur[n] # Hello
        BY <2>6, Zenon DEF Sent, IndInv, TypeOK
      <4> QED
        BY <2>1, <4>1, Zenon
    <3>2. ~helloTimer'[n] /\ ~helloInFlight'[n] /\ spc'[n] # "sent"
      BY <2>1, <2>6, Zenon DEF Sent, NoHelloInv, IndInv, TypeOK
    <3> QED
      BY <3>1, <3>2, ZenonT(60) DEF NoHelloInv
  <2>7. CASE HelloWrite(n) \/ SentHello(n)
    BY <2>7, ZenonT(60) DEF HelloWrite, SentHello, NoHelloInv
  <2>8. CASE DownDone(n)
    <3>1. xmit'[n][Hello] \in {xmit[n][Hello], txComplete(xmit[n][Hello], "failed")}
      BY <2>1, <2>8, Zenon DEF DownDone, IndInv, TypeOK
    <3>2. xmit'[n][Hello].timer = "off"
      <4>1. PICK m \in XmitMsg : m = xmit[n][Hello] /\ m.timer = "off"
        BY <2>1, Zenon DEF NoHelloInv
      <4>2. txComplete(m, "failed").timer = "off"
        BY <4>1, SameNumber, Zenon
      <4> QED
        BY <3>1, <4>1, <4>2, Zenon
    <3>3. ~helloTimer'[n] /\ ~helloInFlight'[n] /\ spc'[n] # "sent"
      BY <2>1, <2>8, Zenon DEF DownDone, NoHelloInv, IndInv, TypeOK
    <3> QED
      BY <3>2, <3>3, Zenon DEF NoHelloInv
  <2> QED
    BY <2>2, <2>3, <2>4, <2>5, <2>6, <2>7, <2>8, Zenon DEF MovesAckQueue
(* A message leaves ackQueue complete, and enters it as its timer starts.  *)
<1>ArmedStep.
    ASSUME IndInv, NEW n \in Node, NoHelloInv(n), ArmedInv(n), Step(n)
    PROVE  ArmedInv(n)'
  <2> USE <1>ArmedStep
  <2>1. /\ xmit[n] \in [AnyId -> XmitMsg] /\ ackQueue[n] \in Seq(AnyId) /\ cur[n] \in AnyId
        /\ txQueue[n] \in Seq(AnyId)
    BY NodeTypes, ZenonT(60) DEF IndInv, TypeOK
  <2>2. CASE ~MovesAckQueue(n)
    BY <2>2, AckQueueKept, ZenonT(60) DEF AckQueueSame, ArmedInv
  <2>3. CASE NrHandoff(n)
    BY <2>3, ZenonT(60) DEF NrHandoff, ArmedInv
  <2>4. CASE AckOne(n)
    <3>1. ackQueue[n] # <<>> /\ spc[n] = "ack"
      BY <2>4, ZenonT(60) DEF AckOne, IndInv, LocationInv
    <3>2. PICK h \in AnyId : h = Head(ackQueue[n])
      BY <2>1, <3>1, TailFacts, Zenon
    <3>3. xmit'[n] = [xmit[n] EXCEPT ![h] = txComplete(xmit[n][h], "acked")] /\ ackQueue'[n] = Tail(ackQueue[n])
      BY <2>4, <3>2, Zenon DEF AckOne, IndInv, TypeOK
    <3>4. xmit'[n][h].result # "none" /\ \A i \in AnyId \ {h} : xmit'[n][i] = xmit[n][i]
      <4>1. PICK m \in XmitMsg : m = xmit[n][h]
        BY <2>1, Zenon
      <4>2. txComplete(m, "acked").result # "none"
        BY SMTT(60) DEF txComplete, XmitMsg
      <4>3. xmit'[n][h] = txComplete(m, "acked") /\ \A i \in AnyId \ {h} : xmit'[n][i] = xmit[n][i]
        BY <2>1, <3>3, <4>1, Zenon
      <4> QED
        BY <4>2, <4>3, Zenon
    <3>5. \A i \in Elements(ackQueue[n]) : i = h \/ i \in Elements(Tail(ackQueue[n]))
      BY <2>1, <3>1, <3>2, ElementsTail, Zenon
    <3> QED
      BY <3>1, <3>3, <3>4, <3>5, Zenon DEF ArmedInv
  <2>5. CASE TxWrite(n)
    <3>1. PICK h \in AnyId : h = Head(txQueue[n])
      <4>1. txQueue[n] # <<>>
        BY <2>5, Zenon DEF TxWrite, IndInv, LocationInv
      <4> QED
        BY <2>1, <4>1, TailFacts, Zenon
    <3>2. /\ xmit'[n] = [xmit[n] EXCEPT ![h] = [xmit[n][h] EXCEPT !.ns = ss[n].ns, !.ans = Len(sentLog[n])]]
          /\ ackQueue'[n] = ackQueue[n] /\ spc[n] = "tx"
      BY <2>5, <3>1, Zenon DEF TxWrite, IndInv, TypeOK
    <3>3. \A i \in AnyId : xmit'[n][i].timer = xmit[n][i].timer /\ xmit'[n][i].result = xmit[n][i].result
      <4>1. PICK m \in XmitMsg : m = xmit[n][h]
        BY <2>1, Zenon
      <4>2. PICK v : v = [m EXCEPT !.ns = ss[n].ns, !.ans = Len(sentLog[n])]
        BY Zenon
      <4>3. v.timer = m.timer /\ v.result = m.result
        BY <4>2, SMTT(60) DEF XmitMsg
      <4>4. xmit'[n][h] = v /\ \A i \in AnyId \ {h} : xmit'[n][i] = xmit[n][i]
        BY <2>1, <3>2, <4>1, <4>2, Zenon
      <4> QED
        BY <4>1, <4>3, <4>4, Zenon
    <3> QED
      BY <3>2, <3>3, ZenonT(60) DEF ArmedInv
  <2>6. CASE Sent(n)
    <3>1. /\ xmit'[n] = [xmit[n] EXCEPT ![cur[n]] = startRetryTimer(xmit[n][cur[n]])]
          /\ ackQueue'[n] = Append(ackQueue[n], cur[n]) /\ spc[n] = "sent"
      BY <2>6, ZenonT(60) DEF Sent, IndInv, TypeOK
    <3>2. Elements(ackQueue'[n]) = Elements(ackQueue[n]) \cup {cur[n]}
      <4>1. Elements(Append(ackQueue[n], cur[n])) = Elements(ackQueue[n]) \cup {cur[n]}
        <5>1. PICK q \in Seq(AnyId) : q = ackQueue[n]
          BY <2>1, Zenon
        <5>2. PICK c \in AnyId : c = cur[n]
          BY <2>1, Zenon
        <5>3. Elements(Append(q, c)) = Elements(q) \cup {c}
          BY AppendFacts, SMTT(60)
        <5> QED
          BY <5>1, <5>2, <5>3, Zenon
      <4> QED
        BY <3>1, <4>1, Zenon
    <3> QED
      BY <2>1, <3>1, <3>2, Zenon DEF ArmedInv
  <2>7. CASE HelloWrite(n) \/ SentHello(n)
    BY <2>7, Zenon DEF HelloWrite, SentHello, NoHelloInv
  <2>8. CASE DownDone(n)
    BY <2>8, Zenon DEF DownDone, ArmedInv, IndInv, TypeOK
  <2> QED
    BY <2>2, <2>3, <2>4, <2>5, <2>6, <2>7, <2>8, Zenon DEF MovesAckQueue
(* The sender goroutine removes from ackQueue all that it has heard of.    *)
<1>SeenStep.
    ASSUME IndInv, WindowInv, SeqInv, TxWindowSize < SeqHalf, NEW n \in Node, NoHelloInv(n), SeenInv(n),
           Step(n)
    PROVE  SeenInv(n)'
  <2> USE <1>SeenStep
  <2>1. /\ rcvdLog'[Peer(n)] = rcvdLog[Peer(n)]
        /\ Len(rcvdLog[Peer(n)]) \in Nat /\ Len(sentLog[n]) \in Nat /\ seenNr[n] \in Nat
        /\ ackQueue[n] \in Seq(AnyId) /\ xmit[n] \in [AnyId -> XmitMsg] /\ pend[n].anr \in Nat
        /\ nri[n].anr \in Nat
    <3>1. rcvdLog'[Peer(n)] = rcvdLog[Peer(n)]
      BY Peers, OneMoves, Zenon DEF Step, Unmoved
    <3> QED
      BY <3>1, Peers, NodeTypes, Zenon DEF IndInv, TypeOK
  <2>2. /\ CounterInv(n) /\ QueueInv(n) /\ PrefixInv(n) /\ PendInv(n) /\ AckInv(n)
    BY ZenonT(60) DEF SeqInv, SenderInv, WireInv
  <2>3. ackQueue[n] # <<>> => /\ 1 \in DOMAIN ackQueue[n] /\ Head(ackQueue[n]) = ackQueue[n][1]
                              /\ Ans(n, 1) \in Nat /\ ackQueue[n][1] \in AnyId
    <3>1. ackQueue[n] # <<>> => 1 \in DOMAIN ackQueue[n] /\ Head(ackQueue[n]) = ackQueue[n][1]
      BY <2>1, SMTT(60)
    <3> QED
      BY <3>1, AnsType, Zenon
  <2>4. CASE ~MovesAckQueue(n)
    <3>1. AckQueueSame(n)
      BY <2>4, AckQueueKept, ZenonT(60)
    <3>2. ackQueue[n] # <<>> => Ans(n, 1)' = Ans(n, 1)
      BY <2>3, <3>1, ZenonT(60) DEF AckQueueSame, Ans
    <3> QED
      BY <2>1, <3>1, <3>2, Zenon DEF SeenInv, AckQueueSame
  <2>5. CASE NrHandoff(n)
    <3>1. /\ spc[n] = "select" /\ spc'[n] \in {"select", "ack"} /\ UNCHANGED <<xmit, ackQueue, sentLog>>
          /\ seenNr'[n] = IF pend[n].anr > seenNr[n] THEN pend[n].anr ELSE seenNr[n]
          /\ spc'[n] = "ack" => nri'[n] = pend[n] /\ pend[n] # NoNr /\ HeadIsAcked(n, pend[n].nr, ackQueue[n])
          /\ spc'[n] # "ack" => ~(pend[n] # NoNr /\ HeadIsAcked(n, pend[n].nr, ackQueue[n]))
      <4>1. /\ spc[n] = "select" /\ UNCHANGED <<xmit, ackQueue, sentLog>>
            /\ seenNr'[n] = IF pend[n].anr > seenNr[n] THEN pend[n].anr ELSE seenNr[n]
        BY <2>5, ZenonT(60) DEF NrHandoff, IndInv, TypeOK
      <4>2. CASE pend[n] # NoNr /\ HeadIsAcked(n, pend[n].nr, ackQueue[n])
        <5>1. spc'[n] = "ack" /\ nri'[n] = pend[n]
          BY <2>5, <4>2, ZenonT(60) DEF NrHandoff, IndInv, TypeOK
        <5> QED
          BY <4>1, <4>2, <5>1, ZenonT(60)
      <4>3. CASE ~(pend[n] # NoNr /\ HeadIsAcked(n, pend[n].nr, ackQueue[n]))
        <5>1. spc'[n] = "select"
          BY <2>5, <4>3, Zenon DEF NrHandoff, EndOfNr, IndInv, TypeOK
        <5> QED
          BY <4>1, <4>3, <5>1, Zenon
      <4> QED
        BY <4>2, <4>3, ZenonT(60)
    <3>2. Ans(n, 1)' = Ans(n, 1) /\ pend[n].anr <= Len(rcvdLog[Peer(n)])
      <4>1. pend[n] = NoNr => pend[n].anr = 0
        BY SMTT(60) DEF NoNr
      <4>2. Len(rcvdLog[Peer(n)]) >= 0
        BY <2>1, SMTT(60)
      <4>3. pend[n].anr <= Len(rcvdLog[Peer(n)])
        <5>1. CASE pend[n] = NoNr
          BY <4>1, <4>2, <5>1, SMTT(60)
        <5>2. CASE pend[n] # NoNr
          BY <2>2, <5>2, Zenon DEF PendInv
        <5> QED
          BY <5>1, <5>2, Zenon
      <4> QED
        BY <3>1, <4>3, Zenon DEF Ans
    <3>3. seenNr'[n] <= Len(rcvdLog[Peer(n)])
      BY <2>1, <3>1, <3>2, ZenonT(60) DEF SeenInv
    <3>4. ASSUME spc'[n] = "ack" PROVE seenNr'[n] = nri'[n].anr
      <4>1. ackQueue[n] # <<>> /\ nri'[n] = pend[n]
        BY <3>1, <3>4, ZenonT(60) DEF HeadIsAcked
      <4>2. seenNr[n] <= Ans(n, 1)
        BY <3>1, <4>1, ZenonT(60) DEF SeenInv
      <4>3. Ans(n, 1) < pend[n].anr
        <5>1. AckInv(n)'
          BY <2>5, NrHandoffStep, ZenonT(60) DEF WireInv
        <5> QED
          BY <3>2, <3>4, <4>1, <5>1, Zenon DEF AckInv
      <4>4. seenNr'[n] = IF pend[n].anr > seenNr[n] THEN pend[n].anr ELSE seenNr[n]
        BY <3>1, Zenon
      <4>5. seenNr[n] \in Nat /\ pend[n].anr \in Nat /\ Ans(n, 1) \in Nat
        BY <2>1, <2>3, <4>1, Zenon
      <4>6. seenNr'[n] = pend[n].anr
        BY <4>2, <4>3, <4>4, <4>5, SMTT(60)
      <4> QED
        BY <4>1, <4>6, Zenon
    <3>5. ASSUME spc'[n] # "ack", ackQueue[n] # <<>> PROVE seenNr'[n] <= Ans(n, 1)
      <4>1. seenNr[n] <= Ans(n, 1)
        BY <3>1, <3>5, ZenonT(60) DEF SeenInv
      <4>2. pend[n].anr <= Ans(n, 1)
        <5>1. CASE pend[n] = NoNr
          <6>1. pend[n].anr = 0 /\ Ans(n, 1) \in Nat
            <7>1. NoNr.anr = 0
              BY SMTT(60) DEF NoNr
            <7> QED
              BY <2>3, <3>5, <5>1, <7>1, Zenon
          <6> QED
            BY <6>1, SMTT(60)
        <5>2. CASE pend[n] # NoNr
          <6> SUFFICES ASSUME Ans(n, 1) < pend[n].anr PROVE FALSE
            <7>1. Ans(n, 1) \in Nat /\ pend[n].anr \in Nat
              BY <2>1, <2>3, <3>5, Zenon
            <7> QED
              BY <7>1, SMTT(60)
          <6>1. seqCompare(pend[n].anr % SeqMod, xmit[n][ackQueue[n][1]].ns) > 0
            BY <2>1, <2>3, <3>1, <3>2, <3>5, AckRecognised, Zenon
          <6>2. pend[n].nr = pend[n].anr % SeqMod
            BY <2>2, <5>2, ZenonT(60) DEF PendInv
          <6> QED
            BY <2>3, <3>1, <3>5, <5>2, <6>1, <6>2, Zenon DEF HeadIsAcked
        <5> QED
          BY <5>1, <5>2, ZenonT(60)
      <4> QED
        BY <3>1, <4>1, <4>2, Zenon
    <3> QED
      BY <2>1, <3>1, <3>2, <3>3, <3>4, <3>5, Zenon DEF SeenInv
  <2>6. CASE AckOne(n)
    <3>1. /\ spc[n] = "ack" /\ ackQueue[n] # <<>> /\ spc'[n] \in {"ack", "tx", "select"}
          /\ ackQueue'[n] = Tail(ackQueue[n]) /\ UNCHANGED <<sentLog, seenNr>>
          /\ xmit'[n] = [xmit[n] EXCEPT ![Head(ackQueue[n])] = txComplete(@, "acked")]
      <4>1. spc'[n] \in {"ack", "tx", "select"}
        BY <2>6, ZenonT(60) DEF AckOne, EndOfNr, IndInv, TypeOK
      <4> QED
        BY <2>6, <4>1, Zenon DEF AckOne, IndInv, TypeOK, LocationInv, histVars
    <3>2. /\ spc'[n] = "ack" => nri'[n] = nri[n]
          /\ spc'[n] # "ack" => ~HeadIsAcked(n, nri[n].nr, Tail(ackQueue[n]))
      BY <2>6, ZenonT(60) DEF AckOne, EndOfNr, IndInv, TypeOK
    <3>3. seenNr[n] = nri[n].anr /\ seenNr[n] <= Len(rcvdLog[Peer(n)]) /\ nri[n].nr = nri[n].anr % SeqMod
      BY <2>2, <3>1, ZenonT(60) DEF SeenInv, AckInv
    <3>4. ASSUME spc'[n] # "ack", ackQueue'[n] # <<>> PROVE seenNr[n] <= Ans(n, 1)'
      <4>1. ackQueue'[n] \in Seq(AnyId) /\ Head(ackQueue'[n]) = ackQueue'[n][1]
        <5>1. ackQueue'[n] \in Seq(AnyId)
          BY <2>1, <3>1, TailFacts, Zenon
        <5> QED
          BY <3>4, <5>1, TailFacts, ZenonT(60)
      <4>2. PICK A \in Nat : A = Len(ackQueue[n]) /\ A > 1
        <5>1. Len(ackQueue[n]) \in Nat /\ Len(ackQueue'[n]) = Len(ackQueue[n]) - 1 /\ Len(ackQueue'[n]) > 0
          <6>1. ackQueue[n] \in Seq(AnyId) /\ ackQueue[n] # <<>> /\ ackQueue'[n] = Tail(ackQueue[n])
            BY <2>1, <3>1, Zenon
          <6>2. ackQueue'[n] \in Seq(AnyId) /\ ackQueue'[n] # <<>>
            BY <3>4, <4>1, Zenon
          <6> QED
            BY <6>1, <6>2, SMTT(60)
        <5> QED
          BY <5>1, SMTT(60)
      <4>3. 2 \in DOMAIN ackQueue[n] /\ ackQueue'[n][1] = ackQueue[n][2]
        <5>1. ackQueue[n] \in Seq(AnyId) /\ ackQueue[n] # <<>> /\ ackQueue'[n] = Tail(ackQueue[n])
          BY <2>1, <3>1, Zenon
        <5> QED
          BY <4>2, <5>1, SMTT(60)
      <4>4. Ans(n, 2) \in Nat /\ ackQueue[n][2] \in AnyId
        BY <4>3, AnsType, Zenon
      <4>5. Ans(n, 1)' = Ans(n, 2)
        <5>1. PICK h \in AnyId : h = Head(ackQueue[n])
          BY <2>3, <3>1, ZenonT(60)
        <5>2. xmit'[n] = [xmit[n] EXCEPT ![h] = txComplete(xmit[n][h], "acked")]
          BY <3>1, <5>1, ZenonT(60)
        <5>3. xmit'[n][ackQueue[n][2]].ans = xmit[n][ackQueue[n][2]].ans
          <6>1. txComplete(xmit[n][h], "acked").ans = xmit[n][h].ans
            BY <2>1, SameNumber, Zenon
          <6>2. xmit'[n][h] = txComplete(xmit[n][h], "acked") /\ \A i \in AnyId \ {h} : xmit'[n][i] = xmit[n][i]
            BY <2>1, <5>2, Zenon
          <6> QED
            BY <4>4, <6>1, <6>2, Zenon
        <5> QED
          BY <4>3, <5>3, ZenonT(60) DEF Ans
      <4> SUFFICES ASSUME Ans(n, 2) < nri[n].anr PROVE FALSE
        <5>1. nri[n].anr \in Nat /\ seenNr[n] = nri[n].anr
          BY <2>1, <3>3, Zenon
        <5> QED
          BY <4>4, <4>5, <5>1, SMTT(60)
      <4>6. seqCompare(nri[n].anr % SeqMod, xmit[n][ackQueue[n][2]].ns) > 0
        BY <2>1, <3>1, <3>3, <4>3, AckRecognised, Zenon
      <4> QED
        BY <3>1, <3>2, <3>3, <3>4, <4>1, <4>3, <4>6, Zenon DEF HeadIsAcked
    <3>5. spc'[n] # "sent" /\ seenNr'[n] = seenNr[n]
      BY <3>1, Zenon
    <3> QED
      BY <2>1, <3>2, <3>3, <3>4, <3>5, Zenon DEF SeenInv
  <2>7. CASE TxWrite(n)
    <3>1. txQueue[n] # <<>> /\ txQueue[n] \in Seq(AnyId) /\ spc[n] = "tx"
      BY <2>7, NodeTypes, ZenonT(60) DEF TxWrite, IndInv, LocationInv
    <3>2. PICK h \in AnyId : h = Head(txQueue[n]) /\ h = txQueue[n][1] /\ 1 \in DOMAIN txQueue[n]
      BY <3>1, SMTT(60)
    <3>3. /\ xmit'[n] = [xmit[n] EXCEPT ![h] = [xmit[n][h] EXCEPT !.ns = ss[n].ns, !.ans = Len(sentLog[n])]]
          /\ ackQueue'[n] = ackQueue[n] /\ seenNr'[n] = seenNr[n] /\ spc'[n] = "sent"
          /\ sentLog'[n] = Append(sentLog[n], h)
      BY <2>7, <3>2, ZenonT(60) DEF TxWrite, IndInv, TypeOK
    <3>4. ackQueue[n] # <<>> => Ans(n, 1)' = Ans(n, 1)
      <4> SUFFICES ASSUME ackQueue[n] # <<>> PROVE Ans(n, 1)' = Ans(n, 1)
        BY Zenon
      <4>1. h = accepted[n] - Len(txQueue[n]) + 1 /\ ackQueue[n][1] \in 1 .. accepted[n] - Len(txQueue[n])
        BY <2>2, <2>3, <3>2, ZenonT(60) DEF QueueInv
      <4>2. ackQueue[n][1] # h
        <5>1. accepted[n] \in Nat /\ Len(txQueue[n]) \in Nat
          BY NodeTypes, Zenon
        <5> QED
          BY <4>1, <5>1, SMTT(60)
      <4>3. xmit'[n][ackQueue[n][1]] = xmit[n][ackQueue[n][1]]
        <5>1. PICK a \in AnyId : a = ackQueue[n][1]
          BY <2>3, Zenon
        <5>2. xmit'[n][a] = xmit[n][a]
          BY <2>1, <3>3, <4>2, <5>1, Zenon
        <5> QED
          BY <5>1, <5>2, Zenon
      <4> QED
        BY <3>3, <4>3, Zenon DEF Ans
    <3>5. Len(sentLog'[n]) = Len(sentLog[n]) + 1
      <4>1. sentLog[n] \in Seq(AnyId)
        BY NodeTypes, Zenon
      <4> QED
        BY <3>3, <4>1, SMTT(60)
    <3>6. seenNr[n] <= Len(rcvdLog[Peer(n)]) /\ Len(rcvdLog[Peer(n)]) <= Len(sentLog[n])
      BY <2>2, Zenon DEF SeenInv, PrefixInv
    <3>7. seenNr[n] < Len(sentLog'[n])
      <4>1. seenNr[n] \in Nat /\ Len(rcvdLog[Peer(n)]) \in Nat /\ Len(sentLog[n]) \in Nat
        BY <2>1, Zenon
      <4> QED
        BY <3>5, <3>6, <4>1, SMTT(60)
    <3> QED
      BY <2>1, <3>1, <3>3, <3>4, <3>6, <3>7, Zenon DEF SeenInv
  <2>8. CASE Sent(n)
    <3>1. /\ spc[n] = "sent" /\ spc'[n] \in {"tx", "select"} /\ cur[n] \in AnyId
          /\ xmit'[n] = [xmit[n] EXCEPT ![cur[n]] = startRetryTimer(xmit[n][cur[n]])]
          /\ ackQueue'[n] = Append(ackQueue[n], cur[n]) /\ UNCHANGED <<seenNr, sentLog>>
      BY <2>8, ZenonT(60) DEF Sent, IndInv, TypeOK, histVars
    <3>2. \A i \in AnyId : xmit'[n][i].ans = xmit[n][i].ans
      <4>1. startRetryTimer(xmit[n][cur[n]]).ans = xmit[n][cur[n]].ans
        BY <2>1, <3>1, SameNumber, Zenon
      <4> QED
        BY <2>1, <3>1, <4>1, Zenon
    <3>3. xmit[n][cur[n]].ans = Len(sentLog[n]) - 1 /\ seenNr[n] < Len(sentLog[n])
      BY <2>2, <3>1, Zenon DEF CounterInv, SeenInv
    <3>4. seenNr[n] <= Ans(n, 1)'
      <4>1. CASE ackQueue[n] = <<>>
        <5>1. ackQueue'[n][1] = cur[n]
          BY <3>1, <4>1, SMTT(60)
        <5>2. Ans(n, 1)' = Len(sentLog[n]) - 1
          BY <3>1, <3>2, <3>3, <5>1, Zenon DEF Ans
        <5>3. seenNr[n] \in Nat /\ Len(sentLog[n]) \in Nat
          BY <2>1, Zenon
        <5> QED
          BY <3>3, <5>2, <5>3, SMTT(60)
      <4>2. CASE ackQueue[n] # <<>>
        <5>1. ackQueue'[n][1] = ackQueue[n][1]
          <6>1. ackQueue[n] \in Seq(AnyId) /\ cur[n] \in AnyId /\ ackQueue'[n] = Append(ackQueue[n], cur[n])
            BY <2>1, <3>1, Zenon
          <6> QED
            BY <4>2, <6>1, SMTT(60)
        <5> QED
          BY <2>3, <3>1, <3>2, <4>2, <5>1, Zenon DEF Ans, SeenInv
      <4> QED
        BY <4>1, <4>2, ZenonT(60)
    <3> QED
      BY <2>1, <3>1, <3>4, ZenonT(60) DEF SeenInv
  <2>9. CASE HelloWrite(n) \/ SentHello(n)
    BY <2>9, Zenon DEF HelloWrite, SentHello, NoHelloInv
  <2>10. CASE DownDone(n)
    <3>1. spc'[n] = "exited" /\ ackQueue'[n] = <<>> /\ seenNr' = seenNr
      BY <2>10, ZenonT(60) DEF DownDone, IndInv, TypeOK, histVars
    <3> QED
      BY <2>1, <3>1, Zenon DEF SeenInv
  <2> QED
    BY <2>4, <2>5, <2>6, <2>7, <2>8, <2>9, <2>10, Zenon DEF MovesAckQueue
<1> SUFFICES ASSUME HelloNodes = {}, TxWindowSize < SeqHalf PROVE Spec => []AckedInv
  BY Zenon
<1>1. Init => AckedInv
  <2> SUFFICES ASSUME Init, NEW n \in Node PROVE NoHelloInv(n) /\ ArmedInv(n) /\ SeenInv(n)
    BY Zenon DEF AckedInv
  <2>1. /\ ~helloTimer[n] /\ ~helloInFlight[n] /\ spc[n] = "select" /\ ackQueue[n] = <<>>
        /\ \A i \in AnyId : xmit[n][i] = NewXmitMsg
        /\ seenNr[n] = 0 /\ rcvdLog[Peer(n)] = <<>>
    BY Peers, Zenon DEF Init
  <2> QED
    <3>1. NewXmitMsg.timer = "off" /\ Len(<<>>) = 0 /\ 0 <= 0
      BY SMTT(60) DEF NewXmitMsg
    <3> QED
      <4>1. NoHelloInv(n)
        <5>1. Hello \in AnyId
          BY Constants, Zenon
        <5> QED
          BY <2>1, <3>1, <5>1, Zenon DEF NoHelloInv
      <4>2. ArmedInv(n)
        BY <2>1, <3>1, Zenon DEF ArmedInv
      <4>3. SeenInv(n)
        BY <2>1, <3>1, Zenon DEF SeenInv
      <4> QED
        BY <4>1, <4>2, <4>3, Zenon
<1>2. IndInv /\ IndInv' /\ WindowInv /\ SeqInv /\ AckedInv /\ [Next]_vars => AckedInv'
  <2> SUFFICES ASSUME IndInv, IndInv', WindowInv, SeqInv, AckedInv, [Next]_vars,
                      NEW n \in Node
               PROVE  NoHelloInv(n)' /\ ArmedInv(n)' /\ SeenInv(n)'
    BY Zenon DEF AckedInv
  <2>1. NoHelloInv(n) /\ ArmedInv(n) /\ SeenInv(n) /\ QueueInv(n)
    BY Zenon DEF AckedInv, SeqInv, SenderInv
  <2>2. PICK m \in Node : m = Peer(n) /\ m # n /\ Peer(m) = n /\ \A k \in Node : k = n \/ k = m
    BY Peers, Zenon
  <2>3. CASE Step(n)
    <3>1. NoHelloInv(n)'
      BY <2>1, <2>3, <1>NoHelloStep, Zenon
    <3>2. ArmedInv(n)'
      BY <2>1, <2>3, <1>ArmedStep, Zenon
    <3>3. SeenInv(n)'
      BY <2>1, <2>3, <1>SeenStep, Zenon
    <3> QED
      BY <3>1, <3>2, <3>3, Zenon
  <2>4. ASSUME Unmoved(n), Grown(rcvdLog[m], rcvdLog'[m])
        PROVE  NoHelloInv(n)' /\ ArmedInv(n)' /\ SeenInv(n)'
    <3>1. NoHelloInv(n)' /\ ArmedInv(n)'
      <4>1. NoHelloInv(n)'
        BY <2>1, <2>4, Zenon DEF Unmoved, NoHelloInv
      <4>2. ArmedInv(n)'
        BY <2>1, <2>4, Zenon DEF Unmoved, ArmedInv, Elements
      <4> QED
        BY <4>1, <4>2, Zenon
    <3>2. Len(rcvdLog'[m]) \in Nat /\ Len(rcvdLog[m]) \in Nat /\ seenNr[n] \in Nat
      <4>1. rcvdLog' \in [Node -> Seq(AnyId)]
        BY ZenonT(60) DEF IndInv, TypeOK
      <4>2. seenNr \in [Node -> Nat]
        BY ZenonT(60) DEF IndInv, TypeOK
      <4> QED
        BY <4>1, <4>2, NodeTypes, SMTT(60)
    <3>3. /\ seenNr'[n] = seenNr[n] /\ spc'[n] = spc[n] /\ sentLog'[n] = sentLog[n] /\ nri'[n] = nri[n]
          /\ ackQueue'[n] = ackQueue[n] /\ Ans(n, 1)' = Ans(n, 1)
      BY <2>4, Zenon DEF Unmoved, Ans
    <3>4. seenNr[n] <= Len(rcvdLog'[m])
      <4>1. seenNr[n] <= Len(rcvdLog[m]) /\ Len(rcvdLog[m]) <= Len(rcvdLog'[m])
        BY <2>1, <2>2, <2>4, Zenon DEF SeenInv, Grown
      <4> QED
        BY <3>2, <4>1, SMTT(60)
    <3>5. SeenInv(n)'
      BY ONLY <2>1, <2>2, <3>3, <3>4, Zenon DEF SeenInv
    <3> QED
      BY <3>1, <3>5, ZenonT(60)
  <2>5. CASE Step(m)
    <3>1. Unmoved(n)
      BY <2>2, <2>5, OneMoves, Zenon DEF Step
    <3>2. Grown(rcvdLog[m], rcvdLog'[m])
      BY <2>2, <2>5, LogsGrow, Zenon DEF Step
    <3> QED
      BY <2>4, <3>1, <3>2, Zenon
  <2>6. CASE UNCHANGED vars
    <3>1. Unmoved(n) /\ Grown(rcvdLog[m], rcvdLog'[m])
      <4>1. Unmoved(n) /\ rcvdLog' = rcvdLog
        BY <2>6, ZenonT(60) DEF vars, senderVars, timerVars, rxVars, userVars, histVars, Unmoved
      <4> QED
        <5>1. rcvdLog[m] \in Seq(AnyId) /\ rcvdLog'[m] = rcvdLog[m]
          BY <4>1, NodeTypes, Zenon
        <5> QED
          BY <4>1, <5>1, SMTT(60) DEF Grown
    <3> QED
      BY <2>4, <3>1, ZenonT(60)
  <2> QED
    BY <2>2, <2>3, <2>5, <2>6, Zenon DEF Next, Step
<1> QED
  BY <1>1, <1>2, Induction, WindowCorrect, SeqInduction, PTL DEF Spec

(* retransmitMessage is never reached with a message that an nr the sender *)
(* goroutine has processed acks, although the retry timer may have fired   *)
(* before: for every window below half the sequence space, without a       *)
(* HelloTimeout.                                                           *)
THEOREM AckedNotResent ==
    HelloNodes = {} /\ TxWindowSize < SeqHalf => (Spec => AckedNeverRetransmitted)
(* Only retransmitMessage counts a retry of message i.                     *)
<1>RetryOnly.
    ASSUME IndInv, NEW n \in Node, Step(n), NEW i \in AnyId, ~Retransmit(n, i), ~RetryFail(n, i)
    PROVE  ~(xmit'[n][i].nretries > xmit[n][i].nretries)
  <2> USE <1>RetryOnly
  <2>1. xmit \in [Node -> [AnyId -> XmitMsg]] /\ xmit[n][i].nretries \in Nat
    <3>1. xmit \in [Node -> [AnyId -> XmitMsg]]
      BY Zenon DEF IndInv, TypeOK
    <3>2. PICK m \in XmitMsg : m = xmit[n][i]
      BY <3>1, Zenon
    <3>3. m.nretries \in Nat
      BY SMTT(60) DEF XmitMsg
    <3> QED
      BY <3>1, <3>2, <3>3, Zenon
  <2>2. ASSUME NEW m \in XmitMsg
        PROVE  /\ \A r : txComplete(m, r).nretries = m.nretries
               /\ startRetryTimer(m).nretries = m.nretries
               /\ \A t : [m EXCEPT !.timer = t].nretries = m.nretries
               /\ \A x, y : [m EXCEPT !.ns = x, !.ans = y].nretries = m.nretries
    <3>1. \A r : txComplete(m, r).nretries = m.nretries
      BY Zenon DEF txComplete, XmitMsg
    <3> QED
      BY <3>1, Zenon DEF startRetryTimer, XmitMsg
  <2>3. CASE xmit'[n][i].nretries = xmit[n][i].nretries
    <3>1. PICK x \in Nat : x = xmit[n][i].nretries
      BY <2>1, Zenon
    <3>2. ~(x > x)
      BY SMTT(60)
    <3> QED
      BY <2>3, <3>1, <3>2, Zenon
  <2>4. CASE xmit' = xmit
    BY <2>3, <2>4, Zenon
  <2>e. ASSUME NEW j \in AnyId, NEW v, xmit'[n] = [xmit[n] EXCEPT ![j] = v],
               v.nretries = xmit[n][j].nretries
        PROVE  xmit'[n][i].nretries = xmit[n][i].nretries
    <3>1. xmit[n] \in [AnyId -> XmitMsg]
      BY <2>1, Zenon
    <3>2. CASE i = j
      <4>1. xmit'[n][i] = v
        BY <2>e, <3>1, <3>2, Zenon
      <4> QED
        BY <2>e, <3>2, <4>1, Zenon
    <3>3. CASE i # j
      <4>1. xmit'[n][i] = xmit[n][i]
        BY <2>e, <3>1, <3>3, Zenon
      <4> QED
        BY <4>1, Zenon
    <3> QED
      BY <3>2, <3>3, Zenon
  <2>5. CASE User(n) \/ Receiver(n)
    BY <2>4, <2>5, Zenon DEF User, Call, Close, UserRecv, Receiver, ReceiverBusy, Recv, RecvUnknownAvp, ReadFail,
                             RxAccept, RxDrop, senderVars
  <2>6. CASE SenderRetry(n)
    <3>1. PICK j \in AnyId : RetryIgnored(n, j) \/ Retransmit(n, j) \/ RetryFail(n, j)
      BY <2>6, ZenonT(60) DEF SenderRetry
    <3>2. CASE RetryIgnored(n, j)
      <4>1. xmit'[n] = [xmit[n] EXCEPT ![j] = [xmit[n][j] EXCEPT !.timer = "off"]]
        BY <2>1, <3>2, Zenon DEF RetryIgnored
      <4>2. [xmit[n][j] EXCEPT !.timer = "off"].nretries = xmit[n][j].nretries
        <5>1. PICK m \in XmitMsg : m = xmit[n][j]
          BY <2>1, Zenon
        <5>2. [m EXCEPT !.timer = "off"].nretries = m.nretries
          BY <2>2, Zenon
        <5> QED
          BY <5>1, <5>2, Zenon
      <4> QED
        BY <2>3, <2>e, <4>1, <4>2, Zenon
    <3>3. CASE i # j /\ (Retransmit(n, j) \/ RetryFail(n, j))
      <4>1. PICK v : xmit'[n] = [xmit[n] EXCEPT ![j] = v]
        BY <2>1, <3>3, Zenon DEF Retransmit, RetryFail
      <4>2. xmit'[n][i] = xmit[n][i]
        BY <2>1, <3>3, <4>1, Zenon
      <4> QED
        BY <2>3, <4>2, Zenon
    <3> QED
      BY <3>1, <3>2, <3>3, Zenon
  <2>7. CASE SenderSelect(n)
    <3>1. CASE HelloWrite(n)
      <4>1. [NewXmitMsg EXCEPT !.ns = ss[n].ns, !.ans = Len(sentLog[n])].nretries = 0
        BY Zenon DEF NewXmitMsg
      <4>2. xmit'[n][i].nretries = 0 \/ xmit'[n][i] = xmit[n][i]
        BY <2>1, <3>1, <4>1, ZenonT(60) DEF HelloWrite
      <4>3. ~(0 > xmit[n][i].nretries)
        BY <2>1, SMTT(60)
      <4> QED
        BY <2>3, <4>2, <4>3, Zenon
    <3> QED
      BY <2>4, <2>7, <3>1, Zenon DEF SenderSelect, Accept, Closed, NrHandoff, NrClosed, HelloIgnored,
                                     HelloWriteFail, ExplicitAck, ExplicitAckFail, senderVars
  <2>8. CASE SenderBusy(n)
    <3>q. \A q \in Seq(AnyId) : q # <<>> => Head(q) \in AnyId
      BY TailFacts, Zenon
    <3>1. CASE TxWrite(n)
      <4>1. PICK h \in AnyId : h = Head(txQueue[n])
        <5>1. txQueue[n] # <<>>
          BY <3>1, Zenon DEF TxWrite, IndInv, LocationInv
        <5> QED
          BY <3>q, <5>1, NodeTypes, Zenon
      <4>2. xmit'[n] = [xmit[n] EXCEPT ![h] = [xmit[n][h] EXCEPT !.ns = ss[n].ns, !.ans = Len(sentLog[n])]]
        BY <2>1, <3>1, <4>1, Zenon DEF TxWrite
      <4>3. [xmit[n][h] EXCEPT !.ns = ss[n].ns, !.ans = Len(sentLog[n])].nretries = xmit[n][h].nretries
        <5>1. PICK m \in XmitMsg : m = xmit[n][h]
          BY <2>1, Zenon
        <5>2. \A x, y : [m EXCEPT !.ns = x, !.ans = y].nretries = m.nretries
          BY <2>2, Zenon
        <5> QED
          BY <5>1, <5>2, Zenon
      <4> QED
        BY <2>3, <2>e, <4>2, <4>3, Zenon
    <3>2. CASE TxWriteFail(n)
      <4>1. PICK h \in AnyId : h = Head(txQueue[n])
        <5>1. txQueue[n] # <<>>
          BY <3>2, Zenon DEF TxWriteFail, IndInv, LocationInv
        <5> QED
          BY <3>q, <5>1, NodeTypes, Zenon
      <4>2. xmit'[n] = [xmit[n] EXCEPT ![h] = txComplete(xmit[n][h], "failed")]
        BY <2>1, <3>2, <4>1, Zenon DEF TxWriteFail
      <4>3. txComplete(xmit[n][h], "failed").nretries = xmit[n][h].nretries
        BY <2>1, <2>2, Zenon
      <4> QED
        BY <2>3, <2>e, <4>2, <4>3, Zenon
    <3>3. CASE Sent(n) \/ SentHello(n)
      <4>1. PICK c \in AnyId : c = cur[n]
        BY Zenon DEF IndInv, TypeOK
      <4>2. xmit'[n] = [xmit[n] EXCEPT ![c] = startRetryTimer(xmit[n][c])]
        BY <2>1, <3>3, <4>1, Zenon DEF Sent, SentHello
      <4>3. startRetryTimer(xmit[n][c]).nretries = xmit[n][c].nretries
        BY <2>1, <2>2, Zenon
      <4> QED
        BY <2>3, <2>e, <4>2, <4>3, Zenon
    <3>5. CASE AckOne(n)
      <4>1. PICK h \in AnyId : h = Head(ackQueue[n])
        <5>1. ackQueue[n] # <<>>
          BY <3>5, Zenon DEF AckOne, IndInv, LocationInv
        <5> QED
          BY <3>q, <5>1, NodeTypes, Zenon
      <4>2. xmit'[n] = [xmit[n] EXCEPT ![h] = txComplete(xmit[n][h], "acked")]
        BY <2>1, <3>5, <4>1, Zenon DEF AckOne
      <4>3. txComplete(xmit[n][h], "acked").nretries = xmit[n][h].nretries
        BY <2>1, <2>2, Zenon
      <4> QED
        BY <2>3, <2>e, <4>2, <4>3, Zenon
    <3>6. CASE Drain(n)
      BY <2>4, <3>6, Zenon DEF Drain, senderVars
    <3>7. CASE DownDone(n)
      <4>1. xmit'[n][i] \in {xmit[n][i], txComplete(xmit[n][i], "failed")}
        BY <2>1, <3>7, Zenon DEF DownDone
      <4>2. txComplete(xmit[n][i], "failed").nretries = xmit[n][i].nretries
        BY <2>1, <2>2, Zenon
      <4>3. xmit'[n][i].nretries = xmit[n][i].nretries
        BY <4>1, <4>2, Zenon
      <4> QED
        BY <2>3, <4>3, Zenon
    <3> QED
      BY <2>8, <3>1, <3>2, <3>3, <3>5, <3>6, <3>7, Zenon DEF SenderBusy
  <2>9. CASE Timers(n)
    <3>1. CASE AckTimerFires(n)
      BY <2>4, <3>1, ZenonT(60) DEF AckTimerFires, senderVars
    <3>2. ASSUME NEW j \in AnyId, RetryTimerFires(n, j) PROVE xmit'[n][i].nretries = xmit[n][i].nretries
      <4>1. xmit'[n] = [xmit[n] EXCEPT ![j] = [xmit[n][j] EXCEPT !.timer = "fired"]]
        BY <2>1, <3>2, Zenon DEF RetryTimerFires
      <4>2. [xmit[n][j] EXCEPT !.timer = "fired"].nretries = xmit[n][j].nretries
        <5>1. PICK m \in XmitMsg : m = xmit[n][j]
          BY <2>1, Zenon
        <5>2. [m EXCEPT !.timer = "fired"].nretries = m.nretries
          BY <2>2, Zenon
        <5> QED
          BY <5>1, <5>2, Zenon
      <4> QED
        BY <2>e, <4>1, <4>2, Zenon
    <3> QED
      BY <2>3, <2>9, <3>1, <3>2, Zenon DEF Timers
  <2> QED
    BY <2>5, <2>6, <2>7, <2>8, <2>9, Zenon DEF Step
<1> SUFFICES ASSUME HelloNodes = {}, TxWindowSize < SeqHalf PROVE Spec => AckedNeverRetransmitted
  BY Zenon
<1> DEFINE Quiet == \A n \in Node : \A i \in AnyId :
                      xmit'[n][i].nretries > xmit[n][i].nretries => seenNr[n] <= xmit[n][i].ans
<1>1. IndInv /\ SeqInv /\ AckedInv /\ [Next]_vars => [Quiet]_vars
  <2> SUFFICES ASSUME IndInv, SeqInv, AckedInv, Next, NEW n \in Node, NEW i \in AnyId,
                      xmit'[n][i].nretries > xmit[n][i].nretries
               PROVE  seenNr[n] <= xmit[n][i].ans
    BY Zenon
  <2>1. PICK k \in Node : Step(k)
    BY Zenon DEF Next, Step
  <2>2. k = n
    <3> SUFFICES ASSUME k # n PROVE FALSE
      BY Zenon
    <3>1. xmit'[n] = xmit[n]
      BY <2>1, OneMoves, ZenonT(60) DEF Step, Unmoved
    <3>2. PICK m \in XmitMsg : m = xmit[n][i]
      BY ZenonT(60) DEF IndInv, TypeOK
    <3>3. ~(m.nretries > m.nretries)
      BY SMTT(60) DEF XmitMsg
    <3> QED
      BY <3>1, <3>2, <3>3, Zenon
  <2>3. Retransmit(n, i) \/ RetryFail(n, i)
    BY <2>1, <2>2, <1>RetryOnly, Zenon
  <2>4. spc[n] = "select" /\ xmit[n][i].timer = "fired" /\ xmit[n][i].result = "none"
    BY <2>3, Zenon DEF Retransmit, RetryFail, isComplete
  <2>5. i \in Elements(ackQueue[n])
    BY <2>4, Zenon DEF AckedInv, ArmedInv
  <2>6. PICK j \in DOMAIN ackQueue[n] : ackQueue[n][j] = i
    BY <2>5, Zenon DEF Elements
  <2>7. /\ DOMAIN ackQueue[n] = 1 .. Len(ackQueue[n]) /\ Len(ackQueue[n]) \in Nat /\ ackQueue[n] # <<>>
        /\ 1 \in DOMAIN ackQueue[n]
    <3>1. ackQueue[n] \in Seq(AnyId)
      BY NodeTypes, Zenon
    <3> QED
      BY <2>6, <3>1, SMTT(60)
  <2>8. seenNr[n] <= Ans(n, 1)
    BY <2>4, <2>7, Zenon DEF AckedInv, SeenInv
  <2>9. Ans(n, 1) <= Ans(n, j)
    <3>1. CASE j = 1
      <4>1. Ans(n, j) \in Nat
        BY <2>7, AnsType, Zenon
      <4> QED
        BY <3>1, <4>1, SMTT(60)
    <3>2. CASE j # 1
      <4>1. 1 < j
        BY <2>7, <3>2, SMTT(60)
      <4>2. Ans(n, 1) < Ans(n, j)
        BY <2>7, <4>1, ZenonT(60) DEF SeqInv, SenderInv, GapInv
      <4> QED
        <5>1. Ans(n, j) \in Nat /\ Ans(n, 1) \in Nat
          BY <2>7, AnsType, Zenon
        <5> QED
          BY <4>2, <5>1, SMTT(60)
    <3> QED
      BY <3>1, <3>2, Zenon
  <2>10. Ans(n, 1) \in Nat /\ Ans(n, j) \in Nat /\ seenNr[n] \in Nat /\ Ans(n, j) = xmit[n][i].ans
    <3>1. seenNr[n] \in Nat
      BY Zenon DEF IndInv, TypeOK
    <3> QED
      BY <2>6, <2>7, <3>1, AnsType, ZenonT(60) DEF Ans
  <2> QED
    BY <2>8, <2>9, <2>10, SMTT(60)
<1> QED
  BY <1>1, Induction, SeqInduction, AckedInduction, PTL DEF Spec, AckedNeverRetransmitted
=============================================================================
