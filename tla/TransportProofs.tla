-------------------------- MODULE TransportProofs --------------------------
(***************************************************************************)
(* Proofs about Transport for every window, retry limit, sequence space    *)
(* and number of messages.                                                 *)
(***************************************************************************)
EXTENDS Transport, TLAPS
-----------------------------------------------------------------------------

(* The inductive invariant.                                                *)

(* What each program location of the two goroutines knows about the queues:*)
(* the loop tests have been made, and nothing has undone them since.       *)
LocationInv ==
    \A n \in Node :
        /\ spc[n] = "tx" => txQueue[n] # <<>> /\ canSend(ss[n])
        /\ spc[n] = "ack" => ackQueue[n] # <<>>
        /\ spc[n] = "sent" /\ cur[n] # Hello => canSend(ss[n])
        /\ rpc[n] = "rx" => rxQueue[n] # <<>>

(* Calls of send() are counted once.                                       *)
CallInv == \A n \in Node : blocked[n] + accepted[n] <= Sends[n]

IndInv == TypeOK /\ CallInv /\ LocationInv
-----------------------------------------------------------------------------

(* Operators of SlowStart.                                                 *)

(* sanitiseConfig never leaves a window of zero.                           *)
LEMMA WindowPositive == TxWindowSize \in Nat /\ TxWindowSize > 0
  BY TxWindowAssumption DEF TxWindowSize

(* seqIncrement stays inside the sequence space.                           *)
LEMMA SeqIncrementType == \A s \in SeqNum : seqIncrement(s) \in SeqNum
  BY SeqModAssumption DEF SeqNum, seqIncrement

(* The fields a slowStartState has after its methods.                      *)
SameWindow(s, t) == t.cwnd = s.cwnd /\ t.thresh = s.thresh /\ t.nacks = s.nacks /\ t.ntx = s.ntx

(* incrementNs and incrementNr wrap and leave the window alone.            *)
LEMMA Increments ==
    ASSUME NEW s \in SlowStartState
    PROVE  /\ incrementNs(s) \in SlowStartState /\ SameWindow(s, incrementNs(s))
           /\ incrementNr(s) \in SlowStartState /\ SameWindow(s, incrementNr(s))
<1>1. s.ns \in SeqNum /\ s.nr \in SeqNum
  BY Zenon DEF SlowStartState
<1>2. seqIncrement(s.ns) \in SeqNum /\ seqIncrement(s.nr) \in SeqNum
  BY <1>1, SeqIncrementType, Zenon
<1> QED
  BY <1>2, Zenon DEF incrementNs, incrementNr, SlowStartState, SameWindow

(* onSend only counts.                                                     *)
LEMMA OnSend ==
    ASSUME NEW s \in SlowStartState
    PROVE  /\ onSend(s) \in SlowStartState
           /\ onSend(s).cwnd = s.cwnd /\ onSend(s).thresh = s.thresh
           /\ onSend(s).nacks = s.nacks /\ onSend(s).ntx = s.ntx + 1
  BY DEF onSend, SlowStartState

(* onAck with a message outstanding: the fields it leaves.                 *)
LEMMA OnAck ==
    ASSUME NEW s \in SlowStartState, s.ntx # 0
    PROVE  /\ onAck(s) \in SlowStartState
           /\ onAck(s).cwnd = cwndOnAck(s) /\ onAck(s).thresh = s.thresh
           /\ onAck(s).nacks = nacksOnAck(s) /\ onAck(s).ntx = s.ntx - 1
<1> DEFINE x == s.ntx - 1
<1>1. x \in Nat
  BY DEF SlowStartState
<1>2. cwndOnAck(s) \in Nat /\ nacksOnAck(s) \in Nat
  BY DEF cwndOnAck, nacksOnAck, SlowStartState
<1>3. onAck(s) = [s EXCEPT !.cwnd = cwndOnAck(s), !.nacks = nacksOnAck(s), !.ntx = x]
  BY Zenon DEF onAck
<1> HIDE DEF x
<1>4. /\ onAck(s) \in SlowStartState
      /\ onAck(s).cwnd = cwndOnAck(s) /\ onAck(s).thresh = s.thresh
      /\ onAck(s).nacks = nacksOnAck(s) /\ onAck(s).ntx = x
  BY <1>1, <1>2, <1>3, Zenon DEF SlowStartState
<1> QED
  BY <1>4, Zenon DEF x

(* onRetransmit: the fields it leaves.                                     *)
LEMMA OnRetransmit ==
    ASSUME NEW s \in SlowStartState
    PROVE  /\ onRetransmit(s) \in SlowStartState
           /\ onRetransmit(s).cwnd = 1 /\ onRetransmit(s).thresh = s.cwnd \div 2
           /\ onRetransmit(s).nacks = s.nacks /\ onRetransmit(s).ntx = s.ntx
<1>1. s.cwnd \div 2 \in Nat
  <2>1. s.cwnd \in Nat
    BY Zenon DEF SlowStartState
  <2>2. \A c \in Nat : c \div 2 \in Nat
    OBVIOUS
  <2> QED
    BY <2>1, <2>2, Zenon
<1>2. ASSUME NEW h \in Nat, NEW one \in Nat
      PROVE  LET t == [s EXCEPT !.thresh = h, !.cwnd = one]
             IN  t \in SlowStartState /\ t.cwnd = one /\ t.thresh = h
                   /\ t.nacks = s.nacks /\ t.ntx = s.ntx
  BY Zenon DEF SlowStartState
<1>3. 1 \in Nat
  BY Zenon
<1> QED
  BY <1>1, <1>2, <1>3, Zenon DEF onRetransmit
-----------------------------------------------------------------------------

(* Type correctness.                                                       *)

(* Facts about the constants and the values built from them.               *)
LEMMA Constants ==
    /\ Hello \in AnyId /\ 0 \in SeqNum /\ NoNr \in NrInd
    /\ \A n \in Node : Peer(n) \in Node /\ Sends[n] \in Nat /\ MsgId(n) \subseteq AnyId
    /\ AnyId \subseteq Nat /\ NewXmitMsg \in XmitMsg
<1>1. 0 \in SeqNum
  BY SeqModAssumption DEF SeqNum
<1>2. \A n \in Node : Peer(n) \in Node /\ Sends[n] \in Nat /\ MsgId(n) \subseteq AnyId
  BY TransportAssumption, Zenon DEF Node, Peer, AnyId
<1>3. Hello \in AnyId /\ AnyId \subseteq Nat
  BY <1>2 DEF Hello, AnyId, MsgId, Node
<1> QED
  BY <1>1, <1>2, <1>3, Zenon DEF NoNr, NrInd, NewXmitMsg, XmitMsg

(* What the operations on an xmitMsg return.                               *)
LEMMA XmitMsgType ==
    ASSUME NEW m \in XmitMsg
    PROVE  /\ startRetryTimer(m) \in XmitMsg
           /\ \A r \in {"acked", "failed"} : txComplete(m, r) \in XmitMsg
           /\ \A t \in {"off", "fired"} : [m EXCEPT !.timer = t] \in XmitMsg
           /\ \A x \in SeqNum, y \in Nat : [m EXCEPT !.ns = x, !.ans = y] \in XmitMsg
           /\ retryTaken(m) \in XmitMsg
<1>1. ASSUME NEW r \in {"acked", "failed"} PROVE txComplete(m, r) \in XmitMsg
  <2>1. [m EXCEPT !.result = r, !.timer = "off"] \in XmitMsg
    BY Zenon DEF XmitMsg
  <2>2. [m EXCEPT !.result = r, !.timer = m.timer] \in XmitMsg
    BY Zenon DEF XmitMsg
  <2> QED
    BY <2>1, <2>2, Zenon DEF txComplete, XmitMsg
<1>2. startRetryTimer(m) \in XmitMsg
  BY Zenon DEF startRetryTimer, XmitMsg
<1>3. \A t \in {"off", "fired"} : [m EXCEPT !.timer = t] \in XmitMsg
  BY Zenon DEF XmitMsg
<1>4. \A x \in SeqNum, y \in Nat : [m EXCEPT !.ns = x, !.ans = y] \in XmitMsg
  BY Zenon DEF XmitMsg
<1>5. retryTaken(m) \in XmitMsg
  <2>1. m.nretries + 1 \in Nat
    BY DEF XmitMsg
  <2>2. \A r \in Nat : [m EXCEPT !.nretries = r, !.timer = "off"] \in XmitMsg
    BY Zenon DEF XmitMsg
  <2> QED
    BY <2>1, <2>2, Zenon DEF retryTaken
<1> QED
  BY <1>1, <1>2, <1>3, <1>4, <1>5, Zenon

(* The xmitMsg of a message, and its replacement by another.               *)
LEMMA XmitType ==
    ASSUME TypeOK, NEW n \in Node, NEW i \in AnyId
    PROVE  /\ xmit[n][i] \in XmitMsg
           /\ \A m \in XmitMsg :
                 [xmit EXCEPT ![n][i] = m] \in [Node -> [AnyId -> XmitMsg]]
  BY DEF TypeOK

(* The number given to the message being accepted.                         *)
LEMMA NextId ==
    ASSUME IndInv, NEW n \in Node, Accept(n)
    PROVE  accepted[n] + 1 \in AnyId
<1>1. accepted[n] \in Nat /\ blocked[n] \in Nat /\ Sends[n] \in Nat
  BY Constants, Zenon DEF IndInv, TypeOK
<1>2. blocked[n] > 0 /\ blocked[n] + accepted[n] <= Sends[n]
  BY Zenon DEF Accept, IndInv, CallInv
<1>3. accepted[n] + 1 \in MsgId(n)
  BY <1>1, <1>2 DEF MsgId
<1> QED
  BY <1>3, Constants, Zenon

(* The inductive invariant holds in every reachable state.                 *)
LEMMA Induction == Spec => []IndInv
(* Every step preserves the types.                                         *)
<1>TypeStep. IndInv /\ [Next]_vars => TypeOK'
(* Where processRxQueue leaves the receiver.                               *)
  <2>RxLoopType. \A s, q : RxLoop(s, q) \in {"rx", "read"}
      BY Zenon DEF RxLoop
  (* sendMessage1 and sendExplicitAck write well-formed frames.              *)
  <2>FrameType.
      ASSUME TypeOK, NEW n \in Node, NEW i \in AnyId
      PROVE  /\ FrameOf(n, "ack", i, ss[n].ns, Len(sentLog[n])) \in Frame
             /\ \A r \in BOOLEAN : sendMessage1(n, i, r) \in Frame
    <3> USE <2>FrameType
    <3>1. ss[n].ns \in SeqNum /\ ss[n].nr \in SeqNum
      BY Zenon DEF TypeOK, SlowStartState
    <3>2. Len(sentLog[n]) \in Nat /\ Len(rcvdLog[n]) \in Nat
      BY DEF TypeOK
    <3>3. xmit[n][i].ns \in SeqNum /\ xmit[n][i].ans \in Nat
      BY XmitType, Zenon DEF XmitMsg
    <3>4. Peer(n) \in Node
      BY Constants, Zenon
    <3>5. ASSUME NEW t \in {"msg", "ack"}, NEW x \in SeqNum, NEW y \in Nat
          PROVE  FrameOf(n, t, i, x, y) \in Frame
      BY <3>1, <3>2, <3>4, Zenon DEF FrameOf, Frame
    <3> QED
      BY <3>1, <3>2, <3>3, <3>5, Zenon DEF sendMessage1
  (* The first half of down() keeps the types.                               *)
  <2>GoDownType.
      ASSUME TypeOK, NEW n \in Node, GoDown(n)
      PROVE  /\ spc' \in [Node -> {"select", "ack", "tx", "sent", "down", "exited"}]
             /\ cpOpen' \in [Node -> BOOLEAN]
             /\ nri' \in [Node -> NrInd]
    <3> USE <2>GoDownType
    <3>1. NoNr \in NrInd
      BY Constants, Zenon
    <3> QED
      BY <3>1, Zenon DEF TypeOK, GoDown
  (* toggleAckTimer and resetHelloTimer keep the types.                      *)
  <2>TimerType.
      ASSUME TypeOK, NEW n \in Node
      PROVE  /\ \A b \in BOOLEAN : toggleAckTimer(n, b) => ackTimer' \in [Node -> SUBSET {"running", "ticked"}]
             /\ resetHelloTimer(n) => helloTimer' \in [Node -> BOOLEAN]
    <3> USE <2>TimerType
    <3>1. ASSUME NEW b \in BOOLEAN, toggleAckTimer(n, b)
          PROVE  ackTimer' \in [Node -> SUBSET {"running", "ticked"}]
      BY <3>1, Zenon DEF TypeOK, toggleAckTimer
    <3>2. ASSUME resetHelloTimer(n) PROVE helloTimer' \in [Node -> BOOLEAN]
      <4>1. CASE n \in HelloNodes
        BY <3>2, <4>1, Zenon DEF TypeOK, resetHelloTimer
      <4>2. CASE n \notin HelloNodes
        BY <3>2, <4>2, Zenon DEF TypeOK, resetHelloTimer
      <4> QED
        BY <4>1, <4>2, Zenon
    <3> QED
      BY <3>1, <3>2, Zenon
  (* The end of the nrChan case keeps the types.                             *)
  <2>EndOfNrType.
      ASSUME TypeOK, NEW n \in Node, NEW t, EndOfNr(n, t)
      PROVE  /\ spc' \in [Node -> {"select", "ack", "tx", "sent", "down", "exited"}]
             /\ nri' \in [Node -> NrInd]
             /\ ackTimer' \in [Node -> SUBSET {"running", "ticked"}]
             /\ helloTimer' \in [Node -> BOOLEAN]
      BY <2>EndOfNrType, Constants, <2>TimerType, ZenonT(60) DEF TypeOK, EndOfNr
  <2> SUFFICES ASSUME IndInv, [Next]_vars PROVE TypeOK'
    BY Zenon
  <2> USE DEF IndInv
  <2>1. ASSUME NEW n \in Node, Call(n) PROVE TypeOK'
    BY <2>1, SMTT(60)
       DEF Call, TypeOK, senderVars, timerVars, rxVars, userVars, histVars
  <2>2. ASSUME NEW n \in Node, Close(n) PROVE TypeOK'
    BY <2>2, Zenon
       DEF Close, TypeOK, senderVars, timerVars, rxVars, userVars, histVars
  <2>3. ASSUME NEW n \in Node, UserRecv(n) PROVE TypeOK'
    BY <2>3, <2>RxLoopType, Zenon
       DEF UserRecv, TypeOK, senderVars, timerVars, rxVars, userVars, histVars
  <2>4. ASSUME NEW n \in Node, Accept(n) PROVE TypeOK'
    <3>1. accepted[n] + 1 \in AnyId
      BY <2>4, NextId, Zenon
    <3> QED
      BY <2>4, <3>1, SMTT(60)
         DEF Accept, TypeOK, senderVars, timerVars, rxVars, userVars, histVars
  <2>5. ASSUME NEW n \in Node, Closed(n) PROVE TypeOK'
    BY <2>5, <2>GoDownType, Zenon
       DEF Closed, TypeOK, senderVars, timerVars, rxVars, userVars, histVars
  <2>6. ASSUME NEW n \in Node, NrHandoff(n) PROVE TypeOK'
    <3>1. /\ spc' \in [Node -> {"select", "ack", "tx", "sent", "down", "exited"}]
          /\ nri' \in [Node -> NrInd]
          /\ ackTimer' \in [Node -> SUBSET {"running", "ticked"}]
          /\ helloTimer' \in [Node -> BOOLEAN]
      <4>1. CASE pend[n] # NoNr /\ HeadIsAcked(n, pend[n].nr, ackQueue[n])
        <5>1. /\ spc' = [spc EXCEPT ![n] = "ack"] /\ nri' = [nri EXCEPT ![n] = pend[n]]
              /\ UNCHANGED <<ackTimer, helloTimer>>
          BY <2>6, <4>1, Zenon DEF NrHandoff, timerVars
        <5> QED
          BY <5>1, Zenon DEF TypeOK
      <4>2. CASE ~(pend[n] # NoNr /\ HeadIsAcked(n, pend[n].nr, ackQueue[n]))
        BY <2>6, <4>2, <2>EndOfNrType, Zenon DEF NrHandoff
      <4> QED
        BY <4>1, <4>2, Zenon
    <3>2. pend' \in [Node -> NrInd] /\ seenNr' \in [Node -> Nat]
      <4>1. NoNr \in NrInd /\ pend[n].anr \in Nat
        BY Constants, Zenon DEF TypeOK, NrInd
      <4> QED
        BY <2>6, <4>1, Zenon DEF NrHandoff, TypeOK
    <3> QED
      BY <2>6, <2>RxLoopType, <3>1, <3>2, Zenon
         DEF NrHandoff, TypeOK, senderVars, timerVars, rxVars, userVars, histVars
  <2>7. ASSUME NEW n \in Node, NrClosed(n) PROVE TypeOK'
    BY <2>7, <2>GoDownType, Zenon
       DEF NrClosed, TypeOK, senderVars, timerVars, rxVars, userVars, histVars
  <2>8. ASSUME NEW n \in Node, HelloIgnored(n) PROVE TypeOK'
    BY <2>8, Zenon
       DEF HelloIgnored, TypeOK, senderVars, timerVars, rxVars, userVars, histVars
  <2>9. ASSUME NEW n \in Node, HelloWrite(n) PROVE TypeOK'
    <3>1. sendMessage1(n, Hello, FALSE) \in Frame
      BY <2>FrameType, Constants, Zenon
    <3>2. xmit' \in [Node -> [AnyId -> XmitMsg]]
      <4>1. ss[n].ns \in SeqNum /\ Len(sentLog[n]) \in Nat
        BY DEF TypeOK, SlowStartState
      <4> QED
        BY <2>9, <4>1, Constants, XmitMsgType, XmitType, Zenon DEF HelloWrite
    <3>3. sentLog' \in [Node -> Seq(AnyId)] /\ cur' \in [Node -> AnyId]
      <4>1. Hello \in AnyId
        BY Constants, Zenon
      <4> QED
        BY <2>9, <4>1 DEF HelloWrite, TypeOK
    <3> QED
      BY <2>9, <3>1, <3>2, <3>3, Zenon
         DEF HelloWrite, TypeOK, senderVars, timerVars, rxVars, userVars, histVars
  <2>10. ASSUME NEW n \in Node, HelloWriteFail(n) PROVE TypeOK'
    BY <2>10, <2>GoDownType, Zenon
       DEF HelloWriteFail, TypeOK, senderVars, timerVars, rxVars, userVars, histVars
  <2>11. ASSUME NEW n \in Node, ExplicitAck(n) PROVE TypeOK'
    <3>1. FrameOf(n, "ack", Hello, ss[n].ns, Len(sentLog[n])) \in Frame
      BY <2>FrameType, Constants, Zenon
    <3> QED
      BY <2>11, <3>1, Zenon
         DEF ExplicitAck, TypeOK, senderVars, timerVars, rxVars, userVars, histVars
  <2>12. ASSUME NEW n \in Node, ExplicitAckFail(n) PROVE TypeOK'
    BY <2>12, <2>GoDownType, Zenon
       DEF ExplicitAckFail, TypeOK, senderVars, timerVars, rxVars, userVars, histVars
  <2>13. ASSUME NEW n \in Node, TxWrite(n) PROVE TypeOK'
    <3>1. Head(txQueue[n]) \in AnyId /\ Tail(txQueue[n]) \in Seq(AnyId)
      BY <2>13 DEF TxWrite, TypeOK, LocationInv
    <3>2. sendMessage1(n, Head(txQueue[n]), FALSE) \in Frame
      BY <3>1, <2>FrameType, Zenon
    <3>3. xmit' \in [Node -> [AnyId -> XmitMsg]]
      <4>1. ss[n].ns \in SeqNum /\ Len(sentLog[n]) \in Nat
        BY DEF TypeOK, SlowStartState
      <4> QED
        BY <2>13, <3>1, <4>1, XmitMsgType, XmitType, Zenon DEF TxWrite
    <3>4. /\ sentLog' \in [Node -> Seq(AnyId)] /\ cur' \in [Node -> AnyId]
          /\ txQueue' \in [Node -> Seq(AnyId)] /\ net' \subseteq Frame
      <4>1. sentLog' \in [Node -> Seq(AnyId)] /\ cur' \in [Node -> AnyId]
        BY <2>13, <3>1 DEF TxWrite, TypeOK
      <4>2. txQueue' \in [Node -> Seq(AnyId)]
        BY <2>13, <3>1, Zenon DEF TxWrite, TypeOK
      <4>3. net' \subseteq Frame
        BY <2>13, <3>2, Zenon DEF TxWrite, TypeOK
      <4> QED
        BY <4>1, <4>2, <4>3, Zenon
    <3> QED
      BY <2>13, <3>1, <3>2, <3>3, <3>4, Zenon
         DEF TxWrite, TypeOK, senderVars, timerVars, rxVars, userVars, histVars
  <2>14. ASSUME NEW n \in Node, TxWriteFail(n) PROVE TypeOK'
    <3>1. Head(txQueue[n]) \in AnyId /\ Tail(txQueue[n]) \in Seq(AnyId)
      BY <2>14 DEF TxWriteFail, TypeOK, LocationInv
    <3>2. xmit' \in [Node -> [AnyId -> XmitMsg]]
      BY <2>14, <3>1, XmitMsgType, XmitType, ZenonT(60) DEF TxWriteFail
    <3> QED
      BY <2>14, <3>1, <3>2, <2>GoDownType, ZenonT(60)
         DEF TxWriteFail, TypeOK, senderVars, timerVars, rxVars, userVars, histVars
  <2>15. ASSUME NEW n \in Node, Sent(n) PROVE TypeOK'
    <3>1. onSend(incrementNs(ss[n])) \in SlowStartState
      BY OnSend, Increments, Zenon DEF TypeOK
    <3>2. xmit' \in [Node -> [AnyId -> XmitMsg]]
      <4>1. cur[n] \in AnyId
        BY Zenon DEF TypeOK
      <4> QED
        BY <2>15, <4>1, XmitMsgType, XmitType, Zenon DEF Sent
    <3>3. ackTimer' \in [Node -> SUBSET {"running", "ticked"}] /\ helloTimer' \in [Node -> BOOLEAN]
      BY <2>15, <2>TimerType, Zenon DEF Sent
    <3>4. nri' \in [Node -> NrInd] /\ ackQueue' \in [Node -> Seq(AnyId)]
      <4>1. NoNr \in NrInd
        BY Constants, Zenon
      <4> QED
        BY <2>15, <4>1 DEF Sent, TypeOK
    <3> QED
      BY <2>15, <3>1, <3>2, <3>3, <3>4, Zenon
         DEF Sent, TypeOK, senderVars, timerVars, rxVars, userVars, histVars
  <2>16. ASSUME NEW n \in Node, SentHello(n) PROVE TypeOK'
    <3>1. incrementNs(ss[n]) \in SlowStartState
      BY Increments, Zenon DEF TypeOK
    <3>2. xmit' \in [Node -> [AnyId -> XmitMsg]]
      BY <2>16, Constants, XmitMsgType, XmitType, ZenonT(60) DEF SentHello
    <3> QED
      BY <2>16, <3>1, <3>2, <2>TimerType, Zenon
         DEF SentHello, TypeOK, senderVars, timerVars, rxVars, userVars, histVars
  <2>17. ASSUME NEW n \in Node, AckOne(n) PROVE TypeOK'
    <3>1. Head(ackQueue[n]) \in AnyId /\ Tail(ackQueue[n]) \in Seq(AnyId)
      BY <2>17 DEF AckOne, TypeOK, LocationInv
    <3>2. onAck(ss[n]) \in SlowStartState
      BY OnAck, ZenonT(60) DEF TypeOK, onAck, SlowStartState
    <3>3. xmit' \in [Node -> [AnyId -> XmitMsg]]
      BY <2>17, <3>1, XmitMsgType, XmitType, ZenonT(60) DEF AckOne
    <3> QED
      BY <2>17, <3>1, <3>2, <3>3, <2>EndOfNrType, ZenonT(60)
         DEF AckOne, TypeOK, senderVars, timerVars, rxVars, userVars, histVars
  <2>18. ASSUME NEW n \in Node, Drain(n) PROVE TypeOK'
    BY <2>18, <2>RxLoopType, Constants, Zenon
       DEF Drain, TypeOK, senderVars, timerVars, rxVars, userVars, histVars
  <2>19. ASSUME NEW n \in Node, DownDone(n) PROVE TypeOK'
    <3>1. xmit' \in [Node -> [AnyId -> XmitMsg]]
      BY <2>19, XmitMsgType, XmitType, ZenonT(60) DEF DownDone, TypeOK
    <3>2. /\ ackTimer' \in [Node -> SUBSET {"running", "ticked"}]
          /\ txQueue' \in [Node -> Seq(AnyId)] /\ ackQueue' \in [Node -> Seq(AnyId)]
      <4>1. ackTimer' \in [Node -> SUBSET {"running", "ticked"}]
        BY <2>19, <2>TimerType, Zenon DEF DownDone
      <4>2. txQueue' = [txQueue EXCEPT ![n] = <<>>] /\ ackQueue' = [ackQueue EXCEPT ![n] = <<>>]
        BY <2>19, Zenon DEF DownDone
      <4> QED
        BY <4>1, <4>2 DEF TypeOK
    <3> QED
      BY <2>19, <3>1, <3>2, Zenon
         DEF DownDone, TypeOK, senderVars, timerVars, rxVars, userVars, histVars
  <2>20. ASSUME NEW n \in Node, RecvUnknownAvp(n) PROVE TypeOK'
    BY <2>20, Zenon
       DEF RecvUnknownAvp, TypeOK, senderVars, timerVars, rxVars, userVars, histVars
  <2>21. ASSUME NEW n \in Node, ReadFail(n) PROVE TypeOK'
    BY <2>21, SMTT(60)
       DEF ReadFail, TypeOK, senderVars, timerVars, rxVars, userVars, histVars
  <2>22. ASSUME NEW n \in Node, RxAccept(n) PROVE TypeOK'
    <3>1. Head(rxQueue[n]).id \in AnyId /\ Tail(rxQueue[n]) \in Seq(Frame)
      <4>1. rxQueue[n] \in Seq(Frame) /\ rxQueue[n] # <<>>
        BY <2>22, Zenon DEF RxAccept, TypeOK, LocationInv
      <4>2. Head(rxQueue[n]) \in Frame /\ Tail(rxQueue[n]) \in Seq(Frame)
        BY <4>1
      <4> QED
        BY <4>2, Zenon DEF Frame
    <3>2. incrementNr(ss[n]) \in SlowStartState
      BY Increments, Zenon DEF TypeOK
    <3>3. rcvdLog' \in [Node -> Seq(AnyId)] /\ rxQueue' \in [Node -> Seq(Frame)]
      BY <2>22, <3>1, SMTT(60) DEF RxAccept, TypeOK
    <3> QED
      BY <2>22, <3>1, <3>2, <3>3, Zenon
         DEF RxAccept, TypeOK, senderVars, timerVars, rxVars, userVars, histVars
  <2>23. ASSUME NEW n \in Node, RxDrop(n) PROVE TypeOK'
    <3>1. Tail(rxQueue[n]) \in Seq(Frame)
      BY <2>23, SMTT(60) DEF RxDrop, TypeOK, LocationInv
    <3> QED
      BY <2>23, <2>RxLoopType, <3>1, Zenon
         DEF RxDrop, TypeOK, senderVars, timerVars, rxVars, userVars, histVars
  <2>24. ASSUME NEW n \in Node, AckTimerFires(n) PROVE TypeOK'
    BY <2>24, Zenon
       DEF AckTimerFires, TypeOK, senderVars, timerVars, rxVars, userVars, histVars
  <2>25. ASSUME NEW n \in Node, NEW i \in AnyId, RetryIgnored(n, i) PROVE TypeOK'
    <3>1. xmit' \in [Node -> [AnyId -> XmitMsg]]
      BY <2>25, XmitMsgType, XmitType, ZenonT(60) DEF RetryIgnored
    <3> QED
      BY <2>25, <3>1, Zenon
         DEF RetryIgnored, TypeOK, senderVars, timerVars, rxVars, userVars, histVars
  <2>26. ASSUME NEW n \in Node, NEW i \in AnyId, Retransmit(n, i) PROVE TypeOK'
    <3>1. xmit' \in [Node -> [AnyId -> XmitMsg]]
      <4>1. startRetryTimer(retryTaken(xmit[n][i])) \in XmitMsg
        BY XmitMsgType, XmitType, Zenon
      <4> QED
        BY <2>26, <4>1, XmitType, Zenon DEF Retransmit
    <3>2. sendMessage1(n, i, TRUE) \in Frame
      BY <2>FrameType, Zenon
    <3>3. onRetransmit(ss[n]) \in SlowStartState
      BY OnRetransmit, Zenon DEF TypeOK
    <3> QED
      BY <2>26, <3>1, <3>2, <3>3, <2>TimerType, Zenon
         DEF Retransmit, TypeOK, senderVars, timerVars, rxVars, userVars, histVars
  <2>27. ASSUME NEW n \in Node, NEW i \in AnyId, RetryFail(n, i) PROVE TypeOK'
    <3>1. xmit' \in [Node -> [AnyId -> XmitMsg]]
      <4>1. txComplete(retryTaken(xmit[n][i]), "failed") \in XmitMsg
        BY XmitMsgType, XmitType, Zenon
      <4> QED
        BY <2>27, <4>1, XmitType, Zenon DEF RetryFail
    <3>2. helloInFlight' \in [Node -> BOOLEAN]
      BY <2>27, ZenonT(60) DEF RetryFail, TypeOK
    <3> QED
      BY <2>27, <3>1, <3>2, <2>GoDownType, ZenonT(60)
         DEF RetryFail, TypeOK, senderVars, timerVars, rxVars, userVars, histVars
  <2>28. ASSUME NEW n \in Node, NEW i \in AnyId, RetryTimerFires(n, i) PROVE TypeOK'
    <3>1. xmit' \in [Node -> [AnyId -> XmitMsg]]
      BY <2>28, XmitMsgType, XmitType, Zenon DEF RetryTimerFires
    <3> QED
      BY <2>28, <3>1, ZenonT(60)
         DEF RetryTimerFires, TypeOK, senderVars, timerVars, rxVars, userVars, histVars
  <2>29. ASSUME NEW n \in Node, NEW p \in net, Recv(n, p) PROVE TypeOK'
    <3>1. p \in Frame /\ [type |-> p.type, nr |-> p.nr, anr |-> p.anr] \in NrInd
      BY ZenonT(60) DEF TypeOK, Frame, NrInd
    <3>2. rxQueue' \in [Node -> Seq(Frame)] /\ pend' \in [Node -> NrInd]
      <4>1. CASE NrIsSane(n, p)
        <5>1. rxQueue' = [rxQueue EXCEPT ![n] = Append(@, p)]
          BY <2>29, <4>1, Zenon DEF Recv
        <5>2. pend' = [pend EXCEPT ![n] = [type |-> p.type, nr |-> p.nr, anr |-> p.anr]]
          BY <2>29, <4>1, Zenon DEF Recv
        <5>3. rxQueue' \in [Node -> Seq(Frame)]
          BY <3>1, <5>1, SMTT(60) DEF TypeOK
        <5>4. pend' \in [Node -> NrInd]
          BY <3>1, <5>2, Zenon DEF TypeOK
        <5> QED
          BY <5>3, <5>4, Zenon
      <4>2. CASE ~NrIsSane(n, p)
        BY <2>29, <4>2, Zenon DEF Recv, TypeOK
      <4> QED
        BY <4>1, <4>2, Zenon
    <3> QED
      BY <2>29, <3>1, <3>2, Zenon
         DEF Recv, TypeOK, senderVars, timerVars, rxVars, userVars, histVars
  <2>30. CASE UNCHANGED vars
    BY <2>30, Zenon DEF TypeOK, vars, senderVars, timerVars, rxVars, userVars, histVars
  <2> QED
    BY <2>1, <2>2, <2>3, <2>4, <2>5, <2>6, <2>7, <2>8, <2>9, <2>10, <2>11,
       <2>12, <2>13, <2>14, <2>15, <2>16, <2>17, <2>18, <2>19, <2>20, <2>21,
       <2>22, <2>23, <2>24, <2>25, <2>26, <2>27, <2>28, <2>29, <2>30
       DEF Next, User, SenderRetry, SenderSelect, SenderBusy, Receiver, ReceiverBusy, Timers
(* The other conjuncts of the inductive invariant.                         *)

(* Every step preserves the count of the calls of send().                  *)
<1>CallStep. IndInv /\ [Next]_vars => CallInv'
  <2> SUFFICES ASSUME IndInv, [Next]_vars PROVE CallInv'
    BY Zenon
  <2>1. ASSUME NEW n \in Node, Call(n) PROVE CallInv'
    <3>1. blocked[n] + accepted[n] < Sends[n] /\ blocked[n] \in Nat /\ accepted[n] \in Nat
      BY <2>1, Zenon DEF IndInv, TypeOK, Call
    <3>2. blocked' = [blocked EXCEPT ![n] = blocked[n] + 1] /\ accepted' = accepted
      BY <2>1, Zenon DEF Call
    <3>3. ASSUME NEW m \in Node PROVE blocked'[m] + accepted'[m] <= Sends[m]
      <4>1. /\ blocked[m] \in Nat /\ accepted[m] \in Nat /\ Sends[m] \in Nat
            /\ blocked[m] + accepted[m] <= Sends[m]
        BY Constants, Zenon DEF IndInv, TypeOK, CallInv
      <4>2. CASE m = n
        BY <3>1, <3>2, <4>1, <4>2, SMTT(60) DEF IndInv, TypeOK
      <4>3. CASE m # n
        BY <3>2, <4>1, <4>3, Zenon DEF IndInv, TypeOK
      <4> QED
        BY <4>2, <4>3, Zenon
    <3> QED
      BY <3>3, Zenon DEF CallInv
  <2>2. ASSUME NEW n \in Node, Accept(n) PROVE CallInv'
    <3>1. blocked[n] \in Nat /\ accepted[n] \in Nat
      BY <2>2, Zenon DEF IndInv, TypeOK, Accept
    <3>2. /\ blocked' = [blocked EXCEPT ![n] = blocked[n] - 1]
          /\ accepted' = [accepted EXCEPT ![n] = accepted[n] + 1]
      BY <2>2, ZenonT(60) DEF Accept
    <3>3. ASSUME NEW m \in Node PROVE blocked'[m] + accepted'[m] <= Sends[m]
      <4>1. /\ blocked[m] \in Nat /\ accepted[m] \in Nat /\ Sends[m] \in Nat
            /\ blocked[m] + accepted[m] <= Sends[m]
        BY Constants, Zenon DEF IndInv, TypeOK, CallInv
      <4>2. CASE m = n
        BY <3>1, <3>2, <4>1, <4>2, SMTT(60) DEF IndInv, TypeOK
      <4>3. CASE m # n
        BY <3>2, <4>1, <4>3, Zenon DEF IndInv, TypeOK
      <4> QED
        BY <4>2, <4>3, Zenon
    <3> QED
      BY <3>3, Zenon DEF CallInv
  <2>3. ASSUME UNCHANGED <<blocked, accepted>> PROVE CallInv'
    BY <2>3, Zenon DEF IndInv, CallInv
  <2>4. ASSUME NEW n \in Node, User(n) \/ Receiver(n) \/ Timers(n), ~Call(n)
        PROVE  UNCHANGED <<blocked, accepted>>
    BY <2>4, Zenon DEF User, Close, UserRecv, Receiver, Recv, RecvUnknownAvp, ReadFail,
                ReceiverBusy, RxAccept, RxDrop, Timers, AckTimerFires, RetryTimerFires, userVars
  <2>5. ASSUME NEW n \in Node, SenderRetry(n) \/ SenderBusy(n)
        PROVE  UNCHANGED <<blocked, accepted>>
    BY <2>5, ZenonT(60) DEF SenderRetry, RetryIgnored, Retransmit, RetryFail, SenderBusy, TxWrite, TxWriteFail,
                Sent, SentHello, AckOne, Drain, DownDone, userVars
  <2>6. ASSUME NEW n \in Node, SenderSelect(n), ~Accept(n)
        PROVE  UNCHANGED <<blocked, accepted>>
    BY <2>6, ZenonT(60) DEF SenderSelect, Closed, NrHandoff, NrClosed, HelloIgnored, HelloWrite, HelloWriteFail,
                ExplicitAck, ExplicitAckFail, userVars
  <2> QED
    BY <2>1, <2>2, <2>3, <2>4, <2>5, <2>6, Zenon DEF Next, vars, userVars
(* Every step preserves what the program locations know.                   *)
<1>LocationStep. IndInv /\ [Next]_vars => LocationInv'
(* The window is open before and after an increment of ns or nr alike.     *)
  <2>CanSendSame.
      ASSUME NEW s \in SlowStartState
      PROVE  /\ canSend(incrementNr(s)) <=> canSend(s)
             /\ canSend(onSend(incrementNs(s))) <=> canSend(onSend(s))
    <3> USE <2>CanSendSame
    <3>1. incrementNs(s) \in SlowStartState
      BY Increments, Zenon
    <3> QED
      BY <3>1, Increments, OnSend DEF canSend, SameWindow
  <2> SUFFICES ASSUME IndInv, [Next]_vars PROVE LocationInv'
    BY Zenon
  <2> USE DEF IndInv
  <2>1. ASSUME NEW n \in Node, Call(n) PROVE LocationInv'
    BY <2>1, Zenon DEF Call, LocationInv, TypeOK, senderVars, timerVars, rxVars,
       userVars, histVars
  <2>2. ASSUME NEW n \in Node, Close(n) PROVE LocationInv'
    BY <2>2, Zenon DEF Close, LocationInv, TypeOK, senderVars, timerVars, rxVars,
       userVars, histVars
  <2>3. ASSUME NEW n \in Node, UserRecv(n) PROVE LocationInv'
    BY <2>3, Zenon DEF UserRecv, LocationInv, TypeOK, RxLoop, HeadIsHandleable,
       senderVars, timerVars, rxVars, userVars, histVars
  <2>4. ASSUME NEW n \in Node, Accept(n) PROVE LocationInv'
    <3>1. txQueue' = [txQueue EXCEPT ![n] = Append(txQueue[n], accepted[n] + 1)]
      BY <2>4, Zenon DEF Accept
    <3>2. txQueue'[n] # <<>>
      BY <3>1, SMTT(60) DEF TypeOK
    <3>3. /\ spc' = [spc EXCEPT ![n] = IF canSend(ss[n]) THEN "tx" ELSE "select"]
          /\ UNCHANGED <<ss, ackQueue, cur, rpc, rxQueue>>
      BY <2>4, Zenon DEF Accept, rxVars
    <3> QED
      BY <3>1, <3>2, <3>3, Zenon DEF LocationInv, TypeOK
  <2>5. ASSUME NEW n \in Node, Closed(n) PROVE LocationInv'
    BY <2>5, Zenon DEF Closed, LocationInv, TypeOK, GoDown, senderVars, timerVars,
       rxVars, userVars, histVars
  <2>6. ASSUME NEW n \in Node, NrHandoff(n) PROVE LocationInv'
    BY <2>6, ZenonT(60) DEF NrHandoff, LocationInv, TypeOK, RxLoop, HeadIsHandleable,
       HeadIsAcked, EndOfNr, senderVars, timerVars, rxVars, userVars, histVars
  <2>7. ASSUME NEW n \in Node, NrClosed(n) PROVE LocationInv'
    BY <2>7, Zenon DEF NrClosed, LocationInv, TypeOK, GoDown, senderVars, timerVars,
       rxVars, userVars, histVars
  <2>8. ASSUME NEW n \in Node, HelloIgnored(n) PROVE LocationInv'
    BY <2>8, Zenon DEF HelloIgnored, LocationInv, TypeOK, senderVars, timerVars,
       rxVars, userVars, histVars
  <2>9. ASSUME NEW n \in Node, HelloWrite(n) PROVE LocationInv'
    BY <2>9, Zenon DEF HelloWrite, LocationInv, TypeOK, senderVars, timerVars, rxVars,
       userVars, histVars
  <2>10. ASSUME NEW n \in Node, HelloWriteFail(n) PROVE LocationInv'
    BY <2>10, Zenon DEF HelloWriteFail, LocationInv, TypeOK, GoDown, senderVars,
       timerVars, rxVars, userVars, histVars
  <2>11. ASSUME NEW n \in Node, ExplicitAck(n) PROVE LocationInv'
    BY <2>11, Zenon DEF ExplicitAck, LocationInv, TypeOK, senderVars, timerVars,
       rxVars, userVars, histVars
  <2>12. ASSUME NEW n \in Node, ExplicitAckFail(n) PROVE LocationInv'
    BY <2>12, Zenon DEF ExplicitAckFail, LocationInv, TypeOK, GoDown, senderVars,
       timerVars, rxVars, userVars, histVars
  <2>13. ASSUME NEW n \in Node, TxWrite(n) PROVE LocationInv'
    BY <2>13, Zenon DEF TxWrite, LocationInv, TypeOK, senderVars, timerVars, rxVars,
       userVars, histVars
  <2>14. ASSUME NEW n \in Node, TxWriteFail(n) PROVE LocationInv'
    BY <2>14, Zenon DEF TxWriteFail, LocationInv, TypeOK, GoDown, senderVars,
       timerVars, rxVars, userVars, histVars
  <2>15. ASSUME NEW n \in Node, Sent(n) PROVE LocationInv'
    <3> DEFINE more == MaySend(txQueue[n], onSend(ss[n]))
    <3>1. /\ ss' = [ss EXCEPT ![n] = onSend(incrementNs(ss[n]))]
          /\ ackQueue' = [ackQueue EXCEPT ![n] = Append(ackQueue[n], cur[n])]
          /\ spc' = [spc EXCEPT ![n] = IF more THEN "tx" ELSE "select"]
          /\ UNCHANGED <<txQueue, cur, rpc, rxQueue>>
      BY <2>15, Zenon DEF Sent, rxVars
    <3>2. more => txQueue[n] # <<>> /\ canSend(ss'[n])
      BY <3>1, <2>CanSendSame, SMTT(60) DEF MaySend, TypeOK
    <3> HIDE DEF more
    <3> QED
      BY <3>1, <3>2, Zenon DEF LocationInv, TypeOK
  <2>16. ASSUME NEW n \in Node, SentHello(n) PROVE LocationInv'
    BY <2>16, Zenon DEF SentHello, LocationInv, TypeOK, senderVars, timerVars, rxVars,
       userVars, histVars
  <2>17. ASSUME NEW n \in Node, AckOne(n) PROVE LocationInv'
    BY <2>17, ZenonT(60) DEF AckOne, LocationInv, TypeOK, MaySend, HeadIsAcked, EndOfNr,
       senderVars, timerVars, rxVars, userVars, histVars
  <2>18. ASSUME NEW n \in Node, Drain(n) PROVE LocationInv'
    BY <2>18, Zenon DEF Drain, LocationInv, TypeOK, RxLoop, HeadIsHandleable,
       senderVars, timerVars, rxVars, userVars, histVars
  <2>19. ASSUME NEW n \in Node, DownDone(n) PROVE LocationInv'
    BY <2>19, Zenon DEF DownDone, LocationInv, TypeOK, senderVars, timerVars, rxVars,
       userVars, histVars
  <2>20. ASSUME NEW n \in Node, RecvUnknownAvp(n) PROVE LocationInv'
    BY <2>20, Zenon DEF RecvUnknownAvp, LocationInv, TypeOK, senderVars, timerVars,
       rxVars, userVars, histVars
  <2>21. ASSUME NEW n \in Node, ReadFail(n) PROVE LocationInv'
    BY <2>21, Zenon DEF ReadFail, LocationInv, TypeOK, senderVars, timerVars, rxVars,
       userVars, histVars
  <2>22. ASSUME NEW n \in Node, RxAccept(n) PROVE LocationInv'
    <3>1. /\ ss' = [ss EXCEPT ![n] = incrementNr(ss[n])]
          /\ rpc' = [rpc EXCEPT ![n] = "deliver"]
          /\ rxQueue' = [rxQueue EXCEPT ![n] = Tail(rxQueue[n])]
          /\ UNCHANGED <<txQueue, ackQueue, spc, cur>>
      BY <2>22, Zenon DEF RxAccept
    <3>2. \A m \in Node : canSend(ss[m]) => canSend(ss'[m])
      BY <3>1, <2>CanSendSame, SMTT(60) DEF TypeOK
    <3> QED
      BY <3>1, <3>2, Zenon DEF LocationInv, TypeOK
  <2>23. ASSUME NEW n \in Node, RxDrop(n) PROVE LocationInv'
    BY <2>23, ZenonT(60) DEF RxDrop, LocationInv, TypeOK, RxLoop, HeadIsHandleable,
       senderVars, timerVars, rxVars, userVars, histVars
  <2>24. ASSUME NEW n \in Node, AckTimerFires(n) PROVE LocationInv'
    BY <2>24, Zenon DEF AckTimerFires, LocationInv, TypeOK, senderVars, timerVars,
       rxVars, userVars, histVars
  <2>25. ASSUME NEW n \in Node, NEW i \in AnyId, RetryIgnored(n, i) PROVE LocationInv'
    BY <2>25, Zenon DEF RetryIgnored, LocationInv, TypeOK, senderVars, timerVars,
       rxVars, userVars, histVars
  <2>26. ASSUME NEW n \in Node, NEW i \in AnyId, Retransmit(n, i) PROVE LocationInv'
    BY <2>26, Zenon DEF Retransmit, LocationInv, TypeOK, senderVars, timerVars, rxVars,
       userVars, histVars
  <2>27. ASSUME NEW n \in Node, NEW i \in AnyId, RetryFail(n, i) PROVE LocationInv'
    BY <2>27, Zenon DEF RetryFail, LocationInv, TypeOK, GoDown, senderVars, timerVars,
       rxVars, userVars, histVars
  <2>28. ASSUME NEW n \in Node, NEW i \in AnyId, RetryTimerFires(n, i) PROVE LocationInv'
    BY <2>28, Zenon DEF RetryTimerFires, LocationInv, TypeOK, senderVars, timerVars,
       rxVars, userVars, histVars
  <2>29. ASSUME NEW n \in Node, NEW p \in net, Recv(n, p) PROVE LocationInv'
    BY <2>29, SMTT(60) DEF Recv, LocationInv, TypeOK, senderVars, timerVars, rxVars,
       userVars, histVars
  <2>30. CASE UNCHANGED vars
    BY <2>30, Zenon DEF vars, LocationInv, TypeOK, senderVars, timerVars, rxVars,
       userVars, histVars
  <2> QED
    BY <2>1, <2>2, <2>3, <2>4, <2>5, <2>6, <2>7, <2>8, <2>9, <2>10, <2>11,
       <2>12, <2>13, <2>14, <2>15, <2>16, <2>17, <2>18, <2>19, <2>20, <2>21,
       <2>22, <2>23, <2>24, <2>25, <2>26, <2>27, <2>28, <2>29, <2>30
       DEF Next, User, SenderRetry, SenderSelect, SenderBusy, Receiver, ReceiverBusy, Timers
(* The initial state satisfies the inductive invariant.                    *)
<1>InitInd. Init => IndInv
  <2> SUFFICES ASSUME Init PROVE IndInv
    BY Zenon
  <2>1. SlowStartInit \in SlowStartState
    BY Constants, WindowPositive, Zenon DEF SlowStartInit, SlowStartState
  <2>2. TypeOK
    <3>1. ss \in [Node -> SlowStartState] /\ xmit \in [Node -> [AnyId -> XmitMsg]]
      BY <2>1, Constants, Zenon DEF Init
    <3>2. helloTimer \in [Node -> BOOLEAN]
      BY DEF Init
    <3>3. /\ cur \in [Node -> AnyId] /\ nri \in [Node -> NrInd] /\ pend \in [Node -> NrInd]
      BY Constants, Zenon DEF Init
    <3> QED
      BY <3>1, <3>2, <3>3 DEF Init, TypeOK
  <2>3. CallInv
    BY Constants, SMTT(60) DEF Init, CallInv
  <2>4. LocationInv
    BY Zenon DEF Init, LocationInv
  <2> QED
    BY <2>2, <2>3, <2>4, Zenon DEF IndInv
<1>1. IndInv /\ [Next]_vars => IndInv'
  BY <1>TypeStep, <1>CallStep, <1>LocationStep, Zenon DEF IndInv
<1> QED
  BY <1>InitInd, <1>1, PTL DEF Spec

(* The state of the transport keeps its types, whatever the interleaving   *)
(* of the goroutines, timers, users and network: in particular ns and nr   *)
(* never leave the sequence space and every queue holds messages only.     *)
THEOREM TypeCorrect == Spec => []TypeOK
<1>1. IndInv => TypeOK
  BY Zenon DEF IndInv
<1> QED
  BY Induction, <1>1, PTL
-----------------------------------------------------------------------------

(* The transmit window.                                                  *)

(* What WindowInv asks of one slowStartState.                              *)
WindowOK(s) ==
    /\ s.cwnd \in 1 .. TxWindowSize
    /\ s.ntx <= TxWindowSize /\ s.thresh <= TxWindowSize /\ s.nacks < TxWindowSize

(* The window arithmetic of slowStartState stays within the configured     *)
(* window for every TxWindowSize a uint16 can hold, and ntx counts the     *)
(* ackQueue exactly, so onAck is never called with ntx = 0.                *)
THEOREM WindowCorrect == Spec => []WindowInv
(* Each method of slowStartState keeps the window arithmetic in bounds.    *)
<1>WindowKept.
    ASSUME NEW s \in SlowStartState, WindowOK(s)
    PROVE  /\ WindowOK(incrementNs(s)) /\ WindowOK(incrementNr(s))
           /\ canSend(s) => WindowOK(onSend(incrementNs(s)))
           /\ s.ntx # 0 => WindowOK(onAck(s))
           /\ WindowOK(onRetransmit(s))
  <2> USE <1>WindowKept
  <2>0. /\ s.cwnd \in Nat /\ s.ntx \in Nat /\ s.thresh \in Nat /\ s.nacks \in Nat
        /\ TxWindowSize \in Nat /\ TxWindowSize > 0
    BY WindowPositive, Zenon DEF SlowStartState
  <2>1. WindowOK(incrementNs(s)) /\ WindowOK(incrementNr(s))
    BY Increments, Zenon DEF WindowOK, SameWindow
  <2>2. ASSUME canSend(s) PROVE WindowOK(onSend(incrementNs(s)))
    <3>1. incrementNs(s) \in SlowStartState /\ SameWindow(s, incrementNs(s))
      BY Increments, Zenon
    <3>2. s.ntx + 1 <= TxWindowSize
      BY <2>0, <2>2 DEF canSend, WindowOK
    <3> QED
      BY <3>1, <3>2, OnSend, ZenonT(60) DEF SameWindow, WindowOK
  <2>3. ASSUME s.ntx # 0 PROVE WindowOK(onAck(s))
    <3>1. cwndOnAck(s) \in 1 .. TxWindowSize
      BY <2>0 DEF WindowOK, cwndOnAck
    <3>2. nacksOnAck(s) < TxWindowSize
      BY <2>0 DEF WindowOK, nacksOnAck
    <3>3. s.ntx - 1 <= TxWindowSize
      BY <2>0 DEF WindowOK
    <3>4. /\ onAck(s).cwnd = cwndOnAck(s) /\ onAck(s).thresh = s.thresh
          /\ onAck(s).nacks = nacksOnAck(s) /\ onAck(s).ntx = s.ntx - 1
      BY <2>3, OnAck, Zenon
    <3> QED
      BY <3>1, <3>2, <3>3, <3>4, Zenon DEF WindowOK
  <2>4. WindowOK(onRetransmit(s))
    <3>1. 1 \in 1 .. TxWindowSize
      BY <2>0
    <3>2. s.cwnd \div 2 <= TxWindowSize
      <4>1. s.cwnd <= TxWindowSize
        BY <2>0 DEF WindowOK
      <4>2. \A c \in Nat : c \div 2 <= c /\ c \div 2 \in Nat
        OBVIOUS
      <4> QED
        BY <2>0, <4>1, <4>2
    <3>3. /\ onRetransmit(s).cwnd = 1 /\ onRetransmit(s).thresh = s.cwnd \div 2
          /\ onRetransmit(s).nacks = s.nacks /\ onRetransmit(s).ntx = s.ntx
      BY OnRetransmit, Zenon
    <3> QED
      BY <3>1, <3>2, <3>3, Zenon DEF WindowOK
  <2> QED
    BY <2>1, <2>2, <2>3, <2>4, Zenon
(* One step and the window.                                               *)
<1>WindowStep. IndInv /\ WindowInv /\ [Next]_vars => WindowInv'
  <2> SUFFICES ASSUME IndInv, WindowInv, [Next]_vars PROVE WindowInv'
    BY Zenon
  <2> DEFINE NodeOK(m) == WindowOK(ss[m]) /\ (spc[m] # "exited" => ss[m].ntx = Len(ackQueue[m]))
  <2>1. \A m \in Node : NodeOK(m)
    BY Zenon DEF WindowInv, WindowOK
  <2>2. (\A m \in Node : NodeOK(m)') => WindowInv'
    BY Zenon DEF WindowInv, WindowOK
  <2>3. \A m \in Node : ss[m] \in SlowStartState /\ ackQueue[m] \in Seq(AnyId)
    BY Zenon DEF IndInv, TypeOK
  <2>4. ASSUME NEW n \in Node, Sent(n) PROVE WindowInv'
    <3>1. /\ ss' = [ss EXCEPT ![n] = onSend(incrementNs(ss[n]))]
          /\ ackQueue' = [ackQueue EXCEPT ![n] = Append(ackQueue[n], cur[n])]
      BY <2>4, Zenon DEF Sent
    <3>2. spc[n] = "sent" /\ \A m \in Node \ {n} : spc'[m] = spc[m]
      BY <2>4, Zenon DEF Sent, IndInv, TypeOK
    <3>3. canSend(ss[n])
      BY <2>4, Zenon DEF Sent, IndInv, LocationInv
    <3>4. ss'[n].ntx = ss[n].ntx + 1 /\ Len(ackQueue'[n]) = Len(ackQueue[n]) + 1
      <4>1. Len(ackQueue'[n]) = Len(ackQueue[n]) + 1
        BY <2>3, <3>1, SMTT(60) DEF IndInv, TypeOK
      <4>2. ss'[n] = onSend(incrementNs(ss[n]))
        BY <3>1, ZenonT(60) DEF IndInv, TypeOK
      <4> QED
        BY <2>3, <4>1, <4>2, OnSend, Increments, SMTT(60) DEF SameWindow
    <3>5. WindowOK(ss'[n])
      BY <2>1, <2>3, <3>1, <3>3, <1>WindowKept, Zenon DEF IndInv, TypeOK
    <3>6. NodeOK(n)'
      BY <2>1, <3>2, <3>4, <3>5, ZenonT(60)
    <3>7. \A m \in Node \ {n} : NodeOK(m)'
      BY <2>1, <3>1, <3>2, Zenon DEF IndInv, TypeOK, WindowOK
    <3> QED
      BY <2>2, <3>6, <3>7, Zenon
  <2>5. ASSUME NEW n \in Node, AckOne(n) PROVE WindowInv'
    <3>1. /\ ss' = [ss EXCEPT ![n] = onAck(ss[n])]
          /\ ackQueue' = [ackQueue EXCEPT ![n] = Tail(ackQueue[n])]
      BY <2>5, Zenon DEF AckOne
    <3>2. spc[n] = "ack" /\ ackQueue[n] # <<>> /\ \A m \in Node \ {n} : spc'[m] = spc[m]
      BY <2>5, ZenonT(60) DEF AckOne, EndOfNr, IndInv, TypeOK, LocationInv
    <3>3. Len(ackQueue'[n]) = Len(ackQueue[n]) - 1 /\ Len(ackQueue[n]) > 0
      BY <2>3, <3>1, <3>2 DEF IndInv, TypeOK
    <3>4. ss[n].ntx # 0 /\ ss'[n] = onAck(ss[n])
      BY <2>1, <3>1, <3>2, <3>3 DEF IndInv, TypeOK
    <3>5. WindowOK(ss'[n]) /\ ss'[n].ntx = ss[n].ntx - 1
      BY <2>1, <2>3, <3>4, <1>WindowKept, OnAck, ZenonT(60)
    <3>6. NodeOK(n)'
      BY <2>1, <3>2, <3>3, <3>5, ZenonT(60)
    <3>7. \A m \in Node \ {n} : NodeOK(m)'
      BY <2>1, <3>1, <3>2, ZenonT(60) DEF IndInv, TypeOK, WindowOK
    <3> QED
      BY <2>2, <3>6, <3>7, Zenon
  <2>6. ASSUME NEW n \in Node, NEW t \in SlowStartState,
               ss' = [ss EXCEPT ![n] = t], WindowOK(t), t.ntx = ss[n].ntx,
               ackQueue' = ackQueue, \A m \in Node : spc[m] = "exited" => spc'[m] = "exited"
        PROVE  WindowInv'
    <3>1. NodeOK(n)'
      BY <2>1, <2>6, Zenon DEF IndInv, TypeOK
    <3>2. \A m \in Node \ {n} : NodeOK(m)'
      BY <2>1, <2>6, ZenonT(60) DEF IndInv, TypeOK, WindowOK
    <3> QED
      BY <2>2, <3>1, <3>2, Zenon
  <2>7. ASSUME NEW n \in Node, SentHello(n) PROVE WindowInv'
    <3>1. /\ ss' = [ss EXCEPT ![n] = incrementNs(ss[n])] /\ ackQueue' = ackQueue
          /\ \A m \in Node : spc[m] = "exited" => spc'[m] = "exited"
      BY <2>7, Zenon DEF SentHello, IndInv, TypeOK
    <3> QED
      BY <2>1, <2>3, <2>6, <3>1, Increments, <1>WindowKept, Zenon DEF SameWindow
  <2>8. ASSUME NEW n \in Node, RxAccept(n) PROVE WindowInv'
    <3>1. ss' = [ss EXCEPT ![n] = incrementNr(ss[n])] /\ ackQueue' = ackQueue /\ spc' = spc
      BY <2>8, Zenon DEF RxAccept
    <3> QED
      BY <2>1, <2>3, <2>6, <3>1, Increments, <1>WindowKept, ZenonT(60) DEF SameWindow
  <2>9. ASSUME NEW n \in Node, NEW i \in AnyId, Retransmit(n, i) PROVE WindowInv'
    <3>1. ss' = [ss EXCEPT ![n] = onRetransmit(ss[n])] /\ ackQueue' = ackQueue /\ spc' = spc
      BY <2>9, Zenon DEF Retransmit
    <3> QED
      BY <2>1, <2>3, <2>6, <3>1, OnRetransmit, <1>WindowKept, ZenonT(60)
  <2>10. ASSUME NEW n \in Node, DownDone(n) PROVE WindowInv'
    <3>1. ss' = ss /\ ackQueue' = [ackQueue EXCEPT ![n] = <<>>] /\ spc' = [spc EXCEPT ![n] = "exited"]
      BY <2>10, Zenon DEF DownDone
    <3> QED
      BY <2>1, <2>2, <3>1, Zenon DEF IndInv, TypeOK, WindowOK
  <2>11. ASSUME ss' = ss, ackQueue' = ackQueue, \A m \in Node : spc[m] = "exited" => spc'[m] = "exited"
         PROVE  WindowInv'
    <3>1. ASSUME NEW m \in Node PROVE NodeOK(m)'
      <4>1. NodeOK(m) /\ ss'[m] = ss[m] /\ ackQueue'[m] = ackQueue[m]
        BY <2>1, <2>11, Zenon
      <4> QED
        BY <2>11, <4>1, Zenon
    <3> QED
      BY <2>2, <3>1, Zenon
  <2>12. ASSUME NEW n \in Node, SenderSelect(n) \/ TxWrite(n) \/ TxWriteFail(n) \/ Drain(n)
         PROVE  WindowInv'
    <3>1. ss' = ss /\ ackQueue' = ackQueue
      BY <2>12, ZenonT(60) DEF SenderSelect, Accept, Closed, NrHandoff, NrClosed, HelloIgnored, HelloWrite,
                   HelloWriteFail, ExplicitAck, ExplicitAckFail, TxWrite, TxWriteFail, Drain, senderVars
    <3>2. spc[n] # "exited"
      BY <2>12, Zenon DEF SenderSelect, Accept, Closed, NrHandoff, NrClosed, HelloIgnored, HelloWrite,
                   HelloWriteFail, ExplicitAck, ExplicitAckFail, TxWrite, TxWriteFail, Drain
    <3>3. CASE NrHandoff(n)
      BY <2>11, <3>1, <3>2, <3>3, ZenonT(60) DEF NrHandoff, EndOfNr, IndInv, TypeOK
    <3>4. CASE Accept(n) \/ HelloWrite(n) \/ TxWrite(n)
      BY <2>11, <3>1, <3>2, <3>4, ZenonT(60) DEF Accept, HelloWrite, TxWrite, IndInv, TypeOK
    <3>5. CASE Closed(n) \/ NrClosed(n) \/ HelloWriteFail(n) \/ ExplicitAckFail(n) \/ TxWriteFail(n)
      <4>1. GoDown(n)
        BY <3>5, Zenon DEF Closed, NrClosed, HelloWriteFail, ExplicitAckFail, TxWriteFail
      <4> QED
        BY <2>11, <3>1, <3>2, <4>1, Zenon DEF GoDown, IndInv, TypeOK
    <3>6. CASE HelloIgnored(n) \/ ExplicitAck(n) \/ Drain(n)
      BY <2>11, <3>1, <3>6, Zenon DEF HelloIgnored, ExplicitAck, Drain, senderVars
    <3> QED
      BY <2>12, <3>3, <3>4, <3>5, <3>6, Zenon DEF SenderSelect
  <2>13. ASSUME NEW n \in Node, NEW i \in AnyId, RetryIgnored(n, i) \/ RetryFail(n, i) PROVE WindowInv'
    BY <2>11, <2>13, ZenonT(60) DEF RetryIgnored, RetryFail, GoDown, IndInv, TypeOK
  <2>14. ASSUME NEW n \in Node, User(n) \/ Timers(n) \/ Receiver(n), ~RxAccept(n) PROVE WindowInv'
    <3>1. ss' = ss /\ ackQueue' = ackQueue /\ spc' = spc
      BY <2>14, Zenon DEF User, Call, Close, UserRecv, Timers, AckTimerFires, RetryTimerFires,
                   Receiver, Recv, RecvUnknownAvp, ReadFail, ReceiverBusy, RxDrop, senderVars
    <3> QED
      BY <2>11, <3>1, Zenon
  <2>15. CASE UNCHANGED vars
    BY <2>11, <2>15, Zenon DEF vars, senderVars
  <2> QED
    BY <2>4, <2>5, <2>7, <2>8, <2>9, <2>10, <2>12, <2>13, <2>14, <2>15, Zenon
       DEF Next, SenderBusy, SenderRetry
<1>1. Init => WindowInv
  BY WindowPositive DEF Init, WindowInv, SlowStartInit
<1> QED
  BY <1>1, <1>WindowStep, Induction, PTL DEF Spec
-----------------------------------------------------------------------------

(* down() releases every caller of send(): no message the sender goroutine *)
(* has accepted is forgotten, wherever it was when the transport went down.*)

(* Where an accepted message is until it is complete: in one of the queues *)
(* that down() flushes, or just written and about to enter ackQueue.       *)
Held(n, i) == i \in Flushed(n) \/ (spc[n] = "sent" /\ cur[n] = i)

HeldInv ==
    \A n \in Node :
        /\ \A i \in 1 .. accepted[n] : isComplete(n, i) \/ Held(n, i)
        /\ spc[n] = "exited" => Flushed(n) = {}
-----------------------------------------------------------------------------

(* Appending loses no message of a queue and adds the new one.             *)
LEMMA ElementsAppend ==
    ASSUME NEW S, NEW q \in Seq(S), NEW e \in S
    PROVE  Elements(q) \subseteq Elements(Append(q, e)) /\ e \in Elements(Append(q, e))
<1>1. Append(q, e)[Len(q) + 1] = e /\ Len(q) + 1 \in DOMAIN Append(q, e)
  OBVIOUS
<1>2. ASSUME NEW k \in DOMAIN q PROVE k \in DOMAIN Append(q, e) /\ Append(q, e)[k] = q[k]
  OBVIOUS
<1> QED
  BY <1>1, <1>2, Zenon DEF Elements

(* Popping a queue loses no message but its head.                          *)
LEMMA ElementsTail ==
    ASSUME NEW S, NEW q \in Seq(S), q # <<>>
    PROVE  Elements(q) \subseteq {Head(q)} \cup Elements(Tail(q))
<1> SUFFICES ASSUME NEW k \in DOMAIN q, q[k] # Head(q) PROVE q[k] \in Elements(Tail(q))
  BY Zenon DEF Elements
<1>1. k - 1 \in DOMAIN Tail(q) /\ Tail(q)[k - 1] = q[k]
  OBVIOUS
<1> QED
  BY <1>1, Zenon DEF Elements
-----------------------------------------------------------------------------
-----------------------------------------------------------------------------

(* No accepted message is forgotten.                                       *)
LEMMA HeldInduction == Spec => []HeldInv
(* Every step keeps the accepted messages held or complete.              *)
<1>HeldStep. IndInv /\ HeldInv /\ [Next]_vars => HeldInv'
(* No operation on an xmitMsg forgets that it is complete.                 *)
  <2>StaysComplete.
      ASSUME NEW m \in XmitMsg
      PROVE  /\ \A r \in {"acked", "failed"} : txComplete(m, r).result # "none"
             /\ startRetryTimer(m).result = m.result
             /\ retryTaken(m).result = m.result
             /\ \A t : [m EXCEPT !.timer = t].result = m.result
             /\ \A x, y : [m EXCEPT !.ns = x, !.ans = y].result = m.result
    <3> USE <2>StaysComplete
    <3>1. ASSUME NEW r \in {"acked", "failed"} PROVE txComplete(m, r).result # "none"
      <4>1. CASE m.result # "none"
        BY <4>1, Zenon DEF txComplete
      <4>2. CASE m.result = "none"
        <5>1. txComplete(m, r).result = r
          BY <4>2, Zenon DEF txComplete, XmitMsg
        <5> QED
          BY <5>1, Zenon
      <4> QED
        BY <4>1, <4>2, Zenon
    <3>2. startRetryTimer(m).result = m.result
      BY Zenon DEF startRetryTimer, XmitMsg
    <3>3. retryTaken(m).result = m.result
      BY Zenon DEF retryTaken, XmitMsg
    <3>4. \A t : [m EXCEPT !.timer = t].result = m.result
      BY Zenon DEF XmitMsg
    <3>5. \A x, y : [m EXCEPT !.ns = x, !.ans = y].result = m.result
      BY Zenon DEF XmitMsg
    <3> QED
      BY <3>1, <3>2, <3>3, <3>4, <3>5, Zenon
  (* The numbers of the accepted messages name user messages.               *)
  <2>AcceptedIds.
      ASSUME IndInv, NEW n \in Node
      PROVE  1 .. accepted[n] \subseteq AnyId \ {Hello}
    <3> USE <2>AcceptedIds
    <3>1. accepted[n] \in Nat /\ blocked[n] \in Nat /\ Sends[n] \in Nat /\ blocked[n] + accepted[n] <= Sends[n]
      BY Constants, Zenon DEF IndInv, TypeOK, CallInv
    <3>2. 1 .. accepted[n] \subseteq MsgId(n) \ {Hello}
      BY <3>1 DEF MsgId, Hello
    <3> QED
      BY <3>2, Constants, Zenon
  (* A step that moves no message between queues and forgets no completion.  *)
  <2>QuietStep.
      ASSUME IndInv, HeldInv, UNCHANGED <<txQueue, ackQueue, accepted>>,
             \A m \in Node : \A i \in AnyId \ {Hello} : isComplete(m, i) => isComplete(m, i)',
             \A m \in Node : spc[m] = "sent" /\ cur[m] # Hello => spc'[m] = "sent" /\ cur'[m] = cur[m],
             \A m \in Node : spc'[m] = "exited" => spc[m] = "exited"
      PROVE  HeldInv'
    <3> USE <2>QuietStep
    <3> SUFFICES ASSUME NEW m \in Node
                 PROVE  /\ \A i \in 1 .. accepted[m] : isComplete(m, i)' \/ Held(m, i)'
                        /\ spc'[m] = "exited" => Flushed(m)' = {}
      BY Zenon DEF HeldInv
    <3>1. Flushed(m)' = Flushed(m)
      BY Zenon DEF Flushed, Elements
    <3>2. ASSUME NEW i \in 1 .. accepted[m] PROVE isComplete(m, i)' \/ Held(m, i)'
      <4>1. i \in AnyId \ {Hello}
        BY <2>AcceptedIds, Zenon
      <4>2. isComplete(m, i) \/ i \in Flushed(m) \/ (spc[m] = "sent" /\ cur[m] = i)
        BY Zenon DEF HeldInv, Held
      <4> QED
        BY <3>1, <4>1, <4>2, Zenon DEF Held
    <3> QED
      BY <3>1, <3>2, Zenon DEF HeldInv
  (* A step of endpoint n that moves its messages leaves the peer's alone.   *)
  <2>BusyStep.
      ASSUME IndInv, HeldInv, NEW n \in Node,
             \A m \in Node \ {n} : /\ xmit'[m] = xmit[m] /\ txQueue'[m] = txQueue[m]
                                   /\ ackQueue'[m] = ackQueue[m] /\ accepted'[m] = accepted[m]
                                   /\ spc'[m] = spc[m] /\ cur'[m] = cur[m],
             \A i \in 1 .. accepted'[n] : isComplete(n, i)' \/ Held(n, i)',
             spc'[n] = "exited" => Flushed(n)' = {}
      PROVE  HeldInv'
    <3> USE <2>BusyStep
    <3>1. ASSUME NEW m \in Node \ {n}
          PROVE  /\ \A i \in 1 .. accepted'[m] : isComplete(m, i)' \/ Held(m, i)'
                 /\ spc'[m] = "exited" => Flushed(m)' = {}
      <4>1. Flushed(m)' = Flushed(m)
        BY DEF Flushed, Elements
      <4>2. \A i : isComplete(m, i)' = isComplete(m, i) /\ Held(m, i)' = Held(m, i)
        BY <4>1, Zenon DEF isComplete, Held
      <4> QED
        BY <4>1, <4>2, Zenon DEF HeldInv
    <3> QED
      BY <3>1, Zenon DEF HeldInv
  <2> SUFFICES ASSUME IndInv, HeldInv, [Next]_vars PROVE HeldInv'
    BY Zenon
  <2> USE DEF IndInv
  <2>1. ASSUME NEW n \in Node, Accept(n) PROVE HeldInv'
    <3>1. \A m \in Node \ {n} : /\ xmit'[m] = xmit[m] /\ txQueue'[m] = txQueue[m]
                                 /\ ackQueue'[m] = ackQueue[m] /\ accepted'[m] = accepted[m]
                                 /\ spc'[m] = spc[m] /\ cur'[m] = cur[m]
      BY <2>1, Zenon DEF Accept, userVars, IndInv, TypeOK
    <3>2. /\ xmit' = xmit /\ ackQueue' = ackQueue /\ spc[n] = "select" /\ accepted'[n] = accepted[n] + 1
          /\ txQueue'[n] = Append(txQueue[n], accepted[n] + 1) /\ spc'[n] # "exited"
      BY <2>1, Zenon DEF Accept, TypeOK
    <3>3. Flushed(n) \cup {accepted[n] + 1} \subseteq Flushed(n)'
      <4>1. txQueue[n] \in Seq(AnyId) /\ accepted[n] + 1 \in AnyId
        BY <2>1, NextId, Zenon DEF TypeOK
      <4>2. Elements(txQueue[n]) \cup {accepted[n] + 1} \subseteq Elements(Append(txQueue[n], accepted[n] + 1))
        BY <4>1, ElementsAppend
      <4>3. Flushed(n)' = Elements(Append(txQueue[n], accepted[n] + 1)) \cup Elements(ackQueue[n])
        BY <3>2, Zenon DEF Flushed, Elements
      <4> QED
        BY <4>2, <4>3, Zenon DEF Flushed
    <3>4. ASSUME NEW i \in 1 .. accepted'[n] PROVE isComplete(n, i)' \/ Held(n, i)'
      <4>1. accepted[n] \in Nat
        BY Zenon DEF TypeOK
      <4>2. i \in 1 .. accepted[n] \/ i = accepted[n] + 1
        BY <3>2, <4>1
      <4>3. CASE i \in 1 .. accepted[n]
        BY <3>2, <3>3, <4>3, Zenon DEF HeldInv, Held, isComplete
      <4> QED
        BY <3>3, <4>2, <4>3, Zenon DEF Held
    <3> QED
      BY <3>1, <3>2, <3>4, <2>BusyStep, ZenonT(60)
  <2>2. ASSUME NEW n \in Node, TxWrite(n) PROVE HeldInv'
    <3>1. \A m \in Node \ {n} : /\ xmit'[m] = xmit[m] /\ txQueue'[m] = txQueue[m]
                                 /\ ackQueue'[m] = ackQueue[m] /\ accepted'[m] = accepted[m]
                                 /\ spc'[m] = spc[m] /\ cur'[m] = cur[m]
      BY <2>2, Zenon DEF TxWrite, userVars, IndInv, TypeOK
    <3>2. /\ spc[n] = "tx" /\ txQueue[n] # <<>> /\ txQueue[n] \in Seq(AnyId)
          /\ txQueue'[n] = Tail(txQueue[n]) /\ ackQueue' = ackQueue /\ accepted' = accepted
          /\ spc'[n] = "sent" /\ cur'[n] = Head(txQueue[n])
      BY <2>2, Zenon DEF TxWrite, TypeOK, LocationInv, userVars
    <3>3. Flushed(n) \subseteq {cur'[n]} \cup Flushed(n)'
      <4>1. Elements(txQueue[n]) \subseteq {Head(txQueue[n])} \cup Elements(Tail(txQueue[n]))
        BY <3>2, ElementsTail, Zenon
      <4>2. Flushed(n)' = Elements(Tail(txQueue[n])) \cup Elements(ackQueue[n])
        BY <3>2, Zenon DEF Flushed, Elements
      <4> QED
        BY <3>2, <4>1, <4>2, Zenon DEF Flushed
    <3>4. \A i \in AnyId : isComplete(n, i) => isComplete(n, i)'
      <4>1. Head(txQueue[n]) \in AnyId
        <5>1. txQueue[n] # <<>> /\ txQueue[n] \in Seq(AnyId)
          BY <3>2, Zenon
        <5> QED
          BY ONLY <5>1, SMTT(60)
      <4>2. xmit' = [xmit EXCEPT ![n][Head(txQueue[n])] =
                       [@ EXCEPT !.ns = ss[n].ns, !.ans = Len(sentLog[n])]]
        BY <2>2, Zenon DEF TxWrite
      <4>3. [xmit[n][Head(txQueue[n])] EXCEPT !.ns = ss[n].ns, !.ans = Len(sentLog[n])].result
              = xmit[n][Head(txQueue[n])].result
        BY <4>1, XmitType, <2>StaysComplete
      <4> QED
        BY <4>1, <4>2, <4>3, Zenon DEF isComplete, TypeOK
    <3> QED
      BY <3>1, <3>2, <3>3, <3>4, <2>BusyStep, <2>AcceptedIds, SMTT(60) DEF HeldInv, Held
  <2>3. ASSUME NEW n \in Node, TxWriteFail(n) PROVE HeldInv'
    <3>1. \A m \in Node \ {n} : /\ xmit'[m] = xmit[m] /\ txQueue'[m] = txQueue[m]
                                 /\ ackQueue'[m] = ackQueue[m] /\ accepted'[m] = accepted[m]
                                 /\ spc'[m] = spc[m] /\ cur'[m] = cur[m]
      BY <2>3, Zenon DEF TxWriteFail, GoDown, userVars, IndInv, TypeOK
    <3>2. /\ spc[n] = "tx" /\ txQueue[n] # <<>> /\ txQueue[n] \in Seq(AnyId)
          /\ txQueue'[n] = Tail(txQueue[n]) /\ ackQueue' = ackQueue /\ accepted' = accepted
          /\ spc'[n] = "down"
      BY <2>3, Zenon DEF TxWriteFail, GoDown, TypeOK, LocationInv, userVars
    <3>3. Flushed(n) \subseteq {Head(txQueue[n])} \cup Flushed(n)'
      <4>1. Elements(txQueue[n]) \subseteq {Head(txQueue[n])} \cup Elements(Tail(txQueue[n]))
        BY <3>2, ElementsTail, Zenon
      <4>2. Flushed(n)' = Elements(Tail(txQueue[n])) \cup Elements(ackQueue[n])
        BY <3>2, Zenon DEF Flushed, Elements
      <4> QED
        BY <3>2, <4>1, <4>2, Zenon DEF Flushed
    <3>4. \A i \in AnyId : isComplete(n, i) \/ i = Head(txQueue[n]) => isComplete(n, i)'
      <4>1. Head(txQueue[n]) \in AnyId
        BY <3>2
      <4>2. xmit' = [xmit EXCEPT ![n][Head(txQueue[n])] = txComplete(@, "failed")]
        BY <2>3, Zenon DEF TxWriteFail
      <4>3. txComplete(xmit[n][Head(txQueue[n])], "failed").result # "none"
        BY <4>1, XmitType, <2>StaysComplete, Zenon
      <4> QED
        BY <4>1, <4>2, <4>3, Zenon DEF isComplete, TypeOK
    <3> QED
      BY <3>1, <3>2, <3>3, <3>4, <2>BusyStep, <2>AcceptedIds, SMTT(60) DEF HeldInv, Held
  <2>4. ASSUME NEW n \in Node, Sent(n) PROVE HeldInv'
    <3>1. \A m \in Node \ {n} : /\ xmit'[m] = xmit[m] /\ txQueue'[m] = txQueue[m]
                                 /\ ackQueue'[m] = ackQueue[m] /\ accepted'[m] = accepted[m]
                                 /\ spc'[m] = spc[m] /\ cur'[m] = cur[m]
      BY <2>4, Zenon DEF Sent, userVars, IndInv, TypeOK
    <3>2. /\ spc[n] = "sent" /\ ackQueue'[n] = Append(ackQueue[n], cur[n]) /\ txQueue' = txQueue
          /\ accepted' = accepted /\ spc'[n] # "exited"
      BY <2>4, Zenon DEF Sent, TypeOK, userVars
    <3>3. Flushed(n) \cup {cur[n]} \subseteq Flushed(n)'
      <4>1. ackQueue[n] \in Seq(AnyId) /\ cur[n] \in AnyId
        BY Zenon DEF TypeOK
      <4> QED
        BY <3>2, <4>1, ElementsAppend, SMTT(60) DEF Flushed, Elements
    <3>4. \A i \in AnyId : isComplete(n, i) => isComplete(n, i)'
      <4>1. cur[n] \in AnyId
        BY Zenon DEF TypeOK
      <4>2. xmit' = [xmit EXCEPT ![n][cur[n]] = startRetryTimer(@)]
        BY <2>4, Zenon DEF Sent
      <4>3. startRetryTimer(xmit[n][cur[n]]).result = xmit[n][cur[n]].result
        BY <4>1, XmitType, <2>StaysComplete, Zenon
      <4> QED
        BY <4>1, <4>2, <4>3, Zenon DEF isComplete, TypeOK
    <3> QED
      BY <3>1, <3>2, <3>3, <3>4, <2>BusyStep, <2>AcceptedIds, SMTT(60) DEF HeldInv, Held
  <2>5. ASSUME NEW n \in Node, AckOne(n) PROVE HeldInv'
    <3>1. \A m \in Node \ {n} : /\ xmit'[m] = xmit[m] /\ txQueue'[m] = txQueue[m]
                                 /\ ackQueue'[m] = ackQueue[m] /\ accepted'[m] = accepted[m]
                                 /\ spc'[m] = spc[m] /\ cur'[m] = cur[m]
      BY <2>5, ZenonT(60) DEF AckOne, EndOfNr, userVars, IndInv, TypeOK
    <3>2. /\ spc[n] = "ack" /\ ackQueue[n] # <<>> /\ ackQueue[n] \in Seq(AnyId)
          /\ ackQueue'[n] = Tail(ackQueue[n]) /\ txQueue' = txQueue /\ accepted' = accepted
          /\ spc'[n] # "exited"
      BY <2>5, Zenon DEF AckOne, EndOfNr, TypeOK, LocationInv, userVars
    <3>3. Flushed(n) \subseteq {Head(ackQueue[n])} \cup Flushed(n)'
      <4>1. Elements(ackQueue[n]) \subseteq {Head(ackQueue[n])} \cup Elements(Tail(ackQueue[n]))
        BY <3>2, ElementsTail, Zenon
      <4>2. Flushed(n)' = Elements(Tail(ackQueue[n])) \cup Elements(txQueue[n])
        BY <3>2, Zenon DEF Flushed, Elements
      <4> QED
        BY <3>2, <4>1, <4>2, Zenon DEF Flushed
    <3>4. \A i \in AnyId : isComplete(n, i) \/ i = Head(ackQueue[n]) => isComplete(n, i)'
      <4>1. Head(ackQueue[n]) \in AnyId
        BY <3>2
      <4>2. xmit' = [xmit EXCEPT ![n][Head(ackQueue[n])] = txComplete(@, "acked")]
        BY <2>5, Zenon DEF AckOne
      <4>3. txComplete(xmit[n][Head(ackQueue[n])], "acked").result # "none"
        BY <4>1, XmitType, <2>StaysComplete, Zenon
      <4> QED
        BY <4>1, <4>2, <4>3, Zenon DEF isComplete, TypeOK
    <3> QED
      BY <3>1, <3>2, <3>3, <3>4, <2>BusyStep, <2>AcceptedIds, SMTT(60) DEF HeldInv, Held
  <2>6. ASSUME NEW n \in Node, DownDone(n) PROVE HeldInv'
    <3>1. \A m \in Node \ {n} : /\ xmit'[m] = xmit[m] /\ txQueue'[m] = txQueue[m]
                                 /\ ackQueue'[m] = ackQueue[m] /\ accepted'[m] = accepted[m]
                                 /\ spc'[m] = spc[m] /\ cur'[m] = cur[m]
      BY <2>6, ZenonT(60) DEF DownDone, userVars, IndInv, TypeOK
    <3>2. /\ spc[n] = "down" /\ accepted' = accepted
          /\ txQueue'[n] = <<>> /\ ackQueue'[n] = <<>>
      BY <2>6, Zenon DEF DownDone, TypeOK, userVars
    <3>3. Flushed(n)' = {}
      BY <3>2 DEF Flushed, Elements
    <3>4. ASSUME NEW i \in AnyId, isComplete(n, i) \/ i \in Flushed(n) PROVE isComplete(n, i)'
      <4>1. xmit'[n][i] = IF i \in Flushed(n) THEN txComplete(xmit[n][i], "failed") ELSE xmit[n][i]
        BY <2>6, Zenon DEF DownDone, TypeOK
      <4>2. txComplete(xmit[n][i], "failed").result # "none"
        BY XmitType, <2>StaysComplete, Zenon
      <4> QED
        BY <3>4, <4>1, <4>2, Zenon DEF isComplete
    <3> QED
      BY <3>1, <3>2, <3>3, <3>4, <2>BusyStep, <2>AcceptedIds, SMTT(60) DEF HeldInv, Held
  <2>7. ASSUME NEW n \in Node, NEW i \in AnyId, RetryIgnored(n, i) PROVE HeldInv'
    <3>1. xmit' = [xmit EXCEPT ![n][i] = [@ EXCEPT !.timer = "off"]] /\ UNCHANGED <<txQueue, ackQueue, accepted>>
      BY <2>7, Zenon DEF RetryIgnored, userVars
    <3>2. [xmit[n][i] EXCEPT !.timer = "off"].result = xmit[n][i].result
      BY XmitType, XmitMsgType, <2>StaysComplete, Zenon
    <3>3. \A m \in Node : \A j \in AnyId \ {Hello} : isComplete(m, j) => isComplete(m, j)'
      BY <3>1, <3>2, Zenon DEF isComplete, TypeOK
    <3>4. UNCHANGED <<spc, cur>>
      BY <2>7, Zenon DEF RetryIgnored
    <3> QED
      BY <3>1, <3>3, <3>4, <2>QuietStep, Zenon DEF TypeOK
  <2>8. ASSUME NEW n \in Node, NEW i \in AnyId, Retransmit(n, i) PROVE HeldInv'
    <3>1. /\ xmit' = [xmit EXCEPT ![n][i] = startRetryTimer(retryTaken(@))]
          /\ UNCHANGED <<txQueue, ackQueue, accepted>>
      BY <2>8, Zenon DEF Retransmit, userVars
    <3>2. startRetryTimer(retryTaken(xmit[n][i])).result = xmit[n][i].result
      BY XmitType, XmitMsgType, <2>StaysComplete, Zenon
    <3>3. \A m \in Node : \A j \in AnyId \ {Hello} : isComplete(m, j) => isComplete(m, j)'
      BY <3>1, <3>2 DEF isComplete, TypeOK
    <3>4. UNCHANGED <<spc, cur>>
      BY <2>8, Zenon DEF Retransmit
    <3> QED
      BY <3>1, <3>3, <3>4, <2>QuietStep, Zenon DEF TypeOK
  <2>9. ASSUME NEW n \in Node, NEW i \in AnyId, RetryFail(n, i) PROVE HeldInv'
    <3>1. /\ xmit' = [xmit EXCEPT ![n][i] = txComplete(retryTaken(@), "failed")]
          /\ UNCHANGED <<txQueue, ackQueue, accepted>>
      BY <2>9, Zenon DEF RetryFail, userVars
    <3>2. txComplete(retryTaken(xmit[n][i]), "failed").result # "none"
      BY XmitType, XmitMsgType, <2>StaysComplete, ZenonT(60)
    <3>3. \A m \in Node : \A j \in AnyId \ {Hello} : isComplete(m, j) => isComplete(m, j)'
      BY <3>1, <3>2 DEF isComplete, TypeOK
    <3>4. spc[n] = "select" /\ spc' = [spc EXCEPT ![n] = "down"] /\ cur' = cur
      BY <2>9, Zenon DEF RetryFail, GoDown
    <3> QED
      BY <3>1, <3>3, <3>4, <2>QuietStep, Zenon DEF TypeOK
  <2>10. ASSUME NEW n \in Node, NEW i \in AnyId, RetryTimerFires(n, i) PROVE HeldInv'
    <3>1. xmit' = [xmit EXCEPT ![n][i] = [@ EXCEPT !.timer = "fired"]] /\ UNCHANGED <<txQueue, ackQueue, accepted>>
      BY <2>10, Zenon DEF RetryTimerFires, userVars
    <3>2. [xmit[n][i] EXCEPT !.timer = "fired"].result = xmit[n][i].result
      BY XmitType, XmitMsgType, <2>StaysComplete, Zenon
    <3>3. \A m \in Node : \A j \in AnyId \ {Hello} : isComplete(m, j) => isComplete(m, j)'
      BY <3>1, <3>2, ZenonT(60) DEF isComplete, TypeOK
    <3>4. UNCHANGED <<spc, cur>>
      BY <2>10, Zenon DEF RetryTimerFires
    <3> QED
      BY <3>1, <3>3, <3>4, <2>QuietStep, Zenon DEF TypeOK
  <2>11. ASSUME NEW n \in Node, HelloWrite(n) PROVE HeldInv'
    <3>1. UNCHANGED <<txQueue, ackQueue, accepted>>
      BY <2>11, Zenon DEF HelloWrite, userVars
    <3>2. \A m \in Node : \A j \in AnyId \ {Hello} : isComplete(m, j) => isComplete(m, j)'
      BY <2>11, Constants, Zenon DEF HelloWrite, isComplete, TypeOK
    <3>3. /\ spc[n] = "select" /\ spc' = [spc EXCEPT ![n] = "sent"] /\ cur' = [cur EXCEPT ![n] = Hello]
      BY <2>11, Zenon DEF HelloWrite
    <3> QED
      BY <3>1, <3>2, <3>3, <2>QuietStep, Zenon DEF TypeOK
  <2>12. ASSUME NEW n \in Node, SentHello(n) PROVE HeldInv'
    <3>1. UNCHANGED <<txQueue, ackQueue, accepted>>
      BY <2>12, Zenon DEF SentHello, userVars
    <3>2. \A m \in Node : \A j \in AnyId \ {Hello} : isComplete(m, j) => isComplete(m, j)'
      BY <2>12, Constants, Zenon DEF SentHello, isComplete, TypeOK
    <3>3. cur[n] = Hello /\ spc' = [spc EXCEPT ![n] = "select"] /\ cur' = cur
      BY <2>12, Zenon DEF SentHello
    <3> QED
      BY <3>1, <3>2, <3>3, <2>QuietStep, Zenon DEF TypeOK
  <2>13. ASSUME UNCHANGED <<xmit, txQueue, ackQueue, accepted, cur>>,
                NEW n \in Node, spc' = spc \/ (spc[n] = "select" /\ \E x \in {"select", "ack", "down"} :
                                                   spc' = [spc EXCEPT ![n] = x])
         PROVE  HeldInv'
    <3>1. \A m \in Node : \A j \in AnyId \ {Hello} : isComplete(m, j) => isComplete(m, j)'
      BY <2>13, Zenon DEF isComplete
    <3> QED
      BY <2>13, <3>1, <2>QuietStep, Zenon DEF TypeOK
  <2>14. ASSUME NEW n \in Node, NrHandoff(n) PROVE HeldInv'
    <3>1. spc[n] = "select" /\ \E x \in {"select", "ack", "down"} : spc' = [spc EXCEPT ![n] = x]
      BY <2>14, Zenon DEF NrHandoff, EndOfNr
    <3>2. UNCHANGED <<xmit, txQueue, ackQueue, accepted, cur>>
      BY <2>14, Zenon DEF NrHandoff, userVars
    <3> QED
      BY <2>13, <3>1, <3>2, Zenon
  <2>15. ASSUME NEW n \in Node, Closed(n) \/ NrClosed(n) \/ HelloWriteFail(n) \/ ExplicitAckFail(n)
         PROVE  HeldInv'
    <3>1. spc[n] = "select" /\ spc' = [spc EXCEPT ![n] = "down"]
      BY <2>15, Zenon DEF Closed, NrClosed, HelloWriteFail, ExplicitAckFail, GoDown
    <3>2. UNCHANGED <<xmit, txQueue, ackQueue, accepted, cur>>
      BY <2>15, Zenon DEF Closed, NrClosed, HelloWriteFail, ExplicitAckFail, userVars
    <3> QED
      BY <2>13, <3>1, <3>2, Zenon
  <2>16. ASSUME NEW n \in Node, User(n) \/ Receiver(n) \/ AckTimerFires(n) \/ HelloIgnored(n)
                                  \/ ExplicitAck(n) \/ Drain(n)
         PROVE  HeldInv'
    <3>1. UNCHANGED <<xmit, txQueue, ackQueue, accepted, cur, spc>>
      BY <2>16, Zenon DEF User, Call, Close, UserRecv, Receiver, Recv, RecvUnknownAvp, ReadFail, ReceiverBusy,
                   RxAccept, RxDrop, AckTimerFires, HelloIgnored, ExplicitAck, Drain, senderVars, userVars
    <3> QED
      BY <2>13, <3>1, Zenon
  <2>17. CASE UNCHANGED vars
    <3>1. UNCHANGED <<xmit, txQueue, ackQueue, accepted, cur, spc>> /\ "a" \in Node
      BY <2>17, Zenon DEF vars, senderVars, userVars, Node
    <3> QED
      BY <2>13, <3>1, Zenon
  <2> QED
    BY <2>1, <2>2, <2>3, <2>4, <2>5, <2>6, <2>7, <2>8, <2>9, <2>10, <2>11, <2>12, <2>14, <2>15,
       <2>16, <2>17, Zenon
       DEF Next, SenderRetry, SenderSelect, SenderBusy, Timers
<1>1. Init => HeldInv
  BY DEF Init, HeldInv
<1> QED
  BY <1>1, <1>HeldStep, Induction, PTL DEF Spec

(* down() leaves no caller of send() waiting: once the sender goroutine    *)
(* has exited, every message it took from sendChan is complete, wherever   *)
(* the message was when the transport failed.                              *)
THEOREM CallersReleased == Spec => []NoCallerLeftWaiting
<1>1. HeldInv => NoCallerLeftWaiting
  BY Zenon DEF HeldInv, Held, NoCallerLeftWaiting
<1> QED
  BY <1>1, HeldInduction, PTL
=============================================================================
