----------------------------- MODULE Transport -----------------------------
(***************************************************************************)
(* The reliable control message transport of l2tp/transport.go: two        *)
(* endpoints running the same code over a UDP-like network that loses,     *)
(* duplicates and reorders frames.                                         *)
(*                                                                         *)
(* Each endpoint n has a sender goroutine (spc), a receiver goroutine      *)
(* (rpc), timers, and any number of user goroutines inside send() and      *)
(* recv().  The channels sendChan, retryChan, recvChan and nrChan are      *)
(* unbuffered, so a transfer is one step of both parties and is possible   *)
(* only while the sender goroutine is in its select.  Between the write of *)
(* a frame and incrementNs the receiver can run: that gap is a state       *)
(* (spc = "sent").                                                         *)
(*                                                                         *)
(* User messages are numbered in the order in which the sender accepts     *)
(* them from sendChan; number 0 is the HELLO the transport itself sends.   *)
(***************************************************************************)
EXTENDS SlowStart, Sequences, FiniteSets

CONSTANTS
    CfgMaxRetries, \* transportConfig.MaxRetries; 0 means "not set"
    Sends,         \* Sends[n]: bound on the calls of send() at endpoint n
    HelloNodes,    \* the endpoints configured with a HelloTimeout > 0
    IOErrors,      \* the endpoints whose socket may fail a read or a write
    CloseNodes,    \* the endpoints whose user may close the transport
    AvpNodes,      \* the endpoints whose peer may send a mandatory AVP unknown to them
    MaxRxQueue     \* bound on the frames an endpoint holds in rxQueue

Node    == {"a", "b"}
Peer(n) == IF n = "a" THEN "b" ELSE "a"

(* A queue of more than half the sequence space is not considered.         *)
ASSUME TransportAssumption ==
    /\ CfgMaxRetries \in Nat
    /\ Sends \in [Node -> Nat]
    /\ HelloNodes \subseteq Node /\ IOErrors \subseteq Node
    /\ CloseNodes \subseteq Node /\ AvpNodes \subseteq Node
    /\ MaxRxQueue \in Nat /\ MaxRxQueue <= SeqHalf

(* sanitiseConfig: MaxRetries of zero is replaced by the default.          *)
MaxRetries == IF CfgMaxRetries = 0 THEN 3 ELSE CfgMaxRetries

Hello    == 0
MsgId(n) == 0 .. Sends[n]
AnyId    == MsgId("a") \cup MsgId("b")

VARIABLES
    ss,        \* ss[n]: slowStartState
    xmit,      \* xmit[n][i]: the xmitMsg of message i
    txQueue,   \* txQueue[n], ackQueue[n]: sequences of message numbers
    ackQueue,
    rxQueue,   \* rxQueue[n]: sequence of frames
    spc,       \* sender goroutine
    cur,       \* the message the sender has just written (spc = "sent")
    nri,       \* the nrInd the sender is processing, or NoNr
    rpc,       \* receiver goroutine
    pend,      \* the rxNr the receiver offers on nrChan (rpc = "nr")
    ackTimer,  \* subset of {"running", "ticked"}: armed; a tick waits in C
    helloTimer,\* helloTimer[n]: armed, or a tick waits in C
    helloInFlight,
    cpOpen,    \* the control plane socket is open
    blocked,   \* number of user goroutines blocked in "sendChan <-"
    accepted,  \* number of messages taken from sendChan
    sendClosed,\* close() has been called
    net,       \* every frame written so far (reception does not remove one)
    sentLog,   \* history: messages in the order their ns was assigned
    rcvdLog,   \* history: messages in the order incrementNr accepted them
    seenNr     \* history: highest absolute nr the sender has processed

senderVars == <<ss, xmit, txQueue, ackQueue, spc, cur, nri, helloInFlight>>
timerVars  == <<ackTimer, helloTimer>>
rxVars     == <<rxQueue, rpc, pend>>
userVars   == <<blocked, accepted, sendClosed>>
histVars   == <<sentLog, rcvdLog, seenNr>>
vars == <<senderVars, timerVars, rxVars, userVars, histVars, cpOpen, net>>

-----------------------------------------------------------------------------
(* Frames.  ns and nr are the 16-bit fields on the wire; ans and anr are   *)
(* the unbounded counters they stand for, used only by the history         *)
(* variables and by the network's lifetime assumption.                     *)

Frame == [to : Node, type : {"msg", "ack"}, id : AnyId,
          ns : SeqNum, nr : SeqNum, ans : Nat, anr : Nat]

NoNr   == [type |-> "none", nr |-> 0, anr |-> 0]
NrInd  == [type : {"none", "msg", "ack"}, nr : SeqNum, anr : Nat]
XmitMsg == [ns : SeqNum, ans : Nat, nretries : Nat,
            timer : {"off", "running", "fired"}, result : {"none", "acked", "failed"}]

NewXmitMsg == [ns |-> 0, ans |-> 0, nretries |-> 0, timer |-> "off", result |-> "none"]

(* Fault: completion is not tracked.                                       *)
isCompleteUntracked(n, i) == FALSE

isComplete(n, i) == xmit[n][i].result # "none"

(* txComplete runs onComplete once, and stops a retry timer that is still  *)
(* running.  A timer that has fired has its goroutine blocked on retryChan.*)
txComplete(m, res) ==
    IF m.result # "none" THEN m
    ELSE [m EXCEPT !.result = res, !.timer = IF @ = "running" THEN "off" ELSE @]

(* Fault: the retry timer is never started.                                *)
forgetRetryTimer(m) == m

startRetryTimer(m) == [m EXCEPT !.timer = "running"]

(* The timer's goroutine hands the message over; retransmitMessage counts. *)
retryTaken(m) == [m EXCEPT !.nretries = @ + 1, !.timer = "off"]

TypeOK ==
    /\ ss \in [Node -> SlowStartState]
    /\ xmit \in [Node -> [AnyId -> XmitMsg]]
    /\ txQueue \in [Node -> Seq(AnyId)]
    /\ ackQueue \in [Node -> Seq(AnyId)]
    /\ rxQueue \in [Node -> Seq(Frame)]
    /\ spc \in [Node -> {"select", "ack", "tx", "sent", "down", "exited"}]
    /\ cur \in [Node -> AnyId]
    /\ nri \in [Node -> NrInd]
    /\ rpc \in [Node -> {"read", "nr", "rx", "deliver", "exited"}]
    /\ pend \in [Node -> NrInd]
    /\ ackTimer \in [Node -> SUBSET {"running", "ticked"}]
    /\ helloTimer \in [Node -> BOOLEAN]
    /\ helloInFlight \in [Node -> BOOLEAN]
    /\ cpOpen \in [Node -> BOOLEAN]
    /\ blocked \in [Node -> Nat]
    /\ accepted \in [Node -> Nat]
    /\ sendClosed \in [Node -> BOOLEAN]
    /\ net \subseteq Frame
    /\ sentLog \in [Node -> Seq(AnyId)]
    /\ rcvdLog \in [Node -> Seq(AnyId)]
    /\ seenNr \in [Node -> Nat]

(* newTransport.                                                           *)
Init ==
    /\ ss = [n \in Node |-> SlowStartInit]
    /\ xmit = [n \in Node |-> [i \in AnyId |-> NewXmitMsg]]
    /\ txQueue = [n \in Node |-> <<>>]
    /\ ackQueue = [n \in Node |-> <<>>]
    /\ rxQueue = [n \in Node |-> <<>>]
    /\ spc = [n \in Node |-> "select"]
    /\ cur = [n \in Node |-> Hello]
    /\ nri = [n \in Node |-> NoNr]
    /\ rpc = [n \in Node |-> "read"]
    /\ pend = [n \in Node |-> NoNr]
    /\ ackTimer = [n \in Node |-> {}]
    /\ helloTimer = [n \in Node |-> n \in HelloNodes]
    /\ helloInFlight = [n \in Node |-> FALSE]
    /\ cpOpen = [n \in Node |-> TRUE]
    /\ blocked = [n \in Node |-> 0]
    /\ accepted = [n \in Node |-> 0]
    /\ sendClosed = [n \in Node |-> FALSE]
    /\ net = {}
    /\ sentLog = [n \in Node |-> <<>>]
    /\ rcvdLog = [n \in Node |-> <<>>]
    /\ seenNr = [n \in Node |-> 0]

-----------------------------------------------------------------------------
(* Helpers of the actions.                                                 *)

(* getSequenceNumbers followed by the rendering of a frame for the peer.   *)
FrameOf(n, type, i, ns, ans) ==
    [to |-> Peer(n), type |-> type, id |-> i, ns |-> ns, ans |-> ans,
     nr |-> ss[n].nr, anr |-> Len(rcvdLog[n])]

(* sendMessage1: a message sent for the first time takes the current ns, a *)
(* retransmission keeps the one it has; the nr is always the current one.  *)
sendMessage1(n, i, isRetransmit) ==
    IF isRetransmit
    THEN FrameOf(n, "msg", i, xmit[n][i].ns, xmit[n][i].ans)
    ELSE FrameOf(n, "msg", i, ss[n].ns, Len(sentLog[n]))

Elements(q) == {q[k] : k \in DOMAIN q}

(* The first half of down: close the socket, then wait for the receiver.   *)
GoDown(n) ==
    /\ spc' = [spc EXCEPT ![n] = "down"]
    /\ cpOpen' = [cpOpen EXCEPT ![n] = FALSE]
    /\ nri' = [nri EXCEPT ![n] = NoNr]

toggleAckTimer(n, enable) ==
    ackTimer' = [ackTimer EXCEPT ![n] = IF enable THEN @ \cup {"running"} ELSE @ \ {"running"}]

resetHelloTimer(n) ==
    helloTimer' = [helloTimer EXCEPT ![n] = IF n \in HelloNodes THEN TRUE ELSE @]

(* The end of the select case for nrChan: kick the ack timer for anything  *)
(* but an ack, and reset the hello timer.                                  *)
EndOfNr(n, type) ==
    /\ IF type = "msg" THEN toggleAckTimer(n, TRUE) ELSE UNCHANGED ackTimer
    /\ resetHelloTimer(n)
    /\ nri' = [nri EXCEPT ![n] = NoNr]
    /\ spc' = [spc EXCEPT ![n] = "select"]

(* Fault: the message nr names is taken as acked too.                      *)
HeadIsReached(n, nr, q) == q # <<>> /\ seqCompare(nr, xmit[n][Head(q)].ns) >= 0

(* The test of processAckQueue on the head of an ack queue q.              *)
HeadIsAcked(n, nr, q) == q # <<>> /\ seqCompare(nr, xmit[n][Head(q)].ns) > 0

(* The test of processTxQueue's loop.                                      *)
MaySend(q, s) == q # <<>> /\ canSend(s)

(* dequeueRxMessage: only the frame at the head of rxQueue is examined.    *)
HeadIsHandleable(s, q) ==
    q # <<>> /\ (msgIsInSequence(s, Head(q).ns) \/ msgIsStale(s, Head(q).ns))

(* Where processRxQueue's loop leaves the receiver: it goes on with the    *)
(* head of the queue, or returns to read the next frame.                   *)
RxLoop(s, q) == IF HeadIsHandleable(s, q) THEN "rx" ELSE "read"

-----------------------------------------------------------------------------
(* User goroutines.                                                        *)

(* send: a goroutine validates its message and blocks on sendChan.  It may *)
(* do so at any time, whatever has happened to the transport.              *)
Call(n) ==
    /\ ~sendClosed[n]
    /\ blocked[n] + accepted[n] < Sends[n]
    /\ blocked' = [blocked EXCEPT ![n] = @ + 1]
    /\ UNCHANGED <<senderVars, timerVars, rxVars, accepted, sendClosed, histVars, cpOpen, net>>

(* close: the callers of the transport close it once, with no send pending.*)
Close(n) ==
    /\ n \in CloseNodes /\ ~sendClosed[n] /\ blocked[n] = 0
    /\ sendClosed' = [sendClosed EXCEPT ![n] = TRUE]
    /\ UNCHANGED <<senderVars, timerVars, rxVars, blocked, accepted, histVars, cpOpen, net>>

(* recv: a goroutine takes the message the receiver offers on recvChan.    *)
UserRecv(n) ==
    /\ rpc[n] = "deliver"
    /\ rpc' = [rpc EXCEPT ![n] = RxLoop(ss[n], rxQueue[n])]
    /\ UNCHANGED <<senderVars, timerVars, rxQueue, pend, userVars, histVars, cpOpen, net>>

-----------------------------------------------------------------------------
(* Sender goroutine.                                                       *)

(* case <-sendChan: queue the message and process the tx queue.            *)
Accept(n) ==
    /\ spc[n] = "select" /\ blocked[n] > 0
    /\ blocked' = [blocked EXCEPT ![n] = @ - 1]
    /\ accepted' = [accepted EXCEPT ![n] = @ + 1]
    /\ txQueue' = [txQueue EXCEPT ![n] = Append(@, accepted[n] + 1)]
    /\ spc' = [spc EXCEPT ![n] = IF canSend(ss[n]) THEN "tx" ELSE "select"]
    /\ UNCHANGED <<ss, xmit, ackQueue, cur, nri, helloInFlight, timerVars, rxVars,
                   sendClosed, histVars, cpOpen, net>>

(* case <-sendChan, closed by the user.                                    *)
Closed(n) ==
    /\ spc[n] = "select" /\ sendClosed[n]
    /\ GoDown(n)
    /\ UNCHANGED <<ss, xmit, txQueue, ackQueue, cur, helloInFlight, timerVars, rxVars,
                   userVars, histVars, net>>

(* processTxQueue: the window is open, write the next message.             *)
TxWrite(n) ==
    /\ spc[n] = "tx"
    /\ LET i == Head(txQueue[n]) IN
       /\ net' = net \cup {sendMessage1(n, i, FALSE)}
       /\ xmit' = [xmit EXCEPT ![n][i] =
                     [@ EXCEPT !.ns = ss[n].ns, !.ans = Len(sentLog[n])]]
       /\ sentLog' = [sentLog EXCEPT ![n] = Append(@, i)]
       /\ cur' = [cur EXCEPT ![n] = i]
    /\ txQueue' = [txQueue EXCEPT ![n] = Tail(@)]
    /\ spc' = [spc EXCEPT ![n] = "sent"]
    /\ UNCHANGED <<ss, ackQueue, nri, helloInFlight, timerVars, rxVars, userVars,
                   rcvdLog, seenNr, cpOpen>>

(* processTxQueue: the write fails; complete the message and go down.      *)
TxWriteFail(n) ==
    /\ n \in IOErrors
    /\ spc[n] = "tx"
    /\ xmit' = [xmit EXCEPT ![n][Head(txQueue[n])] = txComplete(@, "failed")]
    /\ txQueue' = [txQueue EXCEPT ![n] = Tail(@)]
    /\ GoDown(n)
    /\ UNCHANGED <<ss, ackQueue, cur, helloInFlight, timerVars, rxVars, userVars, histVars, net>>

(* The rest of sendMessage after a successful write, then what its caller  *)
(* does: sendHelloMessage's only sets helloInFlight, processTxQueue's adds *)
(* the message to ackQueue, counts it in the window, and goes on with the  *)
(* next message or returns to the select case it was called from.          *)
SentHello(n) ==
    /\ spc[n] = "sent" /\ cur[n] = Hello
    /\ toggleAckTimer(n, FALSE)
    /\ resetHelloTimer(n)
    /\ ss' = [ss EXCEPT ![n] = incrementNs(@)]
    /\ xmit' = [xmit EXCEPT ![n][Hello] = startRetryTimer(@)]
    /\ helloInFlight' = [helloInFlight EXCEPT ![n] = TRUE]
    /\ spc' = [spc EXCEPT ![n] = "select"]
    /\ UNCHANGED <<txQueue, ackQueue, cur, nri, rxVars, userVars, histVars, cpOpen, net>>

Sent(n) ==
    /\ spc[n] = "sent" /\ cur[n] # Hello
    /\ ss' = [ss EXCEPT ![n] = onSend(incrementNs(@))]
    /\ xmit' = [xmit EXCEPT ![n][cur[n]] = startRetryTimer(@)]
    /\ ackQueue' = [ackQueue EXCEPT ![n] = Append(@, cur[n])]
    /\ LET more == MaySend(txQueue[n], onSend(ss[n])) IN
       /\ toggleAckTimer(n, ~more /\ nri[n].type = "msg")
       /\ spc' = [spc EXCEPT ![n] = IF more THEN "tx" ELSE "select"]
       /\ nri' = [nri EXCEPT ![n] = IF more THEN @ ELSE NoNr]
    /\ resetHelloTimer(n)
    /\ UNCHANGED <<txQueue, cur, helloInFlight, rxVars, userVars, histVars, cpOpen, net>>

(* case <-nrChan: a transfer from the receiver.  An empty rxNr (the frame  *)
(* was refused) only resets the hello timer.                               *)
NrHandoff(n) ==
    /\ spc[n] = "select" /\ rpc[n] = "nr"
    /\ rpc' = [rpc EXCEPT ![n] = RxLoop(ss[n], rxQueue[n])]
    /\ pend' = [pend EXCEPT ![n] = NoNr]
    /\ seenNr' = [seenNr EXCEPT ![n] = IF pend[n].anr > @ THEN pend[n].anr ELSE @]
    /\ IF pend[n] # NoNr /\ HeadIsAcked(n, pend[n].nr, ackQueue[n])
       THEN /\ spc' = [spc EXCEPT ![n] = "ack"]
            /\ nri' = [nri EXCEPT ![n] = pend[n]]
            /\ UNCHANGED timerVars
       ELSE EndOfNr(n, pend[n].type)
    /\ UNCHANGED <<ss, xmit, txQueue, ackQueue, cur, helloInFlight, rxQueue,
                   userVars, sentLog, rcvdLog, cpOpen, net>>

(* case <-nrChan, closed by the receiver when it terminates.               *)
NrClosed(n) ==
    /\ spc[n] = "select" /\ rpc[n] = "exited"
    /\ GoDown(n)
    /\ UNCHANGED <<ss, xmit, txQueue, ackQueue, cur, helloInFlight, timerVars, rxVars,
                   userVars, histVars, net>>

(* processAckQueue: the message at the head of the queue is acked.  When   *)
(* the next one is not, the tx queue is processed.                         *)
AckOne(n) ==
    /\ spc[n] = "ack"
    /\ ss' = [ss EXCEPT ![n] = onAck(@)]
    /\ xmit' = [xmit EXCEPT ![n][Head(ackQueue[n])] = txComplete(@, "acked")]
    /\ ackQueue' = [ackQueue EXCEPT ![n] = Tail(@)]
    /\ IF HeadIsAcked(n, nri[n].nr, Tail(ackQueue[n])) THEN UNCHANGED <<spc, nri, timerVars>>
       ELSE IF MaySend(txQueue[n], onAck(ss[n]))
            THEN spc' = [spc EXCEPT ![n] = "tx"] /\ UNCHANGED <<nri, timerVars>>
       ELSE EndOfNr(n, nri[n].type)
    /\ UNCHANGED <<txQueue, cur, helloInFlight, rxVars, userVars, histVars, cpOpen, net>>

(* case <-retryChan: the ack may have raced with the retry timer.          *)
RetryIgnored(n, i) ==
    /\ spc[n] = "select" /\ xmit[n][i].timer = "fired" /\ isComplete(n, i)
    /\ xmit' = [xmit EXCEPT ![n][i] = [@ EXCEPT !.timer = "off"]]
    /\ UNCHANGED <<ss, txQueue, ackQueue, spc, cur, nri, helloInFlight, timerVars, rxVars,
                   userVars, histVars, cpOpen, net>>

(* case <-retryChan: retransmitMessage with retries left.                  *)
Retransmit(n, i) ==
    /\ spc[n] = "select" /\ xmit[n][i].timer = "fired" /\ ~isComplete(n, i)
    /\ xmit[n][i].nretries + 1 < MaxRetries
    /\ net' = net \cup {sendMessage1(n, i, TRUE)}
    /\ xmit' = [xmit EXCEPT ![n][i] = startRetryTimer(retryTaken(@))]
    /\ ss' = [ss EXCEPT ![n] = onRetransmit(@)]
    /\ toggleAckTimer(n, FALSE)
    /\ resetHelloTimer(n)
    /\ UNCHANGED <<txQueue, ackQueue, spc, cur, nri, helloInFlight, rxVars, userVars,
                   histVars, cpOpen>>

(* case <-retryChan: the retries are exhausted, or the write fails.        *)
RetryFail(n, i) ==
    /\ spc[n] = "select" /\ xmit[n][i].timer = "fired" /\ ~isComplete(n, i)
    /\ xmit[n][i].nretries + 1 >= MaxRetries \/ n \in IOErrors
    /\ xmit' = [xmit EXCEPT ![n][i] = txComplete(retryTaken(@), "failed")]
    /\ helloInFlight' = [helloInFlight EXCEPT ![n] = IF i = Hello THEN FALSE ELSE @]
    /\ GoDown(n)
    /\ UNCHANGED <<ss, txQueue, ackQueue, cur, timerVars, rxVars, userVars, histVars, net>>

(* case <-helloTimer.C: nothing to do while a HELLO is in flight.          *)
HelloIgnored(n) ==
    /\ spc[n] = "select" /\ helloTimer[n] /\ helloInFlight[n]
    /\ helloTimer' = [helloTimer EXCEPT ![n] = FALSE]
    /\ UNCHANGED <<senderVars, ackTimer, rxVars, userVars, histVars, cpOpen, net>>

(* case <-helloTimer.C: sendHelloMessage.                                  *)
HelloWrite(n) ==
    /\ spc[n] = "select" /\ helloTimer[n] /\ ~helloInFlight[n]
    /\ helloTimer' = [helloTimer EXCEPT ![n] = FALSE]
    /\ net' = net \cup {sendMessage1(n, Hello, FALSE)}
    /\ xmit' = [xmit EXCEPT ![n][Hello] =
                  [NewXmitMsg EXCEPT !.ns = ss[n].ns, !.ans = Len(sentLog[n])]]
    /\ sentLog' = [sentLog EXCEPT ![n] = Append(@, Hello)]
    /\ cur' = [cur EXCEPT ![n] = Hello]
    /\ spc' = [spc EXCEPT ![n] = "sent"]
    /\ UNCHANGED <<ss, txQueue, ackQueue, nri, helloInFlight, ackTimer, rxVars, userVars,
                   rcvdLog, seenNr, cpOpen>>

HelloWriteFail(n) ==
    /\ n \in IOErrors
    /\ spc[n] = "select" /\ helloTimer[n] /\ ~helloInFlight[n]
    /\ helloTimer' = [helloTimer EXCEPT ![n] = FALSE]
    /\ GoDown(n)
    /\ UNCHANGED <<ss, xmit, txQueue, ackQueue, cur, helloInFlight, ackTimer, rxVars, userVars,
                   histVars, net>>

(* case <-ackTimer.C: sendExplicitAck.  It takes the current ns but does   *)
(* not consume it.                                                         *)
ExplicitAck(n) ==
    /\ spc[n] = "select" /\ "ticked" \in ackTimer[n]
    /\ ackTimer' = [ackTimer EXCEPT ![n] = @ \ {"ticked"}]
    /\ net' = net \cup {FrameOf(n, "ack", Hello, ss[n].ns, Len(sentLog[n]))}
    /\ UNCHANGED <<senderVars, helloTimer, rxVars, userVars, histVars, cpOpen>>

ExplicitAckFail(n) ==
    /\ n \in IOErrors
    /\ spc[n] = "select" /\ "ticked" \in ackTimer[n]
    /\ ackTimer' = [ackTimer EXCEPT ![n] = @ \ {"ticked"}]
    /\ GoDown(n)
    /\ UNCHANGED <<ss, xmit, txQueue, ackQueue, cur, helloInFlight, helloTimer, rxVars, userVars,
                   histVars, net>>

(* Fault: only recvChan is drained.                                        *)
DrainRecvChan(n) == rpc[n] = "deliver"

Drainable(n) == rpc[n] \in {"nr", "deliver"}

(* closeReceiver's goroutine drains what the receiver offers on nrChan and *)
(* recvChan, so that the receiver can notice that the socket is closed.    *)
Drain(n) ==
    /\ spc[n] = "down" /\ Drainable(n)
    /\ rpc' = [rpc EXCEPT ![n] = RxLoop(ss[n], rxQueue[n])]
    /\ pend' = [pend EXCEPT ![n] = NoNr]
    /\ UNCHANGED <<senderVars, timerVars, rxQueue, userVars, histVars, cpOpen, net>>

(* Fault: the messages waiting for an ack are forgotten.                   *)
FlushedTxOnly(n) == Elements(txQueue[n])

Flushed(n) == Elements(txQueue[n]) \cup Elements(ackQueue[n])

(* The rest of down, once the receiver has terminated: every message still *)
(* queued is completed with the error, and the timers are stopped.         *)
DownDone(n) ==
    /\ spc[n] = "down" /\ rpc[n] = "exited"
    /\ xmit' = [xmit EXCEPT ![n] =
                  [i \in AnyId |-> IF i \in Flushed(n) THEN txComplete(@[i], "failed") ELSE @[i]]]
    /\ txQueue' = [txQueue EXCEPT ![n] = <<>>]
    /\ ackQueue' = [ackQueue EXCEPT ![n] = <<>>]
    /\ toggleAckTimer(n, FALSE)
    /\ helloTimer' = [helloTimer EXCEPT ![n] = FALSE]
    /\ spc' = [spc EXCEPT ![n] = "exited"]
    /\ UNCHANGED <<ss, cur, nri, helloInFlight, rxVars, userVars, histVars, cpOpen, net>>

-----------------------------------------------------------------------------
(* Receiver goroutine.                                                     *)

(* The network's only promise: a frame does not outlive half of the        *)
(* sequence space, counted in what its receiver has since accepted or sent.*)
Fresh(n, p) ==
    /\ Len(rcvdLog[n]) - p.ans <= SeqHalf
    /\ Len(sentLog[n]) + 1 - p.anr <= SeqHalf

(* recvFrame: refuse a frame that acks what has not been sent.  ns may be  *)
(* one behind: the sender increments it after the write.                   *)
NrIsSane(n, p) == ~(seqCompare(p.nr, seqIncrement(ss[n].ns)) > 0)

(* rawRecv and recvFrame, on a frame that parses.                          *)
Recv(n, p) ==
    /\ rpc[n] = "read" /\ cpOpen[n]
    /\ p.to = n /\ Fresh(n, p) /\ Len(rxQueue[n]) < MaxRxQueue
    /\ IF NrIsSane(n, p)
       THEN /\ rxQueue' = [rxQueue EXCEPT ![n] = Append(@, p)]
            /\ pend' = [pend EXCEPT ![n] =
                          [type |-> p.type, nr |-> p.nr, anr |-> p.anr]]
       ELSE UNCHANGED <<rxQueue, pend>>
    /\ rpc' = [rpc EXCEPT ![n] = "nr"]
    /\ UNCHANGED <<senderVars, timerVars, userVars, histVars, cpOpen, net>>

(* recvFrame fails on a mandatory AVP it does not know.  receiver looks    *)
(* for the text of the error inside the literal "failed to parse mandatory *)
(* AVP"; the text is longer than that, so the receiver goes on.            *)
RecvUnknownAvp(n) ==
    /\ n \in AvpNodes
    /\ rpc[n] = "read" /\ cpOpen[n]
    /\ rpc' = [rpc EXCEPT ![n] = "nr"]
    /\ UNCHANGED <<senderVars, timerVars, rxQueue, pend, userVars, histVars, cpOpen, net>>

(* rawRecv fails: the socket has been closed, or has an error.  The        *)
(* receiver closes nrChan, flushes rxQueue and closes recvChan.            *)
ReadFail(n) ==
    /\ rpc[n] = "read"
    /\ ~cpOpen[n] \/ n \in IOErrors
    /\ rpc' = [rpc EXCEPT ![n] = "exited"]
    /\ rxQueue' = [rxQueue EXCEPT ![n] = <<>>]
    /\ UNCHANGED <<senderVars, timerVars, pend, userVars, histVars, cpOpen, net>>

(* processRxQueue: an in-sequence message is accepted and offered to the   *)
(* user.                                                                   *)
RxAccept(n) ==
    /\ rpc[n] = "rx"
    /\ Head(rxQueue[n]).type = "msg" /\ msgIsInSequence(ss[n], Head(rxQueue[n]).ns)
    /\ ss' = [ss EXCEPT ![n] = incrementNr(@)]
    /\ rcvdLog' = [rcvdLog EXCEPT ![n] = Append(@, Head(rxQueue[n]).id)]
    /\ rxQueue' = [rxQueue EXCEPT ![n] = Tail(@)]
    /\ rpc' = [rpc EXCEPT ![n] = "deliver"]
    /\ UNCHANGED <<xmit, txQueue, ackQueue, spc, cur, nri, helloInFlight, timerVars, pend,
                   userVars, sentLog, seenNr, cpOpen, net>>

(* processRxQueue: acks and stale messages are dropped.                    *)
RxDrop(n) ==
    /\ rpc[n] = "rx"
    /\ Head(rxQueue[n]).type = "ack" \/ ~msgIsInSequence(ss[n], Head(rxQueue[n]).ns)
    /\ rxQueue' = [rxQueue EXCEPT ![n] = Tail(@)]
    /\ rpc' = [rpc EXCEPT ![n] = RxLoop(ss[n], Tail(rxQueue[n]))]
    /\ UNCHANGED <<senderVars, timerVars, pend, userVars, histVars, cpOpen, net>>

-----------------------------------------------------------------------------
(* Timers.  No bound is assumed on how long anything takes, so an armed    *)
(* timer may fire at any time.                                             *)

RetryTimerFires(n, i) ==
    /\ xmit[n][i].timer = "running"
    /\ xmit' = [xmit EXCEPT ![n][i] = [@ EXCEPT !.timer = "fired"]]
    /\ UNCHANGED <<ss, txQueue, ackQueue, spc, cur, nri, helloInFlight, timerVars, rxVars,
                   userVars, histVars, cpOpen, net>>

AckTimerFires(n) ==
    /\ "running" \in ackTimer[n]
    /\ ackTimer' = [ackTimer EXCEPT ![n] = {"ticked"}]
    /\ UNCHANGED <<senderVars, helloTimer, rxVars, userVars, histVars, cpOpen, net>>

-----------------------------------------------------------------------------
User(n) == Call(n) \/ Close(n) \/ UserRecv(n)

SenderRetry(n) ==
    \E i \in AnyId : RetryIgnored(n, i) \/ Retransmit(n, i) \/ RetryFail(n, i)

SenderSelect(n) ==
    \/ Accept(n) \/ Closed(n) \/ NrHandoff(n) \/ NrClosed(n)
    \/ HelloIgnored(n) \/ HelloWrite(n) \/ HelloWriteFail(n)
    \/ ExplicitAck(n) \/ ExplicitAckFail(n)

SenderBusy(n) ==
    \/ TxWrite(n) \/ TxWriteFail(n) \/ Sent(n) \/ SentHello(n)
    \/ AckOne(n) \/ Drain(n) \/ DownDone(n)

ReceiverBusy(n) == RxAccept(n) \/ RxDrop(n) \/ (~cpOpen[n] /\ ReadFail(n))

Receiver(n) == (\E p \in net : Recv(n, p)) \/ RecvUnknownAvp(n) \/ ReadFail(n) \/ ReceiverBusy(n)

Timers(n) == AckTimerFires(n) \/ \E i \in AnyId : RetryTimerFires(n, i)

Next ==
    \E n \in Node :
        User(n) \/ SenderRetry(n) \/ SenderSelect(n) \/ SenderBusy(n) \/ Receiver(n) \/ Timers(n)

Spec == Init /\ [][Next]_vars

-----------------------------------------------------------------------------
(* Properties.                                                             *)

(* The window arithmetic of slowStartState stays inside its 16-bit fields  *)
(* and inside the configured window, whatever mix of sends, acks and       *)
(* retransmissions it sees; and ntx counts exactly the messages waiting in *)
(* ackQueue, so that onAck never meets ntx = 0.                            *)
WindowInv ==
    \A n \in Node :
        /\ ss[n].cwnd \in 1 .. TxWindowSize
        /\ ss[n].ntx <= TxWindowSize
        /\ ss[n].thresh <= TxWindowSize
        /\ ss[n].nacks < TxWindowSize
        /\ spc[n] # "exited" => ss[n].ntx = Len(ackQueue[n])

(* transportConfig.TxWindowSize: the number of messages sent and not yet   *)
(* covered by an nr the sender has processed never exceeds the window.     *)
OutstandingWithinWindow ==
    \A n \in Node : Len(sentLog[n]) - seenNr[n] <= TxWindowSize

(* processAckQueue looks at the head of ackQueue only: that is enough,     *)
(* because the queue is in the order of the sequence numbers, also across  *)
(* their wrap.                                                             *)
AckQueueOrdered ==
    \A n \in Node : \A j, k \in DOMAIN ackQueue[n] :
        j < k => seqCompare(xmit[n][ackQueue[n][j]].ns, xmit[n][ackQueue[n][k]].ns) = -1

(* recvFrame's sanity check never refuses a frame of a well-behaved peer,  *)
(* not even an ack that arrives between the write and incrementNs.         *)
NoGoodFrameRefused ==
    \A n \in Node : \A p \in net : p.to = n /\ Fresh(n, p) => NrIsSane(n, p)

(* down() leaves no caller of send() waiting on its completeChan: once the *)
(* sender goroutine has exited, every message it accepted is complete.     *)
NoCallerLeftWaiting ==
    \A n \in Node : spc[n] = "exited" => \A i \in 1 .. accepted[n] : isComplete(n, i)

(* The ack racing with the retry timer: a message is not retransmitted     *)
(* after the sender has processed an nr that acks it.                      *)
AckedNeverRetransmitted ==
    [][\A n \in Node : \A i \in AnyId :
          xmit'[n][i].nretries > xmit[n][i].nretries => seenNr[n] <= xmit[n][i].ans]_vars

(* Each direction implements the abstract channel: what n has numbered,    *)
(* what its peer has accepted, and what send() has reported at n.          *)
AtoB == INSTANCE ControlChannel WITH
            Msg <- AnyId, sent <- sentLog["a"], rcvd <- rcvdLog["b"],
            result <- [i \in AnyId |-> xmit["a"][i].result]

BtoA == INSTANCE ControlChannel WITH
            Msg <- AnyId, sent <- sentLog["b"], rcvd <- rcvdLog["a"],
            result <- [i \in AnyId |-> xmit["b"][i].result]

(* Messages from a to b arrive exactly once and in order, and send() at a  *)
(* succeeds only for what b has accepted, although frames are lost,        *)
(* duplicated and reordered and the sequence numbers wrap.                 *)
AtoBIsReliable == AtoB!Spec

(* The same in both directions at once, when every message also carries an *)
(* ack for the other direction.                                            *)
BothWaysReliable == AtoB!Spec /\ BtoA!Spec

(* Every message the sender goroutine accepts from send() is eventually    *)
(* completed: acked, or failed when the retries are exhausted or the       *)
(* transport goes down.                                                    *)
AcceptedCompletes ==
    \A n \in Node : \A i \in MsgId(n) \ {Hello} :
        (accepted[n] >= i) ~> isComplete(n, i)

(* The shutdown handshake between the two goroutines terminates: once the  *)
(* sender starts to go down, it waits for the receiver and exits.          *)
DownTerminates == \A n \in Node : (spc[n] = "down") ~> (spc[n] = "exited")

(* A goroutine inside send() is eventually released, with or without an    *)
(* error.                                                                  *)
SendReturns == \A n \in Node : (blocked[n] > 0) ~> (blocked[n] = 0)

(* A handleable message (stale, or the next in sequence) does not stay in  *)
(* rxQueue when processRxQueue returns.                                    *)
NothingHandleableLeft ==
    \A n \in Node : rpc[n] = "read" =>
        \A k \in DOMAIN rxQueue[n] :
            ~(\/ msgIsInSequence(ss[n], rxQueue[n][k].ns)
              \/ msgIsStale(ss[n], rxQueue[n][k].ns))

(* A message is given up on only after MaxRetries retransmissions: when a  *)
(* fired retry timer makes it fail with the socket healthy, nretries       *)
(* already counts that many.                                               *)
GivesUpAfterMaxRetries ==
    [][\A n \in Node : \A i \in AnyId :
          (cpOpen[n] /\ ~cpOpen'[n] /\ xmit[n][i].timer = "fired" /\ ~isComplete(n, i)
             /\ xmit'[n][i].result = "failed")
          => xmit[n][i].nretries >= MaxRetries]_vars

(* A frame with an unrecognised mandatory AVP makes the tunnel fail: the   *)
(* receiver terminates instead of going on to the next frame.              *)
UnknownMandatoryAvpIsFatal ==
    [][\A n \in Node : RecvUnknownAvp(n) => rpc'[n] = "exited"]_vars

(* Go's scheduler runs every goroutine that can run, armed timers fire,    *)
(* and select chooses at random among the cases that are ready, so that a  *)
(* case ready again and again is taken: weak fairness for the steps a      *)
(* goroutine takes alone, strong fairness for the cases of the select.     *)
(* Nothing is assumed of the network, of the peer's or of the local user.  *)
Fairness ==
    \A n \in Node :
        /\ WF_vars(SenderBusy(n)) /\ WF_vars(ReceiverBusy(n))
        /\ SF_vars(SenderRetry(n)) /\ SF_vars(Accept(n))
        /\ SF_vars(Closed(n)) /\ SF_vars(NrClosed(n))
        /\ \A i \in AnyId : WF_vars(RetryTimerFires(n, i))

FairSpec == Spec /\ Fairness
=============================================================================
