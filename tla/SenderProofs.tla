---------------------------- MODULE SenderProofs ----------------------------
(***************************************************************************)
(* The transport numbers its messages modulo SeqMod and compares numbers   *)
(* with a half-space rule.  These proofs relate the numbers on the wire to *)
(* the unbounded counters they stand for.                                  *)
(***************************************************************************)
EXTENDS TransportProofs
-----------------------------------------------------------------------------

(* Sequence number arithmetic.                                             *)

(* The arithmetic of sequence numbers: what % does, as seqIncrement and    *)
(* seqCompare use it.                                                      *)
LEMMA ModRange == \A a \in Nat : a % SeqMod \in SeqNum
  BY SeqModAssumption DEF SeqNum

(* Every counter is a number of rounds and a remainder.                    *)
LEMMA ModDiv ==
    ASSUME NEW a \in Nat
    PROVE  \E q \in Nat : a = SeqMod * q + (a % SeqMod)
<1>1. a \div SeqMod \in Nat /\ a = SeqMod * (a \div SeqMod) + (a % SeqMod)
  BY SeqModAssumption
<1> QED
  BY <1>1, Zenon

(* The remainder is the only number below SeqMod that fits.                *)
LEMMA ModUnique ==
    ASSUME NEW r \in SeqNum, NEW q \in Nat, NEW a \in Nat, a = SeqMod * q + r
    PROVE  a % SeqMod = r
  BY SeqModAssumption DEF SeqNum

(* seqIncrement follows the counter.                                       *)
LEMMA ModInc == \A a \in Nat : seqIncrement(a % SeqMod) = (a + 1) % SeqMod
<1> SUFFICES ASSUME NEW a \in Nat PROVE seqIncrement(a % SeqMod) = (a + 1) % SeqMod
  BY Zenon
<1>1. PICK q \in Nat : a = SeqMod * q + (a % SeqMod)
  BY ModDiv, Zenon
<1>2. a % SeqMod \in SeqNum
  BY ModRange, Zenon
<1> DEFINE r == a % SeqMod
<1> HIDE DEF r
<1>3. r \in SeqNum /\ a + 1 = SeqMod * q + (r + 1)
  BY <1>1, <1>2, SeqModAssumption DEF r, SeqNum
<1>4. CASE r + 1 < SeqMod
  <2>1. r + 1 \in SeqNum
    BY <1>3, <1>4, SeqModAssumption DEF SeqNum
  <2>2. (a + 1) % SeqMod = r + 1
    BY <2>1, <1>3, ModUnique
  <2>3. (r + 1) % SeqMod = r + 1
    BY <2>1, SeqModAssumption DEF SeqNum
  <2> QED
    BY <2>2, <2>3, Zenon DEF r, seqIncrement
<1>5. CASE r + 1 = SeqMod
  <2>0. PICK p \in Nat : p = q + 1
    OBVIOUS
  <2>1. a + 1 = SeqMod * p + 0
    BY <1>3, <1>5, <2>0, SeqModAssumption
  <2>2. (a + 1) % SeqMod = 0
    <3>1. 0 \in SeqNum /\ a + 1 \in Nat
      BY SeqModAssumption DEF SeqNum
    <3> QED
      BY <2>1, <3>1, ModUnique, Zenon
  <2>3. (r + 1) % SeqMod = 0
    BY <1>5, SeqModAssumption
  <2> QED
    BY <2>2, <2>3, Zenon DEF r, seqIncrement
<1> QED
  BY <1>3, <1>4, <1>5, SeqModAssumption DEF SeqNum

(* Half of the sequence space is exact.                                    *)
LEMMA HalfTwice == SeqHalf \in Nat /\ SeqMod = SeqHalf + SeqHalf /\ SeqHalf > 1
  BY SeqModAssumption DEF SeqHalf

(* The number of a counter that is less than a round ahead.                *)
LEMMA ModShift ==
    ASSUME NEW a \in Nat, NEW d \in Nat, d < SeqMod
    PROVE  LET r == a % SeqMod
           IN  (a + d) % SeqMod = IF r + d < SeqMod THEN r + d ELSE (r + d) - SeqMod
<1>1. PICK q \in Nat : a = SeqMod * q + (a % SeqMod)
  BY ModDiv, Zenon
<1>2. a % SeqMod \in SeqNum
  BY ModRange, Zenon
<1> DEFINE r == a % SeqMod
<1> HIDE DEF r
<1>3. r \in SeqNum /\ a + d = SeqMod * q + (r + d)
  BY <1>1, <1>2, SeqModAssumption DEF r, SeqNum
<1>4. CASE r + d < SeqMod
  <2>1. r + d \in SeqNum
    BY <1>3, <1>4, SeqModAssumption DEF SeqNum
  <2>2. (a + d) % SeqMod = r + d
    BY <2>1, <1>3, ModUnique
  <2> QED
    BY <2>2, <1>4, Zenon DEF r
<1>5. CASE ~(r + d < SeqMod)
  <2>0. (r + d) - SeqMod \in SeqNum
    BY <1>3, <1>5, SeqModAssumption DEF SeqNum
  <2>1. PICK p \in Nat : p = q + 1
    OBVIOUS
  <2>3. PICK t \in SeqNum : t = (r + d) - SeqMod
    BY <2>0, Zenon
  <2>4. a + d = SeqMod * p + t /\ a + d \in Nat
    BY <1>3, <1>5, <2>1, <2>3, SeqModAssumption DEF SeqNum
  <2>2. (a + d) % SeqMod = (r + d) - SeqMod
    BY <2>3, <2>4, ModUnique
  <2> QED
    BY <2>2, <1>5, Zenon DEF r
<1> QED
  BY <1>4, <1>5, Zenon

(* Counters less than a round apart with the same number are equal.        *)
LEMMA ModEqual ==
    ASSUME NEW a \in Nat, NEW b \in Nat, a <= b, b < a + SeqMod, a % SeqMod = b % SeqMod
    PROVE  a = b
<1>1. PICK d \in Nat : b = a + d /\ d < SeqMod
  BY SeqModAssumption
<1>2. a % SeqMod \in SeqNum
  BY ModRange, Zenon
<1> DEFINE r == a % SeqMod
<1>3. (a + d) % SeqMod = IF r + d < SeqMod THEN r + d ELSE (r + d) - SeqMod
  BY <1>1, ModShift, Zenon
<1> HIDE DEF r
<1>4. r \in SeqNum /\ r = IF r + d < SeqMod THEN r + d ELSE (r + d) - SeqMod
  BY <1>1, <1>2, <1>3, Zenon DEF r
<1> QED
  BY <1>1, <1>4, SeqModAssumption DEF SeqNum

(* seqCompare is right about a counter at most half the space behind.      *)
LEMMA CompareBehind ==
    ASSUME NEW a \in Nat, NEW b \in Nat, a <= b, b - a <= SeqHalf
    PROVE  seqCompare(a % SeqMod, b % SeqMod) = IF a = b THEN 0 ELSE -1
<1>1. PICK d \in Nat : b = a + d /\ d <= SeqHalf /\ d < SeqMod
  BY SeqModAssumption, HalfTwice
<1>2. a % SeqMod \in SeqNum
  BY ModRange, Zenon
<1> DEFINE r == a % SeqMod
<1> DEFINE t == b % SeqMod
<1>3. (a + d) % SeqMod = IF r + d < SeqMod THEN r + d ELSE (r + d) - SeqMod
  BY <1>1, ModShift, Zenon
<1>4. t = (a + d) % SeqMod
  BY <1>1, Zenon
<1> HIDE DEF r, t
<1>5. r \in SeqNum /\ t = IF r + d < SeqMod THEN r + d ELSE (r + d) - SeqMod
  BY <1>2, <1>3, <1>4, Zenon DEF r
<1>6. seqCompare(r, t) = IF d = 0 THEN 0 ELSE -1
  BY <1>1, <1>5, HalfTwice, SeqModAssumption DEF SeqNum, seqCompare
<1>7. (d = 0) <=> (a = b)
  BY <1>1
<1> QED
  BY <1>6, <1>7, Zenon DEF r, t

(* seqCompare is right about a counter less than half the space ahead.     *)
LEMMA CompareAhead ==
    ASSUME NEW a \in Nat, NEW b \in Nat, b < a, a - b < SeqHalf
    PROVE  seqCompare(a % SeqMod, b % SeqMod) = 1
<1>1. PICK d \in Nat : a = b + d /\ d < SeqHalf /\ d < SeqMod /\ d # 0
  BY SeqModAssumption, HalfTwice
<1>2. b % SeqMod \in SeqNum
  BY ModRange, Zenon
<1> DEFINE r == b % SeqMod
<1> DEFINE t == a % SeqMod
<1>3. (b + d) % SeqMod = IF r + d < SeqMod THEN r + d ELSE (r + d) - SeqMod
  BY <1>1, ModShift, Zenon
<1>4. t = (b + d) % SeqMod
  BY <1>1, Zenon
<1> HIDE DEF r, t
<1>5. r \in SeqNum /\ t = IF r + d < SeqMod THEN r + d ELSE (r + d) - SeqMod
  BY <1>2, <1>3, <1>4, Zenon DEF r
<1>6. seqCompare(t, r) = 1
  BY <1>1, <1>5, HalfTwice, SeqModAssumption DEF SeqNum, seqCompare
<1> QED
  BY <1>6, Zenon DEF r, t
-----------------------------------------------------------------------------

(* The inductive invariant.                                                *)

(* 1 while a message has been written and is not in ackQueue yet.          *)
Pending(n) == IF spc[n] = "sent" /\ cur[n] # Hello THEN 1 ELSE 0

(* 1 when a HELLO may have taken a number, which no ack queue entry has.   *)
HelloGap(n) ==
    IF helloInFlight[n] \/ (spc[n] = "sent" /\ cur[n] = Hello) \/ spc[n] \in {"down", "exited"}
    THEN 1 ELSE 0

(* The absolute number of the k-th message waiting for an ack.             *)
Ans(n, k) == xmit[n][ackQueue[n][k]].ans

(* The next absolute number as ss[n].ns has it: incremented after a write. *)
NextAns(n) == IF spc[n] = "sent" THEN Len(sentLog[n]) - 1 ELSE Len(sentLog[n])

(* The 16-bit counters are the lengths of the logs, modulo the space.      *)
CounterInv(n) ==
    /\ spc[n] = "sent" => Len(sentLog[n]) > 0 /\ xmit[n][cur[n]].ans = Len(sentLog[n]) - 1
    /\ ss[n].ns = NextAns(n) % SeqMod
    /\ ss[n].nr = Len(rcvdLog[n]) % SeqMod

(* A frame's numbers are those of counters its sender had.                 *)
FrameInv(p) ==
    /\ p.ns = p.ans % SeqMod /\ p.nr = p.anr % SeqMod
    /\ p.anr <= Len(rcvdLog[Peer(p.to)])
    /\ p.type = "msg" => /\ p.ans < Len(sentLog[Peer(p.to)])
                         /\ sentLog[Peer(p.to)][p.ans + 1] = p.id

(* A frame waits in rxQueue for at most what is before it.                 *)
RxInv(n) ==
    /\ Len(rxQueue[n]) <= MaxRxQueue
    /\ \A k \in DOMAIN rxQueue[n] :
         /\ rxQueue[n][k] \in net /\ rxQueue[n][k].to = n
         /\ Len(rcvdLog[n]) + k - rxQueue[n][k].ans <= SeqHalf + MaxRxQueue

(* What the peer has accepted is a prefix of what was sent, and the rest   *)
(* fits the window.                                                        *)
PrefixInv(n) ==
    /\ Len(rcvdLog[Peer(n)]) <= Len(sentLog[n])
    /\ \A k \in 1 .. Len(rcvdLog[Peer(n)]) : rcvdLog[Peer(n)][k] = sentLog[n][k]
    /\ Len(sentLog[n]) - Len(rcvdLog[Peer(n)]) <= TxWindowSize + 1
    /\ spc[n] \notin {"down", "exited"} =>
         Len(sentLog[n]) - Len(rcvdLog[Peer(n)]) <= Len(ackQueue[n]) + Pending(n) + HelloGap(n)

(* A message with a number has the one it was logged under.                *)
NumberedInv(n) ==
    \A i \in AnyId :
        xmit[n][i].timer # "off" \/ (spc[n] = "sent" /\ cur[n] = i) \/ i \in Elements(ackQueue[n]) =>
        /\ xmit[n][i].ns = xmit[n][i].ans % SeqMod
        /\ xmit[n][i].ans < Len(sentLog[n]) /\ sentLog[n][xmit[n][i].ans + 1] = i

(* Messages wait in the order in which they were accepted.                 *)
QueueInv(n) ==
    /\ Len(txQueue[n]) <= accepted[n]
    /\ \A k \in DOMAIN txQueue[n] : txQueue[n][k] = accepted[n] - Len(txQueue[n]) + k
    /\ \A k \in DOMAIN ackQueue[n] : ackQueue[n][k] \in 1 .. accepted[n] - Len(txQueue[n])
    /\ spc[n] = "sent" => cur[n] \in 0 .. accepted[n] - Len(txQueue[n])

(* The numbers of the messages in ackQueue are consecutive up to the last  *)
(* one, but for one HELLO.                                                 *)
GapInv(n) ==
    \A k \in DOMAIN ackQueue[n] :
        /\ Ans(n, k) + (Len(ackQueue[n]) - k) + Pending(n) <= Len(sentLog[n]) - 1
        /\ Len(sentLog[n]) - 1 <= Ans(n, k) + (Len(ackQueue[n]) - k) + Pending(n) + HelloGap(n)
        /\ \A j \in DOMAIN ackQueue[n] : j < k => Ans(n, j) < Ans(n, k)

(* The nr on offer is not so old that the message it is compared with is   *)
(* beyond half the space.                                                  *)
PendInv(n) ==
    pend[n] # NoNr =>
      /\ rpc[n] = "nr" /\ pend[n].nr = pend[n].anr % SeqMod
      /\ pend[n].anr <= Len(rcvdLog[Peer(n)])
      /\ ackQueue[n] # <<>> => Ans(n, 1) <= pend[n].anr + SeqHalf
      /\ ackQueue[n] = <<>> =>
           Len(sentLog[n]) + 1 <= pend[n].anr + SeqHalf + Pending(n) + HelloGap(n)
      /\ spc[n] = "ack" => Len(sentLog[n]) + 1 <= pend[n].anr + SeqHalf

(* processAckQueue's test has been made of the head.                       *)
AckInv(n) ==
    spc[n] = "ack" => /\ nri[n].nr = nri[n].anr % SeqMod
                      /\ nri[n].anr <= Len(rcvdLog[Peer(n)])
                      /\ Ans(n, 1) < nri[n].anr

(* A HELLO completes only when the transport goes down.                    *)
HelloInv(n) == isComplete(n, Hello) => spc[n] \in {"down", "exited"}

(* What concerns the sender goroutine of n alone.                          *)
SenderInv(n) == CounterInv(n) /\ NumberedInv(n) /\ QueueInv(n) /\ GapInv(n) /\ HelloInv(n)

(* What relates it to what the peer has accepted.                          *)
WireInv(n) == PrefixInv(n) /\ PendInv(n) /\ AckInv(n)

SeqInv ==
    /\ \A n \in Node : SenderInv(n) /\ WireInv(n) /\ RxInv(n)
    /\ \A p \in net : FrameInv(p)
-----------------------------------------------------------------------------

(* Facts used by every step.                                               *)

(* The two endpoints are each other's peer.                                *)
LEMMA Peers == \A n \in Node : Peer(n) \in Node /\ Peer(n) # n /\ Peer(Peer(n)) = n
                              /\ \A m \in Node : m = n \/ m = Peer(n)
  BY Zenon DEF Node, Peer

(* The types of what the invariant speaks of.                              *)
LEMMA NodeTypes ==
    ASSUME IndInv, NEW n \in Node
    PROVE  /\ ss[n] \in SlowStartState /\ ss[n].ns \in SeqNum /\ ss[n].nr \in SeqNum
           /\ sentLog[n] \in Seq(AnyId) /\ Len(sentLog[n]) \in Nat
           /\ rcvdLog[n] \in Seq(AnyId) /\ Len(rcvdLog[n]) \in Nat
           /\ txQueue[n] \in Seq(AnyId) /\ Len(txQueue[n]) \in Nat
           /\ ackQueue[n] \in Seq(AnyId) /\ Len(ackQueue[n]) \in Nat
           /\ rxQueue[n] \in Seq(Frame) /\ Len(rxQueue[n]) \in Nat
           /\ cur[n] \in AnyId /\ accepted[n] \in Nat
           /\ pend[n] \in NrInd /\ pend[n].anr \in Nat /\ nri[n] \in NrInd /\ nri[n].anr \in Nat
           /\ Pending(n) \in 0 .. 1 /\ HelloGap(n) \in 0 .. 1
<1>1. /\ ss[n] \in SlowStartState /\ sentLog[n] \in Seq(AnyId) /\ rcvdLog[n] \in Seq(AnyId)
      /\ txQueue[n] \in Seq(AnyId) /\ ackQueue[n] \in Seq(AnyId) /\ rxQueue[n] \in Seq(Frame)
      /\ cur[n] \in AnyId /\ accepted[n] \in Nat /\ pend[n] \in NrInd /\ nri[n] \in NrInd
  BY Zenon DEF IndInv, TypeOK
<1>2. ss[n].ns \in SeqNum /\ ss[n].nr \in SeqNum
  BY <1>1, Zenon DEF SlowStartState
<1>3. pend[n].anr \in Nat /\ nri[n].anr \in Nat
  BY <1>1, Zenon DEF NrInd
<1>4. Pending(n) \in 0 .. 1 /\ HelloGap(n) \in 0 .. 1
  BY DEF Pending, HelloGap
<1>5. /\ Len(sentLog[n]) \in Nat /\ Len(rcvdLog[n]) \in Nat /\ Len(txQueue[n]) \in Nat
      /\ Len(ackQueue[n]) \in Nat /\ Len(rxQueue[n]) \in Nat
  BY <1>1, SMTT(60)
<1> QED
  BY <1>1, <1>2, <1>3, <1>4, <1>5, Zenon

(* The number of a message in ackQueue.                                    *)
LEMMA AnsType ==
    ASSUME IndInv, NEW n \in Node
    PROVE  /\ \A i \in AnyId : xmit[n][i].ans \in Nat
           /\ \A k \in DOMAIN ackQueue[n] : ackQueue[n][k] \in AnyId /\ Ans(n, k) \in Nat
           /\ DOMAIN ackQueue[n] = 1 .. Len(ackQueue[n])
<1>1. \A i \in AnyId : xmit[n][i].ans \in Nat
  BY XmitType, Zenon DEF IndInv, XmitMsg
<1>2. ackQueue[n] \in Seq(AnyId)
  BY NodeTypes, Zenon
<1>3. \A k \in DOMAIN ackQueue[n] : ackQueue[n][k] \in AnyId
  BY <1>2
<1>4. DOMAIN ackQueue[n] = 1 .. Len(ackQueue[n])
  BY <1>2
<1> QED
  BY <1>1, <1>3, <1>4, Zenon DEF Ans

(* A log that has grown.                                                   *)
Grown(s, t) == Len(s) <= Len(t) /\ \A k \in 1 .. Len(s) : t[k] = s[k]

(* A log grows by appending.                                               *)
LEMMA GrownAppend ==
    ASSUME NEW s \in Seq(AnyId), NEW e \in AnyId
    PROVE  /\ Grown(s, s) /\ Grown(s, Append(s, e))
           /\ Len(Append(s, e)) = Len(s) + 1 /\ Append(s, e)[Len(s) + 1] = e
  BY DEF Grown

(* What Tail does to a queue.                                              *)
LEMMA TailFacts ==
    ASSUME NEW S, NEW q \in Seq(S), q # <<>>
    PROVE  /\ Tail(q) \in Seq(S) /\ Len(Tail(q)) = Len(q) - 1 /\ DOMAIN Tail(q) = 1 .. Len(q) - 1
           /\ \A k \in 1 .. Len(q) - 1 : Tail(q)[k] = q[k + 1]
           /\ Head(q) = q[1] /\ Head(q) \in S /\ Len(q) > 0
  OBVIOUS

(* What Append does to a queue.                                            *)
LEMMA AppendFacts ==
    ASSUME NEW S, NEW q \in Seq(S), NEW e \in S
    PROVE  /\ Append(q, e) \in Seq(S) /\ Len(Append(q, e)) = Len(q) + 1
           /\ DOMAIN Append(q, e) = 1 .. Len(q) + 1
           /\ \A k \in 1 .. Len(q) : Append(q, e)[k] = q[k]
           /\ Append(q, e)[Len(q) + 1] = e
           /\ Elements(Append(q, e)) = Elements(q) \cup {e}
<1>1. /\ Append(q, e) \in Seq(S) /\ Len(Append(q, e)) = Len(q) + 1
      /\ DOMAIN Append(q, e) = 1 .. Len(q) + 1
      /\ \A k \in 1 .. Len(q) : Append(q, e)[k] = q[k]
      /\ Append(q, e)[Len(q) + 1] = e
  OBVIOUS
<1>2. ASSUME NEW k \in DOMAIN Append(q, e) PROVE Append(q, e)[k] \in Elements(q) \cup {e}
  <2>1. k \in DOMAIN q \/ k = Len(q) + 1
    BY <1>1
  <2> QED
    BY <1>1, <2>1 DEF Elements
<1> QED
  BY <1>1, <1>2, ElementsAppend, SMTT(60) DEF Elements
-----------------------------------------------------------------------------

(* The numbering of n's messages stands still: the sender goroutine stays  *)
(* where it is, or moves between locations where it has nothing half done. *)
CoreSame(n) ==
    /\ spc'[n] = spc[n] \/ (spc[n] \in {"select", "tx", "ack"} /\ spc'[n] \in {"select", "tx", "ack"})
    /\ cur'[n] = cur[n] /\ helloInFlight'[n] = helloInFlight[n] /\ ackQueue'[n] = ackQueue[n]
    /\ sentLog'[n] = sentLog[n] /\ ss'[n].ns = ss[n].ns
    /\ \A i \in AnyId :
         /\ xmit'[n][i].ns = xmit[n][i].ns /\ xmit'[n][i].ans = xmit[n][i].ans
         /\ xmit'[n][i].result = xmit[n][i].result
         /\ xmit'[n][i].timer # "off" => xmit[n][i].timer # "off"

(* What such a step keeps.                                                 *)
LEMMA CoreKept ==
    ASSUME IndInv, SeqInv, NEW n \in Node, CoreSame(n),
           ss'[n].nr = Len(rcvdLog'[n]) % SeqMod
    PROVE  /\ CounterInv(n)' /\ NumberedInv(n)' /\ GapInv(n)' /\ HelloInv(n)'
           /\ rcvdLog'[Peer(n)] = rcvdLog[Peer(n)] => PrefixInv(n)'
           /\ \A k \in DOMAIN ackQueue[n] : Ans(n, k)' = Ans(n, k)
           /\ Pending(n)' = Pending(n) /\ HelloGap(n)' = HelloGap(n)
<1>1. SenderInv(n) /\ PrefixInv(n) /\ cur[n] \in AnyId /\ Hello \in AnyId
  BY NodeTypes, Constants, Zenon DEF SeqInv, WireInv
<1>2. CounterInv(n)'
  BY <1>1, ZenonT(60) DEF CoreSame, SenderInv, CounterInv, NextAns
<1>3. NumberedInv(n)'
  BY <1>1, SMTT(60) DEF CoreSame, SenderInv, NumberedInv, Elements
<1>4. HelloInv(n)'
  BY <1>1, Zenon DEF CoreSame, SenderInv, HelloInv, isComplete
<1>5. \A k \in DOMAIN ackQueue[n] : Ans(n, k)' = Ans(n, k)
  BY AnsType, ZenonT(60) DEF CoreSame, Ans
<1>6. /\ Pending(n)' = Pending(n) /\ HelloGap(n)' = HelloGap(n)
      /\ ackQueue'[n] = ackQueue[n] /\ sentLog'[n] = sentLog[n]
      /\ spc'[n] \in {"down", "exited"} <=> spc[n] \in {"down", "exited"}
  BY ZenonT(60) DEF CoreSame, Pending, HelloGap
<1>7. GapInv(n)'
  <2>1. GapInv(n)
    BY <1>1, Zenon DEF SenderInv
  <2> QED
    BY ONLY <1>5, <1>6, <2>1, Zenon DEF GapInv
<1>8. ASSUME rcvdLog'[Peer(n)] = rcvdLog[Peer(n)] PROVE PrefixInv(n)'
  BY ONLY <1>1, <1>6, <1>8, ZenonT(60) DEF PrefixInv
<1> QED
  BY <1>2, <1>3, <1>4, <1>5, <1>6, <1>7, <1>8, ZenonT(60)

(* An nr on offer stays as good as it was.                                 *)
LEMMA PendKept ==
    ASSUME IndInv, SeqInv, NEW n \in Node, CoreSame(n), ss'[n].nr = Len(rcvdLog'[n]) % SeqMod,
           rcvdLog'[Peer(n)] = rcvdLog[Peer(n)], pend'[n] = pend[n], rpc'[n] = rpc[n],
           spc'[n] = "ack" => spc[n] = "ack"
    PROVE  PendInv(n)'
<1>1. PendInv(n) /\ ackQueue[n] \in Seq(AnyId)
  BY NodeTypes, Zenon DEF SeqInv, WireInv
<1>2. sentLog'[n] = sentLog[n] /\ ackQueue'[n] = ackQueue[n]
  BY Zenon DEF CoreSame
<1>3. /\ Pending(n)' = Pending(n) /\ HelloGap(n)' = HelloGap(n)
      /\ \A k \in DOMAIN ackQueue[n] : Ans(n, k)' = Ans(n, k)
  BY CoreKept, Zenon
<1>4. ackQueue[n] # <<>> => Ans(n, 1)' = Ans(n, 1)
  BY <1>1, <1>3, SMTT(60)
<1> QED
  BY ONLY <1>1, <1>2, <1>3, <1>4, rcvdLog'[Peer(n)] = rcvdLog[Peer(n)], pend'[n] = pend[n],
          rpc'[n] = rpc[n], spc'[n] = "ack" => spc[n] = "ack", Zenon DEF PendInv

(* The queues and the sender goroutine of n stand still too.               *)
SenderSame(n) ==
    /\ CoreSame(n) /\ spc'[n] = spc[n] /\ nri'[n] = nri[n]
    /\ txQueue'[n] = txQueue[n] /\ accepted'[n] = accepted[n]

(* What a step keeps that only moves the receiver goroutine of n or sends  *)
(* a message again.                                                        *)
LEMMA SenderKept ==
    ASSUME IndInv, SeqInv, NEW n \in Node, SenderSame(n),
           ss'[n].nr = Len(rcvdLog'[n]) % SeqMod, rcvdLog'[Peer(n)] = rcvdLog[Peer(n)],
           pend'[n] = NoNr \/ (pend'[n] = pend[n] /\ rpc'[n] = rpc[n]) \/ PendInv(n)'
    PROVE  SenderInv(n)' /\ WireInv(n)'
<1>1. PrefixInv(n) /\ PendInv(n) /\ AckInv(n) /\ QueueInv(n)
  BY Zenon DEF SeqInv, SenderInv, WireInv
<1>2. /\ sentLog'[n] = sentLog[n] /\ spc'[n] = spc[n] /\ ackQueue'[n] = ackQueue[n] /\ nri'[n] = nri[n]
      /\ ackQueue[n] \in Seq(AnyId) /\ CoreSame(n)
  BY NodeTypes, ZenonT(60) DEF SenderSame, CoreSame
<1>3. /\ CounterInv(n)' /\ NumberedInv(n)' /\ GapInv(n)' /\ HelloInv(n)' /\ PrefixInv(n)'
      /\ \A k \in DOMAIN ackQueue[n] : Ans(n, k)' = Ans(n, k)
  BY <1>2, CoreKept, ZenonT(60)
<1>4. QueueInv(n)'
  BY <1>1, Zenon DEF SenderSame, CoreSame, QueueInv
<1>5. AckInv(n)'
  <2>1. spc[n] = "ack" => ackQueue[n] # <<>>
    BY ZenonT(60) DEF IndInv, LocationInv
  <2>2. spc[n] = "ack" => Ans(n, 1)' = Ans(n, 1)
    BY <1>2, <1>3, <2>1, SMTT(60)
  <2> QED
    BY ONLY <1>1, <1>2, <2>2, rcvdLog'[Peer(n)] = rcvdLog[Peer(n)], Zenon DEF AckInv
<1>6. PendInv(n)'
  <2>1. CASE pend'[n] = NoNr
    BY <2>1, Zenon DEF PendInv
  <2>2. CASE pend'[n] = pend[n] /\ rpc'[n] = rpc[n]
    BY <1>2, <2>2, PendKept, Zenon
  <2> QED
    BY <2>1, <2>2, Zenon
<1> QED
  BY <1>3, <1>4, <1>5, <1>6, Zenon DEF SenderInv, WireInv
-----------------------------------------------------------------------------

(* Writing a message.                                                      *)

(* The frames an endpoint writes carry its counters.                       *)
LEMMA NewFrame ==
    ASSUME IndInv, SeqInv, NEW n \in Node, NEW type, NEW i, NEW x, NEW y \in Nat, x = y % SeqMod,
           type = "msg" => y < Len(sentLog'[n]) /\ sentLog'[n][y + 1] = i,
           rcvdLog'[n] = rcvdLog[n], NEW p, p = FrameOf(n, type, i, x, y)
    PROVE  FrameInv(p)'
<1>1. CounterInv(n) /\ Peer(Peer(n)) = n /\ Len(rcvdLog[n]) \in Nat
  BY Peers, NodeTypes, ZenonT(60) DEF SeqInv, SenderInv
<1>2. /\ p.to = Peer(n) /\ p.type = type /\ p.id = i /\ p.ns = x /\ p.ans = y
      /\ p.nr = ss[n].nr /\ p.anr = Len(rcvdLog[n])
  BY Zenon DEF FrameOf
<1>3. p.nr = p.anr % SeqMod
  BY <1>1, <1>2, Zenon DEF CounterInv
<1>4. p.anr <= Len(rcvdLog'[Peer(p.to)])
  BY <1>1, <1>2, SMTT(60)
<1>5. p.type = "msg" => p.ans < Len(sentLog'[Peer(p.to)]) /\ sentLog'[Peer(p.to)][p.ans + 1] = p.id
  BY <1>1, <1>2, Zenon
<1> QED
  BY <1>2, <1>3, <1>4, <1>5, Zenon DEF FrameInv

(* The write of message i: it takes the next number, and ns follows later. *)
Written(n, i) ==
    /\ spc[n] \in {"select", "tx"} /\ spc'[n] = "sent" /\ cur'[n] = i
    /\ sentLog'[n] = Append(sentLog[n], i) /\ ackQueue'[n] = ackQueue[n] /\ ss'[n] = ss[n]
    /\ xmit'[n][i].ns = ss[n].ns /\ xmit'[n][i].ans = Len(sentLog[n])
    /\ \A j \in AnyId \ {i} : xmit'[n][j] = xmit[n][j]
    /\ helloInFlight'[n] = helloInFlight[n] /\ rpc'[n] = rpc[n] /\ pend'[n] = pend[n]
    /\ rcvdLog' = rcvdLog

(* sendMessage1 and what follows it, for a message and for a HELLO: the    *)
(* window has room for one more number.                                    *)
LEMMA WriteSteps ==
    \A n \in Node : IndInv /\ WindowInv /\ SeqInv /\ (TxWrite(n) \/ HelloWrite(n)) =>
        SenderInv(n)' /\ WireInv(n)' /\ \A p \in net' \ net : FrameInv(p)'
(* The window bounds the messages of n on their way.                       *)
<1>Room.
    ASSUME IndInv, WindowInv, NEW n \in Node, spc[n] # "exited"
    PROVE  /\ Len(ackQueue[n]) <= TxWindowSize
           /\ spc[n] = "tx" \/ (spc[n] = "sent" /\ cur[n] # Hello) => Len(ackQueue[n]) < TxWindowSize
  <2> USE <1>Room
  <2>1. /\ ss[n].cwnd \in 1 .. TxWindowSize /\ ss[n].ntx <= TxWindowSize /\ ss[n].ntx = Len(ackQueue[n])
        /\ spc[n] = "tx" \/ (spc[n] = "sent" /\ cur[n] # Hello) => ss[n].ntx < ss[n].cwnd
    BY Zenon DEF WindowInv, IndInv, LocationInv, canSend
  <2>2. Len(ackQueue[n]) \in Nat /\ TxWindowSize \in Nat
    BY NodeTypes, WindowPositive, Zenon
  <2> QED
    BY <2>1, <2>2, SMTT(60)
(* What a write keeps, when it is of a message not waiting for an ack and  *)
(* the window has room for it.                                             *)
<1>WriteKept.
    ASSUME IndInv, SeqInv, NEW n \in Node, NEW i \in AnyId, Written(n, i), i \notin Elements(ackQueue[n]),
           Pending(n)' + HelloGap(n)' = HelloGap(n) + 1, Pending(n)' \in 0 .. 1, HelloGap(n)' \in 0 .. 1,
           Len(ackQueue[n]) + Pending(n)' <= TxWindowSize
    PROVE  /\ CounterInv(n)' /\ NumberedInv(n)' /\ GapInv(n)' /\ WireInv(n)'
  <2> USE <1>WriteKept
  <2>1. /\ CounterInv(n) /\ NumberedInv(n) /\ GapInv(n) /\ PrefixInv(n) /\ PendInv(n)
        /\ Peer(n) \in Node
    BY Peers, Zenon DEF SeqInv, SenderInv, WireInv
  <2>2. /\ sentLog[n] \in Seq(AnyId) /\ Len(sentLog[n]) \in Nat /\ Len(ackQueue[n]) \in Nat
        /\ Len(rcvdLog[Peer(n)]) \in Nat /\ HelloGap(n) \in 0 .. 1 /\ pend[n].anr \in Nat
        /\ ackQueue[n] \in Seq(AnyId)
    BY <2>1, NodeTypes, Zenon
  <2>3. PICK L \in Nat : L = Len(sentLog[n])
    BY <2>2, Zenon
  <2>4. /\ Len(sentLog'[n]) = L + 1 /\ sentLog'[n][L + 1] = i
        /\ \A k \in 1 .. L : sentLog'[n][k] = sentLog[n][k]
    BY <2>2, <2>3, SMTT(60) DEF Written
  <2>5. \A k \in DOMAIN ackQueue[n] : Ans(n, k)' = Ans(n, k) /\ Ans(n, k) \in Nat
    <3> SUFFICES ASSUME NEW k \in DOMAIN ackQueue[n] PROVE Ans(n, k)' = Ans(n, k) /\ Ans(n, k) \in Nat
      BY Zenon
    <3>1. ackQueue[n][k] \in AnyId \ {i} /\ Ans(n, k) \in Nat
      BY AnsType, Zenon DEF Elements
    <3> QED
      BY <3>1, Zenon DEF Ans, Written
  <2>6. CounterInv(n)'
    <3>1. ss[n].ns = L % SeqMod /\ ss[n].nr = Len(rcvdLog[n]) % SeqMod
      BY <2>1, <2>3, ZenonT(60) DEF CounterInv, NextAns, Written
    <3> QED
      BY <2>3, <2>4, <3>1, SMTT(60) DEF CounterInv, NextAns, Written
  <2>7. NumberedInv(n)'
    <3> SUFFICES ASSUME NEW j \in AnyId,
                        xmit'[n][j].timer # "off" \/ (spc'[n] = "sent" /\ cur'[n] = j)
                          \/ j \in Elements(ackQueue'[n])
                 PROVE  /\ xmit'[n][j].ns = xmit'[n][j].ans % SeqMod
                        /\ xmit'[n][j].ans < Len(sentLog'[n]) /\ sentLog'[n][xmit'[n][j].ans + 1] = j
      BY Zenon DEF NumberedInv, Elements
    <3>1. CASE j = i
      <4>1. ss[n].ns = L % SeqMod
        BY <2>1, <2>3, Zenon DEF CounterInv, NextAns, Written
      <4> QED
        BY <2>3, <2>4, <3>1, <4>1, SMTT(60) DEF Written
    <3>2. CASE j # i
      <4>1. xmit'[n][j] = xmit[n][j] /\ xmit[n][j].ans \in Nat
        BY <3>2, AnsType, Zenon DEF Written
      <4>2. xmit[n][j].timer # "off" \/ j \in Elements(ackQueue[n])
        BY <3>2, <4>1, Zenon DEF Written
      <4>3. /\ xmit[n][j].ns = xmit[n][j].ans % SeqMod
            /\ xmit[n][j].ans < L /\ sentLog[n][xmit[n][j].ans + 1] = j
        BY <2>1, <2>3, <4>2, ZenonT(60) DEF NumberedInv
      <4> QED
        BY <2>4, <4>1, <4>3, SMTT(60)
    <3> QED
      BY <3>1, <3>2, Zenon
  <2>8. Pending(n) = 0 /\ spc[n] \notin {"down", "exited"}
    BY Zenon DEF Written, Pending
  <2>9. GapInv(n)'
    <3> SUFFICES ASSUME NEW k \in DOMAIN ackQueue[n]
                 PROVE  /\ Ans(n, k) + (Len(ackQueue[n]) - k) + Pending(n)' <= L
                        /\ L <= Ans(n, k) + (Len(ackQueue[n]) - k) + Pending(n)' + HelloGap(n)'
                        /\ \A j \in DOMAIN ackQueue[n] : j < k => Ans(n, j) < Ans(n, k)
      BY <2>3, <2>4, <2>5, SMTT(60) DEF GapInv, Written
    <3>1. /\ Ans(n, k) + (Len(ackQueue[n]) - k) + Pending(n) <= L - 1
          /\ L - 1 <= Ans(n, k) + (Len(ackQueue[n]) - k) + Pending(n) + HelloGap(n)
          /\ \A j \in DOMAIN ackQueue[n] : j < k => Ans(n, j) < Ans(n, k)
      BY <2>1, <2>3, Zenon DEF GapInv
    <3>2. k \in Nat /\ Ans(n, k) \in Nat
      BY <2>2, <2>5, SMTT(60)
    <3>3. /\ Ans(n, k) + (Len(ackQueue[n]) - k) + Pending(n)' <= L
          /\ L <= Ans(n, k) + (Len(ackQueue[n]) - k) + Pending(n)' + HelloGap(n)'
      BY <2>2, <2>8, <3>1, <3>2, SMTT(60)
    <3> QED
      BY <3>1, <3>3, Zenon
  <2>10. PrefixInv(n)'
    <3>0. PICK R \in Nat : R = Len(rcvdLog[Peer(n)])
      BY <2>2, Zenon
    <3>1. /\ R <= L /\ L - R <= Len(ackQueue[n]) + HelloGap(n)
          /\ \A k \in 1 .. R : rcvdLog[Peer(n)][k] = sentLog[n][k]
      <4>1. /\ R <= L /\ L - R <= Len(ackQueue[n]) + Pending(n) + HelloGap(n)
            /\ \A k \in 1 .. R : rcvdLog[Peer(n)][k] = sentLog[n][k]
        BY <2>1, <2>3, <2>8, <3>0, Zenon DEF PrefixInv
      <4> QED
        BY <2>2, <2>8, <4>1, SMTT(60)
    <3>2. ASSUME NEW k \in 1 .. R PROVE rcvdLog[Peer(n)][k] = sentLog'[n][k]
      <4>1. k \in 1 .. L
        BY <3>1, SMTT(60)
      <4> QED
        BY <2>4, <3>1, <4>1, Zenon
    <3>3. /\ R <= L + 1 /\ (L + 1) - R <= TxWindowSize + 1
          /\ (L + 1) - R <= Len(ackQueue[n]) + Pending(n)' + HelloGap(n)'
      BY <2>2, <3>1, WindowPositive, SMTT(60)
    <3> QED
      BY <2>4, <3>0, <3>2, <3>3, ZenonT(60) DEF PrefixInv, Written
  <2>11. PendInv(n)'
    <3> SUFFICES ASSUME pend[n] # NoNr
                 PROVE  /\ ackQueue[n] # <<>> => Ans(n, 1)' <= pend[n].anr + SeqHalf
                        /\ ackQueue[n] = <<>> => (L + 1) + 1 <= pend[n].anr + SeqHalf + Pending(n)' + HelloGap(n)'
      BY <2>1, <2>4, ZenonT(60) DEF PendInv, Written
    <3>1. ackQueue[n] # <<>> => Ans(n, 1) <= pend[n].anr + SeqHalf /\ Ans(n, 1)' = Ans(n, 1)
      BY <2>1, <2>2, <2>5, SMTT(60) DEF PendInv
    <3>2. ackQueue[n] = <<>> => L + 1 <= pend[n].anr + SeqHalf + HelloGap(n)
      BY <2>1, <2>2, <2>3, <2>8, HalfTwice, SMTT(60) DEF PendInv
    <3> QED
      BY <2>2, <3>1, <3>2, HalfTwice, SMTT(60)
  <2>12. AckInv(n)'
    BY Zenon DEF AckInv, Written
  <2> QED
    BY <2>6, <2>7, <2>9, <2>10, <2>11, <2>12, ZenonT(60) DEF WireInv
(* processTxQueue writes the message at the head of txQueue.               *)
<1>TxWriteStep.
    ASSUME IndInv, WindowInv, SeqInv, NEW n \in Node, TxWrite(n)
    PROVE  SenderInv(n)' /\ WireInv(n)' /\ \A p \in net' \ net : FrameInv(p)'
  <2> USE <1>TxWriteStep
  <2>1. /\ txQueue[n] \in Seq(AnyId) /\ txQueue[n] # <<>> /\ spc[n] = "tx" /\ QueueInv(n) /\ HelloInv(n)
        /\ CounterInv(n) /\ accepted[n] \in Nat /\ Len(ackQueue[n]) \in Nat /\ Len(sentLog[n]) \in Nat
        /\ sentLog[n] \in Seq(AnyId) /\ ackQueue[n] \in Seq(AnyId) /\ Hello \in AnyId
    BY NodeTypes, Constants, Zenon DEF TxWrite, IndInv, LocationInv, SeqInv, SenderInv
  <2>2. PICK i \in AnyId : i = Head(txQueue[n])
    BY <2>1
  <2>3. PICK T \in Nat : T = Len(txQueue[n]) /\ T > 0
    BY <2>1, SMTT(60)
  <2>4. i = accepted[n] - T + 1 /\ T <= accepted[n] /\ i # Hello
    <3>1. 1 \in DOMAIN txQueue[n] /\ txQueue[n][1] = i
      BY <2>1, <2>2, SMTT(60)
    <3>2. i = accepted[n] - T + 1 /\ T <= accepted[n]
      BY <2>1, <2>3, <3>1, Zenon DEF QueueInv
    <3> QED
      BY <2>1, <3>2, SMTT(60) DEF Hello
  <2>5. i \notin Elements(ackQueue[n])
    BY <2>1, <2>3, <2>4, SMTT(60) DEF QueueInv, Elements
  <2>6. /\ net' = net \cup {sendMessage1(n, i, FALSE)} /\ txQueue'[n] = Tail(txQueue[n])
        /\ accepted'[n] = accepted[n]
    BY <2>2, <2>1, Zenon DEF TxWrite, userVars, IndInv, TypeOK
  <2>7. Written(n, i)
    <3>1. xmit'[n] = [xmit[n] EXCEPT ![i] = [xmit[n][i] EXCEPT !.ns = ss[n].ns, !.ans = Len(sentLog[n])]]
      BY <2>2, Zenon DEF TxWrite, IndInv, TypeOK
    <3>2. xmit[n] \in [AnyId -> XmitMsg]
      BY Zenon DEF IndInv, TypeOK
    <3>3. /\ xmit'[n][i].ns = ss[n].ns /\ xmit'[n][i].ans = Len(sentLog[n])
          /\ \A j \in AnyId \ {i} : xmit'[n][j] = xmit[n][j]
      BY <3>1, <3>2, SMTT(60) DEF XmitMsg
    <3> QED
      BY <2>1, <2>2, <3>3, Zenon DEF TxWrite, Written, rxVars, IndInv, TypeOK
  <2>8. Pending(n)' = 1 /\ HelloGap(n)' = HelloGap(n) /\ HelloGap(n) \in 0 .. 1
    <3>1. Pending(n)' = 1 /\ HelloGap(n)' = HelloGap(n)
      BY <2>1, <2>4, <2>7, ZenonT(60) DEF Pending, HelloGap, Written
    <3> QED
      BY <3>1, NodeTypes, ZenonT(60)
  <2>9. CounterInv(n)' /\ NumberedInv(n)' /\ GapInv(n)' /\ WireInv(n)'
    <3>1. Len(ackQueue[n]) < TxWindowSize /\ TxWindowSize \in Nat
      BY <2>1, <1>Room, WindowPositive, Zenon
    <3>2. Len(ackQueue[n]) + Pending(n)' <= TxWindowSize /\ Pending(n)' + HelloGap(n)' = HelloGap(n) + 1
      BY <2>1, <2>8, <3>1
    <3>3. Pending(n)' \in 0 .. 1 /\ HelloGap(n)' \in 0 .. 1
      BY <2>8, SMTT(60)
    <3> QED
      BY <2>5, <2>7, <3>2, <3>3, <1>WriteKept, Zenon
  <2>10. QueueInv(n)'
    <3>1. /\ Len(txQueue'[n]) = T - 1
          /\ \A k \in 1 .. T - 1 : txQueue'[n][k] = txQueue[n][k + 1]
          /\ DOMAIN txQueue'[n] = 1 .. T - 1
      BY <2>1, <2>3, <2>6, TailFacts, SMTT(60)
    <3>2. \A k \in 1 .. T - 1 : txQueue[n][k + 1] = accepted[n] - T + (k + 1)
      BY <2>1, <2>3 DEF QueueInv
    <3>3. ASSUME NEW k \in DOMAIN txQueue'[n] PROVE txQueue'[n][k] = accepted[n] - (T - 1) + k
      <4>1. k \in 1 .. T - 1 /\ txQueue'[n][k] = txQueue[n][k + 1] /\ txQueue[n][k + 1] = accepted[n] - T + (k + 1)
        BY <3>1, <3>2, Zenon
      <4>2. \A a, t, j \in Nat : a - t + (j + 1) = a - (t - 1) + j
        BY SMTT(60)
      <4>3. k \in Nat /\ accepted[n] \in Nat
        BY <2>1, <4>1, SMTT(60)
      <4> QED
        BY <4>1, <4>2, <4>3, Zenon
    <3>4. \A k \in DOMAIN ackQueue[n] : ackQueue[n][k] \in 1 .. accepted[n] - (T - 1)
      BY <2>1, <2>3, SMTT(60) DEF QueueInv
    <3>5. T - 1 <= accepted[n] /\ i \in 0 .. accepted[n] - (T - 1)
      BY <2>1, <2>4, SMTT(60)
    <3> QED
      BY <2>6, <2>7, <3>1, <3>3, <3>4, <3>5, ZenonT(60) DEF QueueInv, Written
  <2>11. HelloInv(n)'
    BY <2>1, <2>4, <2>7, Zenon DEF HelloInv, isComplete, Written
  <2>12. ASSUME NEW p \in net' \ net PROVE FrameInv(p)'
    <3>1. p = FrameOf(n, "msg", i, ss[n].ns, Len(sentLog[n]))
      BY <2>6, ZenonT(60) DEF sendMessage1
    <3>2. ss[n].ns = Len(sentLog[n]) % SeqMod
      BY <2>1, Zenon DEF CounterInv, NextAns
    <3>3. Len(sentLog[n]) < Len(sentLog'[n]) /\ sentLog'[n][Len(sentLog[n]) + 1] = i /\ rcvdLog'[n] = rcvdLog[n]
      BY <2>1, <2>7, SMTT(60) DEF Written
    <3> QED
      BY <2>1, <3>1, <3>2, <3>3, NewFrame, ZenonT(60)
  <2> QED
    BY <2>9, <2>10, <2>11, <2>12, Zenon DEF SenderInv
(* sendHelloMessage writes a HELLO, which no queue holds.                  *)
<1>HelloWriteStep.
    ASSUME IndInv, WindowInv, SeqInv, NEW n \in Node, HelloWrite(n)
    PROVE  SenderInv(n)' /\ WireInv(n)' /\ \A p \in net' \ net : FrameInv(p)'
  <2> USE <1>HelloWriteStep
  <2>1. /\ spc[n] = "select" /\ ~helloInFlight[n] /\ QueueInv(n) /\ Hello \in AnyId
        /\ CounterInv(n) /\ accepted[n] \in Nat /\ Len(ackQueue[n]) \in Nat /\ Len(sentLog[n]) \in Nat
        /\ sentLog[n] \in Seq(AnyId) /\ Len(txQueue[n]) \in Nat
    BY NodeTypes, Constants, Zenon DEF HelloWrite, SeqInv, SenderInv
  <2>2. PICK i \in AnyId : i = Hello
    BY <2>1, Zenon
  <2>3. i \notin Elements(ackQueue[n])
    BY <2>1, <2>2, SMTT(60) DEF QueueInv, Elements, Hello
  <2>4. /\ net' = net \cup {sendMessage1(n, i, FALSE)} /\ txQueue'[n] = txQueue[n]
        /\ accepted'[n] = accepted[n]
    BY <2>2, Zenon DEF HelloWrite, userVars
  <2>5. Written(n, i) /\ xmit'[n][Hello].result = "none"
    <3>1. xmit'[n] = [xmit[n] EXCEPT ![i] = [NewXmitMsg EXCEPT !.ns = ss[n].ns, !.ans = Len(sentLog[n])]]
      BY <2>2, Zenon DEF HelloWrite, IndInv, TypeOK
    <3>2. xmit[n] \in [AnyId -> XmitMsg]
      BY Zenon DEF IndInv, TypeOK
    <3>3. /\ xmit'[n][i].ns = ss[n].ns /\ xmit'[n][i].ans = Len(sentLog[n]) /\ xmit'[n][i].result = "none"
          /\ \A j \in AnyId \ {i} : xmit'[n][j] = xmit[n][j]
      BY <3>1, <3>2, ZenonT(60) DEF NewXmitMsg
    <3> QED
      BY <2>1, <2>2, <3>3, Zenon DEF HelloWrite, Written, rxVars, IndInv, TypeOK
  <2>6. Pending(n)' = 0 /\ HelloGap(n)' = 1 /\ HelloGap(n) = 0
    BY <2>1, <2>2, <2>5, ZenonT(60) DEF Pending, HelloGap, Written
  <2>7. CounterInv(n)' /\ NumberedInv(n)' /\ GapInv(n)' /\ WireInv(n)'
    <3>1. Len(ackQueue[n]) <= TxWindowSize /\ TxWindowSize \in Nat
      BY <2>1, <1>Room, WindowPositive, Zenon
    <3>2. Len(ackQueue[n]) + Pending(n)' <= TxWindowSize /\ Pending(n)' + HelloGap(n)' = HelloGap(n) + 1
      BY <2>1, <2>6, <3>1
    <3>3. Pending(n)' \in 0 .. 1 /\ HelloGap(n)' \in 0 .. 1
      BY <2>6, SMTT(60)
    <3> QED
      BY <2>3, <2>5, <3>2, <3>3, <1>WriteKept, Zenon
  <2>8. QueueInv(n)'
    <3>1. Len(txQueue[n]) <= accepted[n]
      BY <2>1, ZenonT(60) DEF QueueInv
    <3>2. i \in 0 .. accepted[n] - Len(txQueue[n])
      BY <2>1, <2>2, <3>1, SMTT(60) DEF Hello
    <3> QED
      BY <2>1, <2>4, <2>5, <3>2, ZenonT(60) DEF QueueInv, Written
  <2>9. HelloInv(n)'
    BY <2>5, Zenon DEF HelloInv, isComplete
  <2>10. ASSUME NEW p \in net' \ net PROVE FrameInv(p)'
    <3>1. p = FrameOf(n, "msg", i, ss[n].ns, Len(sentLog[n]))
      BY <2>4, Zenon DEF sendMessage1
    <3>2. ss[n].ns = Len(sentLog[n]) % SeqMod
      BY <2>1, Zenon DEF CounterInv, NextAns
    <3>3. Len(sentLog[n]) < Len(sentLog'[n]) /\ sentLog'[n][Len(sentLog[n]) + 1] = i /\ rcvdLog'[n] = rcvdLog[n]
      BY <2>1, <2>5, SMTT(60) DEF Written
    <3> QED
      BY <2>1, <3>1, <3>2, <3>3, NewFrame, ZenonT(60)
  <2> QED
    BY <2>7, <2>8, <2>9, <2>10, Zenon DEF SenderInv
<1> QED
  BY <1>TxWriteStep, <1>HelloWriteStep, Zenon

(* What startRetryTimer and the other operations leave of an xmitMsg.      *)
LEMMA SameNumber ==
    ASSUME NEW m \in XmitMsg
    PROVE  /\ startRetryTimer(m).ns = m.ns /\ startRetryTimer(m).ans = m.ans
           /\ startRetryTimer(m).result = m.result
           /\ retryTaken(m).ns = m.ns /\ retryTaken(m).ans = m.ans /\ retryTaken(m).timer = "off"
           /\ \A t : [m EXCEPT !.timer = t].ns = m.ns /\ [m EXCEPT !.timer = t].ans = m.ans
                     /\ [m EXCEPT !.timer = t].timer = t
           /\ \A r : /\ txComplete(m, r).ns = m.ns /\ txComplete(m, r).ans = m.ans
                     /\ txComplete(m, r).timer # "off" => m.timer # "off"
<1>1. ASSUME NEW r
      PROVE  /\ txComplete(m, r).ns = m.ns /\ txComplete(m, r).ans = m.ans
             /\ txComplete(m, r).timer # "off" => m.timer # "off"
  <2>1. CASE m.result # "none"
    BY <2>1, Zenon DEF txComplete
  <2>2. CASE m.result = "none"
    BY <2>2, Zenon DEF txComplete, XmitMsg
  <2> QED
    BY <2>1, <2>2, Zenon
<1>2. /\ startRetryTimer(m).ns = m.ns /\ startRetryTimer(m).ans = m.ans
      /\ startRetryTimer(m).result = m.result
  BY Zenon DEF startRetryTimer, XmitMsg
<1>3. retryTaken(m).ns = m.ns /\ retryTaken(m).ans = m.ans /\ retryTaken(m).timer = "off"
  BY Zenon DEF retryTaken, XmitMsg
<1>4. \A t : [m EXCEPT !.timer = t].ns = m.ns /\ [m EXCEPT !.timer = t].ans = m.ans
             /\ [m EXCEPT !.timer = t].timer = t
  BY Zenon DEF XmitMsg
<1> QED
  BY <1>1, <1>2, <1>3, <1>4, Zenon

(* The write has succeeded: the message waits for its ack, the HELLO does  *)
(* not.                                                                    *)
LEMMA SentSteps ==
    \A n \in Node : IndInv /\ SeqInv /\ (Sent(n) \/ SentHello(n)) =>
        SenderInv(n)' /\ WireInv(n)'
(* The rest of sendMessage: ns is incremented.  What it keeps of the       *)
(* numbering, whichever caller goes on.                                    *)
<1>IncrementKept.
    ASSUME IndInv, SeqInv, NEW n \in Node, spc[n] = "sent", spc'[n] \in {"tx", "select"},
           sentLog'[n] = sentLog[n], rcvdLog'[n] = rcvdLog[n],
           ss'[n].ns = seqIncrement(ss[n].ns), ss'[n].nr = ss[n].nr
    PROVE  CounterInv(n)'
  <2> USE <1>IncrementKept
  <2>1. CounterInv(n) /\ Len(sentLog[n]) \in Nat
    BY NodeTypes, Zenon DEF SeqInv, SenderInv
  <2>2. PICK a \in Nat : a = Len(sentLog[n]) - 1
    BY <2>1, SMTT(60) DEF CounterInv
  <2>3. ss[n].ns = a % SeqMod /\ ss[n].nr = Len(rcvdLog[n]) % SeqMod
    BY <2>1, <2>2, Zenon DEF CounterInv, NextAns
  <2>4. seqIncrement(a % SeqMod) = (a + 1) % SeqMod /\ a + 1 = Len(sentLog[n])
    BY <2>1, <2>2, ModInc
  <2> QED
    BY <2>3, <2>4, Zenon DEF CounterInv, NextAns
(* processTxQueue after a write: the message enters ackQueue.              *)
<1>SentStep.
    ASSUME IndInv, SeqInv, NEW n \in Node, Sent(n)
    PROVE  SenderInv(n)' /\ WireInv(n)'
  <2> USE <1>SentStep
  <2>1. /\ CounterInv(n) /\ NumberedInv(n) /\ QueueInv(n) /\ GapInv(n) /\ HelloInv(n)
        /\ PrefixInv(n) /\ PendInv(n) /\ cur[n] \in AnyId /\ ackQueue[n] \in Seq(AnyId)
        /\ Len(ackQueue[n]) \in Nat /\ Len(sentLog[n]) \in Nat /\ accepted[n] \in Nat /\ Len(txQueue[n]) \in Nat
        /\ HelloGap(n) \in 0 .. 1 /\ pend[n].anr \in Nat /\ Hello \in AnyId
        /\ Peer(n) \in Node /\ Len(rcvdLog[Peer(n)]) \in Nat
    BY NodeTypes, Constants, Peers, ZenonT(60) DEF SeqInv, SenderInv, WireInv
  <2>2. PICK i \in AnyId : i = cur[n]
    BY <2>1, ZenonT(60)
  <2>3. /\ spc[n] = "sent" /\ i # Hello /\ spc'[n] \in {"tx", "select"} /\ cur'[n] = cur[n]
        /\ ackQueue'[n] = Append(ackQueue[n], i) /\ txQueue' = txQueue /\ accepted' = accepted
        /\ sentLog' = sentLog /\ rcvdLog' = rcvdLog /\ helloInFlight' = helloInFlight
        /\ rpc' = rpc /\ pend' = pend
    BY <2>2, Zenon DEF Sent, IndInv, TypeOK, rxVars, userVars, histVars
  <2>4. ss'[n].ns = seqIncrement(ss[n].ns) /\ ss'[n].nr = ss[n].nr
    <3>1. ss[n] \in SlowStartState /\ ss'[n] = onSend(incrementNs(ss[n]))
      BY NodeTypes, Zenon DEF Sent, IndInv, TypeOK
    <3> QED
      BY <3>1, Zenon DEF onSend, incrementNs, SlowStartState
  <2>5. /\ xmit'[n][i].ns = xmit[n][i].ns /\ xmit'[n][i].ans = xmit[n][i].ans
        /\ \A j \in AnyId \ {i} : xmit'[n][j] = xmit[n][j]
    <3>1. xmit'[n] = [xmit[n] EXCEPT ![i] = startRetryTimer(xmit[n][i])] /\ xmit[n] \in [AnyId -> XmitMsg]
      BY <2>2, Zenon DEF Sent, IndInv, TypeOK
    <3> QED
      BY <3>1, SameNumber, SMTT(60)
  <2>6. CounterInv(n)'
    BY <2>3, <2>4, <1>IncrementKept, ZenonT(60)
  <2>7. NumberedInv(n)'
    <3>1. Elements(ackQueue'[n]) = Elements(ackQueue[n]) \cup {i}
      <4>1. ackQueue[n] \in Seq(AnyId) /\ ackQueue'[n] = Append(ackQueue[n], i) /\ i \in AnyId
        BY <2>1, <2>3, Zenon
      <4> QED
        BY <4>1, AppendFacts, SMTT(60)
    <3> SUFFICES ASSUME NEW j \in AnyId, xmit'[n][j].timer # "off" \/ j \in Elements(ackQueue'[n])
                 PROVE  /\ xmit'[n][j].ns = xmit'[n][j].ans % SeqMod
                        /\ xmit'[n][j].ans < Len(sentLog[n]) /\ sentLog[n][xmit'[n][j].ans + 1] = j
      BY <2>3, Zenon DEF NumberedInv, Elements
    <3>2. j = i \/ xmit[n][j].timer # "off" \/ j \in Elements(ackQueue[n])
      BY <2>5, <3>1, ZenonT(60)
    <3>3. /\ xmit[n][j].ns = xmit[n][j].ans % SeqMod
          /\ xmit[n][j].ans < Len(sentLog[n]) /\ sentLog[n][xmit[n][j].ans + 1] = j
      BY <2>1, <2>2, <2>3, <3>2, ZenonT(60) DEF NumberedInv
    <3> QED
      BY <2>5, <3>3, ZenonT(60)
  <2>8. PICK A, L, h, R \in Nat : A = Len(ackQueue[n]) /\ L = Len(sentLog[n]) /\ h = HelloGap(n)
                                  /\ R = Len(rcvdLog[Peer(n)])
    <3>1. HelloGap(n) \in Nat
      BY <2>1, SMTT(60)
    <3> QED
      BY <2>1, <3>1, Zenon
  <2>9. /\ Len(ackQueue'[n]) = A + 1 /\ DOMAIN ackQueue'[n] = 1 .. A + 1 /\ ackQueue'[n][A + 1] = i
        /\ \A k \in 1 .. A : ackQueue'[n][k] = ackQueue[n][k]
        /\ ackQueue'[n] # <<>> /\ DOMAIN ackQueue[n] = 1 .. A
    <3>1. ackQueue[n] \in Seq(AnyId) /\ ackQueue'[n] = Append(ackQueue[n], i) /\ i \in AnyId
      BY <2>1, <2>3, Zenon
    <3>2. /\ Len(ackQueue'[n]) = A + 1 /\ DOMAIN ackQueue'[n] = 1 .. A + 1 /\ ackQueue'[n][A + 1] = i
          /\ \A k \in 1 .. A : ackQueue'[n][k] = ackQueue[n][k]
      BY <2>8, <3>1, AppendFacts, SMTT(60)
    <3>3. DOMAIN ackQueue[n] = 1 .. A /\ ackQueue'[n] # <<>>
      BY <2>8, <3>1, SMTT(60)
    <3> QED
      BY <3>2, <3>3, Zenon
  <2>10. QueueInv(n)'
    <3>1. i \in 1 .. accepted[n] - Len(txQueue[n])
      BY <2>1, <2>2, <2>3, SMTT(60) DEF QueueInv, Hello
    <3>2. \A k \in DOMAIN ackQueue'[n] : ackQueue'[n][k] \in 1 .. accepted[n] - Len(txQueue[n])
      <4> SUFFICES ASSUME NEW k \in 1 .. A + 1 PROVE ackQueue'[n][k] \in 1 .. accepted[n] - Len(txQueue[n])
        BY <2>9, Zenon
      <4>1. CASE k = A + 1
        BY <2>9, <3>1, <4>1, Zenon
      <4>2. CASE k \in 1 .. A
        BY <2>1, <2>9, <4>2, ZenonT(60) DEF QueueInv
      <4> QED
        BY <4>1, <4>2
    <3> QED
      BY <2>1, <2>3, <3>2, Zenon DEF QueueInv
  <2>11. Pending(n) = 1 /\ Pending(n)' = 0 /\ HelloGap(n)' = h
    BY <2>2, <2>3, <2>8, Zenon DEF Pending, HelloGap
  <2>12. /\ \A k \in 1 .. A : Ans(n, k)' = Ans(n, k) /\ Ans(n, k) \in Nat
         /\ Ans(n, A + 1)' = L - 1
    <3>1. ASSUME NEW k \in 1 .. A PROVE Ans(n, k)' = Ans(n, k) /\ Ans(n, k) \in Nat
      <4>1. ackQueue[n][k] \in AnyId /\ Ans(n, k) \in Nat
        BY <2>9, AnsType, Zenon
      <4> QED
        BY <2>5, <2>9, <4>1, ZenonT(60) DEF Ans
    <3>2. Ans(n, A + 1)' = L - 1
      BY <2>1, <2>2, <2>3, <2>5, <2>8, <2>9, ZenonT(60) DEF Ans, CounterInv
    <3> QED
      BY <3>1, <3>2, Zenon
  <2>13. ASSUME NEW k \in 1 .. A
         PROVE  /\ Ans(n, k) + ((A + 1) - k) <= L - 1 /\ L - 1 <= Ans(n, k) + ((A + 1) - k) + h
                /\ \A j \in 1 .. A : j < k => Ans(n, j) < Ans(n, k)
    <3>1. /\ Ans(n, k) + (A - k) + Pending(n) <= L - 1
          /\ L - 1 <= Ans(n, k) + (A - k) + Pending(n) + h
          /\ \A j \in 1 .. A : j < k => Ans(n, j) < Ans(n, k)
      BY <2>1, <2>8, <2>9, ZenonT(60) DEF GapInv
    <3>2. Ans(n, k) \in Nat
      BY <2>12, Zenon
    <3>3. Ans(n, k) + ((A + 1) - k) <= L - 1 /\ L - 1 <= Ans(n, k) + ((A + 1) - k) + h
      BY <2>11, <3>1, <3>2, SMTT(60)
    <3> QED
      BY <3>1, <3>3, Zenon
  <2>14. GapInv(n)'
    <3> SUFFICES ASSUME NEW k \in 1 .. A + 1
                 PROVE  /\ Ans(n, k)' + ((A + 1) - k) + 0 <= L - 1
                        /\ L - 1 <= Ans(n, k)' + ((A + 1) - k) + 0 + h
                        /\ \A j \in 1 .. A + 1 : j < k => Ans(n, j)' < Ans(n, k)'
      BY <2>3, <2>8, <2>9, <2>11, ZenonT(60) DEF GapInv
    <3>1. CASE k = A + 1
      <4>1. ASSUME NEW j \in 1 .. A PROVE Ans(n, j)' < L - 1
        <5>1. Ans(n, j) + ((A + 1) - j) <= L - 1 /\ Ans(n, j) \in Nat /\ Ans(n, j)' = Ans(n, j)
          BY <2>12, <2>13, Zenon
        <5> QED
          BY <5>1, SMTT(60)
      <4>2. \A j \in 1 .. A + 1 : j < A + 1 => j \in 1 .. A
        OBVIOUS
      <4> QED
        BY <2>12, <3>1, <4>1, <4>2, SMTT(60)
    <3>2. CASE k \in 1 .. A
      <4>1. Ans(n, k)' = Ans(n, k) /\ Ans(n, k) \in Nat
        BY <2>12, <3>2, Zenon
      <4>2. ASSUME NEW j \in 1 .. A + 1, j < k PROVE Ans(n, j)' < Ans(n, k)'
        <5>1. j \in 1 .. A
          BY <3>2, <4>2, SMTT(60)
        <5> QED
          BY <2>12, <2>13, <3>2, <4>2, <5>1, ZenonT(60)
      <4> QED
        BY <2>13, <3>2, <4>1, <4>2, SMTT(60)
    <3> QED
      BY <3>1, <3>2, SMTT(60)
  <2>15. HelloInv(n)'
    BY <2>1, <2>3, <2>5, Zenon DEF HelloInv, isComplete
  <2>16. PrefixInv(n)'
    <3>1. /\ R <= L /\ L - R <= TxWindowSize + 1 /\ L - R <= A + Pending(n) + h
          /\ \A k \in 1 .. R : rcvdLog[Peer(n)][k] = sentLog[n][k]
      BY <2>1, <2>3, <2>8, Zenon DEF PrefixInv
    <3>2. L - R <= (A + 1) + 0 + h
      BY <2>11, <3>1, SMTT(60)
    <3> QED
      BY <2>3, <2>8, <2>9, <2>11, <3>1, <3>2, Zenon DEF PrefixInv
  <2>17. PendInv(n)'
    <3> SUFFICES ASSUME pend[n] # NoNr PROVE Ans(n, 1)' <= pend[n].anr + SeqHalf
      BY <2>1, <2>3, <2>9, ZenonT(60) DEF PendInv
    <3>1. CASE ackQueue[n] = <<>>
      <4>1. L + 1 <= pend[n].anr + SeqHalf + Pending(n) + h
        BY <2>1, <2>8, <3>1, ZenonT(60) DEF PendInv
      <4>2. A = 0
        BY <2>8, <3>1, Zenon
      <4> QED
        BY <2>1, <2>8, <2>11, <2>12, <4>1, <4>2, HalfTwice, SMTT(60)
    <3>2. CASE ackQueue[n] # <<>>
      <4>1. 1 \in 1 .. A /\ Ans(n, 1) <= pend[n].anr + SeqHalf
        BY <2>1, <2>8, <3>2, SMTT(60) DEF PendInv
      <4> QED
        BY <2>12, <4>1, Zenon
    <3> QED
      BY <3>1, <3>2, Zenon
  <2>18. AckInv(n)'
    BY <2>3, Zenon DEF AckInv
  <2> QED
    BY <2>6, <2>7, <2>10, <2>14, <2>15, <2>16, <2>17, <2>18, Zenon DEF SenderInv, WireInv
(* sendHelloMessage after the write.                                       *)
<1>SentHelloStep.
    ASSUME IndInv, SeqInv, NEW n \in Node, SentHello(n)
    PROVE  SenderInv(n)' /\ WireInv(n)'
  <2> USE <1>SentHelloStep
  <2>1. /\ CounterInv(n) /\ NumberedInv(n) /\ QueueInv(n) /\ GapInv(n) /\ HelloInv(n)
        /\ PrefixInv(n) /\ PendInv(n) /\ ackQueue[n] \in Seq(AnyId) /\ Hello \in AnyId
    BY NodeTypes, Constants, ZenonT(60) DEF SeqInv, SenderInv, WireInv
  <2>2. /\ spc[n] = "sent" /\ cur[n] = Hello /\ spc'[n] = "select" /\ cur'[n] = cur[n]
        /\ ackQueue' = ackQueue /\ txQueue' = txQueue /\ accepted' = accepted
        /\ sentLog' = sentLog /\ rcvdLog' = rcvdLog /\ helloInFlight'[n] = TRUE
        /\ rpc' = rpc /\ pend' = pend
    BY Zenon DEF SentHello, IndInv, TypeOK, rxVars, userVars, histVars
  <2>3. ss'[n].ns = seqIncrement(ss[n].ns) /\ ss'[n].nr = ss[n].nr
    <3>1. ss[n] \in SlowStartState /\ ss'[n] = incrementNs(ss[n])
      BY NodeTypes, Zenon DEF SentHello, IndInv, TypeOK
    <3> QED
      BY <3>1, Zenon DEF incrementNs, SlowStartState
  <2>4. /\ \A j \in AnyId : /\ xmit'[n][j].ns = xmit[n][j].ns /\ xmit'[n][j].ans = xmit[n][j].ans
                            /\ xmit'[n][j].result = xmit[n][j].result
        /\ \A j \in AnyId \ {Hello} : xmit'[n][j] = xmit[n][j]
    <3>1. xmit'[n] = [xmit[n] EXCEPT ![Hello] = startRetryTimer(xmit[n][Hello])] /\ xmit[n] \in [AnyId -> XmitMsg]
      BY Zenon DEF SentHello, IndInv, TypeOK
    <3> QED
      BY <2>1, <3>1, SameNumber, SMTT(60)
  <2>5. CounterInv(n)'
    BY <2>2, <2>3, <1>IncrementKept, ZenonT(60)
  <2>6. NumberedInv(n)'
    <3> SUFFICES ASSUME NEW j \in AnyId, xmit'[n][j].timer # "off" \/ j \in Elements(ackQueue[n])
                 PROVE  /\ xmit'[n][j].ns = xmit'[n][j].ans % SeqMod
                        /\ xmit'[n][j].ans < Len(sentLog[n]) /\ sentLog[n][xmit'[n][j].ans + 1] = j
      BY <2>2, ZenonT(60) DEF NumberedInv, Elements
    <3>1. j = Hello \/ xmit[n][j].timer # "off" \/ j \in Elements(ackQueue[n])
      BY <2>4, Zenon
    <3>2. /\ xmit[n][j].ns = xmit[n][j].ans % SeqMod
          /\ xmit[n][j].ans < Len(sentLog[n]) /\ sentLog[n][xmit[n][j].ans + 1] = j
      BY <2>1, <2>2, <3>1, ZenonT(60) DEF NumberedInv
    <3> QED
      BY <2>4, <3>2, Zenon
  <2>7. QueueInv(n)'
    BY <2>1, <2>2, ZenonT(60) DEF QueueInv
  <2>8. /\ Pending(n)' = Pending(n) /\ HelloGap(n)' = HelloGap(n)
        /\ \A k \in DOMAIN ackQueue[n] : Ans(n, k)' = Ans(n, k)
        /\ ackQueue[n] # <<>> => Ans(n, 1)' = Ans(n, 1)
    <3>1. \A k \in DOMAIN ackQueue[n] : Ans(n, k)' = Ans(n, k)
      BY <2>2, <2>4, AnsType, Zenon DEF Ans
    <3>2. ackQueue[n] # <<>> => 1 \in DOMAIN ackQueue[n]
      BY <2>1, SMTT(60)
    <3>3. Pending(n)' = Pending(n) /\ HelloGap(n)' = HelloGap(n)
      BY <2>2, ZenonT(60) DEF Pending, HelloGap
    <3> QED
      BY <3>1, <3>2, <3>3, ZenonT(60)
  <2>9. GapInv(n)'
    BY ONLY <2>1, <2>2, <2>8, ZenonT(60) DEF GapInv
  <2>10. HelloInv(n)'
    BY <2>1, <2>2, <2>4, ZenonT(60) DEF HelloInv, isComplete
  <2>11. PrefixInv(n)'
    BY ONLY <2>1, <2>2, <2>8, ZenonT(60) DEF PrefixInv
  <2>12. PendInv(n)'
    BY ONLY <2>1, <2>2, <2>8, ZenonT(60) DEF PendInv
  <2>13. AckInv(n)'
    BY <2>2, ZenonT(60) DEF AckInv
  <2> QED
    BY <2>5, <2>6, <2>7, <2>9, <2>10, <2>11, <2>12, <2>13, ZenonT(60) DEF SenderInv, WireInv
<1> QED
  BY <1>SentStep, <1>SentHelloStep, Zenon
-----------------------------------------------------------------------------

(* The cases of the sender goroutine's select.                             *)

(* case <-sendChan: the new message goes behind those that wait.           *)
LEMMA AcceptStep ==
    ASSUME IndInv, SeqInv, NEW n \in Node, Accept(n)
    PROVE  SenderInv(n)' /\ WireInv(n)'
<1>1. /\ spc[n] = "select" /\ spc'[n] \in {"select", "tx"} /\ accepted'[n] = accepted[n] + 1
      /\ txQueue'[n] = Append(txQueue[n], accepted[n] + 1)
      /\ UNCHANGED <<ss, xmit, ackQueue, cur, helloInFlight, pend, rpc, sentLog, rcvdLog>>
  BY Zenon DEF Accept, rxVars, histVars, IndInv, TypeOK
<1>2. /\ QueueInv(n) /\ CounterInv(n) /\ txQueue[n] \in Seq(AnyId) /\ accepted[n] \in Nat
      /\ accepted[n] + 1 \in AnyId
  BY NodeTypes, NextId, ZenonT(60) DEF SeqInv, SenderInv
<1>3. CoreSame(n) /\ ss'[n].nr = Len(rcvdLog'[n]) % SeqMod
  BY <1>1, <1>2, ZenonT(60) DEF CoreSame, CounterInv
<1>4. CounterInv(n)' /\ NumberedInv(n)' /\ GapInv(n)' /\ HelloInv(n)' /\ PrefixInv(n)'
  BY <1>1, <1>3, CoreKept, ZenonT(60)
<1>5. PendInv(n)'
  BY <1>1, <1>3, PendKept, ZenonT(60)
<1>6. AckInv(n)'
  BY <1>1, Zenon DEF AckInv
<1>7. QueueInv(n)'
  <2>1. PICK T \in Nat : T = Len(txQueue[n])
    BY <1>2, SMTT(60)
  <2>2. PICK a \in Nat : a = accepted[n]
    BY <1>2, Zenon
  <2>3. /\ Len(txQueue'[n]) = T + 1 /\ DOMAIN txQueue'[n] = 1 .. T + 1 /\ txQueue'[n][T + 1] = a + 1
        /\ \A k \in 1 .. T : txQueue'[n][k] = txQueue[n][k]
    BY <1>1, <1>2, <2>1, <2>2, AppendFacts, SMTT(60)
  <2>4. T <= a /\ \A k \in 1 .. T : txQueue[n][k] = a - T + k
    BY <1>2, <2>1, <2>2, SMTT(60) DEF QueueInv
  <2>5. ASSUME NEW k \in 1 .. T + 1 PROVE txQueue'[n][k] = (a + 1) - (T + 1) + k
    <3>1. CASE k = T + 1
      BY <2>3, <3>1, SMTT(60)
    <3>2. CASE k \in 1 .. T
      BY <2>3, <2>4, <3>2, SMTT(60)
    <3> QED
      BY <3>1, <3>2, SMTT(60)
  <2>6. \A k \in DOMAIN ackQueue[n] : ackQueue[n][k] \in 1 .. (a + 1) - (T + 1)
    BY <1>2, <2>1, <2>2, SMTT(60) DEF QueueInv
  <2>7. /\ accepted'[n] = a + 1 /\ T + 1 <= a + 1 /\ ackQueue'[n] = ackQueue[n] /\ spc'[n] # "sent"
    BY <1>1, <2>2, <2>4, SMTT(60)
  <2> QED
    BY ONLY <2>3, <2>5, <2>6, <2>7, ZenonT(60) DEF QueueInv
<1> QED
  BY <1>4, <1>5, <1>6, <1>7, Zenon DEF SenderInv, WireInv

(* The half-space comparison of processAckQueue is sound for an nr that is *)
(* not more than half the space behind.                                    *)
LEMMA AckSound ==
    ASSUME NEW a \in Nat, NEW b \in Nat, b <= a + SeqHalf, seqCompare(a % SeqMod, b % SeqMod) > 0
    PROVE  b < a
<1> SUFFICES ASSUME ~(b < a) PROVE FALSE
  BY Zenon
<1>1. a <= b /\ b - a <= SeqHalf
  BY HalfTwice
<1>2. seqCompare(a % SeqMod, b % SeqMod) = IF a = b THEN 0 ELSE -1
  BY <1>1, CompareBehind, Zenon
<1> QED
  BY <1>2

(* case <-nrChan: processAckQueue's test of the head of ackQueue.          *)
LEMMA NrHandoffStep ==
    ASSUME IndInv, SeqInv, NEW n \in Node, NrHandoff(n)
    PROVE  SenderInv(n)' /\ WireInv(n)'
<1>1. /\ spc[n] = "select" /\ spc'[n] \in {"select", "ack"} /\ pend'[n] = NoNr
      /\ UNCHANGED <<ss, xmit, txQueue, ackQueue, cur, helloInFlight, accepted, sentLog, rcvdLog>>
      /\ spc'[n] = "ack" => /\ nri'[n] = pend[n] /\ pend[n] # NoNr
                            /\ HeadIsAcked(n, pend[n].nr, ackQueue[n])
  BY Zenon DEF NrHandoff, EndOfNr, userVars, IndInv, TypeOK
<1>2. /\ QueueInv(n) /\ CounterInv(n) /\ NumberedInv(n) /\ PendInv(n)
      /\ ackQueue[n] \in Seq(AnyId) /\ pend[n].anr \in Nat
  BY NodeTypes, ZenonT(60) DEF SeqInv, SenderInv, WireInv
<1>3. CoreSame(n) /\ ss'[n].nr = Len(rcvdLog'[n]) % SeqMod
  BY <1>1, <1>2, ZenonT(60) DEF CoreSame, CounterInv
<1>4. CounterInv(n)' /\ NumberedInv(n)' /\ GapInv(n)' /\ HelloInv(n)' /\ PrefixInv(n)'
  BY <1>1, <1>3, CoreKept, ZenonT(60)
<1>5. QueueInv(n)'
  BY <1>1, <1>2, ZenonT(60) DEF QueueInv
<1>6. PendInv(n)'
  BY <1>1, ZenonT(60) DEF PendInv
<1>7. AckInv(n)'
  <2> SUFFICES ASSUME spc'[n] = "ack"
               PROVE  /\ pend[n].nr = pend[n].anr % SeqMod
                      /\ pend[n].anr <= Len(rcvdLog[Peer(n)])
                      /\ Ans(n, 1)' < pend[n].anr
    BY <1>1, Zenon DEF AckInv
  <2>1. ackQueue[n] # <<>> /\ seqCompare(pend[n].nr, xmit[n][Head(ackQueue[n])].ns) > 0 /\ pend[n] # NoNr
    BY <1>1, ZenonT(60) DEF HeadIsAcked
  <2>2. 1 \in DOMAIN ackQueue[n] /\ Head(ackQueue[n]) = ackQueue[n][1]
    BY <1>2, <2>1, SMTT(60)
  <2>3. Ans(n, 1) \in Nat /\ ackQueue[n][1] \in AnyId
    BY <2>2, AnsType, Zenon
  <2>4. xmit[n][ackQueue[n][1]].ns = Ans(n, 1) % SeqMod
    BY <1>2, <2>2, <2>3, ZenonT(60) DEF NumberedInv, Elements, Ans
  <2>5. /\ pend[n].nr = pend[n].anr % SeqMod /\ pend[n].anr <= Len(rcvdLog[Peer(n)])
        /\ Ans(n, 1) <= pend[n].anr + SeqHalf
    BY <1>2, <2>1, ZenonT(60) DEF PendInv
  <2>6. Ans(n, 1) < pend[n].anr
    BY <1>2, <2>1, <2>2, <2>3, <2>4, <2>5, AckSound, ZenonT(60)
  <2>7. Ans(n, 1)' = Ans(n, 1)
    BY <1>1, ZenonT(60) DEF Ans
  <2> QED
    BY <2>5, <2>6, <2>7, ZenonT(60)
<1> QED
  BY <1>4, <1>5, <1>6, <1>7, Zenon DEF SenderInv, WireInv
=============================================================================
