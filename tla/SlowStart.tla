----------------------------- MODULE SlowStart -----------------------------
(***************************************************************************)
(* Sequence number arithmetic and the slow start / congestion avoidance    *)
(* state of the L2TP reliable control transport (l2tp/transport.go).       *)
(*                                                                         *)
(* The state of slowStartState is a record; each of its methods is an      *)
(* operator from the old record to the new one.  Every method takes the    *)
(* struct's lock for its whole body, so each is atomic.                    *)
(***************************************************************************)
EXTENDS Integers

CONSTANTS
    SeqMod,         \* size of the sequence space: 0x10000 in the code
    CfgTxWindowSize \* transportConfig.TxWindowSize; 0 means "not set"

(* The sequence space is even, so that "half of it" is exact.              *)
ASSUME SeqModAssumption == SeqMod \in Nat /\ SeqMod > 2 /\ SeqMod % 2 = 0
SeqHalf == SeqMod \div 2
SeqNum  == 0 .. SeqMod - 1

-----------------------------------------------------------------------------
(* Sequence numbers.                                                       *)

seqIncrement(s) == (s + 1) % SeqMod

(* Fault: the numbers are compared without regard to the wrap.             *)
seqCompareNoWrap(seq1, seq2) ==
    IF seq1 = seq2 THEN 0 ELSE IF seq1 > seq2 THEN 1 ELSE -1

seqCompare(seq1, seq2) ==
    LET delta == IF seq2 <= seq1 THEN seq1 - seq2 ELSE (SeqMod - seq2) + seq1
    IN  IF delta = 0 THEN 0 ELSE IF delta < SeqHalf THEN 1 ELSE -1

(* sanitiseConfig: a window of zero is replaced by the default.            *)
TxWindowSize == IF CfgTxWindowSize = 0 THEN 4 ELSE CfgTxWindowSize

(* TxWindowSize is a uint16, as the sequence numbers are.                  *)
ASSUME TxWindowAssumption == CfgTxWindowSize \in Nat /\ TxWindowSize < SeqMod

-----------------------------------------------------------------------------
(* slowStartState.                                                         *)

SlowStartState ==
    [ns : SeqNum, nr : SeqNum, cwnd : Nat, thresh : Nat, nacks : Nat, ntx : Nat]

SlowStartInit ==
    [ns |-> 0, nr |-> 0, cwnd |-> 1, thresh |-> TxWindowSize, nacks |-> 0, ntx |-> 0]

canSend(s) == s.ntx < s.cwnd

onSend(s) == [s EXCEPT !.ntx = @ + 1]

(* Fault: every ack opens the window, also past the configured one.        *)
cwndUnbounded(s) == s.cwnd + 1

(* An ack opens the window by one in slow start; in congestion avoidance,  *)
(* once nacks has counted a window full of them.                           *)
cwndOnAck(s) ==
    IF s.cwnd < TxWindowSize /\ (s.cwnd < s.thresh \/ s.nacks + 1 >= s.cwnd)
    THEN s.cwnd + 1 ELSE s.cwnd

nacksOnAck(s) ==
    IF s.cwnd >= TxWindowSize \/ s.cwnd < s.thresh THEN s.nacks
    ELSE IF s.nacks + 1 >= s.cwnd THEN 0 ELSE s.nacks + 1

onAck(s) ==
    IF s.ntx = 0 THEN s
    ELSE [s EXCEPT !.cwnd = cwndOnAck(s), !.nacks = nacksOnAck(s), !.ntx = @ - 1]

onRetransmit(s) == [s EXCEPT !.thresh = s.cwnd \div 2, !.cwnd = 1]

incrementNr(s) == [s EXCEPT !.nr = seqIncrement(@)]

(* Fault: the number is not consumed.                                      *)
incrementNsForgotten(s) == s

incrementNs(s) == [s EXCEPT !.ns = seqIncrement(@)]

(* Fault: a message ahead of the sequence is taken too.                    *)
msgIsNotStale(s, msgNs) == seqCompare(s.nr, msgNs) < 1

msgIsInSequence(s, msgNs) == seqCompare(s.nr, msgNs) = 0
msgIsStale(s, msgNs)      == seqCompare(msgNs, s.nr) = -1
=============================================================================
