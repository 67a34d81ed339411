--------------------------- MODULE ControlChannel ---------------------------
(***************************************************************************)
(* What one direction of the reliable control transport promises to the    *)
(* code above it: control messages reach the peer exactly once and in the  *)
(* order in which they were numbered, and send() reports success only for  *)
(* a message the peer has accepted.  Nothing is said of sequence numbers,  *)
(* windows, retransmission or the network.                                 *)
(***************************************************************************)
EXTENDS Naturals, Sequences

CONSTANT Msg  \* the messages of this direction

VARIABLES
    sent,     \* messages in the order the transport numbered them
    rcvd,     \* messages in the order the peer accepted them
    result    \* result[m]: what send() has reported of m

vars == <<sent, rcvd, result>>

Init ==
    /\ sent = <<>>
    /\ rcvd = <<>>
    /\ result = [m \in Msg |-> "none"]

(* A message is numbered and put on its way.                               *)
Send(m) ==
    /\ sent' = Append(sent, m)
    /\ UNCHANGED <<rcvd, result>>

(* The peer accepts the next message it has not accepted yet.              *)
Deliver ==
    /\ Len(rcvd) < Len(sent)
    /\ rcvd' = Append(rcvd, sent[Len(rcvd) + 1])
    /\ UNCHANGED <<sent, result>>

(* send() returns nil.                                                     *)
Ack(m) ==
    /\ result[m] = "none"
    /\ \E k \in DOMAIN rcvd : rcvd[k] = m
    /\ result' = [result EXCEPT ![m] = "acked"]
    /\ UNCHANGED <<sent, rcvd>>

(* send() returns an error to some of its callers.                         *)
Fail ==
    /\ \E S \in SUBSET {m \in Msg : result[m] = "none"} :
          result' = [m \in Msg |-> IF m \in S THEN "failed" ELSE result[m]]
    /\ UNCHANGED <<sent, rcvd>>

Next == (\E m \in Msg : Send(m) \/ Ack(m)) \/ Deliver \/ Fail

Spec == Init /\ [][Next]_vars
=============================================================================
