----------------------------- MODULE MCLibrary ------------------------------
(***************************************************************************)
(* Library with three callers, three tunnels, three sessions and three     *)
(* handlers.                                                               *)
(***************************************************************************)
EXTENDS Library

ThreeCalls == {"c1", "c2", "c3"}
OneOfEachKind == [c1 |-> "dynamic", c2 |-> "static", c3 |-> "quiescent"]
DistinctTunnelNames == [c1 |-> "n1", c2 |-> "n2", c3 |-> "n3"]
OneAllocated == [c1 |-> 0, c2 |-> 2, c3 |-> 3]
FewIDs == 0..3

\* The third session asks for the ID of the second.
ThreeSessions == {"s1", "s2", "s3"}
DistinctSessionNames == [s1 |-> "n1", s2 |-> "n2", s3 |-> "n3"]
SharedID == [s1 |-> 0, s2 |-> 2, s3 |-> 2]
=============================================================================
