-------------------------- MODULE MCDynamicTunnel --------------------------
(* Instances of DynamicTunnel for TLC.                                     *)
EXTENDS DynamicTunnel, TLC

AnyTunnelMsg == {"sccrq", "sccrp", "sccrpNoTid", "scccn", "stopccn", "bad"}
AnySessionMsg == SessionEvents \ {"tunnelopen"}
Symmetry == Permutations(Sessions)
=============================================================================
