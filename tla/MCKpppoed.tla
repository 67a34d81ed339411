----------------------------- MODULE MCKpppoed -----------------------------
(* An instance of Kpppoed for TLC.  The IDs are drawn at random and only   *)
(* compared, so they are interchangeable.                                  *)
EXTENDS Kpppoed, TLC

CONSTANTS id1, id2

Symmetry == Permutations(SIDs)
=============================================================================
