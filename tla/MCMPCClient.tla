---------------------------- MODULE MCMPCClient ----------------------------
(* Small instances of MPCClient for TLC.                                   *)
EXTENDS MPCClient, TLC

Symmetry == Permutations(Calls)
=============================================================================
