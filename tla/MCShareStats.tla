---------------------------- MODULE MCShareStats ----------------------------
(* ShareStats for TLC: clients, device names and addresses are             *)
(* interchangeable.                                                        *)
EXTENDS ShareStats, TLC

Symmetry == Permutations(Workers) \cup Permutations(Names) \cup Permutations(Addrs)

=============================================================================
