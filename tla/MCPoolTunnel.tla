---------------------------- MODULE MCPoolTunnel ----------------------------
(* Small instances of PoolTunnel for TLC. *)
EXTENDS PoolTunnel, TLC

\* Safety runs only.  Users are not all alike: one of them is not allowed.
Interchangeable == Permutations(Workers) \cup Permutations(Links)
=============================================================================
