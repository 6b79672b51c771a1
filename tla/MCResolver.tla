----------------------------- MODULE MCResolver -----------------------------
(* Small instance of Resolver for TLC. *)
EXTENDS Resolver, TLC

Symmetric == Permutations(Call) \cup Permutations(Cluster)
=============================================================================
