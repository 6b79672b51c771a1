-------------------------- MODULE MCForwardManager --------------------------
(* Small instances of ForwardManager for TLC. *)
EXTENDS ForwardManager, TLC

CONSTANTS x1

\* All VIPs stand for services of one context: so the expiry of one of them
\* differs from the shutdown of their context.
MCContextOf == [v \in Vip |-> x1]

Symmetry == Permutations(Query) \cup Permutations(Conn) \cup Permutations(State)
              \cup Permutations(Port)
=============================================================================
