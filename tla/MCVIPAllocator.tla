--------------------------- MODULE MCVIPAllocator ---------------------------
(* A small instance of VIPAllocator for TLC. *)
EXTENDS VIPAllocator

\* Eight addresses: a block at the start, the last block of the address
\* space (where next comes closest to wrapping), blocks without hosts, and an
\* IPv6 block.
MCNetworks ==
    { [v4 |-> TRUE, ip |-> 0, size |-> 4],
      [v4 |-> TRUE, ip |-> 4, size |-> 4],
      [v4 |-> TRUE, ip |-> 6, size |-> 2],
      [v4 |-> TRUE, ip |-> 3, size |-> 1],
      [v4 |-> FALSE, ip |-> 0, size |-> 4] }
=============================================================================
