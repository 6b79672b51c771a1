----------------------------- MODULE MCSpdyPool -----------------------------
(* Small instances of SpdyPool for TLC. *)
EXTENDS SpdyPool

CONSTANTS k1, x1, x2

\* The first pod is in a context of its own.
MCContextOf == [k \in Key |-> IF k = k1 THEN x1 ELSE x2]
=============================================================================
