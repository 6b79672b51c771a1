---------------------------- MODULE MCDNSServer ----------------------------
(* Small instance of DNSServer for TLC. *)
EXTENDS DNSServer, TLC

CONSTANTS x1, x2, s1, p1, p2

\* Both contexts have the service.
Both == {{<<x1, s1>>, <<x2, s1>>}}

\* A service has one port, and gets a second one at some time.
Grows == {{p1}, {p1, p2}}

Symmetry == Permutations(Query) \cup Permutations(Context) \cup Permutations(Addr)
=============================================================================
