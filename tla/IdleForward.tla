---------------------------- MODULE IdleForward -----------------------------
(***************************************************************************)
(* What the ForwardManager promises the DNS server and the connections it  *)
(* proxies.  A VIP's listeners come one by one and go all together; they   *)
(* go when the VIP is idle, with its context, or when the proxy stops, and *)
(* in the first two cases the VIP is given back, afterwards and only then. *)
(* Timers, generations, callbacks, vipState objects and the steps of the   *)
(* goroutines are not part of the promise.                                 *)
(***************************************************************************)
EXTENDS Integers

CONSTANTS
    Vip, Port, Conn, Context,
    ContextOf    \* the context whose service a VIP stands for

VARIABLES
    expiry,      \* idle expiry is on (fixed by the configuration)
    serving,     \* the VIPs' registered listeners
    held,        \* the connections that keep each VIP
    pending,     \* VIPs that were closed and are to be given back
    given,       \* VIPs that were given back
    stopped      \* the proxy has stopped

fvars == <<expiry, serving, held, pending, given, stopped>>

Served(v) == \E p \in Port : <<v, p>> \in serving

FInit ==
    /\ expiry \in BOOLEAN
    /\ serving = {}
    /\ held = [v \in Vip |-> {}]
    /\ pending = {} /\ given = {}
    /\ stopped = FALSE

\* A further port of a VIP is served.
Serve(v, p) ==
    /\ <<v, p>> \notin serving
    /\ serving' = serving \cup {<<v, p>>}
    /\ UNCHANGED <<expiry, held, pending, given, stopped>>

\* A connection, which keeps no VIP yet, keeps one that is served.
Enter(v, c) ==
    /\ expiry /\ Served(v)
    /\ \A w \in Vip : c \notin held[w]
    /\ held' = [held EXCEPT ![v] = held[v] \cup {c}]
    /\ UNCHANGED <<expiry, serving, pending, given, stopped>>

Leave(v, c) ==
    /\ c \in held[v]
    /\ held' = [held EXCEPT ![v] = held[v] \ {c}]
    /\ UNCHANGED <<expiry, serving, pending, given, stopped>>

\* The VIPs in vips lose all their listeners, and the connections their hold.
CloseAll(vips) ==
    /\ serving' = {k \in serving : k[1] \notin vips}
    /\ held' = [v \in Vip |-> IF v \in vips THEN {} ELSE held[v]]

\* A VIP expires only while it is served and no connection keeps it.
Expire(v) ==
    /\ expiry /\ Served(v)
    /\ held[v] = {}
    /\ CloseAll({v})
    /\ pending' = pending \cup {v}
    /\ UNCHANGED <<expiry, given, stopped>>

\* A context goes with all its VIPs that are served, kept or not.
DropContext(x) ==
    LET vips == {v \in Vip : ContextOf[v] = x /\ Served(v)} IN
    /\ vips # {}
    /\ CloseAll(vips)
    /\ pending' = pending \cup vips
    /\ UNCHANGED <<expiry, given, stopped>>

GiveBack(v) ==
    /\ v \in pending
    /\ pending' = pending \ {v}
    /\ given' = given \cup {v}
    /\ UNCHANGED <<expiry, serving, held, stopped>>

\* The proxy stops, once: every listener goes and nothing is given back.
StopAll ==
    /\ ~stopped
    /\ stopped' = TRUE
    /\ CloseAll(Vip)
    /\ UNCHANGED <<expiry, pending, given>>

FNext ==
    \/ \E v \in Vip, p \in Port : Serve(v, p)
    \/ \E v \in Vip, c \in Conn : Enter(v, c) \/ Leave(v, c)
    \/ \E v \in Vip : Expire(v) \/ GiveBack(v)
    \/ \E x \in Context : DropContext(x)
    \/ StopAll

FSpec == FInit /\ [][FNext]_fvars
=============================================================================
