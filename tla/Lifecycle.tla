----------------------------- MODULE Lifecycle -----------------------------
(***************************************************************************)
(* cmd/proxy/main.go, app/server.go and internal/health: the order in      *)
(* which the components come up and go down, with the work that is under   *)
(* way meanwhile.                                                          *)
(*                                                                         *)
(* The main goroutine takes one step at a time.  DNS queries allocate and  *)
(* listen on addresses, idle addresses expire, requests to /kubeconfig     *)
(* shut contexts down, probes read /readyz, and connections dial pods with *)
(* the pool's lock held.  The components are reduced to what start-up and  *)
(* shutdown have to do with: the other modules have their details.         *)
(*                                                                         *)
(* When the process ends, everything does, but for the addresses it put on *)
(* the interface.                                                          *)
(***************************************************************************)
EXTENDS Integers, FiniteSets

CONSTANTS
    Addr,        \* addresses of VIP_CIDR
    Query,       \* goroutines of DNS queries
    Change,      \* goroutines of requests to /kubeconfig
    Probe,       \* goroutines of requests to /readyz
    Tunnel,      \* goroutines of connections to pods
    Fragile,     \* servers whose goroutine may fail
    NoAddr

Server == {"http", "udp", "tcp", "socks"}

ASSUME LifecycleAssumption ==
    /\ NoAddr \notin Addr
    /\ Fragile \subseteq Server \ {"http"}

VARIABLES
    pc,          \* where main is
    dnsOn, socksOn,  \* the flags
    ready,       \* the health handler's flag
    up,          \* servers that accept
    broken,      \* history: servers whose goroutine failed
    bound,       \* addresses this process put on the interface
    used,        \* addresses the allocator has handed out or tried
    tracked,     \* addresses in the allocator's maps
    listening,   \* addresses with a port-forward listener
    releasing,   \* addresses torn down, whose ReleaseVIP has not returned
    unremoved,   \* history: addresses RemoveAddress failed for
    snapshot,    \* what Cleanup has still to remove
    query, change, probe, tunnel

addresses == <<bound, used, tracked, listening, releasing, unremoved, snapshot>>
work == <<query, change, probe, tunnel>>
flags == <<dnsOn, socksOn>>
vars == <<pc, flags, ready, up, broken, addresses, work>>

Start == {"config", "iface", "listen", "clients", "allocator", "wire", "dns", "serve",
          "socks", "ready", "notify"}

Stop == {"http", "closeSocks", "closeUDP", "waitUDP", "closeTCP", "waitTCP",
         "listeners", "pool", "copy", "remove"}

Alive == pc \in Start \cup {"running"} \cup Stop

\* addr: the address a query starts forwards on; hold: those a request is
\* releasing.
TypeOK ==
    /\ pc \in Start \cup {"running"} \cup Stop \cup {"exited", "fatal", "killed"}
    /\ dnsOn \in BOOLEAN /\ socksOn \in BOOLEAN /\ ready \in BOOLEAN
    /\ up \subseteq Server /\ broken \subseteq Server
    /\ bound \subseteq Addr /\ used \subseteq Addr /\ tracked \subseteq Addr
    /\ listening \subseteq Addr /\ releasing \subseteq Addr
    /\ unremoved \subseteq Addr /\ snapshot \subseteq Addr
    /\ query \in [Query -> [pc : {"idle", "busy"}, via : {"udp", "tcp"},
                            addr : Addr \cup {NoAddr}]]
    /\ change \in [Change -> [pc : {"idle", "busy", "release"}, hold : SUBSET Addr]]
    /\ probe \in [Probe -> {"idle", "busy"}]
    /\ tunnel \in [Tunnel -> {"idle", "accepted", "dialing", "open"}]

\* No query and no request.
Idle == [pc |-> "idle", via |-> "udp", addr |-> NoAddr]

NoChange == [pc |-> "idle", hold |-> {}]

\* flag.Parse: -dns and -socks, or DNS alone without flags.
Init ==
    /\ pc = "config"
    /\ dnsOn \in BOOLEAN /\ socksOn \in BOOLEAN
    /\ ready = FALSE
    /\ up = {} /\ broken = {}
    /\ bound = {} /\ used = {} /\ tracked = {} /\ listening = {}
    /\ releasing = {} /\ unremoved = {} /\ snapshot = {}
    /\ query = [q \in Query |-> Idle]
    /\ change = [r \in Change |-> NoChange]
    /\ probe = [b \in Probe |-> "idle"]
    /\ tunnel = [t \in Tunnel |-> "idle"]

\* Main goes from one place to another.
Step(from, to) == pc = from /\ pc' = to

\* The process ends, and its goroutines with it.
End(how) ==
    /\ pc' = how
    /\ query' = [q \in Query |-> Idle]
    /\ change' = [r \in Change |-> NoChange]
    /\ probe' = [b \in Probe |-> "idle"]
    /\ tunnel' = [t \in Tunnel |-> "idle"]

-----------------------------------------------------------------------------
\* A step of Start that can fail ends the process at once (Fatalw, os.Exit),
\* without Stop.
StepFails ==
    /\ pc \in {"config", "iface", "listen", "clients", "allocator"}
         \cup (IF dnsOn THEN {"dns"} ELSE {}) \cup (IF socksOn THEN {"socks"} ELSE {})
    /\ End("fatal")
    /\ UNCHANGED <<flags, ready, up, broken, addresses>>

\* NewConfigFromEnvironment and Validate; ResolveIface.
LoadConfig ==
    /\ Step("config", "iface") \/ Step("iface", "listen")
    /\ UNCHANGED <<flags, ready, up, broken, addresses, work>>

\* The HTTP server comes up first, with its handlers and before there are
\* managers for them.
ListenHTTP ==
    /\ Step("listen", "clients")
    /\ up' = up \cup {"http"}
    /\ UNCHANGED <<flags, ready, broken, addresses, work>>

\* NewClientManager, NewInterfaceAddressManager and NewAllocator.
NewManagers ==
    /\ Step("clients", "allocator") \/ Step("allocator", "wire")
    /\ UNCHANGED <<flags, ready, up, broken, addresses, work>>

\* Mutant: ready before the servers are started.
SetManagers_Ready ==
    /\ Step("wire", "dns")
    /\ ready' = TRUE
    /\ UNCHANGED <<flags, up, broken, addresses, work>>

\* NewResolver, NewForwardManager and SetManagers.
SetManagers ==
    /\ Step("wire", "dns")
    /\ UNCHANGED <<flags, ready, up, broken, addresses, work>>

\* dns.Server.Start binds both sockets and serves, ...
StartDNS ==
    /\ IF dnsOn THEN Step("dns", "serve") /\ up' = up \cup {"udp", "tcp"}
                ELSE Step("dns", "socks") /\ up' = up
    /\ UNCHANGED <<flags, ready, broken, addresses, work>>

\* ... and returns after 100 ms, or with the error of a server that failed by
\* then.
DNSStarted ==
    /\ \/ Step("serve", "socks") /\ UNCHANGED work
       \/ pc = "serve" /\ broken \cap {"udp", "tcp"} # {} /\ End("fatal")
    /\ UNCHANGED <<flags, ready, up, broken, addresses>>

\* SOCKS5Proxy.Start
StartSocks ==
    /\ Step("socks", "ready")
    /\ up' = IF socksOn THEN up \cup {"socks"} ELSE up
    /\ UNCHANGED <<flags, ready, broken, addresses, work>>

SetReady ==
    /\ Step("ready", "notify")
    /\ ready' = TRUE
    /\ UNCHANGED <<flags, up, broken, addresses, work>>

\* signal.Notify
Notify ==
    /\ Step("notify", "running")
    /\ UNCHANGED <<flags, ready, up, broken, addresses, work>>

\* The goroutine of a server returns with an error; nobody else notices.
ServeFails(s) ==
    /\ Alive
    /\ s \in up
    /\ up' = up \ {s}
    /\ broken' = broken \cup {s}
    /\ UNCHANGED <<pc, flags, ready, addresses, work>>

\* A signal before Notify ends the process.
Killed ==
    /\ pc \in Start
    /\ End("killed")
    /\ UNCHANGED <<flags, ready, up, broken, addresses>>

-----------------------------------------------------------------------------
\* SIGTERM or SIGINT: Stop begins, and httpSrv.Shutdown closes its listener.
Signal ==
    /\ Step("running", "http")
    /\ up' = up \ {"http"}
    /\ UNCHANGED <<flags, ready, broken, addresses, work>>

\* httpSrv.Shutdown returns when no request is under way, or after 5 s.  A
\* probe does not last: reading a request has a deadline of 5 s too.
HTTPStopped ==
    /\ Step("http", "closeSocks")
    /\ \A b \in Probe : probe[b] # "busy"
    /\ UNCHANGED <<flags, ready, up, broken, addresses, work>>

\* Mutant: open tunnels are waited for.
StopSocks_Wait ==
    /\ Step("closeSocks", "closeUDP")
    /\ up' = up \ {"socks"}
    /\ \A t \in Tunnel : tunnel[t] = "idle"
    /\ UNCHANGED <<flags, ready, broken, addresses, work>>

\* SOCKS5Proxy.Shutdown closes the listener; tunnels stay.
StopSocks ==
    /\ Step("closeSocks", "closeUDP")
    /\ up' = up \ {"socks"}
    /\ UNCHANGED <<flags, ready, broken, addresses, work>>

\* dns.Server.Shutdown closes the socket of the UDP server, waits for its
\* queries, and does the same with the TCP server.
CloseDNS ==
    /\ \/ Step("closeUDP", "waitUDP") /\ up' = up \ {"udp"}
       \/ Step("closeTCP", "waitTCP") /\ up' = up \ {"tcp"}
    /\ UNCHANGED <<flags, ready, broken, addresses, work>>

Drained(s) == \A q \in Query : query[q].pc # "idle" => query[q].via # s

\* Mutant: queries under way are not waited for.
DNSStopped_NoWait ==
    /\ Step("waitUDP", "closeTCP") \/ Step("waitTCP", "listeners")
    /\ UNCHANGED <<flags, ready, up, broken, addresses, work>>

DNSStopped ==
    /\ \/ Step("waitUDP", "closeTCP") /\ Drained("udp")
       \/ Step("waitTCP", "listeners") /\ Drained("tcp")
    /\ UNCHANGED <<flags, ready, up, broken, addresses, work>>

\* ForwardManager.Shutdown closes all listeners and cancels all timers, ...
ShutdownListeners ==
    /\ Step("listeners", "pool")
    /\ listening' = {}
    /\ UNCHANGED <<flags, ready, up, broken, bound, used, tracked, releasing, unremoved,
                   snapshot, work>>

\* Nobody holds spdyPoolMu.
PoolFree == \A t \in Tunnel : tunnel[t] # "dialing"

\* ... and then the pooled connections.
ShutdownPool ==
    /\ Step("pool", "copy")
    /\ PoolFree
    /\ UNCHANGED <<flags, ready, up, broken, addresses, work>>

\* Cleanup copies the allocator's map ...
CopyTracked ==
    /\ Step("copy", "remove")
    /\ snapshot' = tracked
    /\ UNCHANGED <<flags, ready, up, broken, bound, used, tracked, listening, releasing,
                   unremoved, work>>

\* What RemoveAddress does to the interface.
RemoveAddress(a, ok) ==
    /\ bound' = IF ok THEN bound \ {a} ELSE bound
    /\ unremoved' = IF a \in bound' THEN unremoved \cup {a} ELSE unremoved

\* Mutant: Cleanup returns at the first error.
CleanUp_StopAtError(a, ok) ==
    /\ pc = "remove"
    /\ a \in snapshot
    /\ RemoveAddress(a, ok)
    /\ snapshot' = IF ok THEN snapshot \ {a} ELSE {}
    /\ UNCHANGED <<pc, flags, ready, up, broken, used, tracked, listening, releasing, work>>

\* ... and removes each address of it, whatever became of the others.
CleanUp(a, ok) ==
    /\ pc = "remove"
    /\ a \in snapshot
    /\ RemoveAddress(a, ok)
    /\ snapshot' = snapshot \ {a}
    /\ UNCHANGED <<pc, flags, ready, up, broken, used, tracked, listening, releasing, work>>

\* Stop returns, and main does.
Exit ==
    /\ pc = "remove"
    /\ snapshot = {}
    /\ End("exited")
    /\ UNCHANGED <<flags, ready, up, broken, addresses>>

-----------------------------------------------------------------------------
\* A DNS query arrives.
QueryArrives(q, s) ==
    /\ Alive
    /\ s \in up
    /\ query[q].pc = "idle"
    /\ query' = [query EXCEPT ![q].pc = "busy", ![q].via = s]
    /\ UNCHANGED <<pc, flags, ready, up, broken, addresses, change, probe, tunnel>>

\* Mutant: the address is not recorded.
QueryAllocates_Unrecorded(q, a) ==
    /\ Alive
    /\ query[q].pc = "busy"
    /\ a \notin used
    /\ used' = used \cup {a}
    /\ bound' = bound \cup {a}
    /\ query' = [query EXCEPT ![q].addr = a]
    /\ UNCHANGED <<pc, flags, ready, up, broken, tracked, listening, releasing, unremoved,
                   snapshot, change, probe, tunnel>>

\* Allocate binds a new address and records it.  A query for a bare name comes
\* here once for every context.
QueryAllocates(q, a) ==
    /\ Alive
    /\ query[q].pc = "busy"
    /\ a \notin used
    /\ used' = used \cup {a}
    /\ bound' = bound \cup {a}
    /\ tracked' = tracked \cup {a}
    /\ query' = [query EXCEPT ![q].addr = a]
    /\ UNCHANGED <<pc, flags, ready, up, broken, listening, releasing, unremoved, snapshot,
                   change, probe, tunnel>>

\* Allocate returns the address another query has recorded meanwhile.
QueryShares(q, a) ==
    /\ Alive
    /\ query[q].pc = "busy"
    /\ a \in tracked
    /\ query' = [query EXCEPT ![q].addr = a]
    /\ UNCHANGED <<pc, flags, ready, up, broken, addresses, change, probe, tunnel>>

\* StartForward listens on it, once for every port of the service, and even if
\* the address was torn down between two of them.
QueryListens(q) ==
    /\ Alive
    /\ query[q].addr # NoAddr
    /\ listening' = listening \cup {query[q].addr}
    /\ UNCHANGED <<pc, flags, ready, up, broken, bound, used, tracked, releasing, unremoved,
                   snapshot, work>>

\* The query is answered, whether or not it got addresses and listeners.
QueryAnswered(q) ==
    /\ Alive
    /\ query[q].pc = "busy"
    /\ query' = [query EXCEPT ![q] = Idle]
    /\ UNCHANGED <<pc, flags, ready, up, broken, addresses, change, probe, tunnel>>

\* The idle timer of an address tears it down.  The release of an address the
\* allocator has forgotten does nothing.
Expire(a) ==
    /\ Alive
    /\ a \in listening
    /\ listening' = listening \ {a}
    /\ releasing' = releasing \cup ({a} \cap tracked)
    /\ UNCHANGED <<pc, flags, ready, up, broken, bound, used, tracked, unremoved, snapshot, work>>

\* ReleaseVIP forgets the address under the allocator's lock ...
Forget(a) ==
    /\ Alive
    /\ a \in releasing \cap tracked
    /\ tracked' = tracked \ {a}
    /\ UNCHANGED <<pc, flags, ready, up, broken, bound, used, listening, releasing, unremoved,
                   snapshot, work>>

\* ... and takes it off the interface after; a request that released it goes on.
Remove(a, ok) ==
    /\ Alive
    /\ a \in releasing \ tracked
    /\ RemoveAddress(a, ok)
    /\ releasing' = releasing \ {a}
    /\ change' = [r \in Change |-> [pc |-> change[r].pc, hold |-> change[r].hold \ {a}]]
    /\ UNCHANGED <<pc, flags, ready, up, broken, used, tracked, listening, snapshot,
                   query, probe, tunnel>>

\* A request to /kubeconfig; before SetManagers it is refused.
ChangeArrives(r) ==
    /\ Alive
    /\ "http" \in up
    /\ change[r].pc = "idle"
    /\ pc \notin {"clients", "allocator", "wire"}
    /\ change' = [change EXCEPT ![r].pc = "busy"]
    /\ UNCHANGED <<pc, flags, ready, up, broken, addresses, query, probe, tunnel>>

\* ShutdownContext closes the listeners of a context, ...
ShutdownContext(r, S) ==
    /\ Alive
    /\ change[r].pc = "busy"
    /\ S \subseteq listening
    /\ listening' = listening \ S
    /\ releasing' = releasing \cup (S \cap tracked)
    /\ change' = [change EXCEPT ![r].pc = "release", ![r].hold = S \cap tracked]
    /\ UNCHANGED <<pc, flags, ready, up, broken, bound, used, tracked, unremoved, snapshot,
                   query, probe, tunnel>>

\* ... releases their addresses, closes the pooled connections, and the
\* request is answered.
ChangeAnswered(r) ==
    /\ Alive
    /\ change[r].pc = "release"
    /\ change[r].hold = {}
    /\ PoolFree
    /\ change' = [change EXCEPT ![r].pc = "idle"]
    /\ UNCHANGED <<pc, flags, ready, up, broken, addresses, query, probe, tunnel>>

\* A request to /readyz, and its answer: 200 if ready, 503 if not.
ProbeArrives(b) ==
    /\ Alive
    /\ "http" \in up
    /\ probe[b] = "idle"
    /\ probe' = [probe EXCEPT ![b] = "busy"]
    /\ UNCHANGED <<pc, flags, ready, up, broken, addresses, query, change, tunnel>>

handleReadiness(b) ==
    /\ Alive
    /\ probe[b] = "busy"
    /\ probe' = [probe EXCEPT ![b] = "idle"]
    /\ UNCHANGED <<pc, flags, ready, up, broken, addresses, query, change, tunnel>>

\* A connection to the SOCKS5 proxy or to a listener is accepted, dials with
\* the pool's lock held for as long as the API server likes, and is open for as
\* long as its ends like.
Accept(t) ==
    /\ Alive
    /\ "socks" \in up \/ listening # {}
    /\ tunnel[t] = "idle"
    /\ tunnel' = [tunnel EXCEPT ![t] = "accepted"]
    /\ UNCHANGED <<pc, flags, ready, up, broken, addresses, query, change, probe>>

Dial(t) ==
    /\ Alive
    /\ tunnel[t] = "accepted"
    /\ PoolFree
    /\ tunnel' = [tunnel EXCEPT ![t] = "dialing"]
    /\ UNCHANGED <<pc, flags, ready, up, broken, addresses, query, change, probe>>

Dialled(t) ==
    /\ Alive
    /\ tunnel[t] = "dialing"
    /\ \E to \in {"open", "idle"} : tunnel' = [tunnel EXCEPT ![t] = to]
    /\ UNCHANGED <<pc, flags, ready, up, broken, addresses, query, change, probe>>

TunnelEnds(t) ==
    /\ Alive
    /\ tunnel[t] \in {"accepted", "open"}
    /\ tunnel' = [tunnel EXCEPT ![t] = "idle"]
    /\ UNCHANGED <<pc, flags, ready, up, broken, addresses, query, change, probe>>

-----------------------------------------------------------------------------
Starting ==
    \/ StepFails \/ LoadConfig \/ ListenHTTP \/ NewManagers \/ SetManagers
    \/ StartDNS \/ DNSStarted \/ StartSocks \/ SetReady \/ Notify

Stopping ==
    /\ pc \in Stop
    /\ \/ HTTPStopped \/ StopSocks \/ CloseDNS \/ DNSStopped
       \/ ShutdownListeners \/ ShutdownPool \/ CopyTracked
       \/ \E a \in Addr, ok \in BOOLEAN : CleanUp(a, ok)
       \/ Exit

Working ==
    \/ \E q \in Query : \/ \E s \in {"udp", "tcp"} : QueryArrives(q, s)
                        \/ \E a \in Addr : QueryAllocates(q, a) \/ QueryShares(q, a)
                        \/ QueryListens(q)
                        \/ QueryAnswered(q)
    \/ \E a \in Addr : \/ Expire(a) \/ Forget(a)
                       \/ \E ok \in BOOLEAN : Remove(a, ok)
    \/ \E r \in Change : \/ ChangeArrives(r) \/ ChangeAnswered(r)
                         \/ \E S \in SUBSET Addr : ShutdownContext(r, S)
    \/ \E b \in Probe : ProbeArrives(b) \/ handleReadiness(b)
    \/ \E t \in Tunnel : Accept(t) \/ Dial(t) \/ Dialled(t) \/ TunnelEnds(t)

Next == Starting \/ Signal \/ Stopping \/ Working \/ Killed \/ \E s \in Fragile : ServeFails(s)

Spec == Init /\ [][Next]_vars

\* Main goes on once Stop has begun.  A query is answered: its calls share a
\* deadline of 5 s, and it never waits for the pool's lock.  The handler of a
\* probe runs to its end.  Nothing makes a dial come back (it has no timeout),
\* a tunnel end, an address expire or a request to /kubeconfig return.
Fairness ==
    /\ WF_vars(Stopping)
    /\ \A q \in Query : WF_vars(QueryAnswered(q))
    /\ \A b \in Probe : WF_vars(handleReadiness(b))

FairSpec == Spec /\ Fairness

-----------------------------------------------------------------------------
\* Servers the flags ask for.
Enabled == (IF dnsOn THEN {"udp", "tcp"} ELSE {}) \cup (IF socksOn THEN {"socks"} ELSE {})

\* A probe that would be told "ready" now finds every server the flags ask
\* for accepting, unless its goroutine failed: SetReady comes last in Start,
\* and Stop lets no request through once it closes the other servers.
ReadyHonest ==
    (ready /\ Alive /\ ("http" \in up \/ \E b \in Probe : probe[b] = "busy"))
        => Enabled \subseteq up \cup broken

\* When main returns, an address the process put on the interface is there
\* only if taking it off failed, or if a ReleaseVIP that had forgotten it was
\* still to do so: Stop ends the DNS server first, so nothing is allocated
\* after Cleanup has copied the map.
CleanExit ==
    pc = "exited" => bound \subseteq unremoved \cup (releasing \ tracked)

\* A Start that fails, or that a signal cuts short, ends the process without
\* Stop.  Addresses stay on the interface then only if the DNS server had
\* come up before, for queries allocate as soon as it serves; and the
\* allocator, or a ReleaseVIP, still knew each of them.
FailedStartAccounted ==
    (pc \in {"fatal", "killed"} /\ bound # {}) =>
        /\ dnsOn /\ {"udp", "tcp"} \subseteq up \cup broken
        /\ bound \subseteq tracked \cup releasing \cup unremoved

\* Once the forward manager is shut down there is no listener, and no query
\* is left that would start one.
QuietAfterShutdown ==
    pc \in {"pool", "copy", "remove", "exited"} =>
        /\ listening = {}
        /\ \A q \in Query : query[q].pc = "idle"

\* Some dial never comes back and keeps the pool's lock.
SomeDialHangs == \E t \in Tunnel : <>[](tunnel[t] = "dialing")

\* Only a dial that hangs can keep a signal from ending the process: neither
\* open tunnels nor requests, queries, expiries and failed removals do.
StopReturns == SomeDialHangs \/ (pc = "http" ~> pc = "exited")

-----------------------------------------------------------------------------
(* What a comment claims, and the code does not keep.                      *)

\* "Stop shuts down all components gracefully within the given context
\* deadline": Stop returns.  ForwardManager.Shutdown knows of no deadline, and
\* waits for the lock that a dial holds.
StopKeepsDeadline == (pc = "http") ~> (pc = "exited")
=============================================================================
