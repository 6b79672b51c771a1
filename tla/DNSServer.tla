----------------------------- MODULE DNSServer -----------------------------
(***************************************************************************)
(* internal/dns/server.go: what the handlers of cluster names do with the  *)
(* allocator, the resolver and the forward manager, for concurrent         *)
(* queries.                                                                *)
(*                                                                         *)
(* The allocator is the abstract one of VIPLease, which VIPAllocator       *)
(* implements.  The forward manager is reduced to its listeners and to the *)
(* two ways they go away: an idle VIP expires, and a context is shut down; *)
(* either closes the listeners first and releases the address later, with  *)
(* no lock held in between (ForwardManager has the details).  Resolve      *)
(* returns the ports a service has, or had when they were cached, or fails *)
(* (Resolver); the contexts of one query share its 5 seconds.  A DNS       *)
(* message carries one question.                                           *)
(***************************************************************************)
EXTENDS Integers, FiniteSets

CONSTANTS
    Context,     \* kubeconfig contexts
    Service,     \* namespace, service and pod of a name
    Addr,        \* addresses of VIP_CIDR
    Clusters,    \* the sets of services, by context, that there may be
    Port,        \* TCP ports
    PortSets,    \* the ports that a service may have, now or later
    Query,       \* DNS queries, each of which runs once
    NoAddr, NoContext

ASSUME DNSAssumption ==
    /\ NoAddr \notin Addr /\ NoContext \notin Context
    /\ Service # {}
    /\ Clusters \subseteq SUBSET (Context \X Service)
    /\ PortSets \subseteq SUBSET Port

Key == Context \X Service   \* "context/namespace/service[/pod]"

VARIABLES
    exists,      \* the services there really are
    lease, used, \* the allocator (VIPLease)
    entries,     \* the listeners: address, port and the service behind it
    closing,     \* addresses whose listeners are gone, to be released
    closed,      \* history: addresses that were torn down
    unserved,    \* history: addresses for which StartForward failed
    wanted,      \* history: ports that an address was to be served on
    query        \* the goroutines inside handleCluster

vars == <<exists, lease, used, entries, closing, closed, unserved, wanted, query>>

Alloc == INSTANCE VIPLease

Listener == [addr : Addr, port : Port, key : Key]

PC == {"new", "A", "info", "exists", "cached", "resolve", "allocate", "start", "return", "done"}

\* Why a context that has the service gives no answer: it failed itself, or
\* the time of the query was up.
Cause == {"itself", "late"}

\* asked: the contexts the name stands for; todo: those still to try; ctx,
\* addr and ports: where resolveForContext is and what Resolve returned; left:
\* ports still to forward; answers: the contextVIPs so far; late: the deadline
\* has passed; lost: history, contexts with the service that gave no answer.
QueryState == [pc : PC, qtype : {"A", "info", "other"}, svc : Service,
               asked : SUBSET Context, todo : SUBSET Context,
               ctx : Context \cup {NoContext}, addr : Addr \cup {NoAddr},
               ports : SUBSET Port, left : SUBSET Port, late : BOOLEAN,
               answers : SUBSET (Key \X Addr), lost : SUBSET (Context \X Cause),
               rcode : {"none", "noerror", "nxdomain"}]

Init ==
    /\ exists \in Clusters
    /\ lease = [k \in Key |-> NoAddr]
    /\ used = {}
    /\ entries = {}
    /\ closing = {}
    /\ closed = {}
    /\ unserved = {}
    /\ wanted = [a \in Addr |-> {}]
    /\ query = [q \in Query |->
                   [pc |-> "new", qtype |-> "other", svc |-> CHOOSE s \in Service : TRUE,
                    asked |-> {}, todo |-> {}, ctx |-> NoContext, addr |-> NoAddr,
                    ports |-> {}, left |-> {}, late |-> FALSE,
                    answers |-> {}, lost |-> {}, rcode |-> "none"]]

manager == <<exists, lease, used, entries, closing, closed, unserved, wanted>>

\* The key of the context a query is busy with.
KeyOf(q) == <<query[q].ctx, query[q].svc>>

\* resolveForContext, or a pass of lookupSRV, is done with its context; the
\* loop goes on at pc.
Onward(q, pc, answers, lost) ==
    query' = [query EXCEPT ![q].pc = pc, ![q].ctx = NoContext, ![q].addr = NoAddr,
                           ![q].ports = {}, ![q].left = {},
                           ![q].answers = @ \cup answers, ![q].lost = @ \cup lost]

\* The answer is written, or fails to be; the handler returns.
Reply(q, rcode) == query' = [query EXCEPT ![q].pc = "done", ![q].todo = {},
                                          ![q].late = FALSE, ![q].rcode = rcode]

-----------------------------------------------------------------------------
\* A question for an A, TXT or SRV record of a cluster name: one that names a
\* context asks that one, known or not; any other asks all contexts the
\* kubeconfigs have at that moment (AllContextNames).
Ask(q, s, qtype, asked) ==
    /\ query[q].pc = "new"
    /\ query' = [query EXCEPT ![q].pc = qtype, ![q].qtype = qtype, ![q].svc = s,
                              ![q].asked = asked, ![q].todo = asked]
    /\ UNCHANGED manager

\* A name that does not parse, with these types: NXDOMAIN.  Any other type:
\* NODATA, here or from the upstream resolver.
AskOther(q, rcode) ==
    /\ query[q].pc = "new"
    /\ Reply(q, rcode)
    /\ UNCHANGED manager

\* The 5 seconds of the query are over while it resolves: calls to an API
\* server fail from now on, and only the resolver's cache still answers.
TimeUp(q) ==
    /\ query[q].pc \in {"cached", "resolve", "exists"}
    /\ ~query[q].late
    /\ query' = [query EXCEPT ![q].late = TRUE]
    /\ UNCHANGED manager

\* What a failed Resolve in context x means for the query: the service is not
\* there; or it is, and the context is to blame (its API server failed or
\* hung, no endpoint is ready, it lacks the pod), or the time was up.
LostBy(q, x) ==
    {{} : k \in {<<x, query[q].svc>>} \ exists}
        \cup {{<<x, c>>} : c \in {d \in Cause : /\ <<x, query[q].svc>> \in exists
                                               /\ d = "late" => query[q].late}}

\* Lookup finds the address, and TouchVIP restarts its timer.
LookupHit(q, x) ==
    LET k == <<x, query[q].svc>> IN
    /\ query[q].pc = "A"
    /\ x \in query[q].todo
    /\ lease[k] # NoAddr
    /\ query' = [query EXCEPT ![q].pc = "cached", ![q].ctx = x, ![q].addr = lease[k],
                              ![q].todo = @ \ {x}]
    /\ UNCHANGED manager

\* It is resolved again for its ports, of which there are none if that fails;
\* no forward is started.
PortsOf(q, ps) ==
    /\ query[q].pc = "cached"
    /\ query' = [query EXCEPT ![q].pc = "return", ![q].ports = ps]
    /\ UNCHANGED manager

\* Lookup returns nil: the service is resolved first.
LookupMiss(q, x) ==
    /\ query[q].pc = "A"
    /\ x \in query[q].todo
    /\ lease[<<x, query[q].svc>>] = NoAddr
    /\ query' = [query EXCEPT ![q].pc = "resolve", ![q].ctx = x, ![q].todo = @ \ {x}]
    /\ UNCHANGED manager

ResolveOk(q, ps) ==
    /\ query[q].pc = "resolve"
    /\ query' = [query EXCEPT ![q].pc = "allocate", ![q].ports = ps]
    /\ UNCHANGED manager

\* Mutant: the first context that does not have the service ends the loop.
ResolveFails_Stop(q, lost) ==
    /\ query[q].pc = "resolve"
    /\ lost \in LostBy(q, query[q].ctx)
    /\ query' = [query EXCEPT ![q].pc = "A", ![q].ctx = NoContext, ![q].todo = {},
                              ![q].lost = @ \cup lost]
    /\ UNCHANGED manager

\* Mutant: a context whose service does not resolve is tried again.
ResolveFails_Retry(q, lost) ==
    /\ query[q].pc = "resolve"
    /\ lost \in LostBy(q, query[q].ctx)
    /\ query' = [query EXCEPT ![q].pc = "A", ![q].ctx = NoContext,
                              ![q].todo = @ \cup {query[q].ctx}, ![q].lost = @ \cup lost]
    /\ UNCHANGED manager

\* Resolve fails, for whatever reason: resolveForContext returns nil, and the
\* loop goes on with the next context.
ResolveFails(q, lost) ==
    /\ query[q].pc = "resolve"
    /\ lost \in LostBy(q, query[q].ctx)
    /\ Onward(q, "A", {}, lost)
    /\ UNCHANGED manager

\* The query has address a for its key and starts a forward for every port.
Forward(q, a) ==
    /\ query' = [query EXCEPT ![q].pc = "start", ![q].addr = a, ![q].left = query[q].ports]
    /\ wanted' = [wanted EXCEPT ![a] = @ \cup query[q].ports]

\* Mutant: a new address is answered before its forwards are started.
Allocate_NoStart(q, a) ==
    /\ query[q].pc = "allocate"
    /\ Alloc!Grant(KeyOf(q), a)
    /\ query' = [query EXCEPT ![q].pc = "return", ![q].addr = a]
    /\ wanted' = [wanted EXCEPT ![a] = @ \cup query[q].ports]
    /\ UNCHANGED <<exists, entries, closing, closed, unserved>>

\* Allocate hands out a new address.
Allocate(q, a) ==
    /\ query[q].pc = "allocate"
    /\ Alloc!Grant(KeyOf(q), a)
    /\ Forward(q, a)
    /\ UNCHANGED <<exists, entries, closing, closed, unserved>>

\* Allocate finds the address another query was given meanwhile.
AllocateSame(q) ==
    /\ query[q].pc = "allocate"
    /\ lease[KeyOf(q)] # NoAddr
    /\ Forward(q, lease[KeyOf(q)])
    /\ UNCHANGED <<exists, lease, used, entries, closing, closed, unserved>>

\* The CIDR is exhausted, or the address cannot be bound.
AllocateFails(q) ==
    /\ query[q].pc = "allocate"
    /\ Onward(q, "A", {}, {<<query[q].ctx, "itself">>})
    /\ UNCHANGED manager

\* StartForward finds the listener of the port, or listens.
StartForward(q, p) ==
    LET l == [addr |-> query[q].addr, port |-> p, key |-> KeyOf(q)] IN
    /\ query[q].pc = "start"
    /\ p \in query[q].left
    /\ l \notin entries =>
          ~ \E m \in entries : m.addr = l.addr /\ m.port = p   \* else: address in use
    /\ entries' = entries \cup {l}
    /\ query' = [query EXCEPT ![q].left = @ \ {p}]
    /\ UNCHANGED <<exists, lease, used, closing, closed, unserved, wanted>>

\* StartForward fails, because another query listens on the port and has not
\* registered its listener, or for a reason of the system's: the query gives
\* up on the context, and the address stays allocated.
StartFails(q) ==
    /\ query[q].pc = "start"
    /\ query[q].left # {}
    /\ Onward(q, "A", {}, {<<query[q].ctx, "itself">>})
    /\ unserved' = unserved \cup {query[q].addr}
    /\ UNCHANGED <<exists, lease, used, entries, closing, closed, wanted>>

\* resolveForContext returns an address and its ports.
Returning(q) ==
    \/ query[q].pc = "return"
    \/ query[q].pc = "start" /\ query[q].left = {}

\* The context contributes its address; a pass of lookupSRV does the same.
Return(q) ==
    /\ Returning(q)
    /\ Onward(q, query[q].qtype, {<<KeyOf(q), query[q].addr>>}, {})
    /\ UNCHANGED manager

\* Every context was tried: NXDOMAIN if none gave an address.
Answer(q) ==
    /\ query[q].pc = "A"
    /\ query[q].todo = {}
    /\ Reply(q, IF query[q].answers = {} THEN "nxdomain" ELSE "noerror")
    /\ UNCHANGED manager

-----------------------------------------------------------------------------
\* lookupTXT and lookupSRV, first pass: the addresses there are.
InfoMiss(q, x) ==
    /\ query[q].pc = "info"
    /\ x \in query[q].todo
    /\ lease[<<x, query[q].svc>>] = NoAddr
    /\ query' = [query EXCEPT ![q].todo = @ \ {x}]
    /\ UNCHANGED manager

\* lookupSRV then resolves the service for its ports, lookupTXT does not.
InfoHit(q, x, pc) ==
    LET k == <<x, query[q].svc>> IN
    /\ query[q].pc = "info"
    /\ x \in query[q].todo
    /\ lease[k] # NoAddr
    /\ query' = [query EXCEPT ![q].pc = pc, ![q].ctx = x, ![q].addr = lease[k],
                              ![q].todo = @ \ {x}]
    /\ UNCHANGED manager

\* If there are some they are the answer, else every context is asked.
InfoFound(q) ==
    /\ query[q].pc = "info"
    /\ query[q].todo = {}
    /\ IF query[q].answers # {}
       THEN Reply(q, "noerror")
       ELSE query' = [query EXCEPT ![q].pc = "exists", ![q].todo = query[q].asked]
    /\ UNCHANGED manager

\* Second pass: the first context that resolves makes it NODATA.
InfoResolves(q, x) ==
    /\ query[q].pc = "exists"
    /\ x \in query[q].todo
    /\ Reply(q, "noerror")
    /\ UNCHANGED manager

InfoResolveFails(q, x, lost) ==
    /\ query[q].pc = "exists"
    /\ x \in query[q].todo
    /\ lost \in LostBy(q, x)
    /\ query' = [query EXCEPT ![q].todo = @ \ {x}, ![q].lost = @ \cup lost]
    /\ UNCHANGED manager

InfoNothing(q) ==
    /\ query[q].pc = "exists"
    /\ query[q].todo = {}
    /\ Reply(q, "nxdomain")
    /\ UNCHANGED manager

-----------------------------------------------------------------------------
\* The listeners of the addresses as are closed; the addresses come back later.
TearDown(as) ==
    /\ as # {}
    /\ entries' = {l \in entries : l.addr \notin as}
    /\ closing' = closing \cup as
    /\ closed' = closed \cup as
    /\ UNCHANGED <<exists, lease, used, unserved, wanted, query>>

\* expireVIP: an address that has listeners was idle for too long.
ExpireVIP(a) == TearDown({l.addr : l \in {m \in entries : m.addr = a}})

\* ShutdownContext, when the context's cluster was replaced or removed.
ShutdownContext(x) == TearDown({l.addr : l \in {m \in entries : m.key[1] = x}})

\* Mutant: a released address may be handed out again.
ReleaseVIP_Reuse(a) ==
    /\ a \in closing
    /\ closing' = closing \ {a}
    /\ lease' = [k \in Key |-> IF lease[k] = a THEN NoAddr ELSE lease[k]]
    /\ used' = used \ {a}
    /\ UNCHANGED <<exists, entries, closed, unserved, wanted, query>>

\* ReleaseVIP: the key that holds the address loses it.
ReleaseVIP(a) ==
    /\ a \in closing
    /\ closing' = closing \ {a}
    /\ IF \E k \in Key : lease[k] = a
       THEN \E k \in Key : lease[k] = a /\ Alloc!Revoke(k)
       ELSE UNCHANGED <<lease, used>>
    /\ UNCHANGED <<exists, entries, closed, unserved, wanted, query>>

-----------------------------------------------------------------------------
QueryStep(q) ==
    \/ \E x \in Context : LookupHit(q, x) \/ LookupMiss(q, x)
    \/ \E ps \in PortSets : PortsOf(q, ps) \/ ResolveOk(q, ps)
    \/ PortsOf(q, {})
    \/ \E lost \in LostBy(q, query[q].ctx) : ResolveFails(q, lost)
    \/ \E a \in Addr : Allocate(q, a)
    \/ AllocateSame(q) \/ AllocateFails(q)
    \/ \E p \in Port : StartForward(q, p)
    \/ StartFails(q) \/ Return(q) \/ Answer(q)
    \/ \E x \in Context : InfoMiss(q, x) \/ InfoResolves(q, x)
    \/ \E x \in Context, pc \in {"cached", "return"} : InfoHit(q, x, pc)
    \/ \E x \in Context : \E lost \in LostBy(q, x) : InfoResolveFails(q, x, lost)
    \/ InfoFound(q) \/ InfoNothing(q)

Next ==
    \/ \E q \in Query, s \in Service, qtype \in {"A", "info"}, asked \in SUBSET Context :
          Ask(q, s, qtype, asked)
    \/ \E q \in Query, rcode \in {"noerror", "nxdomain"} : AskOther(q, rcode)
    \/ \E q \in Query : QueryStep(q) \/ TimeUp(q)
    \/ \E a \in Addr : ExpireVIP(a) \/ ReleaseVIP(a)
    \/ \E x \in Context : ShutdownContext(x)

Spec == Init /\ [][Next]_vars

-----------------------------------------------------------------------------
\* Every variable has the type its Go counterpart has.
TypeOK ==
    /\ exists \in SUBSET Key
    /\ lease \in [Key -> Addr \cup {NoAddr}]
    /\ used \in SUBSET Addr
    /\ entries \in SUBSET Listener
    /\ closing \in SUBSET Addr
    /\ closed \in SUBSET Addr
    /\ unserved \in SUBSET Addr
    /\ wanted \in [Addr -> SUBSET Port]
    /\ query \in [Query -> QueryState]

\* The service k is associated with address a: it holds the lease, a listener
\* on a forwards to it, a query is busy with a for it, or a query ever answered
\* a for it.
Claims(k, a) ==
    \/ lease[k] = a
    \/ \E l \in entries : l.addr = a /\ l.key = k
    \/ \E q \in Query : query[q].addr = a /\ KeyOf(q) = k
    \/ \E q \in Query : <<k, a>> \in query[q].answers

\* An address stands for one service in one context for as long as the process
\* lives: whatever expires or is shut down between a query's steps, a client
\* that uses an answer, however old, is never connected to another service.
RightService ==
    \A a \in Addr, k1, k2 \in Key : Claims(k1, a) /\ Claims(k2, a) => k1 = k2

\* Nobody can expect address a to be served: it was torn down, StartForward
\* failed for it, or a query is still starting its forwards.
Excused(a) ==
    \/ a \in closed \cup unserved
    \/ \E r \in Query : query[r].pc = "start" /\ query[r].addr = a

\* An address that was answered, whichever query set it up, listens on every
\* port that the service had when Allocate returned the address to a query;
\* a port the service gets later is answered and has no listener.
AnswerServed ==
    \A q \in Query : \A b \in query[q].answers :
        \/ \A p \in wanted[b[2]] : [addr |-> b[2], port |-> p, key |-> b[1]] \in entries
        \/ Excused(b[2])

\* Context x of query q is in the answer, does not have the service, or gave no
\* answer for the reason c.
Accounted(q, x, c) ==
    \/ \E a \in Addr : <<<<x, query[q].svc>>, a>> \in query[q].answers
    \/ <<x, query[q].svc>> \notin exists
    \/ <<x, c>> \in query[q].lost

\* The reply to an A question leaves out a context that has the service, and
\* NXDOMAIN to a TXT or SRV question ignores one, only if resolving, allocating
\* or forwarding failed in that very context, or the deadline that it shares
\* with the others had passed: no context's failure stands for another's.
ContextsAccounted ==
    \A q \in Query :
        query[q].pc = "done" /\ (query[q].qtype = "A" \/ query[q].rcode = "nxdomain")
            => \A x \in query[q].asked : \E c \in Cause : Accounted(q, x, c)

\* How far query r is from its answer in passes, and how far the call for its
\* present context is from its return.
Pass(r) == IF r.pc = "new" THEN 3 ELSE IF r.pc = "done" THEN 0
           ELSE IF r.qtype = "info" /\ r.pc # "exists" THEN 2 ELSE 1

Stage == [pc \in PC |-> IF pc = "resolve" THEN 4 ELSE IF pc = "allocate" THEN 3
                        ELSE IF pc \in {"cached", "start"} THEN 2
                        ELSE IF pc = "return" THEN 1 ELSE 0]

Shrinks(s, t) == t \subseteq s /\ t # s

\* From r to s a query comes nearer to its answer: it ends a pass, or has fewer
\* contexts to try, or is further on with one, or has fewer ports to start, or
\* less time.
Nearer(r, s) ==
    \/ Pass(s) < Pass(r)
    \/ /\ Pass(s) = Pass(r)
       /\ \/ Shrinks(r.todo, s.todo)
          \/ s.todo = r.todo /\ Stage[s.pc] < Stage[r.pc]
          \/ s.todo = r.todo /\ s.pc = r.pc /\ Shrinks(r.left, s.left)
          \/ s.todo = r.todo /\ s.pc = r.pc /\ s.left = r.left /\ s.late /\ ~r.late

\* Whatever fails, expires or is shut down, no step takes a query back: each
\* of its own brings it nearer to its answer, and nobody else's touches it.
\* With finitely many contexts and ports a query takes finitely many steps, and
\* before it is done it always has one to take.
QueriesAdvance ==
    [][\A q \in Query : query'[q] # query[q] => Nearer(query[q], query'[q])]_vars
=============================================================================
