------------------------------ MODULE Resolver ------------------------------
(***************************************************************************)
(* internal/k8s/resolver.go: the endpoints of a service, per kubeconfig    *)
(* context, cached for cacheTTL; and the part of DialPortForward that uses *)
(* them, which reads the context's client a second time.                   *)
(*                                                                         *)
(* One service is modelled: keys differ by context.  The kubeconfig API    *)
(* may bind a context to another cluster, or remove it, at any moment, and *)
(* pods of a cluster become ready and unready at any moment; neither       *)
(* touches the cache (Invalidate has no caller).  Time passes between any  *)
(* two steps; only the API server's answers are bounded, by the caller's   *)
(* context.                                                                *)
(***************************************************************************)
EXTENDS Integers

CONSTANTS
    Context,     \* kubeconfig contexts
    Cluster,     \* API servers a context may be bound to
    Pod,         \* pod names a host name may give
    Backing,     \* the pods behind the service
    Call,        \* goroutines that call Resolve or DialPortForward
    NoCluster,   \* a context that is not in the merged kubeconfig
    NoPod,       \* podName ""
    NoContext,
    TTL,         \* cacheTTL
    Timeout,     \* how long a caller's context lets Resolve run
    MaxTime,     \* bound on the clock
    MaxChanges   \* bound on the changes of kubeconfig and pods

ASSUME ResolverAssumption ==
    /\ Backing \subseteq Pod
    /\ NoCluster \notin Cluster /\ NoPod \notin Pod /\ NoContext \notin Context
    /\ TTL \in Nat \ {0} /\ Timeout \in Nat /\ MaxTime \in Nat /\ MaxChanges \in Nat

VARIABLES
    now,        \* the clock
    binding,    \* the cluster each context stands for in the ClientManager
    since,      \* history: when that last changed
    ready,      \* the ready pods of the service in each cluster
    left,       \* history: when a pod that is not ready last was
    changes,    \* how many changes of binding and ready there were
    cache,      \* r.cache
    call        \* the goroutines inside Resolve or DialPortForward

vars == <<now, binding, since, ready, left, changes, cache, call>>

\* A ResolvedService: the pods listed, by which cluster, and CachedAt.
Entry == [cluster : Cluster \cup {NoCluster}, pods : SUBSET Pod, at : Int]

NoEntry == [cluster |-> NoCluster, pods |-> {}, at |-> 0]

PC == {"idle", "enter", "check", "client", "fetch", "store", "done", "panic"}

\* begun is when the call read its own client (a dial) or started (a DNS
\* query); start is when the context with the deadline was made.
CallState == [pc : PC, ctx : Context \cup {NoContext}, pod : Pod \cup {NoPod}, begun : Nat,
              start : Nat, client : Cluster \cup {NoCluster}, got : Entry]

Idle == [pc |-> "idle", ctx |-> NoContext, pod |-> NoPod, begun |-> 0, start |-> 0,
         client |-> NoCluster, got |-> NoEntry]

Init ==
    /\ now = 0
    /\ binding \in [Context -> Cluster]
    /\ since = [x \in Context |-> 0]
    /\ ready \in [Cluster -> SUBSET Backing]
    /\ left = [u \in Cluster |-> [p \in Pod |-> -TTL]]
    /\ cache = [x \in Context |-> NoEntry]
    /\ changes = 0
    /\ call = [c \in Call |-> Idle]

\* Call c goes on at pc, holding the resolved service e; the deadline matters
\* only while it fetches.
GoTo(c, pc, e) ==
    call' = [call EXCEPT ![c] =
                [pc |-> pc, ctx |-> call[c].ctx, pod |-> call[c].pod,
                 begun |-> call[c].begun,
                 start |-> IF pc \in {"client", "fetch"} THEN call[c].start ELSE 0,
                 client |-> call[c].client, got |-> e]]

\* Call c returns an error.
Fail(c) == call' = [call EXCEPT ![c] = Idle]

\* A goroutine may call again once it has its answer.
CanCall(c) == call[c].pc \in {"idle", "done"}

World == <<now, binding, since, ready, left, changes>>

-----------------------------------------------------------------------------
\* DialPortForward reads the context's client, whose restConfig it will dial;
\* an unknown context is an error.
Dial(c, x, p) ==
    /\ CanCall(c)
    /\ IF binding[x] = NoCluster
       THEN Fail(c)
       ELSE call' = [call EXCEPT ![c] =
                        [pc |-> "enter", ctx |-> x, pod |-> p, begun |-> now, start |-> 0,
                         client |-> binding[x], got |-> NoEntry]]
    /\ UNCHANGED <<World, cache>>

\* It makes the context for Resolve.
Enter(c) ==
    /\ call[c].pc = "enter"
    /\ call' = [call EXCEPT ![c] =
                   [pc |-> "check", ctx |-> call[c].ctx, pod |-> call[c].pod,
                    begun |-> call[c].begun, start |-> now, client |-> call[c].client,
                    got |-> NoEntry]]
    /\ UNCHANGED <<World, cache>>

\* The DNS server calls Resolve: for any name with a context suffix, whether
\* the context is known or not.
Query(c, x, p) ==
    /\ CanCall(c)
    /\ call' = [call EXCEPT ![c] =
                   [pc |-> "check", ctx |-> x, pod |-> p, begun |-> now, start |-> now,
                    client |-> NoCluster, got |-> NoEntry]]
    /\ UNCHANGED <<World, cache>>

\* filterByPod: all endpoints, or the pod's alone; no result for a pod that is
\* not among them.
FilterByPod(e, p) ==
    IF p = NoPod THEN {e.pods} ELSE {{q} : q \in e.pods \cap {p}}

\* Resolve returns e: its caller gets the filtered endpoints and PickEndpoint
\* takes one (rand.Intn(0) panics).  Nothing shared is read.  A DNS query has
\* no use for an endpoint; that it takes one too stands for any it was given.
Answer(c, e) ==
    LET filtered == FilterByPod(e, call[c].pod) IN
    \/ filtered = {} /\ Fail(c)
    \/ \E pods \in filtered :
          \/ pods = {} /\ GoTo(c, "panic", e)
          \/ \E p \in pods :
                GoTo(c, "done", [cluster |-> e.cluster, pods |-> {p}, at |-> e.at])

\* Mutant: an entry exactly as old as the TTL is still served.
Fresh_Inclusive(e) == e.cluster # NoCluster /\ now - e.at <= TTL

\* An entry is there and younger than the TTL.
Fresh(e) == e.cluster # NoCluster /\ now - e.at < TTL

\* Mutant: a hit renews the entry.
CheckCache_Sliding(c) ==
    LET x == call[c].ctx IN
    /\ call[c].pc = "check"
    /\ \/ /\ Fresh(cache[x])
          /\ cache' = [cache EXCEPT ![x] = [cluster |-> cache[x].cluster,
                                            pods |-> cache[x].pods, at |-> now]]
          /\ Answer(c, cache[x])
       \/ ~Fresh(cache[x]) /\ GoTo(c, "client", NoEntry) /\ UNCHANGED cache
    /\ UNCHANGED World

\* Resolve looks at the cache under the read lock: a fresh entry is used.
CheckCache(c) ==
    LET x == call[c].ctx IN
    /\ call[c].pc = "check"
    /\ \/ Fresh(cache[x]) /\ Answer(c, cache[x])
       \/ ~Fresh(cache[x]) /\ GoTo(c, "client", NoEntry)
    /\ UNCHANGED <<World, cache>>

\* clientForContext: the cluster to ask, or an error for an unknown context.
ReadClient(c) ==
    LET u == binding[call[c].ctx] IN
    /\ call[c].pc = "client"
    /\ IF u = NoCluster
       THEN Fail(c)
       ELSE GoTo(c, "fetch", [cluster |-> u, pods |-> {}, at |-> 0])
    /\ UNCHANGED <<World, cache>>

InTime(c) == now <= call[c].start + Timeout

\* Mutant: a list without ready endpoints is a result like any other.
Fetch_Empty(c) ==
    LET u == call[c].got.cluster IN
    /\ call[c].pc = "fetch"
    /\ InTime(c)
    /\ GoTo(c, "store", [cluster |-> u, pods |-> ready[u], at |-> now])
    /\ UNCHANGED <<World, cache>>

\* The API server knows the service and lists its endpoint slices: their ready
\* endpoints make a ResolvedService stamped with the current time; without one
\* Resolve fails.
Fetch(c) ==
    LET u == call[c].got.cluster IN
    /\ call[c].pc = "fetch"
    /\ InTime(c)
    /\ IF ready[u] = {}
       THEN Fail(c)
       ELSE GoTo(c, "store", [cluster |-> u, pods |-> ready[u], at |-> now])
    /\ UNCHANGED <<World, cache>>

\* The API server refuses either request, does not know the service, or the
\* deadline passes.
ApiFails(c) ==
    /\ call[c].pc = "fetch"
    /\ Fail(c)
    /\ UNCHANGED <<World, cache>>

\* r.cache[key] = resolved, whatever another call stored meanwhile.
Store(c) ==
    /\ call[c].pc = "store"
    /\ cache' = [cache EXCEPT ![call[c].ctx] = call[c].got]
    /\ Answer(c, call[c].got)
    /\ UNCHANGED World

\* FindPort: the service a dial resolved does not have the port (any more).
FindPortFails(c) ==
    /\ call[c].pc = "done"
    /\ call[c].client # NoCluster
    /\ Fail(c)
    /\ UNCHANGED <<World, cache>>

-----------------------------------------------------------------------------
Change == changes < MaxChanges /\ changes' = changes + 1

\* The kubeconfig API binds a context to another cluster or removes it.
Rebind(x, u) ==
    /\ binding[x] # u
    /\ Change
    /\ binding' = [binding EXCEPT ![x] = u]
    /\ since' = [since EXCEPT ![x] = now]
    /\ UNCHANGED <<now, ready, left, cache, call>>

\* A pod becomes ready.
PodReady(u, p) ==
    /\ p \notin ready[u]
    /\ Change
    /\ ready' = [ready EXCEPT ![u] = @ \cup {p}]
    /\ UNCHANGED <<now, binding, since, left, cache, call>>

\* A pod goes away or becomes unready.
PodGone(u, p) ==
    /\ p \in ready[u]
    /\ Change
    /\ ready' = [ready EXCEPT ![u] = @ \ {p}]
    /\ left' = [left EXCEPT ![u] = [left[u] EXCEPT ![p] = now]]
    /\ UNCHANGED <<now, binding, since, cache, call>>

Tick ==
    /\ now < MaxTime
    /\ now' = now + 1
    /\ UNCHANGED <<binding, since, ready, left, changes, cache, call>>

Step(c) ==
    \/ Enter(c) \/ CheckCache(c) \/ ReadClient(c) \/ Fetch(c) \/ ApiFails(c)
    \/ Store(c) \/ FindPortFails(c)

Next ==
    \/ \E c \in Call, x \in Context, p \in Pod \cup {NoPod} : Dial(c, x, p) \/ Query(c, x, p)
    \/ \E c \in Call : Step(c)
    \/ \E x \in Context, u \in Cluster \cup {NoCluster} : Rebind(x, u)
    \/ \E u \in Cluster, p \in Backing : PodReady(u, p) \/ PodGone(u, p)
    \/ Tick

Spec == Init /\ [][Next]_vars

-----------------------------------------------------------------------------
\* Every variable has the type its Go counterpart has.
TypeOK ==
    /\ now \in Nat
    /\ binding \in [Context -> Cluster \cup {NoCluster}]
    /\ since \in [Context -> Nat]
    /\ ready \in [Cluster -> SUBSET Backing]
    /\ left \in [Cluster -> [Pod -> Int]]
    /\ changes \in Nat
    /\ cache \in [Context -> Entry]
    /\ call \in [Call -> CallState]

\* The call chose an endpoint.
Answered(c) == call[c].pc = "done"

\* A call that starts TTL + Timeout after its context was bound to another
\* cluster, or removed, is answered from the cluster the context now stands
\* for (so not at all once it is removed), and a dial sends the pod's name to
\* the cluster that pod is in: although nothing invalidates the cache and a
\* fetch may straddle the change, what the old cluster said dies out.
ReplacedClusterForgotten ==
    \A c \in Call :
        LET x == call[c].ctx IN
        Answered(c) /\ call[c].begun >= since[x] + TTL + Timeout
            => /\ call[c].got.cluster = binding[x]
               /\ call[c].client \in {binding[x], NoCluster}

\* When the pod p of cluster u last was ready.
LastReady(u, p) == IF p \in ready[u] THEN now ELSE left[u][p]

\* The endpoint a call chooses was ready less than the TTL before the call
\* began, however calls share and overwrite the cached list.
EndpointRecentlyReady ==
    \A c \in Call :
        Answered(c) => \A p \in call[c].got.pods :
                          LastReady(call[c].got.cluster, p) > call[c].begun - TTL

\* PickEndpoint is never given an empty list: neither an empty answer of the
\* API server nor a pod filter gets that far.
PickNeverPanics == \A c \in Call : call[c].pc # "panic"
=============================================================================
