# kube-forwarding-proxy: TLA+ models, checks and proofs

The proxy lets containers reach Kubernetes services of several clusters by
name. This directory holds TLA+ models of its concurrent core, the TLC
configurations that check them on small instances, and TLAPS proofs of their
safety properties for every instance.

`PROJECT.json` is the index: components, runs, mutants (for each checked
property, a plausible bug of the code that breaks it), the map from definitions
to source lines, the disagreements found, the hazards, and the theorems.

    tlc -workers 2 -config VIPAllocator.cfg MCVIPAllocator
    tlapm VIPAllocator_proofs.tla

## 1. Inventory

| Component | Source | State it keeps | Operations |
| --- | --- | --- | --- |
| VIP allocator | `internal/vip/allocator.go` | `next`, `assigned`, `reverse`, `skipped`, under `mu` | `Allocate`, `Lookup`, `ReverseLookup`, `ReleaseVIP`, `Cleanup` |
| Interface address manager | `internal/vip/interface*.go` | none; the kernel keeps the addresses | `AddAddress`, `RemoveAddress` |
| Forward manager: listeners | `internal/k8s/forward_manager.go` | `entries`, `vipStates` under `mu`; per `vipState` a timer, a generation, `activeConns` under its own mutex | `StartForward`, `TouchVIP`, `expireVIP`, `listenLoop`, `handleConn`, `ShutdownContext`, `Shutdown` |
| Forward manager: SPDY pool | same file, `stream_conn.go` | `spdyPool` under `spdyPoolMu`; atomic `refs` per entry | `DialPortForward`, `acquirePoolEntry`, `buildOnClose`, `streamConn.Close`, the two shutdowns |
| Client manager | `internal/k8s/client_manager.go` | `dynamicConfig`, `clients`, `currentCtx` under an RWMutex; the kubeconfig file on disk | `Reset`, `Add`, `MergeAndOverwrite`, `rebuild`, `MergedConfig`, `Kubeconfig` |
| `/kubeconfig` API | `internal/k8s/kubeconfig.go` | the two managers, injected late | GET, PUT, POST, PATCH, DELETE |
| DNS server | `internal/dns/server.go` | none of its own | per query: parse the name, look the VIP up or allocate it, start its forwards, answer; forward other names upstream |
| Service resolver | `internal/k8s/resolver.go` | TTL cache | `Resolve`, `PickEndpoint`, `FindPort` |
| Cluster host names | `internal/proxy/cluster.go` | none | `IsClusterHost`, `ParseClusterHost` |
| SOCKS5 proxy | `internal/proxy/socks5.go` | its listener | dial a cluster host with `DialPortForward`, others directly |
| Health endpoint | `internal/health/server.go` | a ready flag | `/healthz`, `/readyz`, `SetReady` |
| Lifecycle, configuration | `app/server.go`, `app/config.go`, `cmd/proxy/main.go` | the started parts | `Start`, `Stop`, reading the environment |

How they interact:

- A DNS query (`resolveForContext`) asks the allocator for the VIP of a service
  and then the forward manager to listen on it: two locks, no transaction
  around them.
- An accepted connection holds its VIP's idle timer and opens a stream with
  `DialPortForward`; the SOCKS5 proxy calls the same function.
- When a timer runs out, the forward manager closes the listeners and gives the
  VIP back to the allocator, with no lock held.
- A kubeconfig request changes the client manager, compares the merged config
  before and after, and calls `ShutdownContext` for each context that changed.
- The resolver reads the client manager on every cache miss, and
  `DialPortForward` reads it once more for the REST config; a replaced
  kubeconfig does not touch the cache.
- The DNS server and the SOCKS5 proxy read names with the same two functions,
  and a client may hand the SRV target of a DNS answer to either.
- `Start` brings the HTTP server up first and sets the ready flag last. `Stop`
  shuts the servers, then the forward manager down, and calls `Cleanup`.

What is hard here, and a unit test hardly reaches: callbacks of timers that
were stopped too late; locks dropped around `net.Listen`, `ReleaseVIP`,
`RemoveAddress` and `Close`; counts updated outside the mutex that guards the
map; a REST config read before a slow resolve and used after it; a dial without a
timeout under the mutex that every other dial and both shutdowns need; kubeconfig
handlers whose snapshot, change and second snapshot are separate critical
sections; a cache nobody invalidates, filled by fetches that overlap; answers
that name an address while it is given back; a shutdown while queries, timers,
requests and tunnels go on; an interface whose addresses outlive the process.
`PROJECT.json` lists these hazards at their lines.

What makes each part correct:

- allocator: no two services share an address, nothing it bound is lost, it
  never touches an address that is not its own, `Allocate` returns;
- listeners: connections keep a VIP, idle VIPs are given back, listeners and
  timers agree;
- pool: exact counts, no connection leaked, none closed under a user by the
  orderly path, every dial returns unless the API server lets one hang;
- kubeconfig: clients follow the config, a POST changes nothing that requests
  loaded before, connections to replaced clusters are shut down, every handler
  comes nearer to its answer with each step;
- resolver: what a replaced cluster or a vanished pod left in the cache dies out
  in bounded time, and an empty list never reaches `rand.Intn`;
- DNS server: an answered address never comes to stand for another service,
  listens on the ports it was set up for unless something tore it down or failed,
  a context that is missing from an answer failed itself or came too late, and
  every handler comes nearer to its answer with each step;
- host names: a name is read as exactly what it spells, both routes find the same
  service in it, and SRV targets lead back to where they came from;
- lifecycle and health: ready means ready, an orderly stop returns unless a dial
  hangs, and leaves nothing listening and no address behind.

## 2. Modules

| Module | Models | Proofs | TLC instance |
| --- | --- | --- | --- |
| `VIPLease` | what the allocator promises (abstract specification) | | |
| `VIPAllocator` | the allocator and the interface, across restarts | `VIPAllocator_proofs` | `MCVIPAllocator` |
| `IdleForward` | what the forward manager promises (abstract specification) | | |
| `ForwardManager` | listeners, idle timers, connections, and the queries that drive them | `ForwardManager_proofs` | `MCForwardManager` |
| `SharedConnection` | what the pool promises (abstract specification) | | |
| `SpdyPool` | `DialPortForward` and the pool of SPDY connections | `SpdyPool_proofs` | `MCSpdyPool` |
| `Kubeconfig` | `ClientManager` and the `/kubeconfig` handler | `Kubeconfig_proofs` | `MCKubeconfig` |
| `Resolver` | the endpoint cache and the dials and queries that use it | `Resolver_proofs` | `MCResolver` |
| `DNSServer` | concurrent queries over `VIPLease` and the listeners | `DNSServer_proofs` | `MCDNSServer` |
| `ClusterHost` | host names at the SOCKS5 proxy and the DNS server | `ClusterHost_proofs` | `MCClusterHost` |
| `Lifecycle` | `main`, `Start`, `Stop`, the ready flag, and the work under way | `Lifecycle_proofs` | `MCLifecycle` |

An operator whose name ends in `_Something` and whose comment begins with
"Mutant" is no part of a specification: it is a wrong variant of the definition
below it, kept to show that a property can fail.

### VIPAllocator

Variables `next`, `assigned`, `reverse`, `skipped` are the struct's fields;
`iface` is the kernel's set of addresses; `call` says which operation each
goroutine is in. `Allocate` holds `a.mu` for its whole loop, so the lock is not
a variable: it is held while a caller's operation is `"allocate"`, and each turn
of the loop is an action (`Exhausted`, `SkipInUse`, `AddFails`, `Bind`).
`ReleaseVIP` and `Cleanup` forget or copy addresses under the lock and call
`RemoveAddress` after it, one step per address. `Lookup` and `ReverseLookup`
change nothing and are read off the state. `own`, `failed` and `snapshot` are
history that only the properties read. Addresses are `0 .. Word-1` and the
arithmetic of `NewAllocator` is modulo `Word` (2^32 in the code). `Restart`
stands for a crash at any point, or an orderly stop, followed by a new process
with the same CIDR: everything but the interface is forgotten.

`VIPLease` says what callers may rely on: a key holds at most one address, and
an address once used is not granted again while the process lives or while it
is still bound. `VIPAllocator` implements it with `lease <- assigned` and
`used <- own \cup iface`.

### ForwardManager

Each region under `m.mu`, and each straight block under a `vipState`'s mutex, is
one action; what runs with no lock held is a step of its own. `obj` keeps
`vipState` objects after they left the map, because goroutines and timers still
refer to them. A timer that has run out becomes a member of `fired`, a callback
that nobody can stop any more and that carries only the VIP and a generation,
as in the code. Queries are `resolveForContext`: `Lookup` then `TouchVIP`, or
`Allocate` then `StartForward` for every port, giving up at the first error.
`StartForward` is `StartHit` or `StartMiss`, `Listen` or `ListenFails`, and one
of four `Register...` actions for its second look. `handleConn` is `FindState`,
`CountConn` and `CloseConn`; what it copies is left out, and the dial in it is
SpdyPool's business: it either fails or ends. The idle timeout is a Boolean,
time itself is not modelled, so a timer may run out at any moment after it was
armed.

`IdleForward` is what is left for the manager's callers: which ports of a VIP are
served, which connections keep it, which VIPs are closed and to be given back, and
which were given back. Ports are added one by one; a VIP loses all of them at
once, by expiry while no connection keeps it, with its context, or when the
proxy stops; and it is given back after one of the first two, in a step of its
own. There are no timers, generations, callbacks, objects or goroutines in it.
`ForwardManager` implements it with `serving <- ` the keys in `entries`, `held <- `
the holders of the VIP's current `vipState`, `pending <- releasing` and `given <- `
the VIPs the allocator has back. A connection that holds a `vipState` that has left
the map keeps nothing, which is what the code does with it.

`ReleaseVIP` is called once by `expireVIP` and `ShutdownContext` for each VIP;
the allocator's own steps are in VIPAllocator.

### SpdyPool

A dialer is one call of `DialPortForward` and the `streamConn` it returns. Its
`pc` follows the code: resolve, acquire (which dials with `spdyPoolMu` held),
create the streams, evict and retry once, stay open, release, look again under
the mutex, close. `refs` is decremented outside the mutex, as in the code.
`dialer.Dial` has no timeout and no context: `DialOk` and `DialFails` may happen and
need not, and whoever waits for the mutex waits with the dialer (`OwnStep` are the
steps a dial takes by itself). `config` numbers the REST configs of a context: a dial
reads the version at its start and carries it into the connection. `RemoteDrop` is
the API server or the network ending a connection at any moment.

`SharedConnection` is the pool without counts, mutex, retries and closes that come
late: a dial joins the live connection of its pod or opens the only one that is
pooled for it, uses one connection at a time, and a live connection leaves the pool
only when nobody uses it, when one of its users gives it up, or with its context.
`SpdyPool` implements it with `pooled <- pool`, `live <- ` the connections that are
up and `users <- ` the dialers that hold a reference. Reference counting is thus
shown to be an implementation of "nobody uses it".

### Kubeconfig

A kubeconfig is three maps (clusters, contexts, users) and a current context,
over small sets of names. `mergeConfigs`, `mergedConfig`, `rebuild`,
`affectedContexts` and the conflict search of `Add` are operators translated
from the functions of those names. A request is the sequence of critical
sections its handler runs: `Snapshot`, `Mutate` or `Conflict`, `Compare`, one
`ShutdownContext` per affected context, `Finish`. `GET` takes a pointer to the
live config under the lock and serialises it without: `link` says whether
somebody changes that config in place meanwhile, in which case the Go runtime
may end the process (`MapRace`) or not notice. The file can be edited or become
unreadable at any time.

What client-go does with an incomplete config is taken from how `rebuild` uses it:
no client without a cluster, an anonymous client without a user, and no client for
any context when the config's own current context is missing (`Usable`).

A dial takes three steps, as `DialPortForward` does: it reads its client
(`ReadClient`), resolves (after which a pooled connection may serve it,
`NoNeedToDial`), and dials with `spdyPoolMu` held (`StartDial`, `Dialled`).
`ShutdownContext` waits for that mutex (`MutexFree`), which a dial may never give
back. `tunnels` are the REST configs of the pooled connections of a context.
`strays` is history: the REST configs of connections that no request will close,
because a dial carried them past `ShutdownContext`, or because the client was
replaced without the request seeing it in its two snapshots. `Unseen` and
`Unchanged` say when that is; both follow from the snapshots being critical
sections of their own, and from `affectedContexts` comparing entries and not
clients.

### Resolver

One service is modelled, under one cache key per context. A call is a DNS query,
or a `DialPortForward` up to the choice of the pod: it reads the context's
client (`Dial`), makes its deadline (`Enter`), looks at the cache under the read
lock (`CheckCache`), reads the client again (`ReadClient`), asks the API server
(`Fetch`, `ApiFails`) and stores what it got over whatever is there (`Store`).
`filterByPod` and `PickEndpoint` are `FilterByPod` and `Answer`. `Rebind` is what
the kubeconfig API does to a context; `PodReady` and `PodGone` are the cluster's
doing. `now` is the clock: it may advance between any two steps, except that a
fetch that is answered is answered before its deadline. `since` and `left` are
history: when a context was last bound, and when a pod was last ready. Computing
the result between the `List` and `time.Now()` is one step with it.

### DNSServer

A query is one question of `handleCluster`: `Ask` fixes the service and the
contexts it stands for, then every context is tried in some order with the steps
of `resolveForContext`. When `Lookup` finds the address (`LookupHit`) the service is
resolved again for its ports (`PortsOf`), which are answered and not forwarded;
otherwise come `LookupMiss`, `ResolveOk` or `ResolveFails`, `Allocate`,
`AllocateSame` or `AllocateFails`, and `StartForward` or `StartFails` once per port.
`Return` adds the address to the answer, and `Answer` replies. The ports of a service
may change between any two resolves (`PortSets`). `Resolve` may fail for a service that
is there: because of its context (an API error, no ready endpoint, no such pod) or,
once the 5 s that all contexts of a query share are over (`TimeUp`), because of the
time; `LostBy` records which. `wanted` and `lost` are history that only the properties
read: the ports an address was to be served on, and the contexts that gave no answer.
TXT and SRV questions take the
two passes of `lookupTXT` and `lookupSRV` (`Info...`). The allocator is an
`INSTANCE` of VIPLease, the specification that VIPAllocator is proved to
implement, so what is shown here holds over the real one. The forward manager is
reduced to its listeners and to the two ways they go away, `ExpireVIP` and
`ShutdownContext`, each of which closes listeners first and releases the address
in a later step.

### ClusterHost

A host name is the sequence of its labels; a trailing dot is an empty last
label. `IsClusterHost`, `ParseClusterHost` and `contextFQDN` are operators on
them, with the difference between `strings.Index` and `strings.LastIndex` kept.
The state is what a client holds and does: it spells a name, gives it to the
SOCKS5 proxy (`SocksDial`: `clusterAwareResolver`, `dial`, `dialCluster`) and to
the DNS server (`Ask`: the mux, `handleDefault`, `handleCluster`), and may go on
with the SRV target of an answer (`Follow`). `dialled` and `asked` are the contexts
each route then looks in: the context of the name, or, for a name without one, the
current context at the proxy (`SocksContexts`) and every context at the DNS server
(`DnsContexts`). The reference definition is
`Spelling`: how a service or pod of a context is written.

### Lifecycle

The main goroutine's `pc` goes through `Start` and `Stop` one call at a time;
`StepFails` is every error return of `Start`, which ends the process without
`Stop`. Around it run queries, expiries, kubeconfig requests, probes and tunnels,
each reduced to what a shutdown has to do with: which addresses are bound,
tracked, listened on or being released, who is waited for, and who holds the
pool's mutex. `ServeFails` is a server goroutine that returns with an error,
which only the first 100 ms of the DNS server's `Start` notice. A query may be given
an address that another one recorded (`QueryShares`) and listens once per port, even
if the address was torn down in between, so a listener may be on an address the
allocator has forgotten. A dial keeps the pool's mutex for as long as the API server
likes. However the process ends, its goroutines end with it (`End`), and only what
is on the interface stays.
`httpSrv.Shutdown`, `mdns.Server.Shutdown` and the default action of a signal are
external: the first closes the listener and waits for requests at most 5 s, the
second closes its socket and waits for its handlers, the third ends the process.

## 3. Runs

Passing runs:

| Run | Instance | What it shows |
| --- | --- | --- |
| `alloc` | 8 addresses, 5 networks, 2 keys, 2 callers, 2 foreign addresses, 1 restart | `Consistent`: the two maps are inverse. `TrackedIsBound`: what `Lookup` returns is bound. `Accounted`: nothing bound is lost. `CleanupComplete`: all removals are attempted. `HostAddressesOnly`: off-by-one at both ends of a block. `ForeignUntouched`: only own addresses are removed. `LeaseSpec`: VIPLease is implemented. `AllocateReturns`: the loop ends. |
| `forward_safe` | 1 VIP, 2 ports, 2 queries, 2 connections, 2 `vipState`s | `ActiveCountExact`, `IdleVIPWillExpire` (the expiry of an idle VIP is never lost), `AllocatedNeverForgotten` (an allocated VIP has a `vipState`, is being released, or is in the hands of a query or of one that failed on it), `ListenersTracked` |
| `forward_live` | 2 VIPs of 1 context, 2 queries, 1 connection | `ImplementsIdleForward`: IdleForward is implemented. `IdleVIPReleased`: a VIP whose timer was armed is given back. `AllocatedVIPReleased`: so is one that was only allocated, unless a query failed on it. `DeadListenerForgotten`: so is one whose listener died on an accept error. |
| `pool` | 1 pod, 2 dials, 4 connections, 1 replaced config | `PooledRefsExact`, `NoLeakedConnection`, `ClosedByLastOnly`; `ImplementsSharedConnection`: SharedConnection is implemented; `DialReturns`: every dial returns, unless a call of `dialer.Dial`, which holds the mutex against all others, hangs |
| `kubeconfig` | 2 clients, 1 dial, 2 bodies, a file that may be unreadable | `ClientsMatch`. `TunnelsFresh`: with no request under way a pooled connection has its context's client, or is a stray. `PostKeepsLoaded`: a POST changes nothing that requests loaded. `RequestsAdvance`: every step of a handler brings it nearer to its answer. |
| `resolver` | 1 context, 2 clusters, 2 calls, TTL 2, timeout 1, one change | `ReplacedClusterForgotten`, `EndpointRecentlyReady`, `PickNeverPanics` |
| `dns` | 2 contexts, 1 service, 2 addresses, 2 queries, a service that gets a second port | `RightService`. `AnswerServed`: an answered address listens on the ports that any allocation of it was made with. `ContextsAccounted`: a context that has the service is missing only because it failed itself or the time was up. `QueriesAdvance`: no step takes a query back. |
| `hosts` | 5 labels (three of them the domain's, one empty), 5 contexts, names of up to 7 labels | `ParseExact`. `RoutesAgree`: both routes find the same service, and the proxy no context that the DNS server does not ask. `TargetLeadsBack`. |
| `lifecycle` | 2 addresses, 1 query, 1 request, 1 probe, 1 tunnel, a UDP server that may fail | `FailedStartAccounted` (what a failed `Start` leaves on the interface), `ReadyHonest`, `CleanExit`, `QuietAfterShutdown`, `StopReturns`: only a dial that hangs keeps `Stop` from returning |

The type invariants are proved (section 4) and have no run, and neither has
`PausedWhileActive`, that no timer is pending while connections hold a `vipState`,
which the proof of `IdleVIPWillExpire` rests on.

Violation runs each check one sentence of the repository's documents or
comments that the code does not keep; TLC's counterexample is the evidence.

| Run | The sentence | What the code does |
| --- | --- | --- |
| `pool_slate` | a replaced cluster gets a clean slate | a dial in flight pools a connection with the old config |
| `kubeconfig_race` | GET answers 200 | it reads maps that POST and PATCH write |
| `lifecycle_deadline` | `Stop` keeps to the deadline of its context | it waits, with no deadline, for the mutex that a dial without a timeout holds, and never reaches `Cleanup` |

`kubeconfig_race` and `lifecycle_deadline` are temporal and are checked under
`FairSpec`, which says nothing about dials.

The models also contain, in one or two steps each, smaller disagreements that
have no run of their own:

- released addresses are never handed out again, so "VIP CIDR exhausted: no more
  addresses available" is returned with addresses free (`Exhausted`);
- an IPv6 `VIP_CIDR` has base 0, and `Allocate` binds 0.0.0.1 and so on
  (`NetworkBase`); `HostAddressesOnly` is therefore about IPv4 blocks;
- an accepted connection that is not counted yet does not keep its VIP
  (`Accept`, `ExpireVIP`, `FindState`);
- of two concurrent `StartForward` calls for one key the second fails with
  "address in use", though the comment calls it idempotent (`ListenFails`);
- after an accept error the entry stays, and `StartForward` returns nil with
  nobody listening (`AcceptError`, `StartHit`);
- `dialer.Dial` has no timeout and no context and runs with `spdyPoolMu` held: one
  API server that does not answer blocks every other dial, of all contexts,
  `ShutdownContext` and with it the kubeconfig request, and `Stop` (`StartDial`,
  `MutexFree`; the exception in `DialReturns` and `StopReturns`);
- POST looks for conflicts in the dynamic config only: it may override an entry of
  the file and shuts its tunnels down, where `src/README.md:113` promises a 409 for
  names that exist "including the file-based config" (`Conflicts`, `Compare`;
  `PostKeepsLoaded` is about the entries that requests loaded);
- a request that leaves the merged config with a current context that does not
  exist takes the clients of all contexts away, and closes the tunnels of none
  that it did not otherwise change (`Usable`, `Unchanged`);
- a valid body is answered with 400, and takes effect, while the file is
  unreadable; the tunnels it made stale stay (`Mutate`, `Unseen`);
- GET returns the dynamic config, not the merged one (`ServeGet`);
- generations start again with every `vipState`, so the callback of a VIP's
  former life can match the new one and expire it early
  (`forward_manager.go:62`: "stale callbacks abort");
- when the first `StartForward` for a new VIP fails, the VIP is allocated and has
  no timer: it is not released, and later queries answer it from `Lookup` with
  nobody listening (`dns/server.go:283-284` says that listeners are ensured; the
  exceptions in `AllocatedVIPReleased`, `AllocatedNeverForgotten` and `AnswerServed`
  are this case); the VIP of a service without ports is never released either, for
  no `StartForward` is called for it (the models give every service a port);
- a stream that is refused on a shared connection makes `DialPortForward` close
  it for all its users (`CloseEvicted`; `forward_manager.go:85`: "the last
  streamConn to close triggers eviction");
- on the cached path the service is resolved again and its ports are answered, but
  no forward is started: a port that the service got after its address was set up
  is answered and never listens (`PortsOf`; `dns/server.go:283-284`);
- NXDOMAIN is also the answer for a service that is there, when its context's API
  fails, when it has no ready endpoint, and when another context used up the 5 s
  that all share (`LostBy`, `TimeUp`; `dns/server.go:402`: "service not found
  anywhere");
- connections to a replaced cluster stay (`strays`; `src/README.md:98`) when a dial
  read its client before `ShutdownContext` and pools its connection after it, when
  overlapping requests that add and remove a context both see it in neither
  snapshot, and when the file is edited between two rebuilds, since the handler
  compares two merges of the new file;
- `Resolver.Invalidate` has no caller; for up to the TTL and one timeout after a
  context was bound to another cluster, the pods of the old cluster are dialled
  in the new one;
- a named target port has `IntVal` 0, so `FindPort` returns the service's port;
- `forwardToUpstream` answers NOERROR without records when the lookup failed;
- the SRV target for a context whose name has dots leads nowhere, though the
  comment at `dns/server.go:188` says resolvers can look the exact VIP up with it
  (`TargetLeadsBack` has the two cases);
- a name without a context is dialled in the current context by the SOCKS5 proxy
  and looked up in every context by the DNS server, which answers with all the
  addresses it finds, where `src/README.md:76-84` has the current context for both
  (`SocksContexts`, `DnsContexts`);
- the SOCKS5 proxy takes a context-suffixed name with a trailing dot for an
  outside host and dials it directly, refuses a context-suffixed name of the wrong depth that the DNS
  server sends upstream, and accepts empty labels, which a DNS name cannot have
  (`RoutesAgree` is about names that either side takes for a service, and leaves
  out those with a context and a trailing dot);
- a `CLUSTER_DOMAIN` that is a shift of itself, one label in particular, makes
  names ambiguous (`HostAssumption` leaves it out);
- a step of `Start` that fails after the DNS server is up, a signal before
  `signal.Notify`, and a release that is still under way at exit leave addresses
  on the interface; `/readyz` never goes back to 503, and a server whose
  goroutine died later goes unnoticed.

### Bounds, and why they are enough

- Allocator: two callers and two keys give every overlap of a loop with a
  release or a cleanup; eight addresses hold a block at each end of the space,
  blocks without hosts, and taken addresses in between; one restart is enough
  for addresses of a former process to be met by the next.
- Listeners: two `vipState`s let a VIP be torn down and set up again while
  callbacks and connections of the first life are around; two VIPs of one context
  tell an expiry from a shutdown of the context; two connections tell
  "last" from "not last"; two queries are two concurrent `StartForward` calls.
  Generations are bounded by the number of touches, connections and objects,
  each of which happens finitely often.
- Pool: two dials are the two sides of the race between the last close and a new
  acquisition, and of an eviction against a stream in use; four connections are
  all that two dials with one retry each can make. The proofs extend the safety
  part to any number of dials and pods.
- Kubeconfig: the file has a context on one server. One body renews the credentials
  of its user, the other brings the old ones back together with a current context
  that does not exist, so that clients change, vanish, come back and are shadowed,
  and the file becomes unreadable between any two steps. Two requests overlap in
  every way, and one dial, which starts again when it is done, is carried past any
  of their steps. `kubeconfig_race` has a body with a cluster of its own, and no
  dial.
- Resolver: two calls are all it takes for an older fetch to overwrite a newer
  one and for a third step, a later call of the same goroutine, to read it; time
  runs to TTL + timeout, the first moment at which `ReplacedClusterForgotten`
  says something about a change at time 0, and a chosen pod can be as old as the
  TTL. One change per behaviour is enough for either property to be broken, and
  the proof removes all four bounds.
- DNSServer: two queries for one service share, allocate and lose each other's
  addresses; two contexts tell "one failed" from "all failed", and a failure of one
  from the time it took from the other; with two addresses the CIDR runs out. The
  service has one port or two, so that queries set the same address up for
  different ports. Services differ only in their key, of which there are two.
- ClusterHost: seven labels are the longest name the parser accepts with the
  default domain (pod, service, namespace, three labels, context); `Follow`
  makes longer ones. Labels of the domain stand for services, namespaces and
  contexts too.
- Lifecycle: the goroutines start again when they are done, so that one of each
  kind meets every step of `Stop`; two addresses tell "one removal failed" from
  "all did".

`MaxRestarts`, `MaxConfig`, the Resolver's `MaxTime` and `MaxChanges` and
ClusterHost's `MaxLabels` are the only counters bounded by hand. Queries, dials
and connections each run once but for Kubeconfig, Resolver and Lifecycle, so their
number bounds the behaviours;
where they run out, the instance stops, and its configuration says
`CHECK_DEADLOCK FALSE`. The identities in `State` and `ConnId` stand for heap
objects. `forward_live` and `pool` have one for every object that can be made,
so that nothing waits for want of an identity; `forward_safe` stops at the third
life of its VIP.

### Fairness

Only what the Go scheduler and the runtime do by themselves is assumed weakly
fair: a goroutine inside a function goes on, a timer that was armed runs out, a
callback that started runs. Mutexes need no strong fairness in these instances:
their critical sections are finite and callers run once. Nothing makes queries,
connections, requests, errors or shutdowns come.

No run assumes that a dial returns: `dialer.Dial` has no timeout and no context.
`DialReturns` and `StopReturns` have the alternative that a dial hangs for ever
(`SomeDialHangs`), and say that nothing else can keep a dial or `Stop` from
returning. Creating the streams is assumed to end, by the SPDY library's own
timeout for it, and so are calls to an API server through the resolver, by its
timeout. ForwardManager assumes that a connection ends, the dial in it included:
`IdleVIPReleased` and `AllocatedVIPReleased` are about VIPs, and a VIP whose
connection never ends is not idle.

In Lifecycle main goes on once it has its signal, queries are answered (their calls
share a deadline of 5 s and none of them takes the pool's mutex), and a handler that
reads the ready flag runs to its end (or `ReadTimeout` ends it). Nothing makes a dial
return, a tunnel end, an address expire or a kubeconfig request return, and
`StopReturns` needs none of the last three.

For kubeconfig requests and DNS queries the properties are about single steps,
`RequestsAdvance` and `QueriesAdvance`, and need no fairness: every step of a handler
brings it nearer to its end, and no step of anybody takes it back. A handler that is
scheduled therefore comes to its end, except that a kubeconfig request may wait for
the mutex that a dial holds. An end of a query is the return of its handler: the
error of `WriteMsg` is dropped, and the client may not have its answer.

## 4. Proofs

All theorems hold for every value of the constants that satisfies the named
assumption of the module (`AllocAssumption`, `ForwardAssumption`,
`PoolAssumption`, `KubeconfigAssumption`, `ResolverAssumption`, `DNSAssumption`,
`HostAssumption`, `LifecycleAssumption`). These say that the "none" values are
not members of the sets they stand outside of, that the sets that are counted
are finite, that networks, bodies and files are well formed, that a service has a port
(`ForwardAssumption`), and that the cluster domain is no shift by one or two labels of itself. Each proof module shows that
an inductive invariant (`IInv` or `Inv`) follows from `Init` and is kept by every
action, with one lemma per action or family of actions.

**VIPAllocator_proofs.** `TypeCorrect`, `MapsConsistent`, `LookupIsBound`,
`NothingLost`, `CleanupAttemptsAll`, `OnlyHostAddresses`,
`NeverRemovesForeign`, `Refinement` (VIPLease is implemented), and `LoopAdvances`. The
properties are not inductive by themselves. That two keys never get the same
address needs `next` to be ahead of everything the process has bound
(`NextInv`), which holds because `next` stops at the limit before it could wrap.
`LockInv` says that one goroutine at most is inside `Allocate`, for a key that
has no address yet; `OwnInv` that what is tracked or about to be removed was
bound by this process; `CleanupInv` that what `Cleanup` still has to do and what
failed cover what is left of its snapshot. `LoopAdvances`, the safety half of
`AllocateReturns`, says that the counter never wraps although it is a `uint32`:
`CounterAdvances` has it go up by one, below `max`, under the lock, in every turn
that stays in the loop.

Besides the invariants there are two further kinds of theorem. A `Refinement`
shows that a module implements its abstract specification: the initial states map
to initial states, and every step to a step or a stutter. The third kind is the
safety half of a liveness property: it names a measure, or a finite set of things
waited for, and shows that no step of the system can make it grow and that every
step of the goroutine concerned makes it smaller. What remains for fairness, and
for TLC, is that the goroutine does take its steps.

**ForwardManager_proofs.** `TypeCorrect`, `CountsAreExact`, `ActivePauses`,
`ExpiryNeverLost`, `MapsAgree`, `NeverForgotten`, `Refinement` (IdleForward is
implemented). The invariant is split into `Core`, about the
maps and the `vipState` objects, and `QueryLocal` and `ConnLocal`, about what
the goroutines remember. Besides the first four properties `Core` has `FiledInv` (a
`vipState` is filed under the VIP it was made for, and only with expiry on) and
`BornInv` (only an object that was made for a VIP has a timer or a connection).
`NeverForgotten` is inductive relative to these: a query lets go of a VIP it
allocated only when it has registered a listener, hence a `vipState`, or by the
error that the property names, and a `vipState` leaves the map only for
`releasing`. In `Refinement` a callback that aborts, a touch, a timer and every
lookup are stutters; an expiry that goes through is an `Expire`, because the
generation and the count it checked under the two locks, with `ActiveCountExact`,
say that no connection keeps the VIP.

**SpdyPool_proofs.** `TypeCorrect`, `RefsAreExact`, `NothingLeaks`,
`LastOneCloses`, `Refinement` (SharedConnection is implemented),
`MutexNeverLeftLocked` and `RetriedOnce`. `MutexInv` ties `holder` to the one
dialer that dials, `DialerInv` and `PoolInv` tie dialers and pool slots to entries
of their key, `RefsInv` bounds every count from below by the number of its users
and makes it exact for pooled entries. It is an inequality elsewhere because a dial
that evicts an entry never returns its reference. `UpInv`, `LastInv` and
`ClosingInv` say that a connection that is up and out of the pool is about to
be closed, that somebody will look at a pooled entry whose count is zero, and
that an entry `onClose` is closing is out of the pool with no users. For the
refinement the second look at `refs` under the mutex is what makes the eviction a
`Retire`: the count of a pooled entry is exact, so zero means no users. The two
last theorems are the safety half of `DialReturns`: the mutex is only ever held by
a dialer that is dialling, and a call is at most nine steps from its return, each
of which brings it nearer (`DialAdvances`).

**Kubeconfig_proofs.** `TypeCorrect`, `ClientsFollowConfig`, `PostIsAtomic`,
`TunnelsStayFresh` and `HandlersAdvance` hold for any number of clients and dials,
any bodies and any edits of the file. `BodyInv` says what a request carries before it
changed the config, `DialInv` that a dial under way has a client. For
`TunnelsStayFresh`, `FreshInv` says of every REST config that a connection has, or
that a dial may yet give one (`Live`), that it is the client of its context, a stray,
or remembered: a request has it in its first snapshot, or has the context on its
list. It rests on the lemma that a context whose client differs between two merged
configs, the second of them usable, is in `affectedContexts` (`AffectedComplete`). The strays are
what keeps this from being more than the code gives: the theorem says that there are
no other ways for a stale connection to stay. `HandlersAdvance` is `RequestsAdvance`.

**Resolver_proofs.** `TypeCorrect`, `OldClusterForgotten`,
`ChosenRecentlyReady`, `PickSafe`. `EntryOK` says of a list of pods, in the cache
or in a call's hands, that it is not empty, that every pod in it was ready when it
was stamped, and that if its cluster is no longer the context's then it was
stamped at most one timeout after the change. `CallOK` carries the same along the
steps of a call, relative to when it began and to its deadline. That a stale list
is younger than the TTL when it is used then bounds its age by TTL plus timeout.

**DNSServer_proofs.** `TypeCorrect`, `NeverMisrouted`, `AnswersAreServed`,
`EveryContextAccounted` and `HandlersAdvance` (`QueriesAdvance`). `SharedInv` is about
addresses: every address that a lease, a listener, a query or an answer refers to was
used (`UsedInv`) and is referred to for one key only (`RightService`), and each port it
was to be served on has a listener, or a query has it still to start, or the address
was torn down or failed (`PortInv`, with `Covered`). That an address is never granted
twice comes from VIPLease. `LocalInv` is about one query: where it is in the code, and
that each context it has dealt with is in the answer, does not have the service, or
has its failure recorded (`Settled`). A step of one query touches only its own record
and shared state that may only grow, so the proof shows the first for the query that
steps and the second for all (`LocalSteps`, `ForwardStep`, `StartForwardStep`,
`ManagerStep`).

**ClusterHost_proofs.** `TypeCorrect`, `NamesReadExactly`, `RoutesMeet`,
`TargetsLeadBack`, for names of any length. They rest on lemmas about the
operators: a domain that is no shift of itself occurs at one place only near the
end of a name (`NoShift`), the chosen first and last occurrences are the first
and the last (`IndexIsFirst`, `LastIndexIsLast`, by the well-foundedness of the
naturals), a spelling parses to what it spells (`ParseSpelling`) and what parses
is a spelling (`ParseIsSpelling`), a parsed name is a cluster host
(`ParsedIsClusterHost`), one without a context is so with a trailing dot too
(`DottedIsClusterHost`), and the target for a context with dots does not parse
(`LongContext`).

**Lifecycle_proofs.** `TypeCorrect`, `ReadyIsHonest`, `ExitIsClean`,
`ShutdownIsQuiet`, `FailedStartIsAccounted` and `WaitsOnlyShrink`. `AddrInv` says that a bound address is tracked, or being
released, or could not be removed; `OrderInv` which servers are closed and which
goroutines are gone at each place of `Stop`; `ReadyInv` which servers are up at
each place of `Start` once the flag can be set. `EarlyInv` says that nothing is
allocated, and no query is under way, before the DNS server serves, which is what
`FailedStartIsAccounted` needs. `WaitsOnlyShrink` is the safety half of
`StopReturns`: what each step of `Stop` waits for (`Awaited`: requests, queries,
dials under the pool's mutex, addresses to remove) cannot be joined by anything
new while it waits, since the server or listener it would come through is closed.
That a dial which holds the mutex comes back is not part of it.

Only model-checked, not proved:

- liveness (`AllocateReturns`, `IdleVIPReleased`, `AllocatedVIPReleased`,
  `DeadListenerForgotten`, `DialReturns`, `StopReturns`), which is out of the
  prover's reach. For `AllocateReturns`, `DialReturns` and `StopReturns` the safety
  half is proved, as said above;
- the violation runs, which are counterexamples and need no proof.

## 5. Not modelled, and the plan

Every component the source names is in a module. What the models leave out:

- DNS messages with several questions (the handlers loop over them, and the
  response code of the last one wins), record layout and TTLs, the lookups that
  `forwardToUpstream` makes, and how ports are written in answers;
- the SOCKS5 protocol, copying of bytes, log output: library code or pure I/O;
- the values of environment variables and the choice of the interface, each of
  which is one step of `Lifecycle` that succeeds or fails, and the `ifconfig`
  calls on darwin, which have the same outcomes as the netlink ones;
- `healthz`, which reads nothing, and the parts of the resolver only tests call.

In order, what would add most:

1. The pool together with the resolver, for a dial that pairs a pod of one
   cluster with the connection of another.
2. DNSServer and Lifecycle over IdleForward, as DNSServer is over VIPLease already.
