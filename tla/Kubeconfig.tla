----------------------------- MODULE Kubeconfig -----------------------------
(***************************************************************************)
(* internal/k8s/client_manager.go and internal/k8s/kubeconfig.go: the      *)
(* ClientManager, which merges the kubeconfig file with a dynamic config   *)
(* kept in memory and builds a client per context, and the /kubeconfig     *)
(* HTTP handler, which changes the dynamic config while the proxy runs.    *)
(*                                                                         *)
(* A handler takes cm.mu three times: for a snapshot of the merged config, *)
(* for the change, and for a second snapshot; it then shuts down the       *)
(* tunnels of the contexts that differ between the snapshots.  The file is *)
(* read again at each of the three.  GET takes a pointer under the lock    *)
(* and serialises what it points to without it.                            *)
(*                                                                         *)
(* A dial of the forward manager reads its client first, resolves, and     *)
(* dials with the mutex of the pool held; SpdyPool has its details.        *)
(***************************************************************************)
EXTENDS Integers, FiniteSets

CONSTANTS
    Client,           \* HTTP clients, each with one request at a time
    Context, Cluster, User,   \* names of the three kinds of entries
    Server, Cred,     \* what a cluster and a user (AuthInfo) entry hold
    Bodies,           \* the valid kubeconfigs that requests carry
    Files,            \* states of the kubeconfig file
    Used,             \* the contexts that services are looked up in
    Dial,             \* goroutines that dial a pod (DialPortForward)
    None,             \* no entry of that name
    Nil,              \* a nil *Config
    Unreadable        \* a file that clientcmd fails to load

Ref == [cluster : Cluster, user : User]

\* A clientcmdapi.Config: three maps and the current context.
Config == [clusters : [Cluster -> Server \cup {None}],
           contexts : [Context -> Ref \cup {None}],
           users    : [User -> Cred \cup {None}],
           current  : Context \cup {None}]

\* A contextClient: the REST config of a context, without credentials when its
\* user is missing.
Rest == [server : Server, cred : Cred \cup {None}]

ASSUME KubeconfigAssumption ==
    /\ Bodies \subseteq Config
    /\ Files \subseteq Config \cup {Unreadable}
    /\ Used \subseteq Context
    /\ None \notin Server \cup Cred \cup Ref \cup Rest \cup Context
    /\ {Nil, Unreadable} \cap Config = {}

VARIABLES
    ready,        \* SetManagers was called
    file,         \* the kubeconfig file
    dynamic,      \* cm.dynamicConfig
    clients,      \* cm.clients
    currentCtx,   \* cm.currentCtx
    behind,       \* the last rebuild failed: clients lag behind dynamic
    request,      \* the requests in flight
    dial,         \* the dials under way
    tunnels,      \* REST configs the pooled connections of a context were dialled with
    strays,       \* history: those that no request will close (see Overlooked)
    alive         \* the process has not died

manager == <<dynamic, clients, currentCtx, behind>>
pool == <<dial, tunnels>>
vars == <<ready, file, manager, request, pool, strays, alive>>

Method == {"GET", "PUT", "POST", "PATCH", "DELETE"}

\* The answer to the last request: 200 or 204, 409, or one of 400, 405 and 501.
Status == {"none", "ok", "conflict", "error"}

\* link: how a GET's config relates to cm.dynamicConfig (see ServeGet).
RequestState ==
    [pc : {"idle", "snapshot", "mutate", "compare", "shutdown", "serialise"},
     method : Method \cup {None}, body : Config \cup {None},
     old : Config \cup {Nil}, todo : SUBSET Context,
     link : {"private", "live", "racing"},
     status : Status]

DialState == [pc : {"idle", "resolve", "dial"}, ctx : Context \cup {None},
              rest : Rest \cup {None}]

NoDial == [pc |-> "idle", ctx |-> None, rest |-> None]

EmptyConfig == [clusters |-> [n \in Cluster |-> None], contexts |-> [n \in Context |-> None],
                users |-> [n \in User |-> None], current |-> None]

-----------------------------------------------------------------------------
(* Merging and building. *)

\* One map of mergeConfigs: entries of src win exactly when overwrite is set.
MergeMap(dst, src, overwrite) ==
    [n \in DOMAIN dst |->
        IF src[n] # None /\ (overwrite \/ dst[n] = None) THEN src[n] ELSE dst[n]]

mergeConfigs(dst, src, overwrite) ==
    [clusters |-> MergeMap(dst.clusters, src.clusters, overwrite),
     contexts |-> MergeMap(dst.contexts, src.contexts, overwrite),
     users    |-> MergeMap(dst.users, src.users, overwrite),
     current  |-> IF src.current # None /\ (overwrite \/ dst.current = None)
                  THEN src.current ELSE dst.current]

\* mergedConfig for a file f and a dynamic config; Nil when the file fails.
mergedConfig(f, dyn) ==
    IF f = Unreadable THEN Nil
    ELSE IF dyn = Nil THEN f ELSE mergeConfigs(f, dyn, TRUE)

\* client-go builds no client at all from a config whose own current context is
\* missing, whichever context it is asked for.
Usable(cfg) == cfg.current # None => cfg.contexts[cfg.current] # None

\* The client rebuild makes for a context; a context whose cluster is missing
\* is skipped, one whose user is missing gets an anonymous client.
ClientFor(cfg, x) ==
    LET ref == cfg.contexts[x] IN
    IF Usable(cfg) /\ ref # None /\ cfg.clusters[ref.cluster] # None
    THEN [server |-> cfg.clusters[ref.cluster], cred |-> cfg.users[ref.user]]
    ELSE None

ClientsFor(cfg) == [x \in Context |-> ClientFor(cfg, x)]

\* Mutant: a merge that forgets to rebuild the clients.
rebuild_Skipped(dyn) ==
    /\ dynamic' = dyn
    /\ UNCHANGED <<clients, currentCtx, behind>>

\* rebuild, with dyn already stored in cm.dynamicConfig: on an error the old
\* clients stay.
rebuild(dyn) ==
    LET merged == mergedConfig(file, dyn) IN
    /\ dynamic' = dyn
    /\ behind' = (merged = Nil)
    /\ clients' = IF merged = Nil THEN clients ELSE ClientsFor(merged)
    /\ currentCtx' = IF merged = Nil THEN currentCtx ELSE merged.current

RebuildFails(dyn) == mergedConfig(file, dyn) = Nil

\* Mutant: a changed user does not affect its contexts.
affectedContexts_NoUsers(old, new) ==
    {x \in Context :
        /\ old # Nil /\ old.contexts[x] # None
        /\ \/ new = Nil
           \/ new.contexts[x] # old.contexts[x]
           \/ new.clusters[old.contexts[x].cluster] # old.clusters[old.contexts[x].cluster]}

\* Contexts of the old config that are gone or changed: the entry itself, its
\* cluster or its user.
affectedContexts(old, new) ==
    {x \in Context :
        /\ old # Nil /\ old.contexts[x] # None
        /\ \/ new = Nil
           \/ new.contexts[x] # old.contexts[x]
           \/ new.clusters[old.contexts[x].cluster] # old.clusters[old.contexts[x].cluster]
           \/ new.users[old.contexts[x].user] # old.users[old.contexts[x].user]}

\* Mutant: the users of a POST are not compared.
Conflicts_NoUsers(dyn, body) ==
    /\ dyn # Nil
    /\ \/ \E n \in Cluster : body.clusters[n] # None /\ dyn.clusters[n] # None
       \/ \E n \in Context : body.contexts[n] # None /\ dyn.contexts[n] # None

\* Add's search for names that the dynamic config already has.
Conflicts(dyn, body) ==
    /\ dyn # Nil
    /\ \/ \E n \in Cluster : body.clusters[n] # None /\ dyn.clusters[n] # None
       \/ \E n \in Context : body.contexts[n] # None /\ dyn.contexts[n] # None
       \/ \E n \in User : body.users[n] # None /\ dyn.users[n] # None

\* The dynamic config after Reset, Add or MergeAndOverwrite.
Changed(method, dyn, body) ==
    CASE method = "PUT"    -> body
      [] method = "DELETE" -> Nil
      [] method = "POST"   -> IF dyn = Nil THEN body ELSE mergeConfigs(dyn, body, FALSE)
      [] method = "PATCH"  -> mergeConfigs(IF dyn = Nil THEN EmptyConfig ELSE dyn, body, TRUE)

-----------------------------------------------------------------------------
Fresh(status) ==
    [pc |-> "idle", method |-> None, body |-> None, old |-> Nil, todo |-> {},
     link |-> "private", status |-> status]

\* NewClientManager builds the clients of the file; it fails, and the proxy
\* does not start, when the file cannot be read.
Init ==
    /\ ready = FALSE
    /\ file \in Files \ {Unreadable}
    /\ dynamic = Nil
    /\ clients = ClientsFor(file)
    /\ currentCtx = file.current
    /\ behind = FALSE
    /\ request = [r \in Client |-> Fresh("none")]
    /\ dial = [d \in Dial |-> NoDial]
    /\ tunnels = [x \in Context |-> {}]
    /\ strays = [x \in Context |-> {}]
    /\ alive = TRUE

\* The HTTP server already runs when the managers are injected.
SetManagers ==
    /\ ~ready
    /\ ready' = TRUE
    /\ UNCHANGED <<file, manager, request, pool, strays, alive>>

\* Request r is answered.
Respond(r, status) == request' = [request EXCEPT ![r] = Fresh(status)]

\* A request that is refused before it reaches the ClientManager: it came before
\* SetManagers (501), has another method (405) or a body that does not load (400).
Refuse(r) ==
    /\ request[r].pc = "idle"
    /\ Respond(r, "error")
    /\ UNCHANGED <<ready, file, manager, pool, strays, alive>>

\* A PUT, POST, PATCH (with a valid body) or DELETE.
Receive(r, method, body) ==
    /\ ready
    /\ request[r].pc = "idle"
    /\ request' = [request EXCEPT ![r] =
                      [pc |-> "snapshot", method |-> method,
                       body |-> IF method = "DELETE" THEN None ELSE body,
                       old |-> Nil, todo |-> {}, link |-> "private", status |-> "none"]]
    /\ UNCHANGED <<ready, file, manager, pool, strays, alive>>

\* oldCfg, _ := cm.MergedConfig()
Snapshot(r) ==
    /\ request[r].pc = "snapshot"
    /\ request' = [request EXCEPT ![r] =
                      [pc |-> "mutate", method |-> request[r].method, body |-> request[r].body,
                       old |-> mergedConfig(file, dynamic), todo |-> {},
                       link |-> "private", status |-> "none"]]
    /\ UNCHANGED <<ready, file, manager, pool, strays, alive>>

\* What happens to the GETs in flight: a config that is replaced is theirs
\* alone, one that is changed in place changes while they read it.
Relinked(g, inPlace) ==
    [pc |-> g.pc, method |-> g.method, body |-> g.body, old |-> g.old, todo |-> g.todo,
     link |-> IF g.link # "live" THEN g.link ELSE IF inPlace THEN "racing" ELSE "private",
     status |-> g.status]

\* The requests after r changed the dynamic config and went on as q.
Requests(r, q, inPlace) ==
    [s \in Client |-> IF s = r THEN q ELSE Relinked(request[s], inPlace)]

\* The REST configs that dials under way have for context x.
Dialling(x) == {dial[d].rest : d \in {e \in Dial : dial[e].ctx = x}}

\* Those that connections of context x have, or may yet have.
Live(x) == tunnels[x] \cup Dialling(x)

\* A request overlooks that the contexts X no longer have the clients c: their
\* connections, if there are any, are strays until the context is shut down.
Overlooked(X, c) ==
    strays' = [x \in Context |->
                  IF x \in X THEN strays[x] \cup ({c[x]} \cap Live(x)) ELSE strays[x]]

\* A request that read old before it changed the config does not know that it
\* replaced the client of x: another request, a file edit or a failed rebuild
\* came between.
Unseen(old, x) ==
    clients'[x] # clients[x] /\ (old = Nil \/ ClientFor(old, x) # clients[x])

\* Reset, Add and MergeAndOverwrite change the config, whatever rebuild says;
\* DELETE ignores the error, the others answer 400.
Mutate(r) ==
    LET method == request[r].method
        dyn == Changed(method, dynamic, request[r].body) IN
    /\ request[r].pc = "mutate"
    /\ ~(method = "POST" /\ Conflicts(dynamic, request[r].body))
    /\ rebuild(dyn)
    /\ request' = Requests(r,
                     IF RebuildFails(dyn) /\ method # "DELETE" THEN Fresh("error")
                     ELSE [pc |-> "compare", method |-> None, body |-> None,
                           old |-> request[r].old, todo |-> {},
                           link |-> "private", status |-> "none"],
                     method \in {"POST", "PATCH"} /\ dynamic # Nil)
    /\ Overlooked({x \in Context : Unseen(request[r].old, x)}, clients)
    /\ UNCHANGED <<ready, file, pool, alive>>

\* Mutant: after a conflict the handler starts again.
Conflict_Retry(r) ==
    /\ request[r].pc = "mutate"
    /\ request[r].method = "POST"
    /\ Conflicts(dynamic, request[r].body)
    /\ request' = [request EXCEPT ![r].pc = "snapshot", ![r].old = Nil]
    /\ UNCHANGED <<ready, file, manager, pool, strays, alive>>

\* Add returns a ConflictError.
Conflict(r) ==
    /\ request[r].pc = "mutate"
    /\ request[r].method = "POST"
    /\ Conflicts(dynamic, request[r].body)
    /\ Respond(r, "conflict")
    /\ UNCHANGED <<ready, file, manager, pool, strays, alive>>

\* The second snapshot does not show that x lost its client: the file was
\* edited since the clients were built, or they are gone because of the
\* current context, which affectedContexts does not look at.
Unchanged(new, x) ==
    new # Nil /\ (ClientFor(new, x) # clients[x] \/ ~Usable(new))

\* newCfg, _ := cm.MergedConfig() and affectedContexts(oldCfg, newCfg)
Compare(r) ==
    LET old == request[r].old
        new == mergedConfig(file, dynamic) IN
    /\ request[r].pc = "compare"
    /\ request' = [request EXCEPT ![r] =
                      [pc |-> "shutdown", method |-> None, body |-> None, old |-> Nil,
                       todo |-> affectedContexts(old, new),
                       link |-> "private", status |-> "none"]]
    /\ Overlooked({x \in Context : old # Nil /\ Unchanged(new, x)},
                  [x \in Context |-> ClientFor(old, x)])
    /\ UNCHANGED <<ready, file, manager, pool, alive>>

\* Nobody dials with spdyPoolMu held.
MutexFree == \A d \in Dial : dial[d].pc # "dial"

\* shutdownTunnelsForContexts, one context: ShutdownContext closes its
\* connections once it has the mutex of the pool.  A dial that has read its
\* client already goes on with it.
ShutdownContext(r, x) ==
    /\ request[r].pc = "shutdown"
    /\ x \in request[r].todo
    /\ MutexFree
    /\ tunnels' = [tunnels EXCEPT ![x] = {}]
    /\ strays' = [strays EXCEPT ![x] = Dialling(x) \ {clients[x]}]
    /\ request' = [request EXCEPT ![r] =
                      [pc |-> "shutdown", method |-> None, body |-> None, old |-> Nil,
                       todo |-> request[r].todo \ {x}, link |-> "private", status |-> "none"]]
    /\ UNCHANGED <<ready, file, manager, dial, alive>>

Finish(r) ==
    /\ request[r].pc = "shutdown"
    /\ request[r].todo = {}
    /\ Respond(r, "ok")
    /\ UNCHANGED <<ready, file, manager, pool, strays, alive>>

\* GET: cm.Kubeconfig() returns the pointer to the dynamic config, or the
\* handler takes EmptyConfig.
ServeGet(r) ==
    /\ ready
    /\ request[r].pc = "idle"
    /\ request' = [request EXCEPT ![r] =
                      [pc |-> "serialise", method |-> "GET",
                       body |-> IF dynamic = Nil THEN EmptyConfig ELSE dynamic,
                       old |-> Nil, todo |-> {},
                       link |-> IF dynamic = Nil THEN "private" ELSE "live", status |-> "none"]]
    /\ UNCHANGED <<ready, file, manager, pool, strays, alive>>

\* clientcmd.Write returns and the answer is sent.
Serialised(r) ==
    /\ request[r].pc = "serialise"
    /\ Respond(r, "ok")
    /\ UNCHANGED <<ready, file, manager, pool, strays, alive>>

\* clientcmd.Write iterates over a map that mergeConfigs writes: the runtime
\* may notice ("concurrent map iteration and map write") and end the process.
MapRace(r) ==
    /\ request[r].pc = "serialise"
    /\ request[r].link = "racing"
    /\ alive' = FALSE
    /\ UNCHANGED <<ready, file, manager, request, pool, strays>>

-----------------------------------------------------------------------------
(* The dials of the forward manager. *)

\* A connection or a SOCKS request reads the client of its context, and then
\* resolves its service.
ReadClient(d, x) ==
    /\ ready
    /\ dial[d].pc = "idle"
    /\ clients[x] # None
    /\ dial' = [dial EXCEPT ![d] = [pc |-> "resolve", ctx |-> x, rest |-> clients[x]]]
    /\ UNCHANGED <<ready, file, manager, request, tunnels, strays, alive>>

\* The service is not resolved, or a pooled connection of its pod is used.
NoNeedToDial(d) ==
    /\ dial[d].pc = "resolve"
    /\ dial' = [dial EXCEPT ![d] = NoDial]
    /\ UNCHANGED <<ready, file, manager, request, tunnels, strays, alive>>

\* acquirePoolEntry takes the mutex and dials.
StartDial(d) ==
    /\ dial[d].pc = "resolve"
    /\ MutexFree
    /\ dial' = [dial EXCEPT ![d] = [pc |-> "dial", ctx |-> dial[d].ctx, rest |-> dial[d].rest]]
    /\ UNCHANGED <<ready, file, manager, request, tunnels, strays, alive>>

\* The dial fails, or its connection is pooled; the mutex is given back.
Dialled(d) ==
    /\ dial[d].pc = "dial"
    /\ \/ tunnels' = tunnels
       \/ tunnels' = [tunnels EXCEPT ![dial[d].ctx] = tunnels[dial[d].ctx] \cup {dial[d].rest}]
    /\ dial' = [dial EXCEPT ![d] = NoDial]
    /\ UNCHANGED <<ready, file, manager, request, strays, alive>>

\* The connections with some REST config are closed by their last users, or
\* go down.
TunnelEnds(x, c) ==
    /\ c \in tunnels[x]
    /\ tunnels' = [tunnels EXCEPT ![x] = tunnels[x] \ {c}]
    /\ UNCHANGED <<ready, file, manager, request, dial, strays, alive>>

\* Somebody edits the kubeconfig file.
EditFile(f) ==
    /\ f # file
    /\ file' = f
    /\ UNCHANGED <<ready, manager, request, pool, strays, alive>>

-----------------------------------------------------------------------------
\* The steps of a handler once its request has come in.
Handle(r) ==
    \/ Snapshot(r) \/ Mutate(r) \/ Conflict(r) \/ Compare(r) \/ Finish(r) \/ Serialised(r)
    \/ \E x \in Context : ShutdownContext(r, x)

Next ==
    /\ alive
    /\ \/ SetManagers
       \/ \E r \in Client : Refuse(r) \/ ServeGet(r) \/ Handle(r) \/ MapRace(r)
       \/ \E r \in Client, method \in {"PUT", "POST", "PATCH", "DELETE"}, body \in Bodies :
             Receive(r, method, body)
       \/ \E d \in Dial : \/ \E x \in Used : ReadClient(d, x)
                          \/ NoNeedToDial(d) \/ StartDial(d) \/ Dialled(d)
       \/ \E x \in Used : \E c \in tunnels[x] : TunnelEnds(x, c)
       \/ \E f \in Files : EditFile(f)

Spec == Init /\ [][Next]_vars

\* Handlers run; those that need the mutex of the pool may wait for it.
FairSpec == Spec /\ \A r \in Client : WF_vars(alive /\ Handle(r))

-----------------------------------------------------------------------------
\* Every variable has the type its Go counterpart has.
TypeOK ==
    /\ ready \in BOOLEAN /\ behind \in BOOLEAN /\ alive \in BOOLEAN
    /\ file \in Files
    /\ dynamic \in Config \cup {Nil}
    /\ clients \in [Context -> Rest \cup {None}]
    /\ currentCtx \in Context \cup {None}
    /\ request \in [Client -> RequestState]
    /\ dial \in [Dial -> DialState]
    /\ tunnels \in [Context -> SUBSET Rest]
    /\ strays \in [Context -> SUBSET Rest]

\* However requests interleave and fail, the clients in use are those of the
\* dynamic config over a file that existed, unless the last rebuild failed.
ClientsMatch ==
    ~behind => \E f \in Files \ {Unreadable} :
        /\ clients = ClientsFor(mergedConfig(f, dynamic))
        /\ currentCtx = mergedConfig(f, dynamic).current

\* The entries of a are in b as they are in a.
Within(a, b) ==
    /\ \A n \in Cluster : a.clusters[n] # None => b.clusters[n] = a.clusters[n]
    /\ \A n \in Context : a.contexts[n] # None => b.contexts[n] = a.contexts[n]
    /\ \A n \in User : a.users[n] # None => b.users[n] = a.users[n]

\* A POST takes over all of its entries and changes none that requests loaded
\* before, or it is refused as a conflict and changes nothing.  Entries of the
\* file are not protected: a POST may shadow them.
PostKeepsLoaded ==
    [][\A r \in Client :
          request[r].pc = "mutate" /\ request[r].method = "POST" /\ request'[r].pc # "mutate"
          => \/ request'[r].status = "conflict" /\ dynamic' = dynamic
             \/ /\ Within(request[r].body, dynamic')
                /\ dynamic # Nil => Within(dynamic, dynamic')]_vars

Quiet == \A r \in Client : request[r].pc = "idle"

\* When no request is under way, however requests, dials and edits of the file
\* overlapped, every pooled connection was dialled with the client its context
\* has now.  The connections excepted (strays) are those of a dial that read its
\* client before ShutdownContext closed the others, and those of a client that
\* went without its request seeing it in both snapshots (Unseen, Unchanged).
TunnelsFresh ==
    Quiet => \A x \in Context : tunnels[x] \subseteq {clients[x]} \cup strays[x]

\* The critical sections a handler has before it.
Left == [pc \in {"idle", "snapshot", "mutate", "compare", "shutdown", "serialise"} |->
            IF pc = "snapshot" THEN 4 ELSE IF pc = "mutate" THEN 3
            ELSE IF pc = "compare" THEN 2 ELSE IF pc = "idle" THEN 0 ELSE 1]

\* From q to s a request comes nearer to its answer: it has fewer critical
\* sections before it, or fewer contexts to shut down.
Nearer(q, s) ==
    \/ Left[s.pc] < Left[q.pc]
    \/ s.pc = q.pc /\ s.todo \subseteq q.todo /\ s.todo # q.todo

\* The handler of a request that is under way gets somewhere else.
Moves(r) ==
    /\ request[r].pc # "idle"
    /\ <<request'[r].pc, request'[r].todo>> # <<request[r].pc, request[r].todo>>

\* However requests overlap and whatever the file does, each step of a handler
\* brings its request nearer to the answer, and nothing takes a request that is
\* under way back or gives it more to do: it takes finitely many steps.  What
\* can still keep it from its answer is the mutex of the pool, if a dial, which
\* has no timeout, never gives it back.
RequestsAdvance ==
    [][\A r \in Client : Moves(r) => Nearer(request[r], request'[r])]_vars

-----------------------------------------------------------------------------
(* What the README claims, and the code does not keep.                     *)

\* "Response: 200 OK with a kubeconfig YAML body": every GET is answered.
GetAnswered ==
    \A r \in Client : request[r].pc = "serialise" ~> request[r].status = "ok"
=============================================================================
