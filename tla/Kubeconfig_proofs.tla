-------------------------- MODULE Kubeconfig_proofs -------------------------
(***************************************************************************)
(* Proofs about Kubeconfig, for every set of names, clients, request       *)
(* bodies and file states.                                                 *)
(***************************************************************************)
EXTENDS Kubeconfig, TLAPS

Writer == {"PUT", "POST", "PATCH", "DELETE"}

\* A request that has not changed the config yet carries a body, unless it is
\* a DELETE.
BodyInv ==
    \A r \in Client : request[r].pc \in {"snapshot", "mutate"} =>
        /\ request[r].method \in Writer
        /\ request[r].method # "DELETE" => request[r].body \in Config

\* A dial has a context and its client, or neither.
DialInv ==
    \A d \in Dial : /\ dial[d].pc # "idle" => dial[d].ctx \in Context
                    /\ dial[d].ctx \in Context => dial[d].rest \in Rest

IInv == TypeOK /\ BodyInv /\ DialInv /\ ClientsMatch

-----------------------------------------------------------------------------
(* Merging and building. *)

\* Merging two kubeconfigs gives a kubeconfig.
LEMMA MergeType ==
    ASSUME NEW dst \in Config, NEW src \in Config, NEW overwrite \in BOOLEAN
    PROVE  mergeConfigs(dst, src, overwrite) \in Config
BY DEF mergeConfigs, MergeMap, Config

\* The empty kubeconfig is one.
LEMMA EmptyType == EmptyConfig \in Config
BY DEF EmptyConfig, Config

\* mergedConfig fails exactly when the file cannot be read.
LEMMA MergedType ==
    ASSUME NEW f \in Files, NEW dyn \in Config \cup {Nil}
    PROVE  /\ f = Unreadable => mergedConfig(f, dyn) = Nil
           /\ f # Unreadable => mergedConfig(f, dyn) \in Config
           /\ mergedConfig(f, dyn) = Nil <=> f = Unreadable
BY MergeType, KubeconfigAssumption DEF mergedConfig

\* Every kubeconfig gives each context a client or none.
LEMMA ClientsType ==
    ASSUME NEW cfg \in Config
    PROVE  ClientsFor(cfg) \in [Context -> Rest \cup {None}]
<1>1. \A x \in Context : ClientFor(cfg, x) \in Rest \cup {None}
  <2> SUFFICES ASSUME NEW x \in Context PROVE ClientFor(cfg, x) \in Rest \cup {None}
    OBVIOUS
  <2> DEFINE ref == cfg.contexts[x]
  <2>1. CASE Usable(cfg) /\ ref # None /\ cfg.clusters[ref.cluster] # None
    <3>1. ref \in Ref
      BY <2>1 DEF Config
    <3>2. cfg.clusters[ref.cluster] \in Server /\ cfg.users[ref.user] \in Cred \cup {None}
      BY <2>1, <3>1 DEF Config, Ref
    <3> QED BY <2>1, <3>2 DEF ClientFor, Rest
  <2>2. CASE ~(Usable(cfg) /\ ref # None /\ cfg.clusters[ref.cluster] # None)
    BY <2>2 DEF ClientFor
  <2> QED BY <2>1, <2>2
<1> QED BY <1>1 DEF ClientsFor

\* Reset, Add and MergeAndOverwrite leave a kubeconfig or nil.
LEMMA ChangedType ==
    ASSUME NEW method \in Writer, NEW dyn \in Config \cup {Nil}, NEW body,
           method # "DELETE" => body \in Config
    PROVE  Changed(method, dyn, body) \in Config \cup {Nil}
BY MergeType, EmptyType DEF Changed, Writer

\* affectedContexts is complete: a context whose client changes or disappears
\* between two kubeconfigs, of which the second has its current context or
\* none, is among them.
LEMMA AffectedComplete ==
    ASSUME NEW old \in Config, NEW new \in Config, NEW x \in Context, Usable(new),
           ClientFor(old, x) # None, ClientFor(new, x) # ClientFor(old, x)
    PROVE  x \in affectedContexts(old, new)
BY KubeconfigAssumption DEF ClientFor, affectedContexts, Config, Ref

-----------------------------------------------------------------------------
(* One lemma per kind of step. *)

\* A step that leaves the ClientManager alone.
LEMMA ClientsKept ==
    ASSUME ClientsMatch, UNCHANGED manager
    PROVE  ClientsMatch'
BY DEF ClientsMatch, manager

\* A request that goes on with a well-typed record.
LEMMA RequestType ==
    ASSUME request \in [Client -> RequestState], BodyInv, NEW r \in Client,
           NEW q \in RequestState, request' = [request EXCEPT ![r] = q],
           q.pc \in {"snapshot", "mutate"} =>
               q.method \in Writer /\ (q.method # "DELETE" => q.body \in Config)
    PROVE  request' \in [Client -> RequestState] /\ BodyInv'
BY DEF BodyInv

\* An answered request's record.
LEMMA FreshType ==
    ASSUME NEW status \in Status
    PROVE  Fresh(status) \in RequestState /\ Fresh(status).pc = "idle"
BY DEF Fresh, RequestState

\* A step that leaves the pool alone.
LEMMA DialsKept ==
    ASSUME DialInv, UNCHANGED pool
    PROVE  DialInv'
BY DEF DialInv, pool

\* An answer.
LEMMA RespondStep ==
    ASSUME IInv, NEW r \in Client, NEW status \in Status,
           Respond(r, status),
           UNCHANGED <<ready, file, manager, pool, strays, alive>>
    PROVE  IInv'
<1> DEFINE q == Fresh(status)
<1>1. q \in RequestState /\ q.pc = "idle"
  BY FreshType
<1>2. request' = [request EXCEPT ![r] = q]
  BY DEF Respond
<1> HIDE DEF q
<1>3. request' \in [Client -> RequestState] /\ BodyInv'
  BY <1>1, <1>2, RequestType DEF IInv, TypeOK
<1> QED BY <1>3, ClientsKept, DialsKept DEF IInv, TypeOK, manager, pool

\* A handler that only moves its own request on.
LEMMA MoveStep ==
    ASSUME IInv, NEW r \in Client, NEW q \in RequestState,
           request' = [request EXCEPT ![r] = q],
           q.pc \in {"snapshot", "mutate"} =>
               q.method \in Writer /\ (q.method # "DELETE" => q.body \in Config),
           UNCHANGED <<ready, file, manager, dial, alive>>,
           tunnels' \in [Context -> SUBSET Rest], strays' \in [Context -> SUBSET Rest]
    PROVE  IInv'
<1>1. request' \in [Client -> RequestState] /\ BodyInv'
  BY RequestType DEF IInv, TypeOK
<1>2. DialInv'
  BY DEF IInv, DialInv
<1> QED BY <1>1, <1>2, ClientsKept DEF IInv, TypeOK, manager

\* What a request overlooks are connections that there are.
LEMMA StraysType ==
    ASSUME IInv, NEW X, NEW c, Overlooked(X, c)
    PROVE  strays' \in [Context -> SUBSET Rest]
<1>1. \A x \in Context : Live(x) \subseteq Rest
  BY DEF Live, Dialling, IInv, TypeOK, DialInv
<1>2. \A x \in Context : strays[x] \subseteq Rest
  BY DEF IInv, TypeOK
<1> HIDE DEF Live
<1> QED BY <1>1, <1>2 DEF Overlooked

\* The change of the dynamic config, with the rebuild that follows it.
LEMMA MutateStep ==
    ASSUME IInv, NEW r \in Client, Mutate(r)
    PROVE  IInv'
<1> DEFINE method == request[r].method
           dyn == Changed(method, dynamic, request[r].body)
           q == IF RebuildFails(dyn) /\ method # "DELETE" THEN Fresh("error")
                ELSE [pc |-> "compare", method |-> None, body |-> None,
                      old |-> request[r].old, todo |-> {}, link |-> "private",
                      status |-> "none"]
           inPlace == method \in {"POST", "PATCH"} /\ dynamic # Nil
<1>1. /\ rebuild(dyn)
      /\ request' = Requests(r, q, inPlace)
      /\ UNCHANGED <<ready, file, pool, alive>>
      /\ request[r].pc = "mutate"
      /\ Overlooked({x \in Context : Unseen(request[r].old, x)}, clients)
  BY DEF Mutate
<1>2. request[r] \in RequestState /\ method \in Writer
      /\ (method # "DELETE" => request[r].body \in Config)
  BY <1>1 DEF IInv, TypeOK, BodyInv
<1>3. dyn \in Config \cup {Nil}
  BY <1>2, ChangedType DEF IInv, TypeOK
<1>4. q \in RequestState /\ q.pc \in {"idle", "compare"}
  BY <1>2, FreshType DEF RequestState, Status
<1>11. strays' \in [Context -> SUBSET Rest] /\ DialInv'
  BY <1>1, StraysType, DialsKept DEF IInv
<1> HIDE DEF q, inPlace, dyn, method
<1>5. \A s \in Client : /\ Relinked(request[s], inPlace) \in RequestState
                        /\ Relinked(request[s], inPlace).pc = request[s].pc
                        /\ Relinked(request[s], inPlace).method = request[s].method
                        /\ Relinked(request[s], inPlace).body = request[s].body
  BY DEF IInv, TypeOK, Relinked, RequestState
<1>6. request' \in [Client -> RequestState]
  BY <1>1, <1>4, <1>5 DEF Requests
<1>7. BodyInv'
  BY <1>1, <1>4, <1>5 DEF IInv, BodyInv, Requests
<1>8. file \in Files
  BY DEF IInv, TypeOK
<1>9. CASE mergedConfig(file, dyn) = Nil
  <2>1. dynamic' = dyn /\ behind' = TRUE /\ UNCHANGED <<clients, currentCtx>>
    BY <1>1, <1>9 DEF rebuild
  <2> QED BY <1>1, <1>3, <1>6, <1>7, <1>11, <2>1 DEF IInv, TypeOK, ClientsMatch, pool
<1>10. CASE mergedConfig(file, dyn) # Nil
  <2>1. /\ dynamic' = dyn /\ behind' = FALSE
        /\ clients' = ClientsFor(mergedConfig(file, dyn))
        /\ currentCtx' = mergedConfig(file, dyn).current
    BY <1>1, <1>10 DEF rebuild
  <2>2. mergedConfig(file, dyn) \in Config /\ file # Unreadable
    BY <1>3, <1>8, <1>10, MergedType
  <2>3. clients' \in [Context -> Rest \cup {None}]
    BY <2>1, <2>2, ClientsType
  <2>4. currentCtx' \in Context \cup {None}
    BY <2>1, <2>2 DEF Config
  <2>5. ClientsMatch'
    BY <1>8, <2>1, <2>2 DEF ClientsMatch
  <2> QED BY <1>1, <1>3, <1>6, <1>7, <1>11, <2>1, <2>3, <2>4, <2>5 DEF IInv, TypeOK, pool
<1> QED BY <1>9, <1>10

\* The other steps of a handler.
LEMMA HandleStep ==
    ASSUME IInv, NEW r \in Client, Handle(r)
    PROVE  IInv'
<1>0. /\ request[r] \in RequestState /\ file \in Files /\ dynamic \in Config \cup {Nil}
      /\ tunnels \in [Context -> SUBSET Rest] /\ strays \in [Context -> SUBSET Rest]
  BY DEF IInv, TypeOK
<1>1. mergedConfig(file, dynamic) \in Config \cup {Nil}
  BY <1>0, MergedType
<1>2. CASE Snapshot(r)
  <2> DEFINE q == [pc |-> "mutate", method |-> request[r].method, body |-> request[r].body,
                   old |-> mergedConfig(file, dynamic), todo |-> {},
                   link |-> "private", status |-> "none"]
  <2>1. q \in RequestState /\ q.method \in Writer /\ (q.method # "DELETE" => q.body \in Config)
    BY <1>0, <1>1, <1>2 DEF Snapshot, RequestState, Status, IInv, BodyInv
  <2>2. request' = [request EXCEPT ![r] = q]
        /\ UNCHANGED <<ready, file, manager, pool, strays, alive>>
    BY <1>2 DEF Snapshot
  <2> HIDE DEF q
  <2> QED BY <1>0, <2>1, <2>2, MoveStep DEF pool
<1>3. CASE Mutate(r)
  BY <1>3, MutateStep
<1>4. CASE Conflict(r)
  BY <1>4, RespondStep DEF Conflict, Status
<1>5. CASE Compare(r)
  <2> DEFINE q == [pc |-> "shutdown", method |-> None, body |-> None, old |-> Nil,
                   todo |-> affectedContexts(request[r].old, mergedConfig(file, dynamic)),
                   link |-> "private", status |-> "none"]
  <2>1. affectedContexts(request[r].old, mergedConfig(file, dynamic)) \in SUBSET Context
    BY DEF affectedContexts
  <2>2. q \in RequestState /\ q.pc = "shutdown"
    BY <1>0, <2>1 DEF RequestState, Status
  <2>3. request' = [request EXCEPT ![r] = q]
        /\ UNCHANGED <<ready, file, manager, pool, alive>>
    BY <1>5 DEF Compare
  <2>4. strays' \in [Context -> SUBSET Rest]
    BY <1>5, StraysType DEF Compare
  <2> HIDE DEF q
  <2> QED BY <1>0, <2>2, <2>3, <2>4, MoveStep DEF pool
<1>6. CASE Finish(r)
  BY <1>6, RespondStep DEF Finish, Status
<1>7. CASE Serialised(r)
  BY <1>7, RespondStep DEF Serialised, Status
<1>8. ASSUME NEW x \in Context, ShutdownContext(r, x)
      PROVE  IInv'
  <2> DEFINE q == [pc |-> "shutdown", method |-> None, body |-> None, old |-> Nil,
                   todo |-> request[r].todo \ {x}, link |-> "private", status |-> "none"]
  <2>1. q \in RequestState /\ q.pc = "shutdown"
    BY <1>0 DEF RequestState, Status
  <2>2. request' = [request EXCEPT ![r] = q]
        /\ UNCHANGED <<ready, file, manager, dial, alive>>
    BY <1>8 DEF ShutdownContext
  <2>3. tunnels' \in [Context -> SUBSET Rest]
    BY <1>0, <1>8 DEF ShutdownContext
  <2>4. Dialling(x) \subseteq Rest
    BY DEF Dialling, IInv, DialInv
  <2>5. strays' \in [Context -> SUBSET Rest]
    <3> HIDE DEF q
    <3> QED BY <1>0, <1>8, <2>4 DEF ShutdownContext
  <2> HIDE DEF q
  <2> QED BY <2>1, <2>2, <2>3, <2>5, MoveStep
<1> QED BY <1>2, <1>3, <1>4, <1>5, <1>6, <1>7, <1>8 DEF Handle

\* The steps of a dial.
DialStep(d) ==
    (\E x \in Used : ReadClient(d, x)) \/ NoNeedToDial(d) \/ StartDial(d) \/ Dialled(d)

\* A dial keeps what it has read, and the pool gets nothing else.
LEMMA DialTypes ==
    ASSUME IInv, NEW d \in Dial, DialStep(d)
    PROVE  /\ dial' \in [Dial -> DialState] /\ DialInv'
           /\ tunnels' \in [Context -> SUBSET Rest]
<1>0. /\ dial \in [Dial -> DialState] /\ tunnels \in [Context -> SUBSET Rest]
      /\ clients \in [Context -> Rest \cup {None}]
  BY DEF IInv, TypeOK
<1>1. ASSUME NEW e \in DialState, dial' = [dial EXCEPT ![d] = e],
             e.pc # "idle" => e.ctx \in Context, e.ctx \in Context => e.rest \in Rest
      PROVE  dial' \in [Dial -> DialState] /\ DialInv'
  BY <1>0, <1>1 DEF IInv, DialInv
<1>2. NoDial \in DialState /\ NoDial.pc = "idle" /\ NoDial.ctx \notin Context
  BY KubeconfigAssumption DEF NoDial, DialState
<1>3. ASSUME NEW x \in Used, ReadClient(d, x)
      PROVE  /\ dial' \in [Dial -> DialState] /\ DialInv' /\ tunnels' = tunnels
  <2>1. x \in Context /\ clients[x] \in Rest
    BY <1>0, <1>3, KubeconfigAssumption DEF ReadClient
  <2>2. [pc |-> "resolve", ctx |-> x, rest |-> clients[x]] \in DialState
    BY <2>1 DEF DialState
  <2> QED BY <1>1, <1>3, <2>1, <2>2 DEF ReadClient
<1>4. CASE NoNeedToDial(d)
  BY <1>0, <1>1, <1>2, <1>4 DEF NoNeedToDial
<1>5. CASE StartDial(d)
  <2>1. dial[d].ctx \in Context /\ dial[d].rest \in Rest
    BY <1>5 DEF StartDial, IInv, DialInv
  <2>2. [pc |-> "dial", ctx |-> dial[d].ctx, rest |-> dial[d].rest] \in DialState
    BY <2>1 DEF DialState
  <2> QED BY <1>0, <1>1, <1>5, <2>1, <2>2 DEF StartDial
<1>6. CASE Dialled(d)
  <2>1. dial[d].ctx \in Context /\ dial[d].rest \in Rest
    BY <1>6 DEF Dialled, IInv, DialInv
  <2>2. tunnels' \in [Context -> SUBSET Rest]
    BY <1>0, <1>6, <2>1 DEF Dialled
  <2> QED BY <1>1, <1>2, <1>6, <2>2 DEF Dialled
<1> QED BY <1>0, <1>3, <1>4, <1>5, <1>6 DEF DialStep

\* The invariant is inductive.
LEMMA InvStep ==
    ASSUME IInv, [Next]_vars
    PROVE  IInv'
<1>0. TypeOK
  BY DEF IInv
<1>1. CASE SetManagers
  BY <1>1, ClientsKept, DialsKept DEF SetManagers, IInv, TypeOK, BodyInv, manager, pool
<1>2. ASSUME NEW r \in Client, Refuse(r)
      PROVE  IInv'
  BY <1>2, RespondStep DEF Refuse, Status
<1>3. ASSUME NEW r \in Client, ServeGet(r)
      PROVE  IInv'
  <2> DEFINE q == [pc |-> "serialise", method |-> "GET",
                   body |-> IF dynamic = Nil THEN EmptyConfig ELSE dynamic,
                   old |-> Nil, todo |-> {},
                   link |-> IF dynamic = Nil THEN "private" ELSE "live", status |-> "none"]
  <2>1. q \in RequestState /\ q.pc = "serialise"
    BY <1>0, EmptyType DEF TypeOK, RequestState, Method, Status
  <2>2. request' = [request EXCEPT ![r] = q]
        /\ UNCHANGED <<ready, file, manager, pool, strays, alive>>
    BY <1>3 DEF ServeGet
  <2> HIDE DEF q
  <2> QED BY <1>0, <2>1, <2>2, MoveStep DEF TypeOK, pool
<1>4. ASSUME NEW r \in Client, MapRace(r)
      PROVE  IInv'
  BY <1>4, ClientsKept, DialsKept DEF MapRace, IInv, TypeOK, BodyInv, manager, pool
<1>5. ASSUME NEW r \in Client, NEW method \in Writer, NEW body \in Bodies,
             Receive(r, method, body)
      PROVE  IInv'
  <2> DEFINE q == [pc |-> "snapshot", method |-> method,
                   body |-> IF method = "DELETE" THEN None ELSE body,
                   old |-> Nil, todo |-> {}, link |-> "private", status |-> "none"]
  <2>1. body \in Config
    BY KubeconfigAssumption
  <2>2. q \in RequestState /\ q.method \in Writer /\ (q.method # "DELETE" => q.body \in Config)
    BY <2>1 DEF RequestState, Writer, Method, Status
  <2>3. request' = [request EXCEPT ![r] = q]
        /\ UNCHANGED <<ready, file, manager, pool, strays, alive>>
    BY <1>5 DEF Receive
  <2> HIDE DEF q
  <2> QED BY <1>0, <2>2, <2>3, MoveStep DEF TypeOK, pool
<1>6. ASSUME NEW d \in Dial, DialStep(d)
      PROVE  IInv'
  <2>1. UNCHANGED <<ready, file, manager, request, strays, alive>>
    BY <1>6 DEF DialStep, ReadClient, NoNeedToDial, StartDial, Dialled
  <2>2. dial' \in [Dial -> DialState] /\ DialInv' /\ tunnels' \in [Context -> SUBSET Rest]
    BY <1>6, DialTypes
  <2> QED BY <2>1, <2>2, ClientsKept DEF IInv, TypeOK, BodyInv, manager
<1>7. ASSUME NEW x \in Used, NEW c, TunnelEnds(x, c)
      PROVE  IInv'
  <2>1. /\ UNCHANGED <<ready, file, manager, request, dial, strays, alive>>
        /\ tunnels' \in [Context -> SUBSET Rest]
    BY <1>0, <1>7 DEF TunnelEnds, TypeOK
  <2> QED BY <2>1, ClientsKept DEF IInv, TypeOK, BodyInv, DialInv, manager
<1>8. ASSUME NEW f \in Files, EditFile(f)
      PROVE  IInv'
  BY <1>8, ClientsKept, DialsKept DEF EditFile, IInv, TypeOK, BodyInv, manager, pool
<1>9. CASE UNCHANGED vars
  BY <1>9, ClientsKept, DialsKept DEF vars, IInv, TypeOK, BodyInv, manager, pool
<1> QED BY <1>1, <1>2, <1>3, <1>4, <1>5, <1>6, <1>7, <1>8, <1>9, HandleStep
        DEF Next, Writer, DialStep

\* The invariant holds of the initial states.
LEMMA InvInit ==
    ASSUME Init
    PROVE  IInv
<1> USE DEF Init
<1>1. file \in Config /\ file \in Files /\ file # Unreadable
  BY KubeconfigAssumption
<1>2. mergedConfig(file, Nil) = file
  BY <1>1 DEF mergedConfig
<1>3. ClientsMatch
  BY <1>1, <1>2 DEF ClientsMatch
<1>4. clients \in [Context -> Rest \cup {None}] /\ currentCtx \in Context \cup {None}
  BY <1>1, ClientsType DEF Config
<1>5. TypeOK
  <2>1. ready \in BOOLEAN /\ behind \in BOOLEAN /\ alive \in BOOLEAN
    OBVIOUS
  <2>2. request \in [Client -> RequestState]
    BY FreshType DEF Status
  <2>3. /\ tunnels \in [Context -> SUBSET Rest] /\ strays \in [Context -> SUBSET Rest]
        /\ dial \in [Dial -> DialState]
    BY DEF NoDial, DialState
  <2>4. file \in Files /\ dynamic \in Config \cup {Nil}
    BY <1>1
  <2> HIDE DEF Init
  <2> QED BY <1>4, <2>1, <2>2, <2>3, <2>4 DEF TypeOK
<1>6. BodyInv
  BY FreshType DEF BodyInv, Status
<1>7. DialInv
  BY KubeconfigAssumption DEF DialInv, NoDial
<1> QED BY <1>3, <1>5, <1>6, <1>7 DEF IInv

\* The inductive invariant holds of every reachable state.
THEOREM Invariance == Spec => []IInv
BY InvInit, InvStep, PTL DEF Spec

\* Every reachable state is well typed.
THEOREM TypeCorrect == Spec => []TypeOK
BY Invariance, PTL DEF IInv

\* The clients in use follow the dynamic config, whatever interleaves.
THEOREM ClientsFollowConfig == Spec => []ClientsMatch
BY Invariance, PTL DEF IInv

-----------------------------------------------------------------------------
(* POST. *)

\* A merge without overwriting keeps every entry of dst; if no name is in
\* both, it also has every entry of src.
LEMMA AppendKeeps ==
    ASSUME NEW dst \in Config, NEW src \in Config
    PROVE  /\ Within(dst, mergeConfigs(dst, src, FALSE))
           /\ ~Conflicts(dst, src) => Within(src, mergeConfigs(dst, src, FALSE))
BY KubeconfigAssumption DEF Within, mergeConfigs, MergeMap, Conflicts, Config

\* A POST that changes the dynamic config.
LEMMA PostMutates ==
    ASSUME IInv, NEW r \in Client, Mutate(r), request[r].method = "POST"
    PROVE  /\ Within(request[r].body, dynamic')
           /\ dynamic # Nil => Within(dynamic, dynamic')
<1>1. /\ request[r].body \in Config /\ dynamic \in Config \cup {Nil}
      /\ ~Conflicts(dynamic, request[r].body)
      /\ dynamic' = IF dynamic = Nil THEN request[r].body
                    ELSE mergeConfigs(dynamic, request[r].body, FALSE)
  BY DEF Mutate, rebuild, Changed, IInv, TypeOK, BodyInv
<1>2. CASE dynamic = Nil
  BY <1>1, <1>2 DEF Within
<1>3. CASE dynamic # Nil
  BY <1>1, <1>3, AppendKeeps
<1> QED BY <1>2, <1>3

\* A step that moves a POST on from "mutate" is its Mutate or its Conflict.
LEMMA PostStep ==
    ASSUME IInv, [Next]_vars, NEW r \in Client,
           request[r].pc = "mutate", request[r].method = "POST", request'[r].pc # "mutate"
    PROVE  \/ request'[r].status = "conflict" /\ dynamic' = dynamic
           \/ /\ Within(request[r].body, dynamic')
              /\ dynamic # Nil => Within(dynamic, dynamic')
<1>1. request \in [Client -> RequestState]
  BY DEF IInv, TypeOK
<1>2. Mutate(r) \/ Conflict(r)
  <2>1. request' # request
    OBVIOUS
  <2>2. ASSUME NEW s \in Client, s # r, NEW q, request' = [request EXCEPT ![s] = q]
        PROVE  FALSE
    BY <1>1, <2>2
  <2>3. ASSUME NEW s \in Client, s # r, Mutate(s)
        PROVE  FALSE
    BY <2>3 DEF Mutate, Requests, Relinked
  <2>4. ASSUME NEW s \in Client, Refuse(s) \/ ServeGet(s) \/ MapRace(s)
        PROVE  FALSE
    BY <2>1, <2>2, <2>4 DEF Refuse, ServeGet, MapRace, Respond
  <2>5. ASSUME NEW s \in Client, NEW m, NEW b, Receive(s, m, b)
        PROVE  FALSE
    BY <2>2, <2>5 DEF Receive
  <2>6. ASSUME NEW s \in Client, Handle(s)
        PROVE  s = r /\ (Mutate(r) \/ Conflict(r))
    <3>1. CASE s = r
      BY <1>1, <2>6, <3>1 DEF Handle, Snapshot, Compare, Finish, Serialised, ShutdownContext
    <3>2. CASE s # r
      BY <2>2, <2>3, <2>6, <3>2 DEF Handle, Snapshot, Conflict, Compare, Finish, Serialised,
         ShutdownContext, Respond
    <3> QED BY <3>1, <3>2
  <2> QED BY <2>1, <2>4, <2>5, <2>6 DEF Next, vars, SetManagers, ReadClient, NoNeedToDial,
             StartDial, Dialled, TunnelEnds, EditFile
<1>3. CASE Conflict(r)
  BY <1>1, <1>3 DEF Conflict, Respond, Fresh, manager
<1>4. CASE Mutate(r)
  BY <1>4, PostMutates
<1> QED BY <1>2, <1>3, <1>4

\* A POST adds all of its entries to what was loaded, or nothing.
THEOREM PostIsAtomic == Spec => PostKeepsLoaded
<1>1. ASSUME IInv, [Next]_vars
      PROVE  [\A r \in Client :
                 request[r].pc = "mutate" /\ request[r].method = "POST" /\ request'[r].pc # "mutate"
                 => \/ request'[r].status = "conflict" /\ dynamic' = dynamic
                    \/ /\ Within(request[r].body, dynamic')
                       /\ dynamic # Nil => Within(dynamic, dynamic')]_vars
  BY <1>1, PostStep
<1> QED BY <1>1, Invariance, PTL DEF Spec, PostKeepsLoaded

-----------------------------------------------------------------------------
(* The tunnels of a context are those of its client. *)

\* Some request will still close the connections of context x that have the
\* REST config t: it has t in its first snapshot, or x on its list.
Remembered(x, t) ==
    \/ \E r \in Client : /\ request[r].pc = "compare"
                         /\ request[r].old # Nil /\ ClientFor(request[r].old, x) = t
    \/ \E r \in Client : request[r].pc = "shutdown" /\ x \in request[r].todo

\* What a connection has, or a dial may give one, is current, a stray, or
\* remembered.
FreshInv ==
    \A x \in Context : \A t \in Live(x) : t = clients[x] \/ t \in strays[x] \/ Remembered(x, t)

\* Steps of dials and of others that no request notices.
LEMMA FreshDial ==
    ASSUME FreshInv, UNCHANGED <<clients, request, strays>>,
           \A x \in Context : Live(x)' \subseteq Live(x) \cup {clients[x]}
    PROVE  FreshInv'
<1>1. \A x \in Context : \A t : Remembered(x, t)' <=> Remembered(x, t)
  BY DEF Remembered
<1> QED BY <1>1 DEF FreshInv

\* Steps of requests that are not at "compare" and have nothing to shut down.
LEMMA FreshMove ==
    ASSUME FreshInv, UNCHANGED <<clients, pool, strays>>,
           \A r \in Client : \/ request'[r] = request[r]
                             \/ request[r].pc \notin {"compare", "shutdown"}
                             \/ request[r].pc = "shutdown" /\ request[r].todo = {}
    PROVE  FreshInv'
<1>1. \A x \in Context : \A t : Remembered(x, t) => Remembered(x, t)'
  BY DEF Remembered
<1>2. \A x \in Context : Live(x)' = Live(x)
  BY DEF Live, Dialling, pool
<1> QED BY <1>1, <1>2 DEF FreshInv

\* A request that replaces a client has it in its snapshot, or overlooks it.
LEMMA FreshMutate ==
    ASSUME IInv, FreshInv, NEW r \in Client, Mutate(r)
    PROVE  FreshInv'
<1> DEFINE dyn == Changed(request[r].method, dynamic, request[r].body)
           old == request[r].old
<1>0. /\ request[r].pc = "mutate" /\ rebuild(dyn) /\ UNCHANGED <<file, pool>>
      /\ Overlooked({x \in Context : Unseen(old, x)}, clients)
  BY DEF Mutate
<1>1. \A s \in Client : s # r => /\ request'[s].pc = request[s].pc
                                 /\ request'[s].old = request[s].old
                                 /\ request'[s].todo = request[s].todo
  BY DEF Mutate, Requests, Relinked
<1>2. \A x \in Context : \A t : Remembered(x, t) => Remembered(x, t)'
  BY <1>0, <1>1 DEF Remembered
<1>3. \A x \in Context : Live(x)' = Live(x)
  BY <1>0 DEF Live, Dialling, pool
<1>4. \A x \in Context : /\ strays[x] \subseteq strays'[x]
                         /\ Unseen(old, x) /\ clients[x] \in Live(x) => clients[x] \in strays'[x]
  BY <1>0 DEF Overlooked
<1>5. ASSUME clients' # clients
      PROVE  request'[r].pc = "compare" /\ request'[r].old = old
  BY <1>0, <1>5 DEF Mutate, rebuild, RebuildFails, Requests
<1> SUFFICES ASSUME NEW x \in Context, NEW t \in Live(x)'
             PROVE  t = clients'[x] \/ t \in strays'[x] \/ Remembered(x, t)'
  BY DEF FreshInv
<1>6. t \in Live(x) /\ (t = clients[x] \/ t \in strays[x] \/ Remembered(x, t))
  BY <1>3 DEF FreshInv
<1>7. CASE t = clients[x] /\ clients'[x] # clients[x]
  <2>1. CASE Unseen(old, x)
    BY <1>4, <1>6, <1>7, <2>1
  <2>2. CASE ~Unseen(old, x)
    <3>1. old # Nil /\ ClientFor(old, x) = t
      BY <1>7, <2>2 DEF Unseen
    <3>2. request'[r].pc = "compare" /\ request'[r].old = old
      BY <1>5, <1>7
    <3> HIDE DEF old, dyn
    <3>3. request'[r].old # Nil /\ ClientFor(request'[r].old, x) = t
      BY <3>1, <3>2
    <3> QED BY <3>2, <3>3 DEF Remembered
  <2> QED BY <2>1, <2>2
<1> QED BY <1>2, <1>4, <1>6, <1>7

\* The comparison of the snapshots lists the contexts whose client changed
\* between them, or overlooks them.
LEMMA FreshCompare ==
    ASSUME IInv, FreshInv, NEW r \in Client, Compare(r)
    PROVE  FreshInv'
<1> DEFINE old == request[r].old
           new == mergedConfig(file, dynamic)
           X == {x \in Context : old # Nil /\ Unchanged(new, x)}
           C == [x \in Context |-> ClientFor(old, x)]
<1>0. request \in [Client -> RequestState] /\ old \in Config \cup {Nil}
  BY DEF IInv, TypeOK, RequestState
<1>1. /\ request[r].pc = "compare" /\ request'[r].pc = "shutdown"
      /\ request'[r].todo = affectedContexts(old, new)
      /\ \A s \in Client : s # r => request'[s] = request[s]
      /\ UNCHANGED <<clients, pool>>
      /\ Overlooked(X, C)
  BY <1>0 DEF Compare, manager
<1>2. new \in Config \cup {Nil}
  BY MergedType DEF IInv, TypeOK
<1>3. \A x \in Context : Live(x)' = Live(x) /\ Live(x) \subseteq Rest
  BY <1>1 DEF Live, Dialling, pool, IInv, TypeOK, DialInv
<1>4. \A x \in Context : /\ strays[x] \subseteq strays'[x]
                         /\ x \in X /\ C[x] \in Live(x) => C[x] \in strays'[x]
  BY <1>1 DEF Overlooked
<1> SUFFICES ASSUME NEW x \in Context, NEW t \in Live(x)'
             PROVE  t = clients'[x] \/ t \in strays'[x] \/ Remembered(x, t)'
  BY DEF FreshInv
<1>5. t \in Live(x) /\ t # None /\ (t = clients[x] \/ t \in strays[x] \/ Remembered(x, t))
  BY <1>3, KubeconfigAssumption DEF FreshInv
<1>6. CASE old # Nil /\ ClientFor(old, x) = t
  <2>1. CASE Unchanged(new, x)
    BY <1>4, <1>5, <1>6, <2>1
  <2>2. CASE ~Unchanged(new, x)
    <3>1. x \in request'[r].todo \/ t = clients[x]
      <4>1. CASE new = Nil
        <5>1. old.contexts[x] # None
          BY <1>5, <1>6 DEF ClientFor
        <5> QED BY <1>1, <1>6, <4>1, <5>1 DEF affectedContexts
      <4>2. CASE new # Nil
        <5>1. ClientFor(new, x) = clients[x] /\ Usable(new)
          BY <2>2, <4>2 DEF Unchanged
        <5> HIDE DEF new, old
        <5> QED BY <1>0, <1>1, <1>2, <1>5, <1>6, <4>2, <5>1, AffectedComplete
      <4> QED BY <4>1, <4>2
    <3> QED BY <1>1, <3>1 DEF Remembered
  <2> QED BY <2>1, <2>2
<1>7. CASE Remembered(x, t) /\ ~(old # Nil /\ ClientFor(old, x) = t)
  BY <1>1, <1>7 DEF Remembered
<1> QED BY <1>1, <1>4, <1>5, <1>6, <1>7

\* ShutdownContext leaves the dials that have read another client.
LEMMA FreshShutdown ==
    ASSUME IInv, FreshInv, NEW r \in Client, NEW x \in Context, ShutdownContext(r, x)
    PROVE  FreshInv'
<1>0. /\ request \in [Client -> RequestState] /\ tunnels \in [Context -> SUBSET Rest]
      /\ strays \in [Context -> SUBSET Rest]
  BY DEF IInv, TypeOK
<1>1. /\ request[r].pc = "shutdown" /\ request'[r].pc = "shutdown"
      /\ request'[r].todo = request[r].todo \ {x}
      /\ \A s \in Client : s # r => request'[s] = request[s]
      /\ tunnels'[x] = {} /\ strays'[x] = Dialling(x) \ {clients[x]}
      /\ \A y \in Context : y # x => tunnels'[y] = tunnels[y] /\ strays'[y] = strays[y]
      /\ UNCHANGED <<clients, dial>>
  BY <1>0 DEF ShutdownContext, manager
<1>2. \A y \in Context : Dialling(y)' = Dialling(y)
  BY <1>1 DEF Dialling
<1> SUFFICES ASSUME NEW y \in Context, NEW t \in Live(y)'
             PROVE  t = clients'[y] \/ t \in strays'[y] \/ Remembered(y, t)'
  BY DEF FreshInv
<1>3. CASE y = x
  BY <1>1, <1>2, <1>3 DEF Live
<1>4. CASE y # x
  <2>1. t \in Live(y)
    BY <1>1, <1>2, <1>4 DEF Live
  <2>2. Remembered(y, t) => Remembered(y, t)'
    BY <1>1, <1>4 DEF Remembered
  <2> QED BY <1>1, <1>4, <2>1, <2>2 DEF FreshInv
<1> QED BY <1>3, <1>4

\* A dial's steps add at most the client of its context.
LEMMA DialLive ==
    ASSUME IInv, NEW d \in Dial, DialStep(d), NEW y \in Context
    PROVE  Live(y)' \subseteq Live(y) \cup {clients[y]}
<1>0. /\ dial \in [Dial -> DialState] /\ tunnels \in [Context -> SUBSET Rest]
  BY DEF IInv, TypeOK
<1>1. /\ \A e \in Dial : e # d => dial'[e] = dial[e]
      /\ \/ dial'[d].ctx \notin Context
         \/ dial'[d].ctx = dial[d].ctx /\ dial'[d].rest = dial[d].rest
         \/ dial'[d].ctx \in Context /\ dial'[d].rest = clients[dial'[d].ctx]
  BY <1>0, KubeconfigAssumption DEF DialStep, ReadClient, NoNeedToDial, StartDial, Dialled, NoDial
<1>2. Dialling(y)' \subseteq Dialling(y) \cup {clients[y]}
  BY <1>1 DEF Dialling
<1>3. tunnels'[y] \subseteq Live(y)
  <2>1. CASE tunnels' = tunnels
    BY <2>1 DEF Live
  <2>2. CASE tunnels' = [tunnels EXCEPT ![dial[d].ctx] = tunnels[dial[d].ctx] \cup {dial[d].rest}]
    <3>1. CASE dial[d].ctx = y
      <4>1. dial[d].rest \in Dialling(y)
        BY <3>1 DEF Dialling
      <4> QED BY <1>0, <2>2, <3>1, <4>1 DEF Live
    <3>2. CASE dial[d].ctx # y
      BY <1>0, <2>2, <3>2 DEF Live
    <3> QED BY <3>1, <3>2
  <2> QED BY <2>1, <2>2 DEF DialStep, ReadClient, NoNeedToDial, StartDial, Dialled
<1> QED BY <1>2, <1>3 DEF Live

\* FreshInv is preserved by every step.
LEMMA FreshStep ==
    ASSUME IInv, FreshInv, [Next]_vars
    PROVE  FreshInv'
<1>0. request \in [Client -> RequestState] /\ tunnels \in [Context -> SUBSET Rest]
  BY DEF IInv, TypeOK
<1>1. ASSUME NEW r \in Client, NEW q, request' = [request EXCEPT ![r] = q],
             UNCHANGED <<manager, pool, strays>>,
             \/ request[r].pc \notin {"compare", "shutdown"}
             \/ request[r].pc = "shutdown" /\ request[r].todo = {}
      PROVE  FreshInv'
  BY <1>0, <1>1, FreshMove DEF manager
<1>2. ASSUME NEW r \in Client, Refuse(r) \/ ServeGet(r) \/ Snapshot(r) \/ Conflict(r)
                               \/ Finish(r) \/ Serialised(r)
      PROVE  FreshInv'
  BY <1>1, <1>2 DEF Refuse, ServeGet, Snapshot, Conflict, Finish, Serialised, Respond
<1>3. ASSUME NEW r \in Client, NEW m, NEW b, Receive(r, m, b)
      PROVE  FreshInv'
  BY <1>1, <1>3 DEF Receive
<1>4. ASSUME NEW r \in Client, Handle(r)
      PROVE  FreshInv'
  BY <1>2, <1>4, FreshMutate, FreshCompare, FreshShutdown DEF Handle
<1>5. ASSUME UNCHANGED <<clients, request, pool, strays>>
      PROVE  FreshInv'
  BY <1>5, FreshMove
<1>6. CASE \/ SetManagers \/ UNCHANGED vars \/ \E f \in Files : EditFile(f)
           \/ \E r \in Client : MapRace(r)
  BY <1>5, <1>6 DEF SetManagers, vars, EditFile, MapRace, manager
<1>7. ASSUME NEW d \in Dial, DialStep(d)
      PROVE  FreshInv'
  <2>1. UNCHANGED <<clients, request, strays>>
    BY <1>7 DEF DialStep, ReadClient, NoNeedToDial, StartDial, Dialled, manager
  <2> QED BY <1>7, <2>1, DialLive, FreshDial
<1>8. ASSUME NEW x \in Used, NEW c, TunnelEnds(x, c)
      PROVE  FreshInv'
  <2>1. /\ UNCHANGED <<clients, request, strays, dial>>
        /\ \A y \in Context : tunnels'[y] \subseteq tunnels[y]
    BY <1>0, <1>8 DEF TunnelEnds, manager
  <2>2. \A y \in Context : Live(y)' \subseteq Live(y)
    BY <2>1 DEF Live, Dialling
  <2> QED BY <2>1, <2>2, FreshDial
<1> QED BY <1>2, <1>3, <1>4, <1>6, <1>7, <1>8 DEF Next, DialStep

\* Initially there are no connections.
LEMMA FreshInit ==
    ASSUME Init
    PROVE  FreshInv
BY KubeconfigAssumption DEF Init, FreshInv, Live, Dialling, NoDial

\* However requests, dials and edits of the file overlap, a pooled connection
\* that is not a stray is of the client its context has, once no request is
\* under way.
THEOREM TunnelsStayFresh == Spec => []TunnelsFresh
<1>1. IInv /\ FreshInv /\ [Next]_vars => FreshInv'
  BY FreshStep
<1>2. FreshInv => TunnelsFresh
  BY DEF FreshInv, TunnelsFresh, Quiet, Remembered, Live
<1> QED BY <1>1, <1>2, FreshInit, Invariance, PTL DEF Spec
-----------------------------------------------------------------------------
\* A handler's own steps.
LEMMA HandleAdvances ==
    ASSUME TypeOK, NEW r \in Client, Handle(r)
    PROVE  /\ Nearer(request[r], request'[r])
           /\ \A s \in Client \ {r} : /\ request'[s].pc = request[s].pc
                                      /\ request'[s].todo = request[s].todo
<1>0. request \in [Client -> RequestState] /\ request[r] \in RequestState
  BY DEF TypeOK
<1>1. CASE Snapshot(r) \/ Compare(r)
  BY <1>0, <1>1 DEF Snapshot, Compare, Nearer, Left
<1>2. CASE Conflict(r) \/ Finish(r) \/ Serialised(r)
  BY <1>0, <1>2 DEF Conflict, Finish, Serialised, Respond, Fresh, Nearer, Left
<1>3. CASE Mutate(r)
  <2>1. /\ request[r].pc = "mutate"
        /\ request'[r].pc \in {"idle", "compare"}
    BY <1>0, <1>3 DEF Mutate, Requests, Fresh
  <2>2. ASSUME NEW s \in Client \ {r}
        PROVE  request'[s].pc = request[s].pc /\ request'[s].todo = request[s].todo
    BY <1>0, <1>3 DEF Mutate, Requests, Relinked
  <2> QED BY <2>1, <2>2 DEF Nearer, Left
<1>4. ASSUME NEW x \in Context, ShutdownContext(r, x)
      PROVE  /\ Nearer(request[r], request'[r])
             /\ \A s \in Client \ {r} : request'[s] = request[s]
  BY <1>0, <1>4 DEF ShutdownContext, Nearer
<1> QED BY <1>1, <1>2, <1>3, <1>4 DEF Handle

\* Every request comes nearer to its answer with every step of its handler.
THEOREM HandlersAdvance == Spec => RequestsAdvance
<1>1. ASSUME TypeOK, [Next]_vars, NEW r \in Client, Moves(r)
      PROVE  Nearer(request[r], request'[r])
  <2>0. request \in [Client -> RequestState]
    BY <1>1 DEF TypeOK
  <2>1. CASE \E s \in Client : Handle(s)
    BY <1>1, <2>1, HandleAdvances DEF Moves
  <2>2. CASE ~ \E s \in Client : Handle(s)
    <3>1. Moves(r)
      BY <1>1, <2>2
    <3>2. \/ request' = request
          \/ \E s \in Client : Refuse(s) \/ ServeGet(s)
          \/ \E s \in Client, method \in Writer, body \in Bodies : Receive(s, method, body)
      BY <1>1, <2>2 DEF Next, SetManagers, MapRace, ReadClient, NoNeedToDial, StartDial,
         Dialled, TunnelEnds, EditFile, Writer, vars
    <3>3. \A s \in Client : request[s].pc # "idle" => request'[s] = request[s]
      BY <2>0, <3>2 DEF Refuse, ServeGet, Receive, Respond
    <3> QED BY <3>1, <3>3 DEF Moves
  <2> QED BY <2>1, <2>2
<1>2. TypeOK /\ [Next]_vars =>
        [\A r \in Client : Moves(r) => Nearer(request[r], request'[r])]_vars
  BY <1>1
<1> QED BY <1>2, TypeCorrect, PTL DEF Spec, RequestsAdvance
=============================================================================
