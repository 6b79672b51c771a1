-------------------------- MODULE Resolver_proofs --------------------------
(***************************************************************************)
(* Proofs about Resolver, for any numbers of contexts, clusters, pods and  *)
(* calls and any TTL and timeout.                                          *)
(*                                                                         *)
(* The inductive invariant follows a list of endpoints from the moment its *)
(* cluster was chosen: a fetch whose deadline was set after the last       *)
(* rebinding asks the right cluster; a list stamped more than Timeout      *)
(* after it therefore comes from the right cluster; and a list a call uses *)
(* is less than TTL older than the call.                                   *)
(***************************************************************************)
EXTENDS Resolver, TLAPS

\* A list of endpoints stamped e.at, for context x.
EntryOK(x, e) ==
    /\ e.cluster \in Cluster
    /\ e.pods \in SUBSET Backing /\ e.pods # {}
    /\ e.at <= now
    /\ e.at > since[x] + Timeout => e.cluster = binding[x]
    /\ \A p \in e.pods : LastReady(e.cluster, p) >= e.at

CallOK(k) ==
    LET x == k.ctx IN
    /\ k.pc # "idle" => x \in Context
    /\ k.pc # "panic"
    /\ k.begun <= now
    /\ k.begun > since[x] /\ k.pc # "idle" => k.client \in {binding[x], NoCluster}
    /\ k.pc \in {"check", "client", "fetch"} => k.begun <= k.start /\ k.start <= now
    /\ k.pc = "fetch" => /\ k.got.cluster \in Cluster
                         /\ k.start > since[x] => k.got.cluster = binding[x]
    /\ k.pc \in {"store", "done"} => EntryOK(x, k.got) /\ k.got.at > k.begun - TTL

IInv ==
    /\ TypeOK
    /\ \A x \in Context : since[x] <= now
    /\ \A x \in Context : cache[x].cluster # NoCluster => EntryOK(x, cache[x])
    /\ \A c \in Call : CallOK(call[c])

USE ResolverAssumption

-----------------------------------------------------------------------------
\* A step of one call that leaves the cache alone keeps the invariant if the
\* call's new record is right.
LEMMA OneCall ==
    ASSUME IInv, UNCHANGED <<World, cache>>, NEW c \in Call, NEW k,
           k \in CallState, CallOK(k), call' = [call EXCEPT ![c] = k]
    PROVE  IInv'
<1>1. TypeOK'
  BY DEF IInv, TypeOK, World
<1>2. \A x \in Context : (cache[x].cluster # NoCluster => EntryOK(x, cache[x]))'
  BY DEF IInv, World, EntryOK, LastReady
<1>3. \A d \in Call : CallOK(call[d])'
  <2> TAKE d \in Call
  <2>1. CallOK(call'[d])
    BY DEF IInv, TypeOK
  <2> QED BY <2>1 DEF World, CallOK, EntryOK, LastReady
<1> QED BY <1>1, <1>2, <1>3 DEF IInv, World

LEMMA FailStep ==
    ASSUME IInv, NEW c \in Call, Fail(c), UNCHANGED <<World, cache>>
    PROVE  IInv'
<1>1. Idle \in CallState /\ CallOK(Idle)
  BY DEF Idle, CallState, CallOK, PC, Entry, NoEntry, IInv, TypeOK
<1> QED BY <1>1, OneCall DEF Fail

\* The record GoTo writes.
Record(k, pc, e) ==
    [pc |-> pc, ctx |-> k.ctx, pod |-> k.pod, begun |-> k.begun,
     start |-> IF pc \in {"client", "fetch"} THEN k.start ELSE 0,
     client |-> k.client, got |-> e]

LEMMA GoToStep ==
    ASSUME IInv, NEW c \in Call, NEW pc \in PC, NEW e \in Entry, call[c].pc # "idle",
           GoTo(c, pc, e), UNCHANGED <<World, cache>>, CallOK(Record(call[c], pc, e))
    PROVE  IInv'
<1>1. Record(call[c], pc, e) \in CallState
  BY DEF Record, CallState, IInv, TypeOK
<1> QED BY <1>1, OneCall DEF GoTo, Record

-----------------------------------------------------------------------------
LEMMA InitIInv == Init => IInv
<1> SUFFICES ASSUME Init PROVE IInv
  OBVIOUS
<1>1. Idle \in CallState /\ now \in Nat
  BY DEF Idle, CallState, PC, Entry, NoEntry, Init
<1>2. TypeOK
  BY <1>1 DEF Init, TypeOK, Entry, NoEntry
<1>3. \A c \in Call : CallOK(call[c])
  BY <1>1 DEF Init, CallOK, Idle, NoEntry
<1> QED BY <1>2, <1>3 DEF Init, IInv, NoEntry

\* Resolve's answer from an entry that is right and young enough: the call's
\* new record is right, whatever the step does to the cache.
LEMMA AnswerRecord ==
    ASSUME IInv, NEW c \in Call, NEW e \in Entry, call[c].pc # "idle",
           EntryOK(call[c].ctx, e), e.at > call[c].begun - TTL, Answer(c, e)
    PROVE  \E n \in CallState : CallOK(n) /\ call' = [call EXCEPT ![c] = n]
<1> DEFINE k == call[c]
           filtered == FilterByPod(e, k.pod)
<1>0. k \in CallState /\ CallOK(k) /\ now \in Nat
  BY DEF IInv, TypeOK
<1>1. CASE Fail(c)
  <2>1. Idle \in CallState /\ CallOK(Idle)
    BY <1>0 DEF Idle, CallState, CallOK, PC, Entry, NoEntry
  <2> QED BY <1>1, <2>1 DEF Fail
<1>2. ASSUME NEW pods \in filtered PROVE pods # {} /\ pods \subseteq e.pods
  BY <1>2 DEF FilterByPod, EntryOK
<1>3. ASSUME NEW pods \in filtered, NEW p \in pods,
             GoTo(c, "done", [cluster |-> e.cluster, pods |-> {p}, at |-> e.at])
      PROVE  \E n \in CallState : CallOK(n) /\ call' = [call EXCEPT ![c] = n]
  <2> DEFINE g == [cluster |-> e.cluster, pods |-> {p}, at |-> e.at]
  <2>1. p \in e.pods
    BY <1>2, <1>3
  <2>2. g \in Entry /\ EntryOK(k.ctx, g) /\ g.at = e.at
    BY <2>1 DEF Entry, EntryOK
  <2>3. GoTo(c, "done", g)
    BY <1>3
  <2> HIDE DEF g
  <2>4. CallOK(Record(k, "done", g)) /\ Record(k, "done", g) \in CallState
    BY <1>0, <2>2 DEF CallOK, Record, CallState, PC
  <2> QED BY <2>3, <2>4 DEF GoTo, Record
<1> QED BY <1>1, <1>2, <1>3 DEF Answer

LEMMA CallStep ==
    ASSUME IInv, NEW c \in Call,
           \/ \E x \in Context, p \in Pod \cup {NoPod} : Dial(c, x, p) \/ Query(c, x, p)
           \/ Step(c)
    PROVE  IInv'
<1> DEFINE k == call[c]
           x0 == k.ctx
<1>0. /\ k \in CallState /\ CallOK(k) /\ now \in Nat
      /\ \A x \in Context : since[x] \in Nat /\ since[x] <= now
      /\ \A x \in Context : cache[x] \in Entry /\ binding[x] \in Cluster \cup {NoCluster}
      /\ \A x \in Context : cache[x].cluster # NoCluster => EntryOK(x, cache[x])
      /\ NoEntry \in Entry
  BY DEF IInv, TypeOK, Entry, NoEntry
<1>1. ASSUME NEW x \in Context, NEW p \in Pod \cup {NoPod}, Dial(c, x, p) PROVE IInv'
  <2> DEFINE n == [pc |-> "enter", ctx |-> x, pod |-> p, begun |-> now, start |-> 0,
                   client |-> binding[x], got |-> NoEntry]
  <2>1. n \in CallState /\ CallOK(n)
    BY <1>0 DEF CallState, CallOK, PC
  <2>2. CASE binding[x] = NoCluster
    BY <1>1, <2>2, FailStep DEF Dial
  <2>3. CASE binding[x] # NoCluster
    <3> HIDE DEF n
    <3>1. call' = [call EXCEPT ![c] = n] /\ UNCHANGED <<World, cache>>
      BY <1>1, <2>3 DEF Dial, n
    <3> QED BY <3>1, <2>1, OneCall
  <2> QED BY <2>2, <2>3
<1>2. ASSUME NEW x \in Context, NEW p \in Pod \cup {NoPod}, Query(c, x, p) PROVE IInv'
  <2> DEFINE n == [pc |-> "check", ctx |-> x, pod |-> p, begun |-> now, start |-> now,
                   client |-> NoCluster, got |-> NoEntry]
  <2>1. n \in CallState /\ CallOK(n)
    BY <1>0 DEF CallState, CallOK, PC
  <2> HIDE DEF n
  <2>2. call' = [call EXCEPT ![c] = n] /\ UNCHANGED <<World, cache>>
    BY <1>2 DEF Query, n
  <2> QED BY <2>1, <2>2, OneCall
<1>3. CASE Enter(c)
  <2> DEFINE n == [pc |-> "check", ctx |-> k.ctx, pod |-> k.pod, begun |-> k.begun,
                   start |-> now, client |-> k.client, got |-> NoEntry]
  <2>1. n \in CallState /\ CallOK(n)
    BY <1>0, <1>3 DEF CallState, CallOK, PC, Enter
  <2> HIDE DEF n
  <2>2. call' = [call EXCEPT ![c] = n] /\ UNCHANGED <<World, cache>>
    BY <1>3 DEF Enter, n
  <2> QED BY <2>1, <2>2, OneCall
<1>4. CASE CheckCache(c)
  <2>0. k.pc = "check" /\ x0 \in Context /\ UNCHANGED <<World, cache>>
    BY <1>0, <1>4 DEF CheckCache, CallOK
  <2>1. CASE Fresh(cache[x0]) /\ Answer(c, cache[x0])
    <3>1. cache[x0] \in Entry /\ EntryOK(x0, cache[x0]) /\ now - cache[x0].at < TTL
      BY <1>0, <2>0, <2>1 DEF Fresh
    <3>2. cache[x0].at > k.begun - TTL
      BY <1>0, <3>1, <2>0 DEF CallState, CallOK, Entry
    <3>3. \E n \in CallState : CallOK(n) /\ call' = [call EXCEPT ![c] = n]
      BY <3>1, <3>2, <2>0, <2>1, AnswerRecord
    <3> QED BY <2>0, <3>3, OneCall
  <2>2. CASE GoTo(c, "client", NoEntry)
    <3>1. CallOK(Record(k, "client", NoEntry))
      BY <1>0, <2>0 DEF CallOK, Record, CallState
    <3> QED BY <1>0, <2>0, <2>2, <3>1, GoToStep DEF PC
  <2> QED BY <1>4, <2>1, <2>2 DEF CheckCache
<1>5. CASE ReadClient(c)
  <2> DEFINE u == binding[x0]
             g == [cluster |-> u, pods |-> {}, at |-> 0]
  <2>0. k.pc = "client" /\ x0 \in Context /\ UNCHANGED <<World, cache>>
    BY <1>0, <1>5 DEF ReadClient, CallOK
  <2>1. CASE u = NoCluster
    BY <1>5, <2>0, <2>1, FailStep DEF ReadClient
  <2>2. CASE u # NoCluster
    <3>1. g \in Entry /\ CallOK(Record(k, "fetch", g))
      BY <1>0, <2>0, <2>2 DEF CallOK, Record, CallState, Entry
    <3> HIDE DEF g
    <3>2. GoTo(c, "fetch", g)
      BY <1>5, <2>2 DEF ReadClient, g
    <3> QED BY <2>0, <3>1, <3>2, GoToStep DEF PC
  <2> QED BY <2>1, <2>2
<1>6. CASE Fetch(c)
  <2> DEFINE u == k.got.cluster
             g == [cluster |-> u, pods |-> ready[u], at |-> now]
  <2>0. /\ k.pc = "fetch" /\ x0 \in Context /\ UNCHANGED <<World, cache>>
        /\ u \in Cluster /\ ready[u] \in SUBSET Backing /\ now <= k.start + Timeout
        /\ k.begun \in Nat /\ k.start \in Nat /\ k.begun <= k.start /\ k.start <= now
        /\ k.start > since[x0] => u = binding[x0]
    BY <1>0, <1>6 DEF Fetch, CallOK, InTime, IInv, TypeOK, CallState
  <2>1. CASE ready[u] = {}
    BY <1>6, <2>0, <2>1, FailStep DEF Fetch
  <2>2. CASE ready[u] # {}
    <3>1. g \in Entry
      BY <1>0, <2>0 DEF Entry
    <3>2. EntryOK(x0, g)
      <4>1. now > since[x0] + Timeout => u = binding[x0]
        BY <1>0, <2>0
      <4> QED BY <1>0, <2>0, <2>2, <4>1 DEF EntryOK, LastReady
    <3>3. g.at > k.begun - TTL
      BY <1>0, <2>0
    <3>4. GoTo(c, "store", g)
      BY <1>6, <2>2 DEF Fetch
    <3> HIDE DEF g
    <3>5. CallOK(Record(k, "store", g))
      BY <1>0, <2>0, <3>2, <3>3 DEF CallOK, Record
    <3> QED BY <2>0, <3>1, <3>4, <3>5, GoToStep DEF PC
  <2> QED BY <2>1, <2>2
<1>7. CASE ApiFails(c) \/ FindPortFails(c)
  BY <1>7, FailStep DEF ApiFails, FindPortFails
<1>8. CASE Store(c)
  <2> DEFINE g == k.got
  <2>0. /\ k.pc = "store" /\ x0 \in Context /\ UNCHANGED World /\ g \in Entry
        /\ EntryOK(x0, g) /\ g.at > k.begun - TTL
        /\ cache' = [cache EXCEPT ![x0] = g] /\ Answer(c, g)
    BY <1>0, <1>8 DEF Store, CallOK, CallState
  <2>1. \A x \in Context : (cache[x].cluster # NoCluster => EntryOK(x, cache[x]))'
    <3> TAKE x \in Context
    <3>1. cache'[x].cluster # NoCluster => EntryOK(x, cache'[x])
      BY <1>0, <2>0 DEF IInv, TypeOK
    <3> QED BY <2>0, <3>1 DEF World, EntryOK, LastReady
  <2>2. cache' \in [Context -> Entry]
    BY <2>0 DEF IInv, TypeOK
  <2>3. \E n \in CallState : CallOK(n) /\ call' = [call EXCEPT ![c] = n]
    BY <2>0, AnswerRecord
  <2>4. \A d \in Call : CallOK(call[d])'
    <3> TAKE d \in Call
    <3>1. CallOK(call'[d])
      BY <2>3 DEF IInv, TypeOK
    <3> QED BY <2>0, <3>1 DEF World, CallOK, EntryOK, LastReady
  <2> QED BY <2>0, <2>1, <2>2, <2>3, <2>4 DEF IInv, TypeOK, World
<1> QED BY <1>1, <1>2, <1>3, <1>4, <1>5, <1>6, <1>7, <1>8 DEF Step

-----------------------------------------------------------------------------
\* A step of the world keeps a list right if it keeps time, bindings and pods
\* from running backwards.
LEMMA WorldEntry ==
    ASSUME IInv, Tick \/ (\E x \in Context, u \in Cluster \cup {NoCluster} : Rebind(x, u))
              \/ (\E u \in Cluster, p \in Backing : PodReady(u, p) \/ PodGone(u, p)),
           NEW y \in Context, NEW e \in Entry, EntryOK(y, e)
    PROVE  EntryOK(y, e)'
<1>0. /\ now \in Nat /\ e.at \in Int /\ since[y] \in Nat /\ Timeout \in Nat
      /\ e.cluster \in Cluster /\ e.pods \in SUBSET Backing
      /\ ready \in [Cluster -> SUBSET Backing] /\ left \in [Cluster -> [Pod -> Int]]
  BY DEF IInv, TypeOK, Entry, EntryOK
<1>1. CASE Tick
  BY <1>0, <1>1 DEF Tick, EntryOK, LastReady
<1>2. ASSUME NEW x \in Context, NEW u \in Cluster \cup {NoCluster}, Rebind(x, u)
      PROVE  EntryOK(y, e)'
  <2>1. e.at > since'[y] + Timeout => e.cluster = binding'[y]
    BY <1>0, <1>2 DEF Rebind, EntryOK, IInv, TypeOK
  <2> QED BY <1>0, <1>2, <2>1 DEF Rebind, EntryOK, LastReady
<1>3. ASSUME NEW u \in Cluster, NEW p \in Backing, PodReady(u, p) \/ PodGone(u, p)
      PROVE  EntryOK(y, e)'
  <2>1. \A q \in e.pods : LastReady(e.cluster, q)' >= e.at
    <3> TAKE q \in e.pods
    <3>1. q \in Pod /\ q \in Backing /\ LastReady(e.cluster, q) >= e.at /\ e.at <= now
      BY <1>0 DEF EntryOK
    <3>2. CASE PodReady(u, p)
      BY <1>0, <3>1, <3>2 DEF PodReady, LastReady
    <3>3. CASE PodGone(u, p)
      BY <1>0, <3>1, <3>3 DEF PodGone, LastReady
    <3> QED BY <1>3, <3>2, <3>3
  <2> QED BY <1>0, <1>3, <2>1 DEF PodReady, PodGone, EntryOK
<1> QED BY <1>1, <1>2, <1>3

LEMMA WorldStep ==
    ASSUME IInv, Tick \/ (\E x \in Context, u \in Cluster \cup {NoCluster} : Rebind(x, u))
              \/ (\E u \in Cluster, p \in Backing : PodReady(u, p) \/ PodGone(u, p))
    PROVE  IInv'
<1>1. TypeOK'
  <2>1. CASE Tick
    BY <2>1 DEF IInv, TypeOK, Tick
  <2>2. ASSUME NEW x \in Context, NEW u \in Cluster \cup {NoCluster}, Rebind(x, u)
        PROVE  TypeOK'
    BY <2>2 DEF IInv, TypeOK, Rebind, Change
  <2>3. ASSUME NEW u \in Cluster, NEW p \in Backing, PodReady(u, p) PROVE TypeOK'
    BY <2>3 DEF IInv, TypeOK, PodReady, Change
  <2>4. ASSUME NEW u \in Cluster, NEW p \in Backing, PodGone(u, p) PROVE TypeOK'
    BY <2>4 DEF IInv, TypeOK, PodGone, Change
  <2> QED BY <2>1, <2>2, <2>3, <2>4
<1>2. /\ UNCHANGED <<cache, call>>
      /\ now \in Nat /\ now' \in Nat /\ now <= now'
      /\ \A x \in Context : /\ since[x] \in Nat /\ since'[x] \in Nat
                            /\ since[x] <= since'[x] /\ since'[x] <= now'
                            /\ \/ since'[x] = since[x] /\ binding'[x] = binding[x]
                               \/ since'[x] = now
  BY DEF IInv, TypeOK, Tick, Rebind, PodReady, PodGone
<1>3. \A x \in Context : (cache[x].cluster # NoCluster => EntryOK(x, cache[x]))'
  <2> TAKE x \in Context
  <2>1. cache[x] \in Entry /\ (cache[x].cluster # NoCluster => EntryOK(x, cache[x]))
    BY DEF IInv, TypeOK
  <2>2. PICK e \in Entry : e = cache[x]
    BY <2>1
  <2>3. e.cluster # NoCluster => EntryOK(x, e)'
    BY <2>1, <2>2, WorldEntry
  <2>4. cache'[x] = e
    BY <1>2, <2>2
  <2> QED BY <2>3, <2>4 DEF EntryOK, LastReady
<1>4. \A c \in Call : CallOK(call[c])'
  <2> TAKE c \in Call
  <2> DEFINE k == call[c]
             x == k.ctx
  <2>0. k \in CallState /\ CallOK(k) /\ call'[c] = k
    BY <1>2 DEF IInv, TypeOK
  <2>1. k.begun \in Nat /\ k.start \in Nat /\ k.got \in Entry
    BY <2>0 DEF CallState
  <2>2. CASE k.pc = "idle"
    BY <1>2, <2>0, <2>1, <2>2 DEF CallOK
  <2>3. CASE k.pc # "idle"
    <3>0. x \in Context
      BY <2>0, <2>3 DEF CallOK
    <3>1. k.pc \in {"store", "done"} => EntryOK(call[c].ctx, call[c].got)'
      <4> SUFFICES ASSUME k.pc \in {"store", "done"} PROVE EntryOK(call[c].ctx, call[c].got)'
        OBVIOUS
      <4>1. EntryOK(x, k.got)
        BY <2>0 DEF CallOK
      <4>2. PICK y \in Context, e \in Entry : y = x /\ e = k.got
        BY <2>1, <3>0
      <4>3. EntryOK(y, e)'
        BY <4>1, <4>2, WorldEntry
      <4>4. y = call'[c].ctx /\ e = call'[c].got
        BY <2>0, <4>2
      <4> QED BY <4>3, <4>4 DEF EntryOK, LastReady
    <3>2. k.begun > since'[x] => k.client \in {binding'[x], NoCluster}
      BY <1>2, <2>0, <2>1, <2>3, <3>0 DEF CallOK
    <3>3. k.pc = "fetch" => /\ k.got.cluster \in Cluster
                            /\ k.start > since'[x] => k.got.cluster = binding'[x]
      BY <1>2, <2>0, <2>1, <3>0 DEF CallOK
    <3> QED BY <1>2, <2>0, <2>1, <2>3, <3>0, <3>1, <3>2, <3>3 DEF CallOK
  <2> QED BY <2>2, <2>3
<1> QED BY <1>1, <1>2, <1>3, <1>4 DEF IInv

LEMMA NextIInv == IInv /\ [Next]_vars => IInv'
<1> SUFFICES ASSUME IInv, [Next]_vars PROVE IInv'
  OBVIOUS
<1>1. CASE UNCHANGED vars
  <2>1. UNCHANGED World /\ UNCHANGED <<cache, call>>
    BY <1>1 DEF vars, World
  <2>2. \A x \in Context : (cache[x].cluster # NoCluster => EntryOK(x, cache[x]))'
    BY <2>1 DEF IInv, World, EntryOK, LastReady
  <2>3. \A c \in Call : CallOK(call[c])'
    BY <2>1 DEF IInv, World, CallOK, EntryOK, LastReady
  <2> QED BY <2>1, <2>2, <2>3 DEF IInv, TypeOK, World
<1> QED BY <1>1, CallStep, WorldStep DEF Next

LEMMA Invariant == Spec => []IInv
BY InitIInv, NextIInv, PTL DEF Spec

-----------------------------------------------------------------------------
\* The state of the resolver and of its calls keeps its types.
THEOREM TypeCorrect == Spec => []TypeOK
<1>1. IInv => TypeOK
  BY DEF IInv
<1> QED BY <1>1, Invariant, PTL

\* TTL + Timeout after a context was bound to another cluster or removed, no
\* call that begins is answered with what the old cluster said, and no dial
\* pairs a pod of one cluster with the client of another.
THEOREM OldClusterForgotten == Spec => []ReplacedClusterForgotten
<1>1. IInv => ReplacedClusterForgotten
  <2> SUFFICES ASSUME IInv, NEW c \in Call, Answered(c),
                      call[c].begun >= since[call[c].ctx] + TTL + Timeout
               PROVE  /\ call[c].got.cluster = binding[call[c].ctx]
                      /\ call[c].client \in {binding[call[c].ctx], NoCluster}
    BY DEF ReplacedClusterForgotten
  <2> DEFINE k == call[c]
  <2>1. /\ k \in CallState /\ CallOK(k) /\ k.pc = "done" /\ k.ctx \in Context
        /\ since[k.ctx] \in Nat
    BY DEF IInv, TypeOK, Answered, CallOK
  <2>2. /\ EntryOK(k.ctx, k.got) /\ k.got.at > k.begun - TTL
        /\ k.got.at \in Int /\ k.begun \in Nat
    BY <2>1 DEF CallOK, CallState, Entry
  <2>3. k.got.at > since[k.ctx] + Timeout /\ k.begun > since[k.ctx]
    BY <2>1, <2>2
  <2> QED BY <2>1, <2>2, <2>3 DEF CallOK, EntryOK
<1> QED BY <1>1, Invariant, PTL

\* The endpoint a call chooses was ready less than TTL before it began.
THEOREM ChosenRecentlyReady == Spec => []EndpointRecentlyReady
<1>1. IInv => EndpointRecentlyReady
  <2> SUFFICES ASSUME IInv, NEW c \in Call, Answered(c), NEW p \in call[c].got.pods
               PROVE  LastReady(call[c].got.cluster, p) > call[c].begun - TTL
    BY DEF EndpointRecentlyReady
  <2> DEFINE k == call[c]
  <2>1. /\ k \in CallState /\ CallOK(k) /\ k.pc = "done" /\ now \in Nat
        /\ ready \in [Cluster -> SUBSET Backing] /\ left \in [Cluster -> [Pod -> Int]]
    BY DEF IInv, TypeOK, Answered
  <2>2. /\ EntryOK(k.ctx, k.got) /\ k.got.at > k.begun - TTL
        /\ k.got.at \in Int /\ k.begun \in Nat /\ p \in Pod
    BY <2>1 DEF CallOK, CallState, Entry
  <2>3. LastReady(k.got.cluster, p) >= k.got.at /\ LastReady(k.got.cluster, p) \in Int
    BY <2>1, <2>2 DEF EntryOK, LastReady
  <2> QED BY <2>2, <2>3
<1> QED BY <1>1, Invariant, PTL

\* No call of PickEndpoint panics.
THEOREM PickSafe == Spec => []PickNeverPanics
<1>1. IInv => PickNeverPanics
  BY DEF IInv, CallOK, PickNeverPanics
<1> QED BY <1>1, Invariant, PTL
=============================================================================
