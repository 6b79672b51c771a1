--------------------------- MODULE ForwardManager ---------------------------
(***************************************************************************)
(* internal/k8s/forward_manager.go without the SPDY pool: the listeners on *)
(* virtual IPs, the per-VIP idle timers, and the accepted connections that *)
(* pause them.                                                             *)
(*                                                                         *)
(* A region of code under m.mu is one action.  state.mu is only ever held  *)
(* inside such a region or for one straight-line block of handleConn, so   *)
(* each of those blocks is one action too.  Everything the code does with  *)
(* no lock held (net.Listen, the start of a timer callback, ReleaseVIP,    *)
(* the gap between Accept and the two blocks of handleConn) is a step of   *)
(* its own, which any other goroutine may run before or after.             *)
(*                                                                         *)
(* Queries are the DNS server's resolveForContext: it gets a VIP from the  *)
(* allocator and either touches it (known VIP) or starts a forward for     *)
(* every port.  A released VIP is never handed out again, but a query that *)
(* already has it goes on using it.                                        *)
(***************************************************************************)
EXTENDS Integers, FiniteSets

CONSTANTS
    Vip,         \* virtual IPs
    Port,        \* service ports
    Context,     \* kubeconfig contexts
    ContextOf,   \* the context whose service a VIP stands for
    Query,       \* DNS queries, each of which runs once
    Conn,        \* TCP connections, each of which is accepted at most once
    State,       \* identities of vipState objects
    NoVip, NoState, NoPort

ASSUME ForwardAssumption ==
    /\ ContextOf \in [Vip -> Context]
    /\ IsFiniteSet(Conn)
    /\ NoVip \notin Vip /\ NoState \notin State /\ NoPort \notin Port
    /\ Port # {}   \* resolveForContext starts no forward for a service without ports

Key == Vip \X Port   \* forwardKey: the context is the VIP's

VARIABLES
    expiry,      \* idleTimeout > 0 (fixed by the configuration)
    entries,     \* m.entries: no entry, one that listens, one whose loop ended
    vipStates,   \* m.vipStates: VIP -> vipState object
    obj,         \* the vipState objects, also those no longer in the map
    fired,       \* timer callbacks that started and have not run expireVIP yet
    releasing,   \* VIPs about to be given back by ReleaseVIP
    alloc,       \* the allocator's view of each VIP
    query,       \* the goroutines inside resolveForContext
    conn,        \* the goroutines inside handleConn
    stopped      \* Shutdown has run

vars == <<expiry, entries, vipStates, obj, fired, releasing, alloc, query,
          conn, stopped>>

\* A vipState: the VIP and the map keys it was made for, the generation, the
\* generation its pending timer was armed with (0: none pending) and the
\* number of connections that hold the timer.
Object == [vip : Vip \cup {NoVip}, keys : SUBSET Key, generation : Nat,
           timer : Nat, active : Nat]

NewObject(v, ks) == [vip |-> v, keys |-> ks, generation |-> 0, timer |-> 0, active |-> 0]

Unborn == NewObject(NoVip, {})

\* The two ways a vipState changes: its timer is stopped, or it is armed under
\* the next generation; n connections hold it afterwards.
Stop(o, n) == [vip |-> o.vip, keys |-> o.keys, generation |-> o.generation,
               timer |-> 0, active |-> n]
Arm(o, n)  == [vip |-> o.vip, keys |-> o.keys, generation |-> o.generation + 1,
               timer |-> o.generation + 1, active |-> n]

\* A callback carries only the VIP and the generation; src, the object whose
\* timer it was, is recorded for the properties.
Callback == [vip : Vip, gen : Nat, src : State]

QueryState == [pc : {"idle", "touch", "start", "listen", "bound", "ok", "inuse", "error"},
               vip : Vip \cup {NoVip}, port : Port \cup {NoPort}, todo : SUBSET Port]

ConnState == [pc : {"new", "accepted", "found", "open", "closed"},
              key : Key \cup {<<NoVip, NoPort>>}, st : State \cup {NoState}]

QueryKey(q) == <<query[q].vip, query[q].port>>

\* Query q goes on at pc, for port p.
QueryAt(q, pc, p) ==
    query' = [query EXCEPT ![q] = [pc |-> pc, vip |-> query[q].vip, port |-> p,
                                   todo |-> query[q].todo]]

\* Connection c goes on at pc, with vipState s.
ConnAt(c, pc, s) ==
    conn' = [conn EXCEPT ![c] = [pc |-> pc, key |-> conn[c].key, st |-> s]]

Init ==
    /\ expiry \in BOOLEAN
    /\ entries = [k \in Key |-> "absent"]
    /\ vipStates = [v \in Vip |-> NoState]
    /\ obj = [s \in State |-> Unborn]
    /\ fired = {}
    /\ releasing = {}
    /\ alloc = [v \in Vip |-> "free"]
    /\ query = [q \in Query |-> [pc |-> "idle", vip |-> NoVip, port |-> NoPort, todo |-> {}]]
    /\ conn = [c \in Conn |-> [pc |-> "new", key |-> <<NoVip, NoPort>>, st |-> NoState]]
    /\ stopped = FALSE

-----------------------------------------------------------------------------
\* Mutant: the callback captures the generation before it is incremented.
Touched_OldGeneration(o) ==
    IF o.active > 0
    THEN Stop(o, o.active)
    ELSE [Arm(o, o.active) EXCEPT !.timer = o.generation]

\* touchVIPLocked on an object: stop the timer; unless connections hold it,
\* arm it again under the next generation.
Touched(o) ==
    IF o.active > 0 THEN Stop(o, o.active) ELSE Arm(o, o.active)

\* touchVIPLocked(v): nothing to do without expiry or without a vipState.
TouchLocked(v) ==
    obj' = IF expiry /\ vipStates[v] # NoState
           THEN [obj EXCEPT ![vipStates[v]] = Touched(obj[vipStates[v]])]
           ELSE obj

\* allocator.Lookup found the VIP: the query is about to touch it.
Lookup(q, v) ==
    /\ query[q].pc = "idle"
    /\ alloc[v] = "assigned"
    /\ query' = [query EXCEPT ![q] =
                    [pc |-> "touch", vip |-> v, port |-> NoPort, todo |-> {}]]
    /\ UNCHANGED <<expiry, entries, vipStates, obj, fired, releasing, alloc,
                   conn, stopped>>

\* allocator.Allocate returned the VIP (a new one, or the one a concurrent
\* query was given first): the query is about to start its forwards.
Allocate(q, v) ==
    /\ query[q].pc = "idle"
    /\ alloc[v] # "released"
    /\ alloc' = [alloc EXCEPT ![v] = "assigned"]
    /\ query' = [query EXCEPT ![q] =
                    [pc |-> "start", vip |-> v, port |-> NoPort, todo |-> Port]]
    /\ UNCHANGED <<expiry, entries, vipStates, obj, fired, releasing, conn,
                   stopped>>

\* TouchVIP.
TouchVIP(q) ==
    /\ query[q].pc = "touch"
    /\ TouchLocked(query[q].vip)
    /\ QueryAt(q, "ok", NoPort)
    /\ UNCHANGED <<expiry, entries, vipStates, fired, releasing, alloc, conn,
                   stopped>>

\* StartForward for port p returned nil; resolveForContext takes the next port.
Started(q, p) ==
    query' = [query EXCEPT ![q] =
                 [pc |-> IF query[q].todo \subseteq {p} THEN "ok" ELSE "start",
                  vip |-> query[q].vip, port |-> NoPort, todo |-> query[q].todo \ {p}]]

\* StartForward, first look at m.entries: an entry counts as a touch.
StartHit(q, p) ==
    /\ query[q].pc = "start"
    /\ p \in query[q].todo
    /\ entries[<<query[q].vip, p>>] # "absent"
    /\ TouchLocked(query[q].vip)
    /\ Started(q, p)
    /\ UNCHANGED <<expiry, entries, vipStates, fired, releasing, alloc, conn,
                   stopped>>

\* No entry: the lock is dropped to listen.
StartMiss(q, p) ==
    /\ query[q].pc = "start"
    /\ p \in query[q].todo
    /\ entries[<<query[q].vip, p>>] = "absent"
    /\ QueryAt(q, "listen", p)
    /\ UNCHANGED <<expiry, entries, vipStates, obj, fired, releasing, alloc,
                   conn, stopped>>

\* A socket of this process listens on the address: the one of an entry, or
\* one another StartForward has bound and not registered yet.
InUse(k) ==
    \/ entries[k] = "open"
    \/ \E r \in Query : query[r].pc = "bound" /\ QueryKey(r) = k

\* net.Listen succeeds only on an address nobody listens on.
Listen(q) ==
    /\ query[q].pc = "listen"
    /\ ~InUse(QueryKey(q))
    /\ QueryAt(q, "bound", query[q].port)
    /\ UNCHANGED <<expiry, entries, vipStates, obj, fired, releasing, alloc,
                   conn, stopped>>

\* net.Listen fails, on a socket of ours (EADDRINUSE) or for any other reason
\* (the address has left the interface, no descriptors).  StartForward
\* returns the error and the query gives up on the remaining ports.
ListenFails(q) ==
    /\ query[q].pc = "listen"
    /\ QueryAt(q, IF InUse(QueryKey(q)) THEN "inuse" ELSE "error", query[q].port)
    /\ UNCHANGED <<expiry, entries, vipStates, obj, fired, releasing, alloc,
                   conn, stopped>>

\* StartForward, second look: another call registered the key meanwhile, so
\* its entry is touched and the new listener is closed.
RegisterHit(q) ==
    /\ query[q].pc = "bound"
    /\ entries[QueryKey(q)] # "absent"
    /\ TouchLocked(query[q].vip)
    /\ Started(q, query[q].port)
    /\ UNCHANGED <<expiry, entries, vipStates, fired, releasing, alloc, conn,
                   stopped>>

\* The listener is registered; without idle expiry that is all.
RegisterPlain(q) ==
    /\ query[q].pc = "bound"
    /\ ~expiry
    /\ entries[QueryKey(q)] = "absent"
    /\ entries' = [entries EXCEPT ![QueryKey(q)] = "open"]
    /\ Started(q, query[q].port)
    /\ UNCHANGED <<expiry, vipStates, obj, fired, releasing, alloc, conn, stopped>>

\* A further listener of a VIP joins its vipState, which is touched.
RegisterMore(q) ==
    LET s == vipStates[query[q].vip] IN
    /\ query[q].pc = "bound"
    /\ expiry
    /\ entries[QueryKey(q)] = "absent"
    /\ s # NoState
    /\ entries' = [entries EXCEPT ![QueryKey(q)] = "open"]
    /\ obj' = [obj EXCEPT ![s] =
                  Touched([vip |-> obj[s].vip, keys |-> obj[s].keys \cup {QueryKey(q)},
                           generation |-> obj[s].generation, timer |-> obj[s].timer,
                           active |-> obj[s].active])]
    /\ Started(q, query[q].port)
    /\ UNCHANGED <<expiry, vipStates, fired, releasing, alloc, conn, stopped>>

\* Mutant: a new vipState waits for the first touch.
RegisterFirst_Unarmed(q, s) ==
    LET v == query[q].vip IN
    /\ query[q].pc = "bound"
    /\ expiry
    /\ entries[QueryKey(q)] = "absent"
    /\ vipStates[v] = NoState
    /\ obj[s].vip = NoVip
    /\ entries' = [entries EXCEPT ![QueryKey(q)] = "open"]
    /\ vipStates' = [vipStates EXCEPT ![v] = s]
    /\ obj' = [obj EXCEPT ![s] = NewObject(v, {QueryKey(q)})]
    /\ Started(q, query[q].port)
    /\ UNCHANGED <<expiry, fired, releasing, alloc, conn, stopped>>

\* The first listener of a VIP brings a new vipState, armed at once.
RegisterFirst(q, s) ==
    LET v == query[q].vip IN
    /\ query[q].pc = "bound"
    /\ expiry
    /\ entries[QueryKey(q)] = "absent"
    /\ vipStates[v] = NoState
    /\ obj[s].vip = NoVip
    /\ entries' = [entries EXCEPT ![QueryKey(q)] = "open"]
    /\ vipStates' = [vipStates EXCEPT ![v] = s]
    /\ obj' = [obj EXCEPT ![s] = Touched(NewObject(v, {QueryKey(q)}))]
    /\ Started(q, query[q].port)
    /\ UNCHANGED <<expiry, fired, releasing, alloc, conn, stopped>>

-----------------------------------------------------------------------------
\* The idle timer of an object runs out: its callback starts.
TimerFires(s) ==
    /\ obj[s].timer # 0
    /\ fired' = fired \cup {[vip |-> obj[s].vip, gen |-> obj[s].timer, src |-> s]}
    /\ obj' = [obj EXCEPT ![s] = Stop(obj[s], obj[s].active)]
    /\ UNCHANGED <<expiry, entries, vipStates, releasing, alloc, query, conn,
                   stopped>>

\* Mutant: only the generation is compared.
Current_AnyCount(f) ==
    LET s == vipStates[f.vip] IN s # NoState /\ obj[s].generation = f.gen

\* What expireVIP compares before it goes ahead.
Current(f) ==
    LET s == vipStates[f.vip] IN
    s # NoState /\ obj[s].generation = f.gen /\ obj[s].active <= 0

\* expireVIP finds another generation, active connections or no state.
ExpireAborts(f) ==
    /\ f \in fired
    /\ ~Current(f)
    /\ fired' = fired \ {f}
    /\ UNCHANGED <<expiry, entries, vipStates, obj, releasing, alloc, query,
                   conn, stopped>>

\* Mutant: entries whose loop ended are passed over.
ExpireVIP_SkipDead(f) ==
    /\ f \in fired
    /\ Current(f)
    /\ fired' = fired \ {f}
    /\ entries' = [k \in Key |-> IF k \in obj[vipStates[f.vip]].keys /\ entries[k] = "open"
                                 THEN "absent" ELSE entries[k]]
    /\ vipStates' = [vipStates EXCEPT ![f.vip] = NoState]
    /\ releasing' = releasing \cup {f.vip}
    /\ UNCHANGED <<expiry, obj, alloc, query, conn, stopped>>

\* Mutant: the VIP is forgotten and not given back.
ExpireVIP_Keep(f) ==
    /\ f \in fired
    /\ Current(f)
    /\ fired' = fired \ {f}
    /\ entries' = [k \in Key |-> IF k \in obj[vipStates[f.vip]].keys
                                 THEN "absent" ELSE entries[k]]
    /\ vipStates' = [vipStates EXCEPT ![f.vip] = NoState]
    /\ UNCHANGED <<expiry, obj, releasing, alloc, query, conn, stopped>>

\* expireVIP closes the listeners, forgets the VIP and goes on to release it.
ExpireVIP(f) ==
    /\ f \in fired
    /\ Current(f)
    /\ fired' = fired \ {f}
    /\ entries' = [k \in Key |-> IF k \in obj[vipStates[f.vip]].keys
                                 THEN "absent" ELSE entries[k]]
    /\ vipStates' = [vipStates EXCEPT ![f.vip] = NoState]
    /\ releasing' = releasing \cup {f.vip}
    /\ UNCHANGED <<expiry, obj, alloc, query, conn, stopped>>

\* The allocator's ReleaseVIP, called with no lock of the manager held.
ReleaseVIP(v) ==
    /\ v \in releasing
    /\ releasing' = releasing \ {v}
    /\ alloc' = [alloc EXCEPT ![v] = "released"]
    /\ UNCHANGED <<expiry, entries, vipStates, obj, fired, query, conn, stopped>>

-----------------------------------------------------------------------------
\* listenLoop accepts a connection and hands it to a handleConn goroutine.
Accept(c, k) ==
    /\ conn[c].pc = "new"
    /\ entries[k] = "open"
    /\ conn' = [conn EXCEPT ![c] = [pc |-> "accepted", key |-> k, st |-> NoState]]
    /\ UNCHANGED <<expiry, entries, vipStates, obj, fired, releasing, alloc,
                   query, stopped>>

\* Accept fails while nobody shut the listener down: listenLoop closes the
\* listener and ends, its entry stays in the map.
AcceptError(k) ==
    /\ entries[k] = "open"
    /\ entries' = [entries EXCEPT ![k] = "dead"]
    /\ UNCHANGED <<expiry, vipStates, obj, fired, releasing, alloc, query,
                   conn, stopped>>

\* handleConn reads m.vipStates (only when expiry is on); with no vipState the
\* connection is proxied uncounted.
FindState(c) ==
    LET s == IF expiry THEN vipStates[conn[c].key[1]] ELSE NoState IN
    /\ conn[c].pc = "accepted"
    /\ ConnAt(c, IF s = NoState THEN "open" ELSE "found", s)
    /\ UNCHANGED <<expiry, entries, vipStates, obj, fired, releasing, alloc,
                   query, stopped>>

\* handleConn stops the timer and counts itself, on the object it found.
CountConn(c) ==
    /\ conn[c].pc = "found"
    /\ ConnAt(c, "open", conn[c].st)
    /\ obj' = [obj EXCEPT ![conn[c].st] =
                  Stop(obj[conn[c].st], obj[conn[c].st].active + 1)]
    /\ UNCHANGED <<expiry, entries, vipStates, fired, releasing, alloc, query,
                   stopped>>

\* Mutant: the last connection does not re-arm the timer.
Uncounted_NoRearm(o) == Stop(o, o.active - 1)

\* handleConn's deferred block on an object: the last connection re-arms.
Uncounted(o) ==
    IF o.active = 1
    THEN Arm(o, 0)
    ELSE [vip |-> o.vip, keys |-> o.keys, generation |-> o.generation,
          timer |-> o.timer, active |-> o.active - 1]

\* Mutant: a failed dial returns before the deferred block is registered.
CloseConn_NoDefer(c) ==
    /\ conn[c].pc = "open"
    /\ ConnAt(c, "closed", conn[c].st)
    /\ UNCHANGED <<expiry, entries, vipStates, obj, fired, releasing, alloc,
                   query, stopped>>

\* The dial failed or both copies ended: handleConn returns.
CloseConn(c) ==
    /\ conn[c].pc = "open"
    /\ ConnAt(c, "closed", conn[c].st)
    /\ obj' = IF conn[c].st = NoState
              THEN obj
              ELSE [obj EXCEPT ![conn[c].st] = Uncounted(obj[conn[c].st])]
    /\ UNCHANGED <<expiry, entries, vipStates, fired, releasing, alloc, query,
                   stopped>>

-----------------------------------------------------------------------------
\* Mutant: the listeners are closed and the vipStates stay in the map.
TearDown_KeepStates(vips) ==
    /\ entries' = [k \in Key |-> IF k[1] \in vips THEN "absent" ELSE entries[k]]
    /\ UNCHANGED <<obj, vipStates>>

\* The VIPs torn down by a shutdown lose their listeners and their vipStates,
\* whose timers are stopped.
TearDown(vips) ==
    /\ entries' = [k \in Key |-> IF k[1] \in vips THEN "absent" ELSE entries[k]]
    /\ obj' = [s \in State |->
                  IF \E v \in vips : vipStates[v] = s
                  THEN Stop(obj[s], obj[s].active) ELSE obj[s]]
    /\ vipStates' = [v \in Vip |-> IF v \in vips THEN NoState ELSE vipStates[v]]

\* ShutdownContext: the VIPs are those that have an entry of the context, and
\* they are released afterwards.
ShutdownContext(x) ==
    LET vips == {v \in Vip : ContextOf[v] = x /\ \E p \in Port : entries[<<v, p>>] # "absent"}
    IN  /\ vips # {}
        /\ TearDown(vips)
        /\ releasing' = releasing \cup vips
        /\ UNCHANGED <<expiry, fired, alloc, query, conn, stopped>>

\* Shutdown, once, when the proxy stops; the allocator cleans up by itself.
Shutdown ==
    /\ ~stopped
    /\ stopped' = TRUE
    /\ TearDown(Vip)
    /\ UNCHANGED <<expiry, fired, releasing, alloc, query, conn>>

-----------------------------------------------------------------------------
QueryStep(q) ==
    \/ TouchVIP(q) \/ Listen(q) \/ ListenFails(q)
    \/ \E p \in Port : StartHit(q, p) \/ StartMiss(q, p)
    \/ RegisterHit(q) \/ RegisterPlain(q) \/ RegisterMore(q)
    \/ \E s \in State : RegisterFirst(q, s)

ConnStep(c) == FindState(c) \/ CountConn(c) \/ CloseConn(c)

Expire == \E f \in fired : ExpireAborts(f) \/ ExpireVIP(f)

Next ==
    \/ \E q \in Query, v \in Vip : Lookup(q, v) \/ Allocate(q, v)
    \/ \E q \in Query : QueryStep(q)
    \/ \E s \in State : TimerFires(s)
    \/ Expire
    \/ \E v \in Vip : ReleaseVIP(v)
    \/ \E c \in Conn, k \in Key : Accept(c, k)
    \/ \E k \in Key : AcceptError(k)
    \/ \E c \in Conn : ConnStep(c)
    \/ \E x \in Context : ShutdownContext(x)
    \/ Shutdown

Spec == Init /\ [][Next]_vars

\* Goroutines run, timers run out and connections end; nothing makes queries
\* or connections come, listeners fail or the proxy shut down.
FairSpec ==
    /\ Spec
    /\ \A q \in Query : WF_vars(QueryStep(q))
    /\ \A s \in State : WF_vars(TimerFires(s))
    /\ WF_vars(Expire)
    /\ \A v \in Vip : WF_vars(ReleaseVIP(v))
    /\ \A c \in Conn : WF_vars(ConnStep(c))

-----------------------------------------------------------------------------
\* Every variable has the type its Go counterpart has; the connection count
\* never becomes negative.
TypeOK ==
    /\ expiry \in BOOLEAN
    /\ entries \in [Key -> {"absent", "open", "dead"}]
    /\ vipStates \in [Vip -> State \cup {NoState}]
    /\ obj \in [State -> Object]
    /\ fired \in SUBSET Callback
    /\ releasing \in SUBSET Vip
    /\ alloc \in [Vip -> {"free", "assigned", "released"}]
    /\ query \in [Query -> QueryState]
    /\ conn \in [Conn -> ConnState]
    /\ stopped \in BOOLEAN

\* The connections that count themselves on an object.
Holders(s) == {c \in Conn : conn[c].pc = "open" /\ conn[c].st = s}

\* activeConns is the number of proxied connections that found the object,
\* whether it is still in the map or not: none is forgotten when a dial fails,
\* and none is counted twice.
ActiveCountExact == \A s \in State : obj[s].active = Cardinality(Holders(s))

\* "active connections pause it": no timer is pending on an object that
\* connections hold, whatever DNS queries touched it meanwhile; so handleConn
\* never overwrites a pending timer without stopping it.
PausedWhileActive == \A s \in State : obj[s].timer # 0 => obj[s].active = 0

\* A VIP with listeners and no counted connection has a timer pending, or a
\* callback under way, that carries the current generation: however touches,
\* connections and callbacks interleave, the expiry is never lost.
IdleVIPWillExpire ==
    \A v \in Vip :
        LET s == vipStates[v] IN
        s # NoState /\ obj[s].active = 0 =>
            \/ obj[s].timer = obj[s].generation
            \/ [vip |-> v, gen |-> obj[s].generation, src |-> s] \in fired

\* m.entries and m.vipStates agree: with expiry on, a listener is registered
\* exactly when the VIP's vipState lists it, so every listener is closed by
\* its VIP's expiry and no vipState outlives its listeners.
ListenersTracked ==
    \A v \in Vip :
        LET listening == {k \in Key : k[1] = v /\ entries[k] # "absent"} IN
        IF vipStates[v] = NoState
        THEN expiry => listening = {}
        ELSE listening # {} /\ listening = obj[vipStates[v]].keys

\* A VIP whose idle timer was armed is given back to the allocator in the end,
\* unless the proxy stops.
IdleVIPReleased ==
    \A v \in Vip :
        expiry /\ vipStates[v] # NoState ~> alloc[v] = "released" \/ stopped

\* So is an allocated VIP, also one nobody has a forward for yet, unless the
\* proxy stops or a listener failed for a query that had it: then nothing
\* arms a timer (resolveForContext returns and leaves the VIP allocated).
AllocatedVIPReleased ==
    \A v \in Vip :
        expiry /\ alloc[v] = "assigned"
          ~> \/ alloc[v] = "released" \/ stopped
             \/ \E q \in Query : query[q].vip = v /\ query[q].pc = "error"

\* The entry of a listener whose loop ended keeps StartForward from listening
\* again; it goes away when the queries that touch its VIP cease.
DeadListenerForgotten ==
    \A k \in Key : expiry /\ entries[k] = "dead" ~> entries[k] # "dead"

\* The safety half of AllocatedVIPReleased: with expiry on, an allocated VIP
\* always has somebody who will see to it that it goes back: its vipState, a
\* ReleaseVIP under way, or a query that is still starting its forwards; the
\* one exception is a query whose net.Listen failed.  In particular a query
\* that lost the address to another StartForward, or found its entry, left
\* the VIP in the other's care, and an expiry or ShutdownContext in between
\* took it over.
AllocatedNeverForgotten ==
    \A v \in Vip : expiry /\ ~stopped /\ alloc[v] = "assigned" =>
        \/ vipStates[v] # NoState
        \/ v \in releasing
        \/ \E q \in Query : query[q].vip = v
                              /\ query[q].pc \in {"start", "listen", "bound", "error"}

\* What the maps, objects and goroutines amount to for the manager's callers:
\* the listeners, whether their loop still runs or not; the connections that
\* count on a VIP's vipState; and the VIPs the allocator has back.
Serving == {k \in Key : entries[k] # "absent"}
Held    == [v \in Vip |-> IF vipStates[v] = NoState THEN {} ELSE Holders(vipStates[v])]
Given   == {v \in Vip : alloc[v] = "released"}

Idle == INSTANCE IdleForward WITH
            serving <- Serving, held <- Held, pending <- releasing, given <- Given

\* ForwardManager implements IdleForward: whatever the timers, callbacks,
\* queries and connections do in between, listeners disappear only together,
\* by the expiry of a VIP no connection keeps, with its context or when the
\* proxy stops, and only a VIP closed in one of the first two ways is given
\* back, once it is closed.
ImplementsIdleForward == Idle!FSpec
=============================================================================
