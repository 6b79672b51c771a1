------------------------ MODULE ForwardManager_proofs -----------------------
(***************************************************************************)
(* Proofs about ForwardManager, for every number of VIPs, ports, contexts, *)
(* queries and vipState objects, and every finite number of connections.   *)
(***************************************************************************)
EXTENDS ForwardManager, FiniteSetTheorems, TLAPS

(* The inductive invariant: the properties, and what ties the goroutines'  *)
(* local variables to the shared maps.                                     *)

\* A vipState in the map belongs to the VIP it is filed under, and there is
\* none without expiry.
FiledInv ==
    \A v \in Vip : vipStates[v] # NoState =>
        expiry /\ obj[vipStates[v]].vip = v

\* Only objects that were made for a VIP have a timer or a connection.
BornInv ==
    /\ \A s \in State : obj[s].timer # 0 => obj[s].vip \in Vip
    /\ \A c \in Conn : conn[c].st # NoState => obj[conn[c].st].vip \in Vip

\* A query that works on a VIP has one, and one that listens has a port.
QueryLocal ==
    \A q \in Query :
        /\ query[q].pc \in {"touch", "start", "listen", "bound"} => query[q].vip \in Vip
        /\ query[q].pc \in {"listen", "bound"} => query[q].port \in Port

\* A connection that was accepted has a key, one about to count itself an
\* object.
ConnLocal ==
    \A c \in Conn :
        /\ conn[c].pc = "new" => conn[c].st = NoState
        /\ conn[c].pc = "accepted" => conn[c].key \in Key /\ conn[c].st = NoState
        /\ conn[c].pc = "found" => conn[c].st # NoState

\* The part of the invariant about the shared maps, objects and callbacks.
Core ==
    /\ ActiveCountExact
    /\ PausedWhileActive
    /\ IdleVIPWillExpire
    /\ ListenersTracked
    /\ FiledInv
    /\ BornInv

IInv == TypeOK /\ Core /\ QueryLocal /\ ConnLocal

-----------------------------------------------------------------------------
(* What the operators on vipState objects do. *)

\* touchVIPLocked keeps the object's identity and re-arms an idle one.
LEMMA TouchedFacts ==
    ASSUME NEW o \in Object
    PROVE  /\ Touched(o) \in Object
           /\ Touched(o).vip = o.vip /\ Touched(o).keys = o.keys
           /\ Touched(o).active = o.active
           /\ o.active > 0 => Touched(o).timer = 0
           /\ o.active = 0 => Touched(o).timer = Touched(o).generation
BY DEF Touched, Arm, Stop, Object

\* The deferred block of handleConn takes one connection off a held object.
LEMMA UncountedFacts ==
    ASSUME NEW o \in Object, o.active > 0, o.timer = 0
    PROVE  /\ Uncounted(o) \in Object
           /\ Uncounted(o).vip = o.vip /\ Uncounted(o).keys = o.keys
           /\ Uncounted(o).active = o.active - 1
           /\ Uncounted(o).active > 0 => Uncounted(o).timer = 0
           /\ Uncounted(o).active = 0 => Uncounted(o).timer = Uncounted(o).generation
BY DEF Uncounted, Arm, Object

\* The sets of counted connections are finite.
LEMMA HoldersFinite ==
    \A s : IsFiniteSet(Holders(s)) /\ Cardinality(Holders(s)) \in Nat
<1>1. \A s : Holders(s) \subseteq Conn
  BY DEF Holders
<1> QED BY <1>1, ForwardAssumption, FS_Subset, FS_CardinalityType

-----------------------------------------------------------------------------
(* One lemma per kind of step. *)

\* A step that leaves the maps, objects, callbacks and connections alone.
LEMMA QuietStep ==
    ASSUME Core, UNCHANGED <<expiry, entries, vipStates, obj, fired, conn>>
    PROVE  Core'
BY DEF Core, ActiveCountExact, Holders, PausedWhileActive, IdleVIPWillExpire,
       ListenersTracked, FiledInv, BornInv

\* The types of a query's record after its step.
LEMMA QueryAtFacts ==
    ASSUME query \in [Query -> QueryState], QueryLocal, NEW q \in Query,
           NEW pc \in {"idle", "touch", "start", "listen", "bound", "ok", "inuse", "error"},
           NEW p \in Port \cup {NoPort}, QueryAt(q, pc, p),
           pc \in {"touch", "start", "listen", "bound"} => query[q].vip \in Vip,
           pc \in {"listen", "bound"} => p \in Port
    PROVE  query' \in [Query -> QueryState] /\ QueryLocal'
BY DEF QueryAt, QueryState, QueryLocal

\* StartForward returned nil: the query's record after it.
LEMMA StartedFacts ==
    ASSUME query \in [Query -> QueryState], QueryLocal, NEW q \in Query,
           query[q].vip \in Vip, NEW p, Started(q, p)
    PROVE  query' \in [Query -> QueryState] /\ QueryLocal'
BY DEF Started, QueryState, QueryLocal

\* The types of a connection's record after its step.
LEMMA ConnAtFacts ==
    ASSUME conn \in [Conn -> ConnState], ConnLocal, NEW c \in Conn,
           NEW pc \in {"found", "open", "closed"},
           NEW s \in State \cup {NoState}, ConnAt(c, pc, s),
           pc = "found" => s # NoState
    PROVE  conn' \in [Conn -> ConnState] /\ ConnLocal'
BY DEF ConnAt, ConnState, ConnLocal

\* touchVIPLocked keeps the invariant.
LEMMA TouchStep ==
    ASSUME TypeOK, Core, NEW v \in Vip, TouchLocked(v),
           UNCHANGED <<expiry, entries, vipStates, fired, conn>>
    PROVE  obj' \in [State -> Object] /\ Core'
<1>1. CASE ~(expiry /\ vipStates[v] # NoState)
  <2>1. obj' = obj
    BY <1>1 DEF TouchLocked
  <2> QED BY <2>1, QuietStep DEF TypeOK
<1>2. CASE expiry /\ vipStates[v] # NoState
  <2> DEFINE t == vipStates[v]
  <2>1. t \in State /\ obj[t] \in Object
    BY <1>2 DEF TypeOK
  <2>2. obj' = [obj EXCEPT ![t] = Touched(obj[t])]
    BY <1>2 DEF TouchLocked
  <2>3. obj' \in [State -> Object]
    BY <2>1, <2>2, TouchedFacts DEF TypeOK
  <2>4. \A s \in State : /\ obj'[s].vip = obj[s].vip /\ obj'[s].keys = obj[s].keys
                         /\ obj'[s].active = obj[s].active
    BY <2>1, <2>2, TouchedFacts DEF TypeOK
  <2>5. obj[t].active \in Nat
    BY <2>1 DEF Object
  <2>6. ActiveCountExact' /\ FiledInv'
    BY <2>4 DEF Core, TypeOK, ActiveCountExact, Holders, FiledInv
  <2>7. PausedWhileActive'
    BY <2>1, <2>2, <2>5, TouchedFacts DEF Core, TypeOK, PausedWhileActive
  <2>8. IdleVIPWillExpire'
    BY <2>1, <2>2, <2>4, <2>5, TouchedFacts DEF Core, TypeOK, IdleVIPWillExpire
  <2>9. ListenersTracked'
    BY <2>4 DEF Core, TypeOK, ListenersTracked
  <2>10. BornInv'
    <3>1. obj'[t].vip \in Vip
      BY <2>1, <2>4, <1>2 DEF Core, FiledInv
    <3>2. conn \in [Conn -> ConnState]
      BY DEF TypeOK
    <3> QED BY <2>1, <2>2, <2>4, <3>1, <3>2 DEF Core, BornInv, TypeOK, ConnState
  <2> QED BY <2>3, <2>6, <2>7, <2>8, <2>9, <2>10 DEF Core
<1> QED BY <1>1, <1>2

\* Without expiry a listener is registered and nothing else happens.
LEMMA RegisterPlainStep ==
    ASSUME TypeOK, Core, NEW k \in Key, ~expiry,
           entries' = [entries EXCEPT ![k] = "open"],
           UNCHANGED <<expiry, vipStates, obj, fired, conn>>
    PROVE  Core'
<1>1. \A v \in Vip : vipStates[v] = NoState
  BY DEF Core, FiledInv
<1> QED BY <1>1 DEF Core, ActiveCountExact, Holders, PausedWhileActive,
           IdleVIPWillExpire, ListenersTracked, FiledInv, BornInv

\* A further listener joins its VIP's object.
LEMMA RegisterMoreStep ==
    ASSUME TypeOK, Core, QueryLocal, NEW q \in Query, RegisterMore(q)
    PROVE  obj' \in [State -> Object] /\ Core'
<1> DEFINE v == query[q].vip
           t == vipStates[v]
           k == QueryKey(q)
           o == [vip |-> obj[t].vip, keys |-> obj[t].keys \cup {k},
                 generation |-> obj[t].generation, timer |-> obj[t].timer,
                 active |-> obj[t].active]
<1>1. v \in Vip /\ k \in Key /\ k[1] = v /\ t \in State /\ obj[t] \in Object
  BY DEF RegisterMore, QueryLocal, QueryKey, Key, TypeOK
<1>2. o \in Object /\ o.active \in Nat
  BY <1>1 DEF Object
<1>3. obj' = [obj EXCEPT ![t] = Touched(o)] /\ entries' = [entries EXCEPT ![k] = "open"]
  BY DEF RegisterMore
<1>4. UNCHANGED <<expiry, vipStates, fired, conn>>
  BY DEF RegisterMore
<1> HIDE DEF v, t, k
<1>5. /\ Touched(o).vip = obj[t].vip /\ Touched(o).keys = obj[t].keys \cup {k}
      /\ Touched(o).active = obj[t].active
      /\ obj[t].active > 0 => Touched(o).timer = 0
      /\ obj[t].active = 0 => Touched(o).timer = Touched(o).generation
      /\ Touched(o) \in Object
  BY <1>2, TouchedFacts
<1> HIDE DEF o
<1>6. obj' \in [State -> Object]
  BY <1>3, <1>5 DEF TypeOK
<1>7. \A s \in State : /\ obj'[s].vip = obj[s].vip /\ obj'[s].active = obj[s].active
                       /\ s # t => obj'[s] = obj[s]
  BY <1>1, <1>3, <1>5 DEF TypeOK
<1>8. \A w \in Vip : vipStates[w] = t => w = v
  <2>1. vipStates[v] = t /\ t # NoState
    BY <1>1, ForwardAssumption DEF t
  <2> QED BY <1>1, <2>1 DEF Core, FiledInv
<1>9. ActiveCountExact' /\ FiledInv'
  BY <1>4, <1>7 DEF Core, TypeOK, ActiveCountExact, Holders, FiledInv
<1>10. PausedWhileActive'
  BY <1>1, <1>3, <1>4, <1>5, <1>7 DEF Core, TypeOK, PausedWhileActive, Object
<1>11. IdleVIPWillExpire'
  BY <1>1, <1>3, <1>4, <1>5, <1>7 DEF Core, TypeOK, IdleVIPWillExpire
<1>12. ListenersTracked'
  <2> SUFFICES ASSUME NEW w \in Vip
               PROVE  LET l == {j \in Key : j[1] = w /\ entries'[j] # "absent"} IN
                      IF vipStates'[w] = NoState THEN expiry' => l = {}
                      ELSE l # {} /\ l = obj'[vipStates'[w]].keys
    BY DEF ListenersTracked
  <2>1. CASE w = v
    <3>1. vipStates[w] = t /\ t # NoState
      BY <2>1 DEF t, RegisterMore, v
    <3>2. obj'[t].keys = obj[t].keys \cup {k}
      BY <1>1, <1>3, <1>5 DEF TypeOK
    <3>3. {j \in Key : j[1] = w /\ entries'[j] # "absent"}
            = {j \in Key : j[1] = w /\ entries[j] # "absent"} \cup {k}
      BY <1>1, <1>3, <2>1 DEF TypeOK
    <3> QED BY <1>4, <2>1, <3>1, <3>2, <3>3 DEF Core, ListenersTracked
  <2>2. CASE w # v
    <3>1. {j \in Key : j[1] = w /\ entries'[j] # "absent"}
            = {j \in Key : j[1] = w /\ entries[j] # "absent"}
      BY <1>1, <1>3, <2>2 DEF TypeOK
    <3>2. vipStates[w] # NoState => obj'[vipStates[w]] = obj[vipStates[w]]
      BY <1>7, <1>8, <2>2 DEF TypeOK
    <3> QED BY <1>4, <3>1, <3>2 DEF Core, ListenersTracked
  <2> QED BY <2>1, <2>2
<1>13. BornInv'
  <2>1. obj[t].vip \in Vip
    BY <1>1 DEF Core, FiledInv, t, RegisterMore, v
  <2>2. conn \in [Conn -> ConnState]
    BY DEF TypeOK
  <2> QED BY <1>1, <1>4, <1>7, <2>1, <2>2 DEF Core, BornInv, TypeOK, ConnState
<1> QED BY <1>6, <1>9, <1>10, <1>11, <1>12, <1>13 DEF Core

\* The first listener of a VIP comes with a new object, which nobody holds.
LEMMA RegisterFirstStep ==
    ASSUME TypeOK, Core, QueryLocal, NEW q \in Query, NEW t \in State,
           RegisterFirst(q, t)
    PROVE  obj' \in [State -> Object] /\ Core'
<1> DEFINE v == query[q].vip
           k == QueryKey(q)
           o == NewObject(v, {k})
<1>1. v \in Vip /\ k \in Key /\ k[1] = v
  BY DEF RegisterFirst, QueryLocal, QueryKey, Key, TypeOK
<1>2. o \in Object /\ o.active = 0 /\ o.vip = v /\ o.keys = {k}
  BY <1>1 DEF Object, NewObject
<1>3. /\ obj' = [obj EXCEPT ![t] = Touched(o)]
      /\ entries' = [entries EXCEPT ![k] = "open"]
      /\ vipStates' = [vipStates EXCEPT ![v] = t]
      /\ UNCHANGED <<expiry, fired, conn>>
      /\ expiry /\ vipStates[v] = NoState /\ obj[t].vip = NoVip
  BY DEF RegisterFirst
<1> HIDE DEF v, k, o
<1>4. /\ Touched(o).vip = v /\ Touched(o).keys = {k} /\ Touched(o).active = 0
      /\ Touched(o).timer = Touched(o).generation
      /\ Touched(o) \in Object
  BY <1>2, TouchedFacts
<1>5. obj' \in [State -> Object]
  BY <1>3, <1>4 DEF TypeOK
<1>6. obj'[t] = Touched(o) /\ \A s \in State : s # t => obj'[s] = obj[s]
  BY <1>3 DEF TypeOK
<1>7. NoVip \notin Vip /\ NoState \notin State
  BY ForwardAssumption
<1>8. \A w \in Vip : vipStates[w] # t
  BY <1>3, <1>7 DEF Core, FiledInv
<1>9. \A c \in Conn : conn[c].st # t
  BY <1>3, <1>7 DEF Core, BornInv
<1>10. ActiveCountExact'
  <2>1. \A s : Holders(s)' = Holders(s)
    BY <1>3 DEF Holders
  <2>2. Holders(t) = {}
    BY <1>9 DEF Holders
  <2>3. Cardinality(Holders(t)) = 0
    BY <2>2, FS_EmptySet
  <2> QED BY <1>4, <1>6, <2>1, <2>3 DEF Core, ActiveCountExact
<1>11. PausedWhileActive'
  BY <1>4, <1>6 DEF Core, PausedWhileActive
<1>12. FiledInv'
  BY <1>1, <1>3, <1>4, <1>6, <1>8 DEF Core, FiledInv, TypeOK
<1>13. IdleVIPWillExpire'
  BY <1>1, <1>3, <1>4, <1>6, <1>8 DEF Core, IdleVIPWillExpire, TypeOK
<1>14. BornInv'
  BY <1>1, <1>3, <1>4, <1>6, <1>9 DEF Core, BornInv, TypeOK, ConnState
<1>15. ListenersTracked'
  <2> SUFFICES ASSUME NEW w \in Vip
               PROVE  LET l == {j \in Key : j[1] = w /\ entries'[j] # "absent"} IN
                      IF vipStates'[w] = NoState THEN expiry' => l = {}
                      ELSE l # {} /\ l = obj'[vipStates'[w]].keys
    BY DEF ListenersTracked
  <2>1. CASE w = v
    <3>1. {j \in Key : j[1] = w /\ entries[j] # "absent"} = {}
      BY <1>3, <2>1 DEF Core, ListenersTracked
    <3>2. {j \in Key : j[1] = w /\ entries'[j] # "absent"} = {k}
      BY <1>1, <1>3, <2>1, <3>1 DEF TypeOK
    <3>3. vipStates'[w] = t /\ t # NoState
      BY <1>1, <1>3, <1>7, <2>1 DEF TypeOK
    <3> QED BY <1>4, <1>6, <3>2, <3>3
  <2>2. CASE w # v
    <3>1. {j \in Key : j[1] = w /\ entries'[j] # "absent"}
            = {j \in Key : j[1] = w /\ entries[j] # "absent"}
      BY <1>1, <1>3, <2>2 DEF TypeOK
    <3>2. vipStates'[w] = vipStates[w]
      BY <1>3, <2>2 DEF TypeOK
    <3>3. vipStates[w] # NoState => obj'[vipStates[w]] = obj[vipStates[w]]
      BY <1>6, <1>8 DEF TypeOK
    <3> QED BY <1>3, <3>1, <3>2, <3>3 DEF Core, ListenersTracked
  <2> QED BY <2>1, <2>2
<1> QED BY <1>5, <1>10, <1>11, <1>12, <1>13, <1>14, <1>15 DEF Core

\* A timer that runs out leaves its callback in its place.
LEMMA TimerFiresStep ==
    ASSUME TypeOK, Core, NEW t \in State, TimerFires(t)
    PROVE  obj' \in [State -> Object] /\ fired' \in SUBSET Callback /\ Core'
<1> DEFINE f == [vip |-> obj[t].vip, gen |-> obj[t].timer, src |-> t]
<1>1. obj[t] \in Object /\ obj[t].vip \in Vip /\ f \in Callback
  BY DEF TimerFires, TypeOK, Core, BornInv, Object, Callback
<1>2. Stop(obj[t], obj[t].active) \in Object
  BY <1>1 DEF Stop, Object
<1>3. obj' \in [State -> Object] /\ fired' \in SUBSET Callback
  BY <1>1, <1>2 DEF TimerFires, TypeOK
<1>4. /\ obj'[t].timer = 0
      /\ \A s \in State : /\ obj'[s].vip = obj[s].vip /\ obj'[s].keys = obj[s].keys
                          /\ obj'[s].active = obj[s].active
                          /\ obj'[s].generation = obj[s].generation
                          /\ s # t => obj'[s].timer = obj[s].timer
  BY DEF TimerFires, Stop, TypeOK
<1>5. fired' = fired \cup {f} /\ UNCHANGED <<expiry, entries, vipStates, conn>>
  BY DEF TimerFires
<1>6. ActiveCountExact' /\ PausedWhileActive' /\ FiledInv' /\ BornInv'
  BY <1>1, <1>4, <1>5 DEF Core, TypeOK, ActiveCountExact, Holders, PausedWhileActive,
                   FiledInv, BornInv, ConnState
<1>7. IdleVIPWillExpire'
  BY <1>4, <1>5 DEF Core, TypeOK, IdleVIPWillExpire, FiledInv
<1>8. ListenersTracked'
  BY <1>4, <1>5 DEF Core, TypeOK, ListenersTracked
<1> QED BY <1>3, <1>6, <1>7, <1>8 DEF Core

\* A callback that aborts was not the one an idle VIP waits for.
LEMMA ExpireAbortsStep ==
    ASSUME TypeOK, Core, NEW f \in fired, ExpireAborts(f)
    PROVE  fired' \in SUBSET Callback /\ Core'
<1>1. UNCHANGED <<expiry, entries, vipStates, obj, conn>> /\ fired' = fired \ {f}
  BY DEF ExpireAborts
<1>2. IdleVIPWillExpire'
  <2> SUFFICES ASSUME NEW v \in Vip, vipStates[v] # NoState,
                      obj[vipStates[v]].active = 0,
                      f = [vip |-> v, gen |-> obj[vipStates[v]].generation, src |-> vipStates[v]]
               PROVE  FALSE
    BY <1>1 DEF Core, IdleVIPWillExpire
  <2> QED BY DEF ExpireAborts, Current
<1> QED BY <1>1, <1>2 DEF Core, TypeOK, ActiveCountExact, Holders, PausedWhileActive,
                   ListenersTracked, FiledInv, BornInv

\* Expiry removes the object and exactly the listeners it lists.
LEMMA ExpireVIPStep ==
    ASSUME TypeOK, Core, NEW f \in fired, ExpireVIP(f)
    PROVE  /\ fired' \in SUBSET Callback
           /\ entries' \in [Key -> {"absent", "open", "dead"}]
           /\ vipStates' \in [Vip -> State \cup {NoState}]
           /\ releasing' \in SUBSET Vip
           /\ Core'
<1> DEFINE v == f.vip
           t == vipStates[v]
<1>1. v \in Vip /\ t \in State /\ t # NoState
  BY DEF ExpireVIP, Current, TypeOK, Callback
<1>2. /\ entries' = [k \in Key |-> IF k \in obj[t].keys THEN "absent" ELSE entries[k]]
      /\ vipStates' = [vipStates EXCEPT ![v] = NoState]
      /\ fired' = fired \ {f}
      /\ releasing' = releasing \cup {v}
      /\ UNCHANGED <<expiry, obj, conn>>
  BY DEF ExpireVIP
<1>3. /\ fired' \in SUBSET Callback
      /\ entries' \in [Key -> {"absent", "open", "dead"}]
      /\ vipStates' \in [Vip -> State \cup {NoState}]
      /\ releasing' \in SUBSET Vip
  BY <1>1, <1>2 DEF TypeOK
<1>4. \A w \in Vip : w # v => vipStates'[w] = vipStates[w]
  BY <1>2 DEF TypeOK
<1>5. vipStates'[v] = NoState
  BY <1>1, <1>2 DEF TypeOK
<1>6. obj[t].keys = {k \in Key : k[1] = v /\ entries[k] # "absent"}
  BY <1>1 DEF Core, ListenersTracked
<1> HIDE DEF v, t
<1>7. ActiveCountExact' /\ PausedWhileActive' /\ BornInv'
  BY <1>2 DEF Core, ActiveCountExact, Holders, PausedWhileActive, BornInv
<1>8. FiledInv'
  BY <1>2, <1>4, <1>5 DEF Core, FiledInv
<1>9. IdleVIPWillExpire'
  <2> SUFFICES ASSUME NEW w \in Vip, vipStates'[w] # NoState,
                      obj[vipStates[w]].active = 0, w # v
               PROVE  \/ obj[vipStates[w]].timer = obj[vipStates[w]].generation
                      \/ [vip |-> w, gen |-> obj[vipStates[w]].generation,
                          src |-> vipStates[w]] \in fired'
    BY <1>2, <1>4, <1>5 DEF IdleVIPWillExpire
  <2>1. f # [vip |-> w, gen |-> obj[vipStates[w]].generation, src |-> vipStates[w]]
    BY DEF v
  <2> QED BY <1>2, <1>4, <2>1 DEF Core, IdleVIPWillExpire
<1>10. ListenersTracked'
  <2> SUFFICES ASSUME NEW w \in Vip
               PROVE  LET l == {j \in Key : j[1] = w /\ entries'[j] # "absent"} IN
                      IF vipStates'[w] = NoState THEN expiry' => l = {}
                      ELSE l # {} /\ l = obj'[vipStates'[w]].keys
    BY DEF ListenersTracked
  <2>1. CASE w = v
    BY <1>2, <1>5, <1>6, <2>1
  <2>2. CASE w # v
    <3>1. {j \in Key : j[1] = w /\ entries'[j] # "absent"}
            = {j \in Key : j[1] = w /\ entries[j] # "absent"}
      BY <1>2, <1>6, <2>2
    <3> QED BY <1>2, <1>4, <2>2, <3>1 DEF Core, ListenersTracked
  <2> QED BY <2>1, <2>2
<1> QED BY <1>3, <1>7, <1>8, <1>9, <1>10 DEF Core

\* A connection is accepted: it holds nothing yet.
LEMMA AcceptStep ==
    ASSUME TypeOK, Core, ConnLocal, NEW c \in Conn, NEW k \in Key, Accept(c, k)
    PROVE  conn' \in [Conn -> ConnState] /\ ConnLocal' /\ Core'
<1>1. conn' \in [Conn -> ConnState] /\ ConnLocal'
  BY DEF Accept, TypeOK, ConnState, ConnLocal
<1>2. \A s : Holders(s)' = Holders(s)
  BY DEF Accept, Holders, TypeOK
<1>3. BornInv'
  BY DEF Accept, TypeOK, Core, BornInv
<1> QED BY <1>1, <1>2, <1>3 DEF Accept, Core, ActiveCountExact, PausedWhileActive,
           IdleVIPWillExpire, ListenersTracked, FiledInv

\* A listener that died is still an entry.
LEMMA AcceptErrorStep ==
    ASSUME TypeOK, Core, NEW k \in Key, AcceptError(k)
    PROVE  entries' \in [Key -> {"absent", "open", "dead"}] /\ Core'
<1>1. entries' \in [Key -> {"absent", "open", "dead"}]
  BY DEF AcceptError, TypeOK
<1>2. \A j \in Key : entries'[j] = "absent" <=> entries[j] = "absent"
  BY DEF AcceptError, TypeOK
<1>3. UNCHANGED <<expiry, vipStates, obj, fired, conn>>
  BY DEF AcceptError
<1> QED BY <1>1, <1>2, <1>3 DEF Core, ActiveCountExact, Holders, PausedWhileActive,
           IdleVIPWillExpire, ListenersTracked, FiledInv, BornInv

\* handleConn remembers the object of its VIP, or goes on without one.
LEMMA FindStateStep ==
    ASSUME TypeOK, Core, ConnLocal, NEW c \in Conn, FindState(c)
    PROVE  conn' \in [Conn -> ConnState] /\ ConnLocal' /\ Core'
<1> DEFINE w == conn[c].key[1]
           t == IF expiry THEN vipStates[w] ELSE NoState
           pc == IF t = NoState THEN "open" ELSE "found"
<1>1. w \in Vip
  BY DEF FindState, ConnLocal, Key
<1>2. t \in State \cup {NoState} /\ pc \in {"found", "open", "closed"}
  BY <1>1 DEF TypeOK
<1>3. t # NoState => obj[t].vip \in Vip
  BY <1>1 DEF Core, FiledInv
<1>4. ConnAt(c, pc, t) /\ conn[c].pc = "accepted" /\ conn[c].st = NoState
  BY DEF FindState, ConnLocal
<1>5. UNCHANGED <<expiry, entries, vipStates, obj, fired>>
  BY DEF FindState
<1>6. pc = "found" <=> t # NoState
  OBVIOUS
<1>7. pc = "open" => t = NoState
  OBVIOUS
<1> HIDE DEF w, t, pc
<1>8. conn' \in [Conn -> ConnState] /\ ConnLocal'
  BY <1>2, <1>4, <1>6, ConnAtFacts DEF TypeOK
<1>9. \A s \in State : Holders(s)' = Holders(s)
  BY <1>4, <1>7, ForwardAssumption DEF ConnAt, Holders, TypeOK
<1>10. BornInv'
  BY <1>3, <1>4, <1>5 DEF ConnAt, Core, BornInv, TypeOK
<1> QED BY <1>5, <1>8, <1>9, <1>10 DEF Core, ActiveCountExact, PausedWhileActive,
           IdleVIPWillExpire, ListenersTracked, FiledInv

\* handleConn counts itself on the object it found.
LEMMA CountConnStep ==
    ASSUME TypeOK, Core, ConnLocal, NEW c \in Conn, CountConn(c)
    PROVE  /\ obj' \in [State -> Object] /\ conn' \in [Conn -> ConnState]
           /\ ConnLocal' /\ Core'
<1> DEFINE t == conn[c].st
<1>1. t \in State /\ obj[t] \in Object /\ obj[t].active \in Nat /\ obj[t].vip \in Vip
  BY DEF CountConn, ConnLocal, TypeOK, ConnState, Object, Core, BornInv
<1>2. ConnAt(c, "open", t) /\ conn[c].pc = "found" /\ conn[c].st = t
  BY DEF CountConn
<1>3. obj' = [obj EXCEPT ![t] = Stop(obj[t], obj[t].active + 1)]
  BY DEF CountConn
<1>4. UNCHANGED <<expiry, entries, vipStates, fired>>
  BY DEF CountConn
<1> HIDE DEF t
<1>5. obj' \in [State -> Object]
  BY <1>1, <1>3 DEF Stop, Object, TypeOK
<1>6. conn' \in [Conn -> ConnState] /\ ConnLocal'
  BY <1>1, <1>2, ConnAtFacts DEF TypeOK
<1>7. /\ obj'[t].timer = 0 /\ obj'[t].active = obj[t].active + 1
      /\ obj'[t].vip = obj[t].vip /\ obj'[t].keys = obj[t].keys
      /\ \A s \in State : s # t => obj'[s] = obj[s]
  BY <1>1, <1>3 DEF Stop, TypeOK
<1>8. ActiveCountExact'
  <2> SUFFICES ASSUME NEW s \in State
               PROVE  obj'[s].active = Cardinality(Holders(s)')
    BY DEF ActiveCountExact
  <2>1. CASE s = t
    <3>1. Holders(s)' = Holders(s) \cup {c} /\ c \notin Holders(s)
      BY <1>2, <2>1 DEF ConnAt, Holders, TypeOK
    <3>2. Cardinality(Holders(s)') = Cardinality(Holders(s)) + 1
      BY <3>1, HoldersFinite, FS_AddElement
    <3> QED BY <1>7, <2>1, <3>2 DEF Core, ActiveCountExact
  <2>2. CASE s # t
    <3>1. Holders(s)' = Holders(s)
      BY <1>2, <2>2 DEF ConnAt, Holders, TypeOK
    <3> QED BY <1>7, <2>2, <3>1 DEF Core, ActiveCountExact
  <2> QED BY <2>1, <2>2
<1>9. PausedWhileActive'
  BY <1>7 DEF Core, PausedWhileActive
<1>10. IdleVIPWillExpire'
  BY <1>1, <1>4, <1>7 DEF Core, IdleVIPWillExpire, TypeOK
<1>11. ListenersTracked'
  BY <1>1, <1>4, <1>7 DEF Core, ListenersTracked, TypeOK
<1>12. FiledInv'
  BY <1>1, <1>4, <1>7 DEF Core, FiledInv, TypeOK
<1>13. BornInv'
  BY <1>1, <1>2, <1>7 DEF ConnAt, Core, BornInv, TypeOK, ConnState
<1> QED BY <1>5, <1>6, <1>8, <1>9, <1>10, <1>11, <1>12, <1>13 DEF Core

\* handleConn returns: the object it counted itself on loses one connection,
\* and gets its timer back with the last one.
LEMMA CloseConnStep ==
    ASSUME TypeOK, Core, ConnLocal, NEW c \in Conn, CloseConn(c)
    PROVE  /\ obj' \in [State -> Object] /\ conn' \in [Conn -> ConnState]
           /\ ConnLocal' /\ Core'
<1> DEFINE t == conn[c].st
<1>1. ConnAt(c, "closed", t) /\ conn[c].pc = "open" /\ conn[c].st = t
  BY DEF CloseConn
<1>2. UNCHANGED <<expiry, entries, vipStates, fired>>
  BY DEF CloseConn
<1>3. t \in State \cup {NoState}
  BY DEF TypeOK, ConnState
<1>4. conn' \in [Conn -> ConnState] /\ ConnLocal'
  BY <1>1, <1>3, ConnAtFacts DEF TypeOK
<1>5. \A s \in State : s # t => Holders(s)' = Holders(s)
  BY <1>1 DEF ConnAt, Holders, TypeOK
<1>6. \A d \in Conn : conn'[d].st = conn[d].st
  BY <1>1 DEF ConnAt, TypeOK
<1>7. CASE t = NoState
  <2>1. obj' = obj
    BY <1>7 DEF CloseConn
  <2>2. ActiveCountExact' /\ BornInv'
    BY <1>5, <1>6, <1>7, <2>1, ForwardAssumption DEF Core, ActiveCountExact, BornInv
  <2> QED BY <1>2, <1>4, <2>1, <2>2 DEF Core, TypeOK, PausedWhileActive,
             IdleVIPWillExpire, ListenersTracked, FiledInv
<1>8. CASE t # NoState
  <2>1. t \in State /\ obj[t] \in Object /\ obj[t].active \in Nat /\ obj[t].vip \in Vip
    BY <1>3, <1>8 DEF TypeOK, Object, Core, BornInv
  <2>2. obj' = [obj EXCEPT ![t] = Uncounted(obj[t])]
    BY <1>8 DEF CloseConn
  <2>3. \A s \in State : s = t => c \in Holders(s) /\ Holders(s)' = Holders(s) \ {c}
    BY <1>1 DEF ConnAt, Holders, TypeOK
  <2>4. \A s \in State : s = t => Cardinality(Holders(s)') = Cardinality(Holders(s)) - 1
    BY <2>3, HoldersFinite, FS_RemoveElement
  <2>5. Cardinality(Holders(t)) # 0
    BY <2>1, <2>3, HoldersFinite, FS_EmptySet
  <2> HIDE DEF t
  <2>6. obj[t].active > 0 /\ obj[t].timer = 0
    <3>1. obj[t].active # 0
      BY <2>1, <2>5 DEF Core, ActiveCountExact
    <3> QED BY <2>1, <3>1 DEF Core, PausedWhileActive
  <2>7. /\ Uncounted(obj[t]) \in Object
        /\ Uncounted(obj[t]).vip = obj[t].vip /\ Uncounted(obj[t]).keys = obj[t].keys
        /\ Uncounted(obj[t]).active = obj[t].active - 1
        /\ Uncounted(obj[t]).active > 0 => Uncounted(obj[t]).timer = 0
        /\ Uncounted(obj[t]).active = 0 => Uncounted(obj[t]).timer = Uncounted(obj[t]).generation
    BY <2>1, <2>6, UncountedFacts
  <2>8. obj' \in [State -> Object]
    BY <2>1, <2>2, <2>7 DEF TypeOK
  <2>9. obj'[t] = Uncounted(obj[t]) /\ \A s \in State : s # t => obj'[s] = obj[s]
    BY <2>1, <2>2 DEF TypeOK
  <2>10. ActiveCountExact'
    <3> SUFFICES ASSUME NEW s \in State
                 PROVE  obj'[s].active = Cardinality(Holders(s)')
      BY DEF ActiveCountExact
    <3>1. CASE s = t
      BY <2>4, <2>7, <2>9, <3>1 DEF Core, ActiveCountExact
    <3>2. CASE s # t
      <4>1. Holders(s)' = Holders(s)
        BY <1>5, <3>2
      <4> QED BY <2>9, <3>2, <4>1 DEF Core, ActiveCountExact
    <3> QED BY <3>1, <3>2
  <2>11. PausedWhileActive'
    BY <2>1, <2>6, <2>7, <2>9 DEF Core, PausedWhileActive
  <2>12. IdleVIPWillExpire'
    BY <1>2, <2>1, <2>7, <2>9 DEF Core, IdleVIPWillExpire, TypeOK
  <2>13. ListenersTracked'
    BY <1>2, <2>1, <2>7, <2>9 DEF Core, ListenersTracked, TypeOK
  <2>14. FiledInv'
    BY <1>2, <2>1, <2>7, <2>9 DEF Core, FiledInv, TypeOK
  <2>15. BornInv'
    BY <1>6, <2>1, <2>7, <2>9 DEF Core, BornInv, TypeOK, ConnState
  <2> QED BY <1>4, <2>8, <2>10, <2>11, <2>12, <2>13, <2>14, <2>15 DEF Core
<1> QED BY <1>7, <1>8

\* A shutdown removes whole VIPs: their objects with all their listeners.
LEMMA TearDownStep ==
    ASSUME TypeOK, Core, NEW vips \in SUBSET Vip, TearDown(vips),
           UNCHANGED <<expiry, fired, conn>>
    PROVE  /\ obj' \in [State -> Object]
           /\ entries' \in [Key -> {"absent", "open", "dead"}]
           /\ vipStates' \in [Vip -> State \cup {NoState}]
           /\ Core'
<1>1. /\ entries' = [k \in Key |-> IF k[1] \in vips THEN "absent" ELSE entries[k]]
      /\ vipStates' = [v \in Vip |-> IF v \in vips THEN NoState ELSE vipStates[v]]
  BY DEF TearDown
<1>2. \A s \in State :
        /\ obj'[s] \in Object
        /\ obj'[s].vip = obj[s].vip /\ obj'[s].keys = obj[s].keys
        /\ obj'[s].active = obj[s].active /\ obj'[s].generation = obj[s].generation
        /\ obj'[s].timer \in {0, obj[s].timer}
        /\ (\A v \in vips : vipStates[v] # s) => obj'[s].timer = obj[s].timer
  BY DEF TearDown, Stop, Object, TypeOK
<1>3. obj' \in [State -> Object]
  BY <1>2 DEF TearDown
<1>4. /\ entries' \in [Key -> {"absent", "open", "dead"}]
      /\ vipStates' \in [Vip -> State \cup {NoState}]
  BY <1>1 DEF TypeOK
<1>5. ActiveCountExact' /\ PausedWhileActive'
  BY <1>2 DEF Core, ActiveCountExact, Holders, PausedWhileActive
<1>6. FiledInv'
  BY <1>1, <1>2 DEF Core, FiledInv, TypeOK
<1>7. BornInv'
  BY <1>2 DEF Core, BornInv, TypeOK, ConnState
<1>8. IdleVIPWillExpire'
  <2> SUFFICES ASSUME NEW v \in Vip, vipStates'[v] # NoState,
                      obj'[vipStates'[v]].active = 0
               PROVE  \/ obj'[vipStates'[v]].timer = obj'[vipStates'[v]].generation
                      \/ [vip |-> v, gen |-> obj'[vipStates'[v]].generation,
                          src |-> vipStates'[v]] \in fired'
    BY DEF IdleVIPWillExpire
  <2>1. v \notin vips /\ vipStates'[v] = vipStates[v] /\ vipStates[v] \in State
    BY <1>1 DEF TypeOK
  <2>2. \A w \in vips : vipStates[w] # vipStates[v]
    BY <2>1, ForwardAssumption DEF Core, FiledInv
  <2> QED BY <1>2, <2>1, <2>2 DEF Core, IdleVIPWillExpire
<1>9. ListenersTracked'
  <2> SUFFICES ASSUME NEW w \in Vip
               PROVE  LET l == {j \in Key : j[1] = w /\ entries'[j] # "absent"} IN
                      IF vipStates'[w] = NoState THEN expiry' => l = {}
                      ELSE l # {} /\ l = obj'[vipStates'[w]].keys
    BY DEF ListenersTracked
  <2>1. CASE w \in vips
    BY <1>1, <2>1
  <2>2. CASE w \notin vips
    <3>1. {j \in Key : j[1] = w /\ entries'[j] # "absent"}
            = {j \in Key : j[1] = w /\ entries[j] # "absent"}
      BY <1>1, <2>2
    <3>2. vipStates'[w] = vipStates[w]
      BY <1>1, <2>2
    <3>3. vipStates[w] # NoState => obj'[vipStates[w]].keys = obj[vipStates[w]].keys
      BY <1>2 DEF TypeOK
    <3> QED BY <3>1, <3>2, <3>3 DEF Core, ListenersTracked
  <2> QED BY <2>1, <2>2
<1> QED BY <1>3, <1>4, <1>5, <1>6, <1>7, <1>8, <1>9 DEF Core

-----------------------------------------------------------------------------
\* A query's step keeps the invariant.
LEMMA QueryStepInv ==
    ASSUME IInv, NEW q \in Query, QueryStep(q)
    PROVE  IInv'
<1> USE DEF IInv
<1>0. /\ query \in [Query -> QueryState] /\ query[q] \in QueryState
      /\ query[q].port \in Port \cup {NoPort}
  BY DEF TypeOK, QueryState
<1>1. CASE TouchVIP(q)
  <2>1. query[q].vip \in Vip
    BY <1>1 DEF TouchVIP, QueryLocal
  <2>2. obj' \in [State -> Object] /\ Core'
    BY <1>1, <2>1, TouchStep DEF TouchVIP
  <2>3. query' \in [Query -> QueryState] /\ QueryLocal'
    BY <1>0, <1>1, QueryAtFacts DEF TouchVIP
  <2> QED BY <1>1, <2>2, <2>3 DEF TouchVIP, TypeOK, ConnLocal
<1>2. CASE Listen(q) \/ ListenFails(q)
  <2>1. Core'
    BY <1>2, QuietStep DEF Listen, ListenFails
  <2>2. query' \in [Query -> QueryState] /\ QueryLocal'
    <3>1. CASE Listen(q)
      <4>1. query[q].vip \in Vip /\ query[q].port \in Port
        BY <3>1 DEF Listen, QueryLocal
      <4> QED BY <1>0, <3>1, <4>1, QueryAtFacts DEF Listen
    <3>2. CASE ListenFails(q)
      BY <1>0, <3>2, QueryAtFacts DEF ListenFails
    <3> QED BY <1>2, <3>1, <3>2
  <2> QED BY <1>2, <2>1, <2>2 DEF Listen, ListenFails, TypeOK, ConnLocal
<1>3. ASSUME NEW p \in Port, StartHit(q, p)
      PROVE  IInv'
  <2>1. query[q].vip \in Vip
    BY <1>3 DEF StartHit, QueryLocal
  <2>2. obj' \in [State -> Object] /\ Core'
    BY <1>3, <2>1, TouchStep DEF StartHit
  <2>3. query' \in [Query -> QueryState] /\ QueryLocal'
    BY <1>0, <1>3, <2>1, StartedFacts DEF StartHit
  <2> QED BY <1>3, <2>2, <2>3 DEF StartHit, TypeOK, ConnLocal
<1>4. ASSUME NEW p \in Port, StartMiss(q, p)
      PROVE  IInv'
  <2>1. query[q].vip \in Vip
    BY <1>4 DEF StartMiss, QueryLocal
  <2>2. Core'
    BY <1>4, QuietStep DEF StartMiss
  <2>3. query' \in [Query -> QueryState] /\ QueryLocal'
    BY <1>0, <1>4, <2>1, QueryAtFacts DEF StartMiss
  <2> QED BY <1>4, <2>2, <2>3 DEF StartMiss, TypeOK, ConnLocal
<1>5. ASSUME query[q].pc = "bound"
      PROVE  query[q].vip \in Vip /\ QueryKey(q) \in Key
  BY <1>5 DEF QueryLocal, QueryKey, Key
<1>6. CASE RegisterHit(q)
  <2>1. obj' \in [State -> Object] /\ Core'
    BY <1>5, <1>6, TouchStep DEF RegisterHit
  <2>2. query' \in [Query -> QueryState] /\ QueryLocal'
    BY <1>0, <1>5, <1>6, StartedFacts DEF RegisterHit
  <2> QED BY <1>6, <2>1, <2>2 DEF RegisterHit, TypeOK, ConnLocal
<1>7. CASE RegisterPlain(q)
  <2>1. Core'
    BY <1>5, <1>7, RegisterPlainStep DEF RegisterPlain
  <2>2. query' \in [Query -> QueryState] /\ QueryLocal'
    BY <1>0, <1>5, <1>7, StartedFacts DEF RegisterPlain
  <2> QED BY <1>5, <1>7, <2>1, <2>2 DEF RegisterPlain, TypeOK, ConnLocal
<1>8. CASE RegisterMore(q)
  <2>1. obj' \in [State -> Object] /\ Core'
    BY <1>8, RegisterMoreStep
  <2>2. query' \in [Query -> QueryState] /\ QueryLocal'
    BY <1>0, <1>5, <1>8, StartedFacts DEF RegisterMore
  <2> QED BY <1>5, <1>8, <2>1, <2>2 DEF RegisterMore, TypeOK, ConnLocal
<1>9. ASSUME NEW s \in State, RegisterFirst(q, s)
      PROVE  IInv'
  <2>1. obj' \in [State -> Object] /\ Core'
    BY <1>9, RegisterFirstStep
  <2>2. query' \in [Query -> QueryState] /\ QueryLocal'
    BY <1>0, <1>5, <1>9, StartedFacts DEF RegisterFirst
  <2>3. /\ entries' \in [Key -> {"absent", "open", "dead"}]
        /\ vipStates' \in [Vip -> State \cup {NoState}]
    BY <1>5, <1>9 DEF RegisterFirst, TypeOK
  <2>4. UNCHANGED <<expiry, fired, releasing, alloc, conn, stopped>>
    BY <1>9 DEF RegisterFirst
  <2> QED BY <2>1, <2>2, <2>3, <2>4 DEF TypeOK, ConnLocal
<1> QED BY <1>1, <1>2, <1>3, <1>4, <1>6, <1>7, <1>8, <1>9 DEF QueryStep

\* The invariant is inductive.
LEMMA InvStep ==
    ASSUME IInv, [Next]_vars
    PROVE  IInv'
<1> USE DEF IInv
<1>1. ASSUME NEW q \in Query, NEW v \in Vip, Lookup(q, v) \/ Allocate(q, v)
      PROVE  IInv'
  <2>1. Core'
    BY <1>1, QuietStep DEF Lookup, Allocate
  <2>2. query' \in [Query -> QueryState] /\ QueryLocal'
    BY <1>1 DEF Lookup, Allocate, TypeOK, QueryState, QueryLocal
  <2> QED BY <1>1, <2>1, <2>2 DEF Lookup, Allocate, TypeOK, ConnLocal
<1>2. ASSUME NEW s \in State, TimerFires(s)
      PROVE  IInv'
  BY <1>2, TimerFiresStep DEF TimerFires, TypeOK, QueryLocal, ConnLocal
<1>3. ASSUME NEW f \in fired, ExpireAborts(f)
      PROVE  IInv'
  BY <1>3, ExpireAbortsStep DEF ExpireAborts, TypeOK, QueryLocal, ConnLocal
<1>4. ASSUME NEW f \in fired, ExpireVIP(f)
      PROVE  IInv'
  <2>1. UNCHANGED <<expiry, obj, alloc, query, conn, stopped>>
    BY <1>4 DEF ExpireVIP
  <2> QED BY <1>4, <2>1, ExpireVIPStep DEF TypeOK, QueryLocal, ConnLocal
<1>5. ASSUME NEW v \in Vip, ReleaseVIP(v)
      PROVE  IInv'
  BY <1>5, QuietStep DEF ReleaseVIP, TypeOK, QueryLocal, ConnLocal
<1>6. ASSUME NEW c \in Conn, NEW k \in Key, Accept(c, k)
      PROVE  IInv'
  BY <1>6, AcceptStep DEF Accept, TypeOK, QueryLocal
<1>7. ASSUME NEW k \in Key, AcceptError(k)
      PROVE  IInv'
  BY <1>7, AcceptErrorStep DEF AcceptError, TypeOK, QueryLocal, ConnLocal
<1>8. ASSUME NEW c \in Conn, ConnStep(c)
      PROVE  IInv'
  <2>1. UNCHANGED <<expiry, entries, vipStates, fired, releasing, alloc, query, stopped>>
    BY <1>8 DEF ConnStep, FindState, CountConn, CloseConn
  <2>2. obj' \in [State -> Object]
    BY <1>8, CountConnStep, CloseConnStep DEF ConnStep, FindState, TypeOK
  <2>3. conn' \in [Conn -> ConnState] /\ ConnLocal' /\ Core'
    BY <1>8, FindStateStep, CountConnStep, CloseConnStep DEF ConnStep
  <2> QED BY <2>1, <2>2, <2>3 DEF TypeOK, QueryLocal
<1>9. ASSUME NEW x \in Context, ShutdownContext(x)
      PROVE  IInv'
  <2> DEFINE vips == {v \in Vip : ContextOf[v] = x
                                  /\ \E p \in Port : entries[<<v, p>>] # "absent"}
  <2>1. /\ TearDown(vips) /\ vips \in SUBSET Vip
        /\ releasing' = releasing \cup vips
        /\ UNCHANGED <<expiry, fired, alloc, query, conn, stopped>>
    BY <1>9 DEF ShutdownContext
  <2> HIDE DEF vips
  <2> QED BY <2>1, TearDownStep DEF TypeOK, QueryLocal, ConnLocal
<1>10. CASE Shutdown
  <2>1. TearDown(Vip) /\ UNCHANGED <<expiry, fired, releasing, alloc, query, conn>>
        /\ stopped' \in BOOLEAN
    BY <1>10 DEF Shutdown
  <2> QED BY <2>1, TearDownStep DEF TypeOK, QueryLocal, ConnLocal
<1>11. CASE UNCHANGED vars
  BY <1>11, QuietStep DEF vars, TypeOK, QueryLocal, ConnLocal
<1> QED
  BY <1>1, <1>2, <1>3, <1>4, <1>5, <1>6, <1>7, <1>8, <1>9, <1>10, <1>11,
     QueryStepInv DEF Next, Expire

\* The invariant holds of the initial states.
LEMMA InvInit ==
    ASSUME Init
    PROVE  IInv
<1> USE DEF Init
<1>1. TypeOK
  BY DEF TypeOK, Unborn, NewObject, Object, QueryState, ConnState
<1>2. ActiveCountExact
  <2>1. \A s : Holders(s) = {}
    BY DEF Holders
  <2> QED BY <2>1, FS_EmptySet DEF ActiveCountExact, Unborn, NewObject
<1>3. PausedWhileActive /\ IdleVIPWillExpire /\ ListenersTracked /\ FiledInv /\ BornInv
  BY DEF PausedWhileActive, IdleVIPWillExpire, ListenersTracked, FiledInv,
         BornInv, Unborn, NewObject
<1>4. QueryLocal /\ ConnLocal
  BY DEF QueryLocal, ConnLocal
<1> QED BY <1>1, <1>2, <1>3, <1>4 DEF IInv, Core

\* The inductive invariant holds of every reachable state.
THEOREM Invariance == Spec => []IInv
BY InvInit, InvStep, PTL DEF Spec

\* Every reachable state is well typed; no connection count goes negative.
THEOREM TypeCorrect == Spec => []TypeOK
BY Invariance, PTL DEF IInv

\* activeConns is exactly the number of connections that hold the object.
THEOREM CountsAreExact == Spec => []ActiveCountExact
BY Invariance, PTL DEF IInv, Core

\* No timer is pending on an object that connections hold.
THEOREM ActivePauses == Spec => []PausedWhileActive
BY Invariance, PTL DEF IInv, Core

\* An idle VIP always has its expiry pending or under way.
THEOREM ExpiryNeverLost == Spec => []IdleVIPWillExpire
BY Invariance, PTL DEF IInv, Core

\* Listeners and vipStates agree.
THEOREM MapsAgree == Spec => []ListenersTracked
BY Invariance, PTL DEF IInv, Core

-----------------------------------------------------------------------------
(* An allocated VIP is never forgotten. *)

\* Query q is still on its way to a forward of VIP v, or failed to listen.
Starting(q, v) ==
    query[q].vip = v /\ query[q].pc \in {"start", "listen", "bound", "error"}

\* With expiry on, a registered listener's VIP has a vipState.
LEMMA EntryHasState ==
    ASSUME IInv, expiry, NEW v \in Vip, NEW p \in Port,
           entries[<<v, p>>] # "absent"
    PROVE  vipStates[v] # NoState
<1>1. <<v, p>> \in {k \in Key : k[1] = v /\ entries[k] # "absent"}
  BY DEF Key
<1> QED BY <1>1 DEF IInv, Core, ListenersTracked

\* A query's step only matters to its own VIP, which it may leave to a
\* vipState or to another query.
LEMMA QueryLeavesToOther ==
    ASSUME AllocatedNeverForgotten, query \in [Query -> QueryState],
           NEW q \in Query, NEW v \in Vip, query[q].vip = v,
           UNCHANGED <<expiry, releasing, alloc, stopped>>,
           \A r \in Query : r # q => query'[r] = query[r],
           \A w \in Vip : w # v => vipStates'[w] = vipStates[w],
           expiry => vipStates'[v] # NoState \/ \E r \in Query : Starting(r, v)'
    PROVE  AllocatedNeverForgotten'
<1> SUFFICES ASSUME NEW w \in Vip, expiry, ~stopped, alloc[w] = "assigned"
             PROVE  \/ vipStates'[w] # NoState \/ w \in releasing
                    \/ \E r \in Query : Starting(r, w)'
  BY DEF AllocatedNeverForgotten, Starting
<1>1. CASE w = v
  BY <1>1
<1>2. CASE w # v
  <2>1. ASSUME NEW r \in Query, Starting(r, w)
        PROVE  Starting(r, w)'
    <3>1. r # q
      BY <1>2, <2>1 DEF Starting
    <3>2. query'[r] = query[r]
      BY <3>1
    <3> QED BY <2>1, <3>2 DEF Starting
  <2> QED BY <1>2, <2>1 DEF AllocatedNeverForgotten, Starting
<1> QED BY <1>1, <1>2

\* The record of a query after its step.
LEMMA QueryRecord ==
    ASSUME query \in [Query -> QueryState], NEW q \in Query
    PROVE  /\ \A pc, p : QueryAt(q, pc, p) =>
                /\ query'[q].vip = query[q].vip /\ query'[q].pc = pc
                /\ \A r \in Query : r # q => query'[r] = query[r]
           /\ \A p : Started(q, p) =>
                /\ query'[q].vip = query[q].vip
                /\ \A r \in Query : r # q => query'[r] = query[r]
BY DEF QueryAt, Started

\* Every step of a query leaves its VIP in somebody's care.
LEMMA QueryStepCares ==
    ASSUME IInv, AllocatedNeverForgotten, NEW q \in Query, QueryStep(q)
    PROVE  AllocatedNeverForgotten'
<1> PICK v : v = query[q].vip
  OBVIOUS
<1>0. query \in [Query -> QueryState]
  BY DEF IInv, TypeOK
<1>1. UNCHANGED <<expiry, releasing, alloc, stopped>>
  BY DEF QueryStep, TouchVIP, Listen, ListenFails, StartHit, StartMiss,
         RegisterHit, RegisterPlain, RegisterMore, RegisterFirst
<1>2. CASE TouchVIP(q)
  <2>1. UNCHANGED vipStates /\ query[q].pc = "touch"
        /\ \A r \in Query : r # q => query'[r] = query[r]
    BY <1>0, <1>2, QueryRecord DEF TouchVIP
  <2>2. \A r \in Query, w \in Vip : Starting(r, w) => Starting(r, w)'
    BY <2>1 DEF Starting
  <2> QED BY <1>1, <2>1, <2>2 DEF AllocatedNeverForgotten, Starting
<1>3. ASSUME query[q].pc \in {"start", "listen", "bound"}
      PROVE  v \in Vip
  BY <1>3 DEF IInv, QueryLocal
<1>4. ASSUME query[q].pc \in {"listen", "bound"}
      PROVE  QueryKey(q) = <<v, query[q].port>> /\ query[q].port \in Port
  BY <1>4 DEF IInv, QueryLocal, QueryKey
<1>5. ASSUME NEW p \in Port, StartMiss(q, p)
      PROVE  AllocatedNeverForgotten'
  <2>1. Starting(q, v)' /\ UNCHANGED vipStates
        /\ \A r \in Query : r # q => query'[r] = query[r]
    BY <1>0, <1>5, QueryRecord DEF StartMiss, Starting
  <2>2. v \in Vip
    BY <1>3, <1>5 DEF StartMiss
  <2> QED BY <1>0, <1>1, <2>1, <2>2, QueryLeavesToOther
<1>6. CASE Listen(q)
  <2>1. Starting(q, v)' /\ UNCHANGED vipStates
        /\ \A r \in Query : r # q => query'[r] = query[r]
    BY <1>0, <1>6, QueryRecord DEF Listen, Starting
  <2>2. v \in Vip
    BY <1>3, <1>6 DEF Listen
  <2> QED BY <1>0, <1>1, <2>1, <2>2, QueryLeavesToOther
<1>7. CASE ListenFails(q)
  <2>1. /\ query[q].pc = "listen" /\ UNCHANGED vipStates
        /\ query'[q].vip = v
        /\ query'[q].pc = IF InUse(QueryKey(q)) THEN "inuse" ELSE "error"
        /\ \A r \in Query : r # q => query'[r] = query[r]
    BY <1>0, <1>7, QueryRecord DEF ListenFails
  <2>2. v \in Vip
    BY <1>3, <2>1
  <2>3. expiry => vipStates'[v] # NoState \/ \E r \in Query : Starting(r, v)'
    <3>1. CASE ~InUse(QueryKey(q))
      BY <2>1, <3>1 DEF Starting
    <3>2. CASE entries[QueryKey(q)] = "open"
      BY <1>4, <2>1, <2>2, <3>2, EntryHasState
    <3>3. ASSUME NEW r \in Query, query[r].pc = "bound", QueryKey(r) = QueryKey(q)
          PROVE  Starting(r, v)'
      <4>1. r # q /\ query[r].vip = v
        BY <2>1, <3>3 DEF QueryKey
      <4>2. query'[r] = query[r]
        BY <2>1, <4>1
      <4> QED BY <3>3, <4>1, <4>2 DEF Starting
    <3> QED BY <3>1, <3>2, <3>3 DEF InUse
  <2> QED BY <1>0, <1>1, <2>1, <2>2, <2>3, QueryLeavesToOther
<1>8. ASSUME NEW p \in Port, StartHit(q, p)
      PROVE  AllocatedNeverForgotten'
  <2>1. /\ UNCHANGED vipStates /\ entries[<<v, p>>] # "absent"
        /\ \A r \in Query : r # q => query'[r] = query[r]
    BY <1>0, <1>8, QueryRecord DEF StartHit
  <2>2. v \in Vip
    BY <1>3, <1>8 DEF StartHit
  <2>3. expiry => vipStates'[v] # NoState
    BY <2>1, <2>2, EntryHasState
  <2> QED BY <1>0, <1>1, <2>1, <2>2, <2>3, QueryLeavesToOther
<1>9. CASE RegisterHit(q)
  <2>1. /\ UNCHANGED vipStates /\ entries[QueryKey(q)] # "absent"
        /\ query[q].pc = "bound"
        /\ \A r \in Query : r # q => query'[r] = query[r]
    BY <1>0, <1>9, QueryRecord DEF RegisterHit
  <2>2. v \in Vip
    BY <1>3, <2>1
  <2>3. expiry => vipStates'[v] # NoState
    BY <1>4, <2>1, <2>2, EntryHasState
  <2> QED BY <1>0, <1>1, <2>1, <2>2, <2>3, QueryLeavesToOther
<1>10. CASE RegisterPlain(q) \/ RegisterMore(q)
  <2>1. /\ UNCHANGED vipStates /\ query[q].pc = "bound"
        /\ expiry => vipStates[v] # NoState
        /\ \A r \in Query : r # q => query'[r] = query[r]
    BY <1>0, <1>10, QueryRecord DEF RegisterPlain, RegisterMore
  <2>2. v \in Vip
    BY <1>3, <2>1
  <2> QED BY <1>0, <1>1, <2>1, <2>2, QueryLeavesToOther
<1>11. ASSUME NEW s \in State, RegisterFirst(q, s)
       PROVE  AllocatedNeverForgotten'
  <2>1. /\ vipStates' = [vipStates EXCEPT ![v] = s] /\ query[q].pc = "bound"
        /\ \A r \in Query : r # q => query'[r] = query[r]
    BY <1>0, <1>11, QueryRecord DEF RegisterFirst
  <2>2. v \in Vip
    BY <1>3, <2>1
  <2>3. vipStates'[v] # NoState /\ \A w \in Vip : w # v => vipStates'[w] = vipStates[w]
    BY <2>1, <2>2, ForwardAssumption DEF IInv, TypeOK
  <2> QED BY <1>0, <1>1, <2>1, <2>2, <2>3, QueryLeavesToOther
<1> QED
  BY <1>2, <1>5, <1>6, <1>7, <1>8, <1>9, <1>10, <1>11 DEF QueryStep

\* So does every other step: what loses its vipState is being released.
LEMMA StepCares ==
    ASSUME IInv, AllocatedNeverForgotten, [Next]_vars
    PROVE  AllocatedNeverForgotten'
<1>1. ASSUME NEW q \in Query, NEW w \in Vip, Lookup(q, w) \/ Allocate(q, w)
      PROVE  AllocatedNeverForgotten'
  <2>1. /\ query[q].pc = "idle" /\ UNCHANGED <<expiry, vipStates, releasing, stopped>>
        /\ \A r \in Query : r # q => query'[r] = query[r]
        /\ \A v \in Vip : alloc'[v] # alloc[v] => v = w /\ Starting(q, w)'
    BY <1>1 DEF Lookup, Allocate, Starting, IInv, TypeOK
  <2>2. \A r \in Query, v \in Vip : Starting(r, v) => Starting(r, v)'
    BY <2>1 DEF Starting
  <2> QED BY <2>1, <2>2 DEF AllocatedNeverForgotten, Starting
<1>2. ASSUME NEW f \in fired, ExpireVIP(f)
      PROVE  AllocatedNeverForgotten'
  <2>1. /\ UNCHANGED <<expiry, alloc, query, stopped>>
        /\ vipStates' = [vipStates EXCEPT ![f.vip] = NoState]
        /\ releasing' = releasing \cup {f.vip}
    BY <1>2 DEF ExpireVIP
  <2>2. \A v \in Vip : v # f.vip => vipStates'[v] = vipStates[v]
    BY <2>1 DEF IInv, TypeOK
  <2> QED BY <2>1, <2>2 DEF AllocatedNeverForgotten
<1>3. ASSUME NEW v \in Vip, ReleaseVIP(v)
      PROVE  AllocatedNeverForgotten'
  <2>1. /\ UNCHANGED <<expiry, vipStates, query, stopped>>
        /\ releasing' = releasing \ {v}
        /\ alloc'[v] = "released" /\ \A w \in Vip : w # v => alloc'[w] = alloc[w]
    BY <1>3 DEF ReleaseVIP, IInv, TypeOK
  <2> QED BY <2>1 DEF AllocatedNeverForgotten
<1>4. ASSUME NEW x \in Context, ShutdownContext(x)
      PROVE  AllocatedNeverForgotten'
  <2> DEFINE vips == {v \in Vip : ContextOf[v] = x
                                  /\ \E p \in Port : entries[<<v, p>>] # "absent"}
  <2>1. /\ UNCHANGED <<expiry, alloc, query, stopped>>
        /\ releasing' = releasing \cup vips
        /\ vipStates' = [v \in Vip |-> IF v \in vips THEN NoState ELSE vipStates[v]]
    BY <1>4 DEF ShutdownContext, TearDown
  <2> HIDE DEF vips
  <2> QED BY <2>1 DEF AllocatedNeverForgotten
<1>5. CASE Shutdown
  BY <1>5 DEF Shutdown, AllocatedNeverForgotten
<1>6. ASSUME UNCHANGED <<expiry, vipStates, releasing, alloc, query, stopped>>
      PROVE  AllocatedNeverForgotten'
  BY <1>6 DEF AllocatedNeverForgotten
<1> QED
  BY <1>1, <1>2, <1>3, <1>4, <1>5, <1>6, QueryStepCares
     DEF Next, Expire, ConnStep, TimerFires, ExpireAborts, Accept, AcceptError,
         FindState, CountConn, CloseConn, vars

\* With expiry on, an allocated VIP always has a vipState, a ReleaseVIP or a
\* query that answers for it, or a net.Listen failed for it.
THEOREM NeverForgotten == Spec => []AllocatedNeverForgotten
<1>1. Init => AllocatedNeverForgotten
  BY DEF Init, AllocatedNeverForgotten
<1>2. IInv /\ AllocatedNeverForgotten /\ [Next]_vars => AllocatedNeverForgotten'
  BY StepCares
<1> QED BY <1>1, <1>2, Invariance, PTL DEF Spec

-----------------------------------------------------------------------------
(* The manager implements IdleForward: every step is one of its steps or   *)
(* leaves everything it mentions alone.                                    *)

\* A step that leaves the listeners, the holders of the filed objects and the
\* released VIPs alone is a stuttering step of IdleForward.
LEMMA Stutters ==
    ASSUME UNCHANGED <<expiry, releasing, stopped>>,
           Serving' = Serving, Held' = Held, Given' = Given
    PROVE  UNCHANGED Idle!fvars
BY DEF Idle!fvars

\* The holders only depend on the connections and on m.vipStates.
LEMMA HeldSame ==
    ASSUME UNCHANGED <<vipStates, conn>>
    PROVE  Held' = Held
BY DEF Held, Holders

\* A VIP is served when it has an entry, and when it has a vipState.
LEMMA ServedFacts ==
    ASSUME IInv, NEW v \in Vip
    PROVE  /\ Idle!Served(v) <=> \E p \in Port : entries[<<v, p>>] # "absent"
           /\ vipStates[v] # NoState => Idle!Served(v) /\ expiry
<1>1. Idle!Served(v) <=> \E p \in Port : entries[<<v, p>>] # "absent"
  BY DEF Idle!Served, Serving, Key
<1>2. ASSUME vipStates[v] # NoState
      PROVE  Idle!Served(v) /\ expiry
  <2>1. PICK k \in Key : k[1] = v /\ entries[k] # "absent"
    BY <1>2 DEF IInv, Core, ListenersTracked
  <2>2. k = <<v, k[2]>> /\ k[2] \in Port
    BY <2>1 DEF Key
  <2>3. entries[<<v, k[2]>>] # "absent"
    BY <2>1, <2>2
  <2> QED BY <1>1, <1>2, <2>2, <2>3 DEF IInv, Core, FiledInv
<1> QED BY <1>1, <1>2

\* A new listener: a further port is served.
LEMMA RegisterServes ==
    ASSUME IInv, NEW q \in Query,
           \/ RegisterPlain(q) \/ RegisterMore(q)
           \/ \E s \in State : RegisterFirst(q, s)
    PROVE  Idle!FNext
<1> PICK v, p : v = query[q].vip /\ p = query[q].port
  OBVIOUS
<1>1. v \in Vip /\ p \in Port /\ QueryKey(q) = <<v, p>> /\ <<v, p>> \in Key
  BY DEF RegisterPlain, RegisterMore, RegisterFirst, IInv, QueryLocal, QueryKey, Key
<1>2. /\ entries[<<v, p>>] = "absent" /\ entries' = [entries EXCEPT ![<<v, p>>] = "open"]
      /\ UNCHANGED <<expiry, releasing, alloc, conn, stopped>>
  BY <1>1 DEF RegisterPlain, RegisterMore, RegisterFirst
<1>3. <<v, p>> \notin Serving /\ Serving' = Serving \cup {<<v, p>>}
  BY <1>1, <1>2 DEF Serving, IInv, TypeOK
<1>4. Held' = Held
  <2>1. CASE RegisterPlain(q) \/ RegisterMore(q)
    BY <2>1, HeldSame DEF RegisterPlain, RegisterMore
  <2>2. ASSUME NEW s \in State, RegisterFirst(q, s)
        PROVE  Held' = Held
    <3>1. vipStates' = [vipStates EXCEPT ![v] = s] /\ vipStates[v] = NoState /\ obj[s].vip = NoVip
      BY <2>2 DEF RegisterFirst
    <3>2. \A c \in Conn : conn[c].st # s
      BY <3>1, ForwardAssumption DEF IInv, Core, BornInv
    <3>3. \A t : Holders(t)' = Holders(t)
      BY <1>2 DEF Holders
    <3>4. Holders(s) = {}
      BY <3>2 DEF Holders
    <3>5. \A w \in Vip : vipStates'[w] = IF w = v THEN s ELSE vipStates[w]
      BY <3>1 DEF IInv, TypeOK
    <3> QED BY <3>1, <3>3, <3>4, <3>5 DEF Held
  <2> QED BY <2>1, <2>2
<1>5. Given' = Given
  BY <1>2 DEF Given
<1>6. Idle!Serve(v, p)
  BY <1>2, <1>3, <1>4, <1>5 DEF Idle!Serve
<1> QED BY <1>1, <1>6 DEF Idle!FNext

\* expireVIP: the VIP is idle and loses all its listeners.
LEMMA ExpireExpires ==
    ASSUME IInv, NEW f \in fired, ExpireVIP(f)
    PROVE  Idle!FNext
<1> PICK v : v = f.vip
  OBVIOUS
<1> PICK t : t = vipStates[v]
  OBVIOUS
<1>1. v \in Vip /\ t \in State /\ t # NoState /\ obj[t].active <= 0
  BY DEF ExpireVIP, Current, IInv, TypeOK, Callback
<1>2. /\ entries' = [k \in Key |-> IF k \in obj[t].keys THEN "absent" ELSE entries[k]]
      /\ vipStates' = [vipStates EXCEPT ![v] = NoState]
      /\ releasing' = releasing \cup {v}
      /\ UNCHANGED <<expiry, alloc, conn, stopped>>
  BY DEF ExpireVIP
<1>3. obj[t].keys = {k \in Key : k[1] = v /\ entries[k] # "absent"}
  BY <1>1 DEF IInv, Core, ListenersTracked
<1>4. Serving' = {k \in Serving : k[1] \notin {v}}
  BY <1>2, <1>3 DEF Serving
<1>5. Holders(t) = {}
  <2>1. obj[t].active \in Nat /\ obj[t].active = Cardinality(Holders(t))
    BY <1>1 DEF IInv, TypeOK, Object, Core, ActiveCountExact
  <2>2. Cardinality(Holders(t)) = 0
    BY <1>1, <2>1
  <2> QED BY <2>2, HoldersFinite, FS_EmptySet
<1>6. Held[v] = {}
  BY <1>1, <1>5 DEF Held
<1>7. Held' = [w \in Vip |-> IF w \in {v} THEN {} ELSE Held[w]]
  <2>1. \A s : Holders(s)' = Holders(s)
    BY <1>2 DEF Holders
  <2>2. \A w \in Vip : vipStates'[w] = IF w = v THEN NoState ELSE vipStates[w]
    BY <1>2 DEF IInv, TypeOK
  <2> QED BY <2>1, <2>2 DEF Held
<1>8. Given' = Given
  BY <1>2 DEF Given
<1>9. expiry /\ Idle!Served(v)
  BY <1>1, ServedFacts
<1>10. Idle!Expire(v)
  BY <1>2, <1>4, <1>6, <1>7, <1>8, <1>9 DEF Idle!Expire, Idle!CloseAll
<1> QED BY <1>1, <1>10 DEF Idle!FNext

\* The object a counting connection found is filed under at most one VIP.
LEMMA FiledOnce ==
    ASSUME IInv, NEW v \in Vip, NEW w \in Vip, vipStates[v] # NoState,
           vipStates[w] = vipStates[v]
    PROVE  w = v
BY DEF IInv, Core, FiledInv

\* A connection counts itself, or takes itself off: it enters or leaves the
\* VIP its object is filed under, if it still is.
LEMMA ConnEntersOrLeaves ==
    ASSUME IInv, NEW c \in Conn, ConnStep(c)
    PROVE  Idle!FNext \/ UNCHANGED Idle!fvars
<1> PICK t : t = conn[c].st
  OBVIOUS
<1>1. UNCHANGED <<expiry, entries, vipStates, releasing, alloc, stopped>>
  BY DEF ConnStep, FindState, CountConn, CloseConn
<1>2. Serving' = Serving /\ Given' = Given
  BY <1>1 DEF Serving, Given
<1>3. conn \in [Conn -> ConnState] /\ vipStates \in [Vip -> State \cup {NoState}]
  BY DEF IInv, TypeOK
<1>4. CASE FindState(c)
  <2>1. \A s \in State : Holders(s)' = Holders(s)
    BY <1>3, <1>4, ForwardAssumption DEF FindState, ConnAt, Holders
  <2>2. Held' = Held
    BY <1>1, <1>3, <2>1 DEF Held
  <2> QED BY <1>1, <1>2, <2>2, Stutters
<1>5. ASSUME CountConn(c) \/ CloseConn(c)
      PROVE  /\ conn' = [conn EXCEPT ![c] = [pc |-> conn'[c].pc, key |-> conn[c].key, st |-> t]]
             /\ CountConn(c) => conn'[c].pc = "open"
             /\ CloseConn(c) => conn'[c].pc = "closed"
  BY <1>3, <1>5 DEF CountConn, CloseConn, ConnAt
<1>6. ASSUME CountConn(c) \/ CloseConn(c), \A v \in Vip : vipStates[v] # NoState => vipStates[v] # t
      PROVE  UNCHANGED Idle!fvars
  <2>1. \A s \in State : s # t => Holders(s)' = Holders(s)
    BY <1>3, <1>5, <1>6 DEF Holders
  <2>2. Held' = Held
    BY <1>1, <1>3, <1>6, <2>1 DEF Held
  <2> QED BY <1>1, <1>2, <2>2, Stutters
<1>7. ASSUME CountConn(c) \/ CloseConn(c), NEW v \in Vip, vipStates[v] # NoState, vipStates[v] = t
      PROVE  Idle!Enter(v, c) \/ Idle!Leave(v, c)
  <2>1. \A s \in State : s # t => Holders(s)' = Holders(s)
    BY <1>3, <1>5, <1>7 DEF Holders
  <2>2. \A w \in Vip : w # v => vipStates[w] # t
    BY <1>7, FiledOnce
  <2>3. \A w \in Vip : w # v => Held'[w] = Held[w]
    BY <1>1, <1>3, <2>1, <2>2 DEF Held
  <2>4. Held[v] = Holders(t) /\ Held'[v] = Holders(t)'
    BY <1>1, <1>7 DEF Held
  <2>5. ASSUME NEW S, Holders(t)' = S
        PROVE  Held' = [Held EXCEPT ![v] = S]
    BY <2>3, <2>4, <2>5 DEF Held
  <2>6. CASE CountConn(c)
    <3>1. conn[c].pc = "found" /\ conn'[c].pc = "open"
      BY <1>5, <2>6 DEF CountConn
    <3>2. Holders(t)' = Held[v] \cup {c}
      BY <1>3, <1>5, <2>4, <2>6, <3>1 DEF Holders
    <3>3. \A w \in Vip : c \notin Held[w]
      BY <3>1 DEF Held, Holders
    <3>4. Held' = [Held EXCEPT ![v] = Held[v] \cup {c}]
      BY <2>5, <3>2
    <3>5. expiry /\ Idle!Served(v)
      BY <1>7, ServedFacts
    <3> QED BY <1>1, <1>2, <3>3, <3>4, <3>5 DEF Idle!Enter
  <2>7. CASE CloseConn(c)
    <3>1. conn[c].pc = "open" /\ conn'[c].pc = "closed"
      BY <1>5, <2>7 DEF CloseConn
    <3>2. Holders(t)' = Held[v] \ {c} /\ c \in Held[v]
      BY <1>3, <1>5, <2>4, <2>7, <3>1 DEF Holders
    <3>3. Held' = [Held EXCEPT ![v] = Held[v] \ {c}]
      BY <2>5, <3>2
    <3> QED BY <1>1, <1>2, <3>2, <3>3 DEF Idle!Leave
  <2> QED BY <1>7, <2>6, <2>7
<1> QED BY <1>4, <1>6, <1>7 DEF ConnStep, Idle!FNext

\* A shutdown closes exactly the VIPs it tears down.
LEMMA TearDownCloses ==
    ASSUME IInv, NEW vips \in SUBSET Vip, TearDown(vips), UNCHANGED conn
    PROVE  Idle!CloseAll(vips)
<1>1. Serving' = {k \in Serving : k[1] \notin vips}
  BY DEF TearDown, Serving
<1>2. \A s : Holders(s)' = Holders(s)
  BY DEF Holders
<1>3. Held' = [v \in Vip |-> IF v \in vips THEN {} ELSE Held[v]]
  BY <1>2 DEF TearDown, Held
<1> QED BY <1>1, <1>3 DEF Idle!CloseAll

\* Every step of the manager is a step of IdleForward or a stutter.
LEMMA StepRefines ==
    ASSUME IInv, [Next]_vars
    PROVE  [Idle!FNext]_(Idle!fvars)
<1>1. ASSUME UNCHANGED <<expiry, vipStates, releasing, conn, stopped>>,
             Serving' = Serving, Given' = Given
      PROVE  UNCHANGED Idle!fvars
  BY <1>1, HeldSame, Stutters
<1>2. ASSUME UNCHANGED <<expiry, entries, vipStates, releasing, alloc, conn, stopped>>
      PROVE  UNCHANGED Idle!fvars
  BY <1>1, <1>2 DEF Serving, Given
<1>3. ASSUME NEW q \in Query, NEW v \in Vip, Lookup(q, v) \/ Allocate(q, v)
      PROVE  UNCHANGED Idle!fvars
  <2>1. UNCHANGED <<expiry, entries, vipStates, releasing, conn, stopped>>
    BY <1>3 DEF Lookup, Allocate
  <2>2. Serving' = Serving
    BY <2>1 DEF Serving
  <2>3. Given' = Given
    BY <1>3 DEF Lookup, Allocate, Given, IInv, TypeOK
  <2> QED BY <1>1, <2>1, <2>2, <2>3
<1>4. ASSUME NEW q \in Query, QueryStep(q)
      PROVE  [Idle!FNext]_(Idle!fvars)
  BY <1>2, <1>4, RegisterServes
     DEF QueryStep, TouchVIP, Listen, ListenFails, StartHit, StartMiss, RegisterHit
<1>5. ASSUME NEW v \in Vip, ReleaseVIP(v)
      PROVE  Idle!FNext
  <2>1. /\ v \in releasing /\ releasing' = releasing \ {v}
        /\ UNCHANGED <<expiry, entries, vipStates, conn, stopped>>
        /\ Given' = Given \cup {v}
    BY <1>5 DEF ReleaseVIP, Given, IInv, TypeOK
  <2>2. Serving' = Serving
    BY <2>1 DEF Serving
  <2>3. Held' = Held
    BY <2>1, HeldSame
  <2>4. Idle!GiveBack(v)
    BY <2>1, <2>2, <2>3 DEF Idle!GiveBack
  <2> QED BY <2>4 DEF Idle!FNext
<1>6. ASSUME NEW c \in Conn, NEW k \in Key, Accept(c, k)
      PROVE  UNCHANGED Idle!fvars
  <2>1. \A s : Holders(s)' = Holders(s)
    BY <1>6 DEF Accept, Holders, IInv, TypeOK
  <2>2. UNCHANGED <<expiry, entries, vipStates, releasing, alloc, stopped>>
    BY <1>6 DEF Accept
  <2>3. Held' = Held /\ Serving' = Serving /\ Given' = Given
    BY <2>1, <2>2 DEF Held, Serving, Given
  <2> QED BY <2>2, <2>3, Stutters
<1>7. ASSUME NEW k \in Key, AcceptError(k)
      PROVE  UNCHANGED Idle!fvars
  <2>1. Serving' = Serving /\ Given' = Given
    BY <1>7 DEF AcceptError, Serving, Given, IInv, TypeOK
  <2> QED BY <1>1, <1>7, <2>1 DEF AcceptError
<1>8. ASSUME NEW x \in Context, ShutdownContext(x)
      PROVE  Idle!FNext
  <2> DEFINE vips == {v \in Vip : ContextOf[v] = x
                                  /\ \E p \in Port : entries[<<v, p>>] # "absent"}
  <2>1. /\ vips # {} /\ TearDown(vips) /\ vips \in SUBSET Vip
        /\ releasing' = releasing \cup vips
        /\ UNCHANGED <<expiry, alloc, conn, stopped>>
    BY <1>8 DEF ShutdownContext
  <2>2. vips = {v \in Vip : ContextOf[v] = x /\ Idle!Served(v)}
    BY ServedFacts
  <2> HIDE DEF vips
  <2>3. Idle!CloseAll(vips)
    BY <2>1, TearDownCloses
  <2>4. Given' = Given
    BY <2>1 DEF Given
  <2>5. Idle!DropContext(x)
    BY <2>1, <2>2, <2>3, <2>4 DEF Idle!DropContext
  <2> QED BY <2>5 DEF Idle!FNext
<1>9. CASE Shutdown
  <2>1. ~stopped /\ stopped' = TRUE /\ TearDown(Vip)
        /\ UNCHANGED <<expiry, releasing, alloc, conn>>
    BY <1>9 DEF Shutdown
  <2>2. Idle!CloseAll(Vip)
    BY <2>1, TearDownCloses
  <2>3. Given' = Given
    BY <2>1 DEF Given
  <2>4. Idle!StopAll
    BY <2>1, <2>2, <2>3 DEF Idle!StopAll
  <2> QED BY <2>4 DEF Idle!FNext
<1> QED
  BY <1>2, <1>3, <1>4, <1>5, <1>6, <1>7, <1>8, <1>9, ExpireExpires, ConnEntersOrLeaves
     DEF Next, Expire, TimerFires, ExpireAborts, vars

\* ForwardManager implements IdleForward.
THEOREM Refinement == Spec => ImplementsIdleForward
<1>1. Init => Idle!FInit
  BY DEF Init, Idle!FInit, Serving, Held, Given
<1>2. IInv /\ [Next]_vars => [Idle!FNext]_(Idle!fvars)
  BY StepRefines
<1> QED BY <1>1, <1>2, Invariance, PTL DEF Spec, ImplementsIdleForward, Idle!FSpec
=============================================================================
