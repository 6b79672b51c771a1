------------------------------ MODULE SpdyPool ------------------------------
(***************************************************************************)
(* internal/k8s/forward_manager.go, the SPDY side: DialPortForward, the    *)
(* pool of SPDY connections shared by the streams to one pod, their        *)
(* reference counts, and what ShutdownContext and Shutdown do to the pool. *)
(*                                                                         *)
(* A dialer is one call of DialPortForward together with the streamConn it *)
(* returns.  spdyPoolMu is held for the whole of acquirePoolEntry, the     *)
(* dial included; reference counts are decremented without it, and         *)
(* connections are closed without it.  A connection may go down at any     *)
(* moment.                                                                 *)
(***************************************************************************)
EXTENDS Integers, FiniteSets

CONSTANTS
    Key,         \* spdyKey: context, namespace and pod
    Context,     \* kubeconfig contexts
    ContextOf,   \* the context of a key
    Dialer,      \* calls of DialPortForward, each of which runs once
    ConnId,      \* identities of SPDY connections (and of their poolEntry)
    NoKey, NoConn, NoDialer,
    MaxConfig    \* bound: how often the kubeconfig of a context is replaced

ASSUME PoolAssumption ==
    /\ ContextOf \in [Key -> Context]
    /\ NoKey \notin Key /\ NoConn \notin ConnId /\ NoDialer \notin Dialer
    /\ IsFiniteSet(Dialer)
    /\ MaxConfig \in Nat

VARIABLES
    pool,       \* m.spdyPool
    spdy,       \* the pool entries, also those no longer in the pool
    dialer,     \* the calls of DialPortForward and their streams
    holder,     \* who dials with spdyPoolMu held
    config,     \* version of each context's REST config in the ClientManager
    outdated    \* contexts replaced whose ShutdownContext has not come yet

vars == <<pool, spdy, dialer, holder, config, outdated>>

\* A poolEntry: refs, whether its connection is up (CloseChan open), and the
\* version of the REST config it was dialled with.
Entry == [key : Key \cup {NoKey}, refs : Nat, status : {"unborn", "up", "down"},
          config : Nat]

PC == {"idle", "acquire", "dialing", "create", "evict", "close", "open",
       "release", "last", "closing", "failed", "done"}

DialerState == [pc : PC, key : Key \cup {NoKey}, entry : ConnId \cup {NoConn},
                config : Nat, retry : BOOLEAN]

Init ==
    /\ pool = [k \in Key |-> NoConn]
    /\ spdy = [e \in ConnId |-> [key |-> NoKey, refs |-> 0, status |-> "unborn", config |-> 0]]
    /\ dialer = [d \in Dialer |-> [pc |-> "idle", key |-> NoKey, entry |-> NoConn,
                                   config |-> 0, retry |-> FALSE]]
    /\ holder = NoDialer
    /\ config = [x \in Context |-> 0]
    /\ outdated = {}

\* Dialer d goes on at pc, with pool entry e.
DialerAt(d, pc, e) ==
    dialer' = [dialer EXCEPT ![d] =
                  [pc |-> pc, key |-> dialer[d].key, entry |-> e,
                   config |-> dialer[d].config, retry |-> dialer[d].retry]]

\* Entry e afterwards: its reference count and its connection.
EntryIs(e, refs, status) ==
    spdy' = [spdy EXCEPT ![e] = [key |-> spdy[e].key, refs |-> refs,
                                 status |-> status, config |-> spdy[e].config]]

Down(e) == IF spdy[e].status = "up" THEN "down" ELSE spdy[e].status

MutexFree == holder = NoDialer

-----------------------------------------------------------------------------
\* DialPortForward up to the pool: the REST config of the context is read,
\* then the service is resolved and a pod picked, which takes its time.
DialPortForward(d, k) ==
    /\ dialer[d].pc = "idle"
    /\ dialer' = [dialer EXCEPT ![d] =
                     [pc |-> "acquire", key |-> k, entry |-> NoConn,
                      config |-> config[ContextOf[k]], retry |-> FALSE]]
    /\ UNCHANGED <<pool, spdy, holder, config, outdated>>

\* The service cannot be resolved, has no endpoint or no such port: the call
\* fails before it looks at the pool.  The retry does not resolve again.
ResolveFails(d) ==
    /\ dialer[d].pc = "acquire"
    /\ ~dialer[d].retry
    /\ DialerAt(d, "failed", NoConn)
    /\ UNCHANGED <<pool, spdy, holder, config, outdated>>

\* Mutant: a reused connection is not counted.
Reuse_NoRef(d) ==
    LET e == pool[dialer[d].key] IN
    /\ dialer[d].pc = "acquire"
    /\ MutexFree
    /\ e # NoConn
    /\ spdy[e].status = "up"
    /\ DialerAt(d, "create", e)
    /\ UNCHANGED <<pool, spdy, holder, config, outdated>>

\* acquirePoolEntry finds a live connection and takes a reference.
Reuse(d) ==
    LET e == pool[dialer[d].key] IN
    /\ dialer[d].pc = "acquire"
    /\ MutexFree
    /\ e # NoConn
    /\ spdy[e].status = "up"
    /\ EntryIs(e, spdy[e].refs + 1, "up")
    /\ DialerAt(d, "create", e)
    /\ UNCHANGED <<pool, holder, config, outdated>>

\* acquirePoolEntry finds none, or a dead one, which it evicts; it starts to
\* dial and keeps the mutex.
StartDial(d) ==
    LET k == dialer[d].key IN
    /\ dialer[d].pc = "acquire"
    /\ MutexFree
    /\ pool[k] # NoConn => spdy[pool[k]].status = "down"
    /\ pool' = [pool EXCEPT ![k] = NoConn]
    /\ holder' = d
    /\ DialerAt(d, "dialing", NoConn)
    /\ UNCHANGED <<spdy, config, outdated>>

\* The dial succeeds: a new entry with one reference is pooled.
DialOk(d, e) ==
    /\ dialer[d].pc = "dialing"
    /\ spdy[e].status = "unborn"
    /\ spdy' = [spdy EXCEPT ![e] = [key |-> dialer[d].key, refs |-> 1, status |-> "up",
                                    config |-> dialer[d].config]]
    /\ pool' = [pool EXCEPT ![dialer[d].key] = e]
    /\ holder' = NoDialer
    /\ DialerAt(d, "create", e)
    /\ UNCHANGED <<config, outdated>>

\* The dial fails, and DialPortForward with it.
DialFails(d) ==
    /\ dialer[d].pc = "dialing"
    /\ holder' = NoDialer
    /\ DialerAt(d, "failed", NoConn)
    /\ UNCHANGED <<pool, spdy, config, outdated>>

\* createStreams opens the error and the data stream: a streamConn is returned.
CreateStreams(d) ==
    /\ dialer[d].pc = "create"
    /\ spdy[dialer[d].entry].status = "up"
    /\ DialerAt(d, "open", dialer[d].entry)
    /\ UNCHANGED <<pool, spdy, holder, config, outdated>>

\* Mutant: the second failure returns without giving its reference back.
CreateFails_NoRelease(d) ==
    /\ dialer[d].pc = "create"
    /\ DialerAt(d, IF dialer[d].retry THEN "failed" ELSE "evict", dialer[d].entry)
    /\ UNCHANGED <<pool, spdy, holder, config, outdated>>

\* Mutant: the streams are tried again on the same entry.
CreateFails_RetrySame(d) ==
    /\ dialer[d].pc = "create"
    /\ DialerAt(d, "create", dialer[d].entry)
    /\ UNCHANGED <<pool, spdy, holder, config, outdated>>

\* createStreams fails, on a dead connection or on a live one that refuses a
\* stream.  The first time the entry is evicted and the call retried; the
\* second time its reference is given back.
CreateFails(d) ==
    /\ dialer[d].pc = "create"
    /\ DialerAt(d, IF dialer[d].retry THEN "release" ELSE "evict", dialer[d].entry)
    /\ UNCHANGED <<pool, spdy, holder, config, outdated>>

\* After the first failure, under the mutex: the entry leaves the pool if it
\* is still there.
Evict(d) ==
    LET k == dialer[d].key IN
    /\ dialer[d].pc = "evict"
    /\ MutexFree
    /\ pool' = IF pool[k] = dialer[d].entry THEN [pool EXCEPT ![k] = NoConn] ELSE pool
    /\ DialerAt(d, "close", dialer[d].entry)
    /\ UNCHANGED <<spdy, holder, config, outdated>>

\* ... its connection is closed, and acquirePoolEntry is called again.
CloseEvicted(d) ==
    LET e == dialer[d].entry IN
    /\ dialer[d].pc = "close"
    /\ EntryIs(e, spdy[e].refs, Down(e))
    /\ dialer' = [dialer EXCEPT ![d] =
                     [pc |-> "acquire", key |-> dialer[d].key, entry |-> NoConn,
                      config |-> dialer[d].config, retry |-> TRUE]]
    /\ UNCHANGED <<pool, holder, config, outdated>>

\* The owner of the streamConn closes it (both streams are reset).
CloseStream(d) ==
    /\ dialer[d].pc = "open"
    /\ DialerAt(d, "release", dialer[d].entry)
    /\ UNCHANGED <<pool, spdy, holder, config, outdated>>

\* onClose, the atomic decrement; only the one that reaches zero goes on.
Release(d) ==
    LET e == dialer[d].entry IN
    /\ dialer[d].pc = "release"
    /\ EntryIs(e, spdy[e].refs - 1, spdy[e].status)
    /\ DialerAt(d, IF spdy[e].refs = 1 THEN "last" ELSE "done", e)
    /\ UNCHANGED <<pool, holder, config, outdated>>

\* Mutant: refs is not looked at again under the mutex.
Last_NoRecheck(d) ==
    LET shouldClose == pool[dialer[d].key] = dialer[d].entry IN
    /\ dialer[d].pc = "last"
    /\ MutexFree
    /\ pool' = IF shouldClose THEN [pool EXCEPT ![dialer[d].key] = NoConn] ELSE pool
    /\ DialerAt(d, IF shouldClose THEN "closing" ELSE "done", dialer[d].entry)
    /\ UNCHANGED <<spdy, holder, config, outdated>>

\* onClose, under the mutex: evict the entry if it is still the pooled one and
\* nobody took a reference since.
Last(d) ==
    LET e == dialer[d].entry
        shouldClose == pool[dialer[d].key] = e /\ spdy[e].refs = 0 IN
    /\ dialer[d].pc = "last"
    /\ MutexFree
    /\ pool' = IF shouldClose THEN [pool EXCEPT ![dialer[d].key] = NoConn] ELSE pool
    /\ DialerAt(d, IF shouldClose THEN "closing" ELSE "done", e)
    /\ UNCHANGED <<spdy, holder, config, outdated>>

\* onClose closes the connection it evicted.
CloseLast(d) ==
    LET e == dialer[d].entry IN
    /\ dialer[d].pc = "closing"
    /\ EntryIs(e, spdy[e].refs, Down(e))
    /\ DialerAt(d, "done", e)
    /\ UNCHANGED <<pool, holder, config, outdated>>

-----------------------------------------------------------------------------
\* The API server, the network or an idle limit ends a connection.
RemoteDrop(e) ==
    /\ spdy[e].status = "up"
    /\ EntryIs(e, spdy[e].refs, "down")
    /\ UNCHANGED <<pool, dialer, holder, config, outdated>>

\* The kubeconfig API replaces a context's cluster; its handler will call
\* ShutdownContext next.
Reconfigure(x) ==
    /\ config[x] < MaxConfig
    /\ config' = [config EXCEPT ![x] = config[x] + 1]
    /\ outdated' = outdated \cup {x}
    /\ UNCHANGED <<pool, spdy, dialer, holder>>

\* The pooled connections of some keys are closed and forgotten.
ClosePooled(keys) ==
    /\ MutexFree
    /\ spdy' = [e \in ConnId |->
                   IF \E k \in keys : pool[k] = e
                   THEN [key |-> spdy[e].key, refs |-> spdy[e].refs,
                         status |-> Down(e), config |-> spdy[e].config]
                   ELSE spdy[e]]
    /\ pool' = [k \in Key |-> IF k \in keys THEN NoConn ELSE pool[k]]
    /\ UNCHANGED <<dialer, holder, config>>

\* ShutdownContext, its last part.
ShutdownContext(x) ==
    /\ x \in outdated
    /\ ClosePooled({k \in Key : ContextOf[k] = x})
    /\ outdated' = outdated \ {x}

\* Shutdown, its last part.
Shutdown ==
    /\ \E k \in Key : pool[k] # NoConn
    /\ ClosePooled(Key)
    /\ UNCHANGED outdated

-----------------------------------------------------------------------------
DialerStep(d) ==
    \/ ResolveFails(d) \/ Reuse(d) \/ StartDial(d)
    \/ (\E e \in ConnId : DialOk(d, e)) \/ DialFails(d)
    \/ CreateStreams(d) \/ CreateFails(d) \/ Evict(d) \/ CloseEvicted(d)
    \/ CloseStream(d) \/ Release(d) \/ Last(d) \/ CloseLast(d)

Next ==
    \/ \E d \in Dialer, k \in Key : DialPortForward(d, k)
    \/ \E d \in Dialer : DialerStep(d)
    \/ \E e \in ConnId : RemoteDrop(e)
    \/ \E x \in Context : Reconfigure(x) \/ ShutdownContext(x)
    \/ Shutdown

Spec == Init /\ [][Next]_vars

\* The steps a dial takes by itself.  The others need not come: the API server
\* need not answer a dial (DialOk, DialFails), nor the caller close its stream.
OwnStep(d) ==
    \/ Reuse(d) \/ StartDial(d) \/ CreateStreams(d) \/ CreateFails(d)
    \/ Evict(d) \/ CloseEvicted(d) \/ Release(d) \/ Last(d) \/ CloseLast(d)

\* Goroutines run; createStreams has a timeout of its own in the SPDY library.
FairSpec == Spec /\ \A d \in Dialer : WF_vars(OwnStep(d))

-----------------------------------------------------------------------------
\* Every variable has the type its Go counterpart has; no reference count
\* becomes negative.
TypeOK ==
    /\ pool \in [Key -> ConnId \cup {NoConn}]
    /\ spdy \in [ConnId -> Entry]
    /\ dialer \in [Dialer -> DialerState]
    /\ holder \in Dialer \cup {NoDialer}
    /\ config \in [Context -> 0 .. MaxConfig]
    /\ outdated \in SUBSET Context

\* Dialers that hold a reference: they took one and have not given it back.
Referers(e) ==
    {d \in Dialer : dialer[d].entry = e /\ dialer[d].pc \in {"create", "evict", "open", "release"}}

\* The reference count of a pooled connection is the number of dials and
\* streams that use it, however acquisitions, failures and closes interleave.
PooledRefsExact ==
    \A k \in Key : pool[k] # NoConn =>
        spdy[pool[k]].refs = Cardinality(Referers(pool[k]))

\* A SPDY connection that is up is in somebody's hands: a stream, a dial, or a
\* goroutine about to close it.  None stays open with nobody left to close it.
NoLeakedConnection ==
    \A e \in ConnId : spdy[e].status = "up" =>
        \E d \in Dialer :
            /\ dialer[d].entry = e
            /\ dialer[d].pc \in {"create", "evict", "close", "open", "release", "last", "closing"}

\* A connection that onClose has decided to close is used by nobody else: the
\* second look at refs keeps a dial from getting a connection that is then
\* closed under it.
ClosedByLastOnly ==
    \A d, f \in Dialer :
        dialer[d].pc = "closing" /\ dialer[f].entry = dialer[d].entry /\ f # d
            => dialer[f].pc \notin {"create", "open"}

\* The connections that were dialled and those that are up, and who uses them.
Born  == {e \in ConnId : spdy[e].status # "unborn"}
Live  == {e \in ConnId : spdy[e].status = "up"}
Users == [e \in ConnId |-> Referers(e)]

Shared == INSTANCE SharedConnection WITH
              pooled <- pool, born <- Born, live <- Live, users <- Users

\* The pool implements SharedConnection: with the atomic counter, the second
\* look under the mutex, the retry and the closes that come late, a live
\* connection still leaves the pool only when no dial and no stream uses it,
\* by a user whose streams it refused, or with its context.
ImplementsSharedConnection == Shared!SSpec

\* Some dial never comes back.  dialer.Dial has no timeout and no context, and
\* keeps the mutex of the pool for as long as it lasts.
SomeDialHangs == \E d \in Dialer : <>[](dialer[d].pc = "dialing")

\* Only a dial that hangs keeps a DialPortForward from returning, with a stream
\* or an error: no other wait for the mutex, no retry and no late close does.
DialReturns ==
    \/ SomeDialHangs
    \/ \A d \in Dialer : dialer[d].pc = "acquire" ~> dialer[d].pc \in {"open", "failed", "done"}

-----------------------------------------------------------------------------
(* What a comment claims, and the code does not keep.                      *)

\* "giving the replaced cluster a clean slate on next use": once
\* ShutdownContext has run, no pooled connection of the context was dialled
\* with the replaced REST config.
CleanSlate ==
    \A k \in Key : pool[k] # NoConn /\ ContextOf[k] \notin outdated
        => spdy[pool[k]].config = config[ContextOf[k]]
=============================================================================
