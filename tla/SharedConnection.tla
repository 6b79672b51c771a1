-------------------------- MODULE SharedConnection --------------------------
(***************************************************************************)
(* What the SPDY pool promises its dialers, without reference counts,      *)
(* mutex, retries and deferred closes: a dial joins the live connection of *)
(* its pod or opens the only one that is pooled for it, and a live         *)
(* connection leaves the pool only when nobody uses it, when one of its    *)
(* own users found that it refuses streams, or with its context.           *)
(***************************************************************************)
CONSTANTS
    Key, Context, Dialer, ConnId, NoConn,
    ContextOf    \* the context of a key

VARIABLES
    pooled,      \* the connection dials for a key share
    born,        \* connections that were opened
    live,        \* connections that are up
    users        \* the dials and streams that use each connection

svars == <<pooled, born, live, users>>

SInit ==
    /\ pooled = [k \in Key |-> NoConn]
    /\ born = {} /\ live = {}
    /\ users = [e \in ConnId |-> {}]

\* A dial uses one connection at a time.
Free(d) == \A e \in ConnId : d \notin users[e]

Open(d, k, e) ==
    /\ Free(d)
    /\ pooled[k] = NoConn
    /\ e \notin born
    /\ pooled' = [pooled EXCEPT ![k] = e]
    /\ born' = born \cup {e} /\ live' = live \cup {e}
    /\ users' = [users EXCEPT ![e] = {d}]

Join(d, k) ==
    /\ Free(d)
    /\ pooled[k] \in live
    /\ users' = [users EXCEPT ![pooled[k]] = users[pooled[k]] \cup {d}]
    /\ UNCHANGED <<pooled, born, live>>

Leave(d, e) ==
    /\ d \in users[e]
    /\ users' = [users EXCEPT ![e] = users[e] \ {d}]
    /\ UNCHANGED <<pooled, born, live>>

\* A connection that is down or that nobody uses leaves the pool.
Retire(k) ==
    /\ pooled[k] # NoConn
    /\ pooled[k] \notin live \/ users[pooled[k]] = {}
    /\ pooled' = [pooled EXCEPT ![k] = NoConn]
    /\ UNCHANGED <<born, live, users>>

\* A user gives a connection up, and takes it out of the pool for everybody.
Evict(d, e) ==
    /\ d \in users[e]
    /\ pooled' = [k \in Key |-> IF pooled[k] = e THEN NoConn ELSE pooled[k]]
    /\ users' = [users EXCEPT ![e] = users[e] \ {d}]
    /\ UNCHANGED <<born, live>>

\* A connection goes down, by itself or because it is closed.
GoDown(e) ==
    /\ e \in live
    /\ live' = live \ {e}
    /\ UNCHANGED <<pooled, born, users>>

\* The pooled connections of some keys are closed together.
Drop(keys) ==
    /\ live' = {e \in live : \A k \in keys : pooled[k] # e}
    /\ pooled' = [k \in Key |-> IF k \in keys THEN NoConn ELSE pooled[k]]
    /\ UNCHANGED <<born, users>>

SNext ==
    \/ \E d \in Dialer, k \in Key : Join(d, k) \/ \E e \in ConnId : Open(d, k, e)
    \/ \E d \in Dialer, e \in ConnId : Leave(d, e) \/ Evict(d, e)
    \/ \E k \in Key : Retire(k)
    \/ \E e \in ConnId : GoDown(e)
    \/ \E x \in Context : Drop({k \in Key : ContextOf[k] = x})
    \/ Drop(Key)

SSpec == SInit /\ [][SNext]_svars
=============================================================================
