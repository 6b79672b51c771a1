---------------------------- MODULE MCKubeconfig ----------------------------
(* Small instances of Kubeconfig for TLC. *)
EXTENDS Kubeconfig, TLC

CONSTANTS x1, x2, k1, u1, s1, s2, a1, a2

\* A kubeconfig with the entries of partial maps.
Kube(clusters, contexts, users, current) ==
    [clusters |-> [n \in Cluster |-> IF n \in DOMAIN clusters THEN clusters[n] ELSE None],
     contexts |-> [n \in Context |-> IF n \in DOMAIN contexts THEN contexts[n] ELSE None],
     users    |-> [n \in User |-> IF n \in DOMAIN users THEN users[n] ELSE None],
     current  |-> current]

On(k, u) == [cluster |-> k, user |-> u]

\* A context; new credentials for its user; and the old ones again, together
\* with a current context that is missing.
First == Kube(k1 :> s1, x1 :> On(k1, u1), u1 :> a1, None)
Renewed == Kube(<<>>, <<>>, u1 :> a2, x1)
Dangling == Kube(<<>>, <<>>, u1 :> a1, x2)

\* The file has the context, on another server.
OnDisk == Kube(k1 :> s2, x1 :> On(k1, u1), u1 :> a1, x1)

Replaced == {First, Renewed}
Credentials == {Renewed, Dangling}
OneFile == {OnDisk}
BadFile == {OnDisk, Unreadable}

Symmetry == Permutations(Client)
=============================================================================
