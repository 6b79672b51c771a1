---------------------------- MODULE ClusterHost ----------------------------
(***************************************************************************)
(* internal/proxy/cluster.go and its three users: the SOCKS5 dialer, the   *)
(* DNS server's routing of questions, and the SRV targets it answers with. *)
(*                                                                         *)
(* A host name is the sequence of its labels, split at every dot; a        *)
(* trailing dot is an empty last label.  The functions of the code look    *)
(* for "." + clusterDomain and for "." + clusterDomain + ".", which in a   *)
(* string can only begin and end where a label does, so that matching on   *)
(* labels is exact.                                                        *)
(*                                                                         *)
(* A client spells a name label by label, gives it to the SOCKS5 proxy, to *)
(* the DNS server or to both, and may go on with the name an SRV record    *)
(* answered.                                                               *)
(***************************************************************************)
EXTENDS Integers, Sequences

CONSTANTS
    Label,       \* labels of host names
    Empty,       \* the label with no characters
    Domain,      \* clusterDomain, as labels
    Context,     \* names of the contexts that have a client, as labels
    Current,     \* name of the current context; it may have no client
    MaxLabels    \* bound on the length of what a client spells

n == Len(Domain)

\* A domain is not a shift by one or two labels of itself: if it were, a name
\* could be read in two ways (x.y.local.local under "local").  The default,
\* svc.cluster.local, is not.
ASSUME HostAssumption ==
    /\ Empty \in Label
    /\ Domain \in Seq(Label \ {Empty})
    /\ \E i \in 1 .. n - 1 : Domain[i] # Domain[i + 1]
    /\ \E i \in 1 .. n - 2 : Domain[i] # Domain[i + 2]
    /\ \A x \in Context : x \in Seq(Label \ {Empty}) /\ x # << >>
    /\ MaxLabels \in Nat

VARIABLES
    host,        \* the name the client holds
    socks, dns,  \* what became of it at the SOCKS5 proxy and the DNS server
    dialled, asked,  \* contexts in which they look for it
    origin       \* history: the name and context whose SRV target it is

vars == <<host, socks, dns, dialled, asked, origin>>

\* The five results of ParseClusterHost.
NoName == [ok |-> FALSE, pod |-> Empty, svc |-> Empty, ns |-> Empty, ctx |-> Empty]

Name == [ok : {TRUE}, pod : Label, svc : Label, ns : Label, ctx : Label]

-----------------------------------------------------------------------------
\* "." + clusterDomain is in the host, after i labels.
At(h, i) == /\ 1 <= i /\ i + n <= Len(h)
            /\ \A j \in 1 .. n : h[i + j] = Domain[j]

\* strings.HasSuffix(host, "." + clusterDomain)
HasSuffix(h) == At(h, Len(h) - n)

\* Where "." + clusterDomain + "." is in the host.
Occurs(h) == {i \in 1 .. Len(h) : At(h, i) /\ i + n < Len(h)}

\* strings.Index and strings.LastIndex of it.
Index(h) == CHOOSE i \in Occurs(h) : \A j \in Occurs(h) : i <= j

LastIndex(h) == CHOOSE i \in Occurs(h) : \A j \in Occurs(h) : j <= i

\* What follows the domain at i is one label, and not empty.
OneLabelAfter(h, i) == i + n + 1 = Len(h) /\ h[Len(h)] # Empty

\* Mutant: only bare names are cluster hosts.
IsClusterHost_BareOnly(h) == HasSuffix(h)

\* IsClusterHost
IsClusterHost(h) ==
    \/ HasSuffix(h)
    \/ At(h, Len(h) - n - 1) /\ h[Len(h)] = Empty
    \/ Occurs(h) # {} /\ OneLabelAfter(h, Index(h))

\* Mutant: the last labels of a longer prefix are taken.
Parts_AnyDepth(h, p, x) ==
    IF p < 2 THEN NoName
    ELSE [ok |-> TRUE, pod |-> IF p = 2 THEN Empty ELSE h[p - 2], svc |-> h[p - 1],
          ns |-> h[p], ctx |-> x]

\* The first p labels as [<pod>.]<service>.<namespace>.
Parts(h, p, x) ==
    IF p \notin {2, 3} THEN NoName
    ELSE [ok |-> TRUE, pod |-> IF p = 2 THEN Empty ELSE h[1], svc |-> h[p - 1],
          ns |-> h[p], ctx |-> x]

\* ParseClusterHost
ParseClusterHost(h) ==
    IF HasSuffix(h) THEN Parts(h, Len(h) - n, Empty)
    ELSE IF Occurs(h) # {} /\ OneLabelAfter(h, LastIndex(h))
         THEN Parts(h, LastIndex(h), h[Len(h)])
         ELSE NoName

\* A name with no empty label.
Plain(h) == \A i \in DOMAIN h : h[i] # Empty

\* strings.TrimSuffix(host, ".")
Trim(h) == IF Len(h) > 1 /\ h[Len(h)] = Empty THEN SubSeq(h, 1, Len(h) - 1) ELSE h

\* Mutant: a context the name has already is kept.
contextFQDN_Append(h, x) == Trim(h) \o x \o <<Empty>>

\* contextFQDN
contextFQDN(h, x) ==
    LET base == Trim(h)
        bare == IF ParseClusterHost(base).ctx # Empty
                THEN SubSeq(base, 1, Len(base) - 1) ELSE base
    IN  bare \o x \o <<Empty>>

-----------------------------------------------------------------------------
Outcome == [to : {"none", "direct", "refused"}, name : {NoName}]
             \cup [to : {"cluster"}, name : Name]

NoOutcome == [to |-> "none", name |-> NoName]

NoOrigin == [name |-> NoName, ctx |-> << >>]

Init ==
    /\ host = << >>
    /\ socks = NoOutcome
    /\ dns = NoOutcome
    /\ dialled = {} /\ asked = {}
    /\ origin = NoOrigin

\* The client adds a label.
Spell(l) ==
    /\ Len(host) < MaxLabels
    /\ socks.to = "none" /\ dns.to = "none" /\ origin = NoOrigin
    /\ host' = Append(host, l)
    /\ UNCHANGED <<socks, dns, dialled, asked, origin>>

\* dialCluster: the service of the name, or an error.
dialCluster(h) ==
    LET name == ParseClusterHost(Trim(h)) IN
    [to |-> IF name.ok THEN "cluster" ELSE "refused", name |-> name]

\* DialPortForward looks for a name without a context in the current one.
SocksContexts(name) ==
    IF ~name.ok THEN {}
    ELSE Context \cap (IF name.ctx = Empty THEN {Current} ELSE {<<name.ctx>>})

\* A CONNECT request: the resolver leaves cluster hosts to dial, which calls
\* dialCluster for them; any other host is looked up and dialled directly.
SocksDial ==
    /\ host # << >>
    /\ socks.to = "none"
    /\ socks' = IF IsClusterHost(host) THEN dialCluster(host)
                ELSE [to |-> "direct", name |-> NoName]
    /\ dialled' = SocksContexts(socks'.name)
    /\ UNCHANGED <<host, dns, asked, origin>>

\* resolveA looks for a name without a context in every one.
DnsContexts(name) ==
    IF ~name.ok THEN {}
    ELSE IF name.ctx = Empty THEN Context ELSE Context \cap {<<name.ctx>>}

\* The mux: names in clusterDomain, itself included, go to handleCluster.
MuxMatches(h) == Len(h) >= n /\ \A j \in 1 .. n : h[Len(h) - n + j] = Domain[j]

\* A question of type A, TXT or SRV.  Names in a DNS message have no empty
\* labels and a trailing dot, whether the client wrote it or not.  What the
\* mux leaves to handleDefault is a cluster name if it has a context, and is
\* sent upstream otherwise; handleCluster refuses (NXDOMAIN) what it cannot
\* parse.
Ask ==
    LET h == Trim(host)
        name == ParseClusterHost(h)
    IN  /\ host # << >> /\ Plain(h)
        /\ dns.to = "none"
        /\ dns' = IF MuxMatches(h) \/ (name.ok /\ name.ctx # Empty)
                  THEN [to |-> IF name.ok THEN "cluster" ELSE "refused", name |-> name]
                  ELSE [to |-> "direct", name |-> NoName]
        /\ asked' = DnsContexts(dns'.name)
        /\ UNCHANGED <<host, socks, dialled, origin>>

\* The client goes on with the SRV target of the answer for context x.
Follow(x) ==
    /\ x \in asked
    /\ host' = contextFQDN(host, x)
    /\ origin' = [name |-> dns.name, ctx |-> x]
    /\ socks' = NoOutcome /\ dialled' = {}
    /\ dns' = NoOutcome /\ asked' = {}

Next ==
    \/ \E l \in Label : Spell(l)
    \/ SocksDial
    \/ Ask
    \/ \E x \in Context : Follow(x)

Spec == Init /\ [][Next]_vars

-----------------------------------------------------------------------------
\* Every name is spelt with labels, and what is treated as a cluster name is
\* one that was parsed.
TypeOK ==
    /\ host \in Seq(Label)
    /\ socks \in Outcome
    /\ dns \in Outcome
    /\ dialled \subseteq Context /\ asked \subseteq Context
    /\ origin \in [name : Name \cup {NoName}, ctx : Context \cup {<< >>}]

\* How a service or pod of a context, or of no particular one, is written.
Spelling(m) ==
    (IF m.pod = Empty THEN << >> ELSE <<m.pod>>) \o <<m.svc, m.ns>> \o Domain
      \o (IF m.ctx = Empty THEN << >> ELSE <<m.ctx>>)

\* A DNS question is taken for the one service, pod and context that are
\* written like its name, and for none if there is none, although the labels
\* of the domain may be those of a service or a context too (the accepted
\* formats of ParseClusterHost, behind the mux and handleDefault).
ParseExact ==
    dns.to # "none" =>
        \A m \in {r \in Name : r.svc # Empty /\ r.ns # Empty} :
            (Spelling(m) = Trim(host)) <=> (dns = [to |-> "cluster", name |-> m])

\* If the SOCKS5 proxy or the DNS server takes a name for a service or pod,
\* both take it for the same one, although IsClusterHost looks for the first
\* occurrence of the domain and ParseClusterHost for the last.  They look for
\* it in the same context if the name has one; if not, what the proxy looks for
\* in the current context is among what the DNS server answers, which asks all
\* contexts.  A name with a context and a trailing dot is left out: the proxy
\* dials that one directly.
RoutesAgree ==
    /\ socks.to # "none" /\ dns.to # "none"
    /\ socks.to = "cluster" \/ dns.to = "cluster"
    /\ Plain(host) \/ dns.name.ctx = Empty
    => /\ socks = dns
       /\ dialled \subseteq asked
       /\ dns.name.ctx # Empty => dialled = asked

\* The target of an SRV record leads to the service it was answered for, in
\* the context it was answered for, and only there; a context whose name has
\* dots cannot be reached by its target, and the target leads nowhere else.
TargetLeadsBack ==
    (origin # NoOrigin /\ dns.to # "none") =>
        IF Len(origin.ctx) = 1
        THEN /\ dns = [to |-> "cluster", name |-> [origin.name EXCEPT !.ctx = origin.ctx[1]]]
             /\ asked = {origin.ctx}
        ELSE dns.to # "cluster"
=============================================================================
