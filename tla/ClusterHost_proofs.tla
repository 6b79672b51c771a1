------------------------ MODULE ClusterHost_proofs ------------------------
(***************************************************************************)
(* Proofs about ClusterHost, for every set of labels, every set of         *)
(* contexts and every cluster domain that is not a shift of itself.        *)
(***************************************************************************)
EXTENDS ClusterHost, WellFoundedInduction, SequenceTheorems, TLAPS

Service == {r \in Name : r.svc # Empty /\ r.ns # Empty}

\* How many labels come before and after the domain in a spelling.
Before(m) == IF m.pod = Empty THEN 2 ELSE 3
After(m) == IF m.ctx = Empty THEN 0 ELSE 1

\* The domain is a sequence of at least three labels.
LEMMA DomainType ==
    /\ Domain \in Seq(Label \ {Empty})
    /\ n \in Nat /\ n >= 3
    /\ DOMAIN Domain = 1 .. n
    /\ \A j \in 1 .. n : Domain[j] \in Label /\ Domain[j] # Empty
BY HostAssumption DEF n

\* The domain cannot occur at two places one or two labels apart.
LEMMA NoShift ==
    ASSUME NEW h, NEW i \in Nat
    PROVE  ~(At(h, i) /\ At(h, i + 1)) /\ ~(At(h, i) /\ At(h, i + 2))
<1>1. ~(At(h, i) /\ At(h, i + 1))
  <2>1. PICK k \in 1 .. n - 1 : Domain[k] # Domain[k + 1]
    BY HostAssumption
  <2>2. k \in 1 .. n /\ k + 1 \in 1 .. n /\ (i + 1) + k = i + (k + 1)
    BY DomainType
  <2> QED  BY <2>1, <2>2 DEF At
<1>2. ~(At(h, i) /\ At(h, i + 2))
  <2>1. PICK k \in 1 .. n - 2 : Domain[k] # Domain[k + 2]
    BY HostAssumption
  <2>2. k \in 1 .. n /\ k + 2 \in 1 .. n /\ (i + 2) + k = i + (k + 2)
    BY DomainType
  <2> QED  BY <2>1, <2>2 DEF At
<1> QED  BY <1>1, <1>2

\* A nonempty set of positions has a least and a greatest element, so that
\* Index and LastIndex are what they say.
LEMMA IndexIsFirst ==
    ASSUME NEW h \in Seq(Label), Occurs(h) # {}
    PROVE  Index(h) \in Occurs(h) /\ \A j \in Occurs(h) : Index(h) <= j
<1>1. Occurs(h) \subseteq Nat
  BY DEF Occurs
<1>2. PICK i \in Occurs(h) : \A j \in Occurs(h) : ~(<<j, i>> \in OpToRel(<, Nat))
  BY <1>1, NatLessThanWellFounded, WFMin
<1>3. \A j \in Occurs(h) : i <= j
  <2> TAKE j \in Occurs(h)
  <2>1. i \in Nat /\ j \in Nat
    BY <1>1
  <2>2. ~(j < i)
    BY <1>2, <2>1 DEF OpToRel
  <2> QED  BY <2>1, <2>2
<1> QED  BY <1>3 DEF Index

\* The same for the last occurrence.
LEMMA LastIndexIsLast ==
    ASSUME NEW h \in Seq(Label), Occurs(h) # {}
    PROVE  LastIndex(h) \in Occurs(h) /\ \A j \in Occurs(h) : j <= LastIndex(h)
<1> DEFINE T == {Len(h) - i : i \in Occurs(h)}
<1>1. T \subseteq Nat /\ T # {}
  BY DEF Occurs
<1>2. PICK t \in T : \A u \in T : ~(<<u, t>> \in OpToRel(<, Nat))
  BY <1>1, NatLessThanWellFounded, WFMin
<1>3. PICK i \in Occurs(h) : t = Len(h) - i
  OBVIOUS
<1>4. \A j \in Occurs(h) : j <= i
  <2> TAKE j \in Occurs(h)
  <2>1. i \in Nat /\ j \in Nat /\ Len(h) \in Nat
    BY DEF Occurs
  <2>2. Len(h) - j \in T /\ Len(h) - j \in Nat /\ t \in Nat
    BY <1>1
  <2>3. ~(Len(h) - j < t)
    BY <1>2, <2>2 DEF OpToRel
  <2> QED  BY <2>1, <2>3, <1>3
<1> QED  BY <1>4 DEF LastIndex

-----------------------------------------------------------------------------
\* What a spelling looks like, label by label.
LEMMA SpellingShape ==
    ASSUME NEW m \in Service
    PROVE  LET s == Spelling(m) IN
           /\ s \in Seq(Label)
           /\ Len(s) = Before(m) + n + After(m)
           /\ m.pod = Empty => s[1] = m.svc /\ s[2] = m.ns
           /\ m.pod # Empty => s[1] = m.pod /\ s[2] = m.svc /\ s[3] = m.ns
           /\ \A j \in 1 .. n : s[Before(m) + j] = Domain[j]
           /\ m.ctx # Empty => s[Before(m) + n + 1] = m.ctx
<1> DEFINE a == IF m.pod = Empty THEN << >> ELSE <<m.pod>>
           b == a \o <<m.svc, m.ns>>
           c == b \o Domain
           d == IF m.ctx = Empty THEN << >> ELSE <<m.ctx>>
           s == c \o d
<1>1. /\ m.pod \in Label /\ m.svc \in Label /\ m.ns \in Label /\ m.ctx \in Label
  BY DEF Service, Name
<1>2. /\ b \in Seq(Label) /\ Len(b) = Before(m)
      /\ m.pod = Empty => b[1] = m.svc /\ b[2] = m.ns
      /\ m.pod # Empty => b[1] = m.pod /\ b[2] = m.svc /\ b[3] = m.ns
  <2>1. CASE m.pod = Empty
    BY <1>1, <2>1 DEF Before
  <2>2. CASE m.pod # Empty
    BY <1>1, <2>2 DEF Before
  <2> QED  BY <2>1, <2>2
<1>3. Domain \in Seq(Label) /\ Len(Domain) = n /\ n \in Nat
  BY DomainType DEF n
<1>4. d \in Seq(Label) /\ Len(d) = After(m) /\ (m.ctx # Empty => d[1] = m.ctx)
  BY <1>1 DEF After
<1> HIDE DEF a, b, d
<1>5. /\ c \in Seq(Label) /\ Len(c) = Before(m) + n
      /\ \A i \in 1 .. Len(b) : c[i] = b[i]
      /\ \A j \in 1 .. n : c[Before(m) + j] = Domain[j]
  BY <1>2, <1>3
<1> HIDE DEF c
<1>6. /\ s \in Seq(Label) /\ Len(s) = Before(m) + n + After(m)
      /\ \A i \in 1 .. Len(c) : s[i] = c[i]
      /\ m.ctx # Empty => s[Len(c) + 1] = d[1]
  <2>1. Before(m) \in Nat /\ After(m) \in Nat /\ (m.ctx # Empty => After(m) = 1)
    BY DEF After, Before
  <2>2. /\ s \in Seq(Label) /\ Len(s) = Len(c) + Len(d)
        /\ \A i \in 1 .. Len(c) : s[i] = c[i]
    BY <1>4, <1>5
  <2>3. \A i \in 1 .. Len(d) : s[Len(c) + i] = d[i]
    BY <1>4, <1>5
  <2> QED  BY <2>1, <2>2, <2>3, <1>3, <1>4, <1>5
<1>7. Spelling(m) = s
  BY DEF Spelling, s, c, d, b, a
<1> HIDE DEF s
<1>8. \A j \in 1 .. n : s[Before(m) + j] = Domain[j]
  <2> TAKE j \in 1 .. n
  <2>1. Before(m) \in Nat /\ j \in Nat /\ 1 <= j /\ j <= n
    BY <1>3 DEF Before
  <2>2. Before(m) + j \in 1 .. Len(c)
    BY <1>3, <1>5, <2>1
  <2>3. s[Before(m) + j] = c[Before(m) + j]
    BY <1>6, <2>2
  <2> QED  BY <1>5, <2>3
<1>9. \A i \in 1 .. Before(m) : s[i] = b[i]
  <2> TAKE i \in 1 .. Before(m)
  <2>1. Before(m) \in Nat
    BY DEF Before
  <2>2. i \in 1 .. Len(c) /\ i \in 1 .. Len(b)
    BY <1>2, <1>3, <1>5, <2>1
  <2> QED  BY <1>5, <1>6, <2>2
<1> QED  BY <1>2, <1>3, <1>4, <1>5, <1>6, <1>7, <1>8, <1>9 DEF Before

\* ParseClusterHost reads a spelling as what it spells.
LEMMA ParseSpelling ==
    ASSUME NEW m \in Service
    PROVE  ParseClusterHost(Spelling(m)) = m
<1> DEFINE h == Spelling(m)
           p == Before(m)
<1>1. /\ h \in Seq(Label) /\ Len(h) = p + n + After(m)
      /\ m.pod = Empty => h[1] = m.svc /\ h[2] = m.ns
      /\ m.pod # Empty => h[1] = m.pod /\ h[2] = m.svc /\ h[3] = m.ns
      /\ \A j \in 1 .. n : h[p + j] = Domain[j]
      /\ m.ctx # Empty => h[p + n + 1] = m.ctx
  BY SpellingShape
<1>2. n \in Nat /\ n >= 3 /\ p \in {2, 3} /\ (p = 2 <=> m.pod = Empty)
  BY DomainType DEF Before
<1> HIDE DEF h
<1>3. At(h, p)
  BY <1>1, <1>2 DEF At, After
<1>m. m = [ok |-> TRUE, pod |-> m.pod, svc |-> m.svc, ns |-> m.ns, ctx |-> m.ctx]
  BY DEF Service, Name
<1>4. Parts(h, p, m.ctx) = m
  <2>1. CASE m.pod = Empty
    <3>1. p = 2 /\ h[p - 1] = m.svc /\ h[p] = m.ns
      BY <1>1, <1>2, <2>1
    <3> HIDE DEF p
    <3> QED  BY <3>1, <1>m, <2>1 DEF Parts
  <2>2. CASE m.pod # Empty
    <3>1. p = 3 /\ h[1] = m.pod /\ h[p - 1] = m.svc /\ h[p] = m.ns
      BY <1>1, <1>2, <2>2
    <3> HIDE DEF p
    <3> QED  BY <3>1, <1>m, <2>2 DEF Parts
  <2> QED  BY <2>1, <2>2
<1>5. CASE m.ctx = Empty
  <2>1. Len(h) - n = p
    BY <1>1, <1>2, <1>5 DEF After
  <2> QED  BY <2>1, <1>3, <1>4, <1>5 DEF ParseClusterHost, HasSuffix, h
<1>6. CASE m.ctx # Empty
  <2>1. Len(h) = p + n + 1 /\ Len(h) - n = p + 1
    BY <1>1, <1>2, <1>6 DEF After
  <2>2. ~HasSuffix(h)
    BY <2>1, <1>2, <1>3, NoShift DEF HasSuffix
  <2>3. p \in Occurs(h) /\ \A j \in Occurs(h) : j <= p
    BY <2>1, <1>2, <1>3 DEF Occurs
  <2>4. LastIndex(h) \in Occurs(h) /\ p <= LastIndex(h)
    BY <2>3, <1>1, LastIndexIsLast
  <2>5. LastIndex(h) = p
    BY <2>3, <2>4, <1>2 DEF Occurs
  <2>6. OneLabelAfter(h, p) /\ h[Len(h)] = m.ctx
    BY <2>1, <1>1, <1>2, <1>6 DEF OneLabelAfter
  <2> QED  BY <2>2, <2>3, <2>5, <2>6, <1>4 DEF ParseClusterHost, h
<1> QED  BY <1>5, <1>6

\* What ParseClusterHost returns, and where it found the domain.
LEMMA ParseShape ==
    ASSUME NEW h \in Seq(Label), ParseClusterHost(h).ok
    PROVE  LET m == ParseClusterHost(h) IN
           \E p \in {2, 3} :
              /\ At(h, p)
              /\ m = Parts(h, p, m.ctx) /\ m \in Name
              /\ \/ m.ctx = Empty /\ HasSuffix(h) /\ Len(h) = p + n
                 \/ /\ m.ctx = h[Len(h)] /\ m.ctx # Empty /\ Len(h) = p + n + 1
                    /\ p \in Occurs(h) /\ p = LastIndex(h)
<1> DEFINE m == ParseClusterHost(h)
<1>0. n \in Nat /\ n >= 3 /\ Len(h) \in Nat /\ (\A i \in 1 .. Len(h) : h[i] \in Label)
      /\ Empty \in Label
  BY DomainType, HostAssumption
<1>1. ASSUME NEW p \in Int, NEW x \in Label, Parts(h, p, x).ok, At(h, p)
      PROVE  p \in {2, 3} /\ Parts(h, p, x) \in Name /\ Parts(h, p, x).ctx = x
  <2>1. p \in {2, 3}
    BY <1>1 DEF Parts, NoName
  <2>2. h[1] \in Label /\ h[2] \in Label /\ h[3] \in Label
    BY <1>0, <1>1, <2>1 DEF At
  <2> QED  BY <1>0, <2>1, <2>2 DEF Parts, Name
<1>2. CASE HasSuffix(h)
  <2> DEFINE p == Len(h) - n
  <2>1. m = Parts(h, p, Empty) /\ At(h, p) /\ p \in Int /\ Len(h) = p + n
    BY <1>0, <1>2 DEF ParseClusterHost, HasSuffix
  <2>1a. Parts(h, p, Empty).ok
    BY <2>1
  <2> HIDE DEF p, m
  <2>2. p \in {2, 3} /\ m \in Name /\ m.ctx = Empty
    BY <2>1, <2>1a, <1>0, <1>1
  <2> USE DEF p, m
  <2> QED  BY <2>1, <2>2, <1>2
<1>3. CASE ~HasSuffix(h)
  <2> DEFINE p == LastIndex(h)
  <2>1. Occurs(h) # {} /\ OneLabelAfter(h, p) /\ m = Parts(h, p, h[Len(h)])
    BY <1>3 DEF ParseClusterHost, NoName
  <2>2. p \in Occurs(h)
    BY <2>1, LastIndexIsLast
  <2>3. p \in Int /\ At(h, p) /\ Len(h) = p + n + 1 /\ h[Len(h)] # Empty /\ h[Len(h)] \in Label
    BY <2>1, <2>2, <1>0 DEF Occurs, OneLabelAfter
  <2>4. p \in {2, 3} /\ m \in Name /\ m.ctx = h[Len(h)]
    BY <2>1, <2>3, <1>1
  <2> QED  BY <2>1, <2>2, <2>3, <2>4
<1> QED  BY <1>2, <1>3

\* A name without empty labels that is parsed is the spelling of the result.
LEMMA ParseIsSpelling ==
    ASSUME NEW h \in Seq(Label), Plain(h), ParseClusterHost(h).ok
    PROVE  ParseClusterHost(h) \in Service /\ Spelling(ParseClusterHost(h)) = h
<1> DEFINE m == ParseClusterHost(h)
           s == Spelling(m)
<1>1. PICK p \in {2, 3} :
              /\ At(h, p)
              /\ m = Parts(h, p, m.ctx) /\ m \in Name
              /\ \/ m.ctx = Empty /\ HasSuffix(h) /\ Len(h) = p + n
                 \/ /\ m.ctx = h[Len(h)] /\ m.ctx # Empty /\ Len(h) = p + n + 1
                    /\ p \in Occurs(h) /\ p = LastIndex(h)
  BY ParseShape
<1>2. n \in Nat /\ n >= 3 /\ Len(h) \in Nat /\ (\A i \in 1 .. Len(h) : h[i] # Empty)
  BY DomainType DEF Plain
<1> HIDE DEF m
<1>3. /\ m.pod = IF p = 2 THEN Empty ELSE h[1]
      /\ m.svc = h[p - 1] /\ m.ns = h[p]
  BY <1>1 DEF Parts
<1>4. m \in Service /\ Before(m) = p /\ (p = 2 <=> m.pod = Empty)
  BY <1>1, <1>2, <1>3 DEF Service, Before
<1>5. /\ s \in Seq(Label) /\ Len(s) = p + n + After(m)
      /\ m.pod = Empty => s[1] = m.svc /\ s[2] = m.ns
      /\ m.pod # Empty => s[1] = m.pod /\ s[2] = m.svc /\ s[3] = m.ns
      /\ \A j \in 1 .. n : s[p + j] = Domain[j]
      /\ m.ctx # Empty => s[p + n + 1] = m.ctx
  BY <1>4, SpellingShape
<1> HIDE DEF s
<1>6. Len(s) = Len(h)
  BY <1>1, <1>2, <1>5 DEF After
<1>7. \A i \in 1 .. Len(h) : s[i] = h[i]
  <2> TAKE i \in 1 .. Len(h)
  <2>1. CASE i <= p
    <3>1. CASE p = 2
      BY <2>1, <3>1, <1>3, <1>4, <1>5
    <3>2. CASE p = 3
      BY <2>1, <3>2, <1>3, <1>4, <1>5
    <3> QED  BY <3>1, <3>2
  <2>2. CASE i > p /\ i <= p + n
    <3>1. i - p \in 1 .. n /\ p + (i - p) = i
      BY <2>2, <1>2
    <3>2. h[p + (i - p)] = Domain[i - p] /\ s[p + (i - p)] = Domain[i - p]
      BY <3>1, <1>1, <1>5 DEF At
    <3> QED  BY <3>1, <3>2
  <2>3. CASE i > p + n
    <3>1. i = p + n + 1 /\ i = Len(h) /\ m.ctx # Empty /\ m.ctx = h[Len(h)]
      BY <2>3, <1>1, <1>2
    <3> QED  BY <3>1, <1>5
  <2> QED  BY <2>1, <2>2, <2>3, <1>2
<1>8. s = h
  BY <1>5, <1>6, <1>7, SeqEqual
<1> QED  BY <1>4, <1>8 DEF m, s

\* What the parser accepts is a cluster host: the first and the last
\* occurrence of the domain are the same.
LEMMA ParsedIsClusterHost ==
    ASSUME NEW h \in Seq(Label), ParseClusterHost(h).ok
    PROVE  IsClusterHost(h)
<1> DEFINE m == ParseClusterHost(h)
<1>1. PICK p \in {2, 3} :
              /\ At(h, p)
              /\ m = Parts(h, p, m.ctx) /\ m \in Name
              /\ \/ m.ctx = Empty /\ HasSuffix(h) /\ Len(h) = p + n
                 \/ /\ m.ctx = h[Len(h)] /\ m.ctx # Empty /\ Len(h) = p + n + 1
                    /\ p \in Occurs(h) /\ p = LastIndex(h)
  BY ParseShape
<1>2. CASE HasSuffix(h)
  BY <1>2 DEF IsClusterHost
<1>3. CASE ~HasSuffix(h)
  <2>1. p \in Occurs(h) /\ OneLabelAfter(h, p)
    BY <1>1, <1>3 DEF OneLabelAfter
  <2>2. Index(h) \in Occurs(h) /\ Index(h) <= p
    BY <2>1, IndexIsFirst
  <2>3. Index(h) \in {p, p - 1, p - 2} /\ Index(h) \in Nat /\ At(h, Index(h))
    BY <2>2 DEF Occurs, At
  <2>4. Index(h) # p - 1 /\ Index(h) # p - 2
    BY <2>3, <1>1, NoShift
  <2> QED  BY <2>1, <2>3, <2>4 DEF IsClusterHost
<1> QED  BY <1>2, <1>3

-----------------------------------------------------------------------------
\* What the proxy and the DNS server do with a name.
SocksOf(h) == IF IsClusterHost(h) THEN dialCluster(h) ELSE [to |-> "direct", name |-> NoName]

DnsOf(h) == LET name == ParseClusterHost(h) IN
            IF MuxMatches(h) \/ (name.ok /\ name.ctx # Empty)
            THEN [to |-> IF name.ok THEN "cluster" ELSE "refused", name |-> name]
            ELSE [to |-> "direct", name |-> NoName]

\* A question is taken for a service exactly if the parser finds it.
LEMMA DnsFollowsParser ==
    ASSUME NEW h \in Seq(Label)
    PROVE  /\ ParseClusterHost(h).ok => DnsOf(h) = [to |-> "cluster", name |-> ParseClusterHost(h)]
           /\ ~ParseClusterHost(h).ok => DnsOf(h).to \in {"refused", "direct"}
<1> DEFINE m == ParseClusterHost(h)
<1>1. ASSUME m.ok  PROVE MuxMatches(h) \/ m.ctx # Empty
  <2>1. PICK p \in {2, 3} :
              /\ At(h, p)
              /\ m = Parts(h, p, m.ctx) /\ m \in Name
              /\ \/ m.ctx = Empty /\ HasSuffix(h) /\ Len(h) = p + n
                 \/ /\ m.ctx = h[Len(h)] /\ m.ctx # Empty /\ Len(h) = p + n + 1
                    /\ p \in Occurs(h) /\ p = LastIndex(h)
    BY <1>1, ParseShape
  <2>2. n \in Nat
    BY DomainType
  <2>3. CASE m.ctx = Empty
    <3>1. Len(h) = p + n /\ Len(h) - n = p
      BY <2>1, <2>2, <2>3
    <3> QED  BY <3>1, <2>1, <2>2 DEF MuxMatches, At
  <2> QED  BY <2>3
<1> QED  BY <1>1 DEF DnsOf

\* The services a question is taken for are those its name spells.
LEMMA DnsExact ==
    ASSUME NEW h \in Seq(Label), Plain(h), NEW m \in Service
    PROVE  (Spelling(m) = h) <=> (DnsOf(h) = [to |-> "cluster", name |-> m])
<1>1. ASSUME Spelling(m) = h  PROVE DnsOf(h) = [to |-> "cluster", name |-> m]
  <2>1. ParseClusterHost(h) = m /\ m.ok
    BY <1>1, ParseSpelling DEF Service, Name
  <2> QED  BY <2>1, DnsFollowsParser
<1>2. ASSUME DnsOf(h) = [to |-> "cluster", name |-> m]  PROVE Spelling(m) = h
  <2>1. ParseClusterHost(h).ok
    BY <1>2, DnsFollowsParser
  <2>2. ParseClusterHost(h) = m
    BY <1>2, <2>1, DnsFollowsParser
  <2> QED  BY <2>1, <2>2, ParseIsSpelling
<1> QED  BY <1>1, <1>2

-----------------------------------------------------------------------------
\* The parser returns a name, or NoName.
LEMMA ParseType ==
    ASSUME NEW h \in Seq(Label)
    PROVE  IF ParseClusterHost(h).ok THEN ParseClusterHost(h) \in Name
           ELSE ParseClusterHost(h) = NoName
<1>1. CASE ParseClusterHost(h).ok
  BY <1>1, ParseShape
<1>2. CASE ~ParseClusterHost(h).ok
  <2>1. \A p, x : Parts(h, p, x).ok \/ Parts(h, p, x) = NoName
    BY DEF Parts
  <2> QED  BY <1>2, <2>1 DEF ParseClusterHost
<1> QED  BY <1>1, <1>2

\* Trimming leaves a name, and one without empty labels alone.
LEMMA TrimType ==
    ASSUME NEW h \in Seq(Label)
    PROVE  Trim(h) \in Seq(Label) /\ (Plain(h) => Trim(h) = h)
<1>1. Trim(h) \in Seq(Label)
  BY DEF Trim
<1>2. ASSUME Plain(h), Trim(h) # h  PROVE FALSE
  <2>1. Len(h) > 1 /\ h[Len(h)] = Empty
    BY <1>2 DEF Trim
  <2>2. Len(h) \in DOMAIN h
    BY <2>1
  <2> QED  BY <1>2, <2>1, <2>2 DEF Plain
<1> QED  BY <1>1, <1>2

\* Trimming takes off the dot that was put on.
LEMMA TrimDot ==
    ASSUME NEW h \in Seq(Label), h # << >>
    PROVE  Trim(h \o <<Empty>>) = h
<1> DEFINE g == h \o <<Empty>>
<1>1. /\ g \in Seq(Label) /\ Len(g) = Len(h) + 1 /\ g[Len(g)] = Empty /\ Len(h) > 0
      /\ \A i \in 1 .. Len(h) : g[i] = h[i]
  BY HostAssumption
<1> HIDE DEF g
<1>2. Trim(g) = SubSeq(g, 1, Len(h))
  BY <1>1 DEF Trim
<1>3. /\ SubSeq(g, 1, Len(h)) \in Seq(Label) /\ Len(SubSeq(g, 1, Len(h))) = Len(h)
      /\ \A i \in 1 .. Len(h) : SubSeq(g, 1, Len(h))[i] = g[i]
  BY <1>1
<1>4. SubSeq(g, 1, Len(h)) = h
  BY <1>1, <1>3, SeqEqual
<1> QED  BY <1>2, <1>4 DEF g

\* The spelling without the context, and with another one.
LEMMA Bare ==
    ASSUME NEW m \in Service
    PROVE  LET b == [m EXCEPT !.ctx = Empty] IN
           /\ b \in Service /\ b.ctx = Empty /\ b.pod = m.pod
           /\ m.ctx = Empty => b = m
           /\ m.ctx # Empty => Spelling(m) = Spelling(b) \o <<m.ctx>>
<1> DEFINE b == [m EXCEPT !.ctx = Empty]
<1>1. b \in Service /\ b.ctx = Empty /\ b.pod = m.pod /\ b.svc = m.svc /\ b.ns = m.ns
  BY HostAssumption DEF Service, Name
<1>2. m.ctx = Empty => b = m
  BY DEF Service, Name
<1>3. ASSUME m.ctx # Empty  PROVE Spelling(m) = Spelling(b) \o <<m.ctx>>
  <2> DEFINE c == (IF m.pod = Empty THEN << >> ELSE <<m.pod>>) \o <<m.svc, m.ns>> \o Domain
  <2>1. Spelling(m) = c \o <<m.ctx>> /\ Spelling(b) = c \o << >>
    BY <1>1, <1>3 DEF Spelling
  <2>2. m.pod \in Label /\ m.svc \in Label /\ m.ns \in Label /\ Domain \in Seq(Label)
    BY DomainType DEF Service, Name
  <2>3. c \in Seq(Label)
    <3>1. CASE m.pod = Empty
      BY <2>2, <3>1
    <3>2. CASE m.pod # Empty
      BY <2>2, <3>2
    <3> QED  BY <3>1, <3>2
  <2> HIDE DEF c
  <2>4. c \o << >> = c
    BY <2>3, ConcatEmptySeq
  <2> QED  BY <2>1, <2>4
<1> QED  BY <1>1, <1>2, <1>3

\* The spelling with a context is the bare one and the context's label.
LEMMA WithContext ==
    ASSUME NEW m \in Service, NEW l \in Label, l # Empty
    PROVE  /\ [m EXCEPT !.ctx = l] \in Service
           /\ Spelling([m EXCEPT !.ctx = l]) = Spelling([m EXCEPT !.ctx = Empty]) \o <<l>>
<1> DEFINE k == [m EXCEPT !.ctx = l]
<1>1. k \in Service /\ k.ctx = l
  BY DEF Service, Name
<1>2. [k EXCEPT !.ctx = Empty] = [m EXCEPT !.ctx = Empty]
  BY DEF Service, Name
<1> HIDE DEF k
<1>3. Spelling(k) = Spelling([k EXCEPT !.ctx = Empty]) \o <<l>>
  BY <1>1, Bare
<1> QED  BY <1>1, <1>2, <1>3 DEF k

\* A spelling is not the empty name.
LEMMA SpellingNotEmpty ==
    ASSUME NEW m \in Service
    PROVE  Spelling(m) \in Seq(Label) /\ Spelling(m) # << >>
<1>1. Spelling(m) \in Seq(Label) /\ Len(Spelling(m)) = Before(m) + n + After(m)
  BY SpellingShape
<1>2. n \in Nat /\ Before(m) \in {2, 3} /\ After(m) \in {0, 1}
  BY DomainType DEF Before, After
<1>3. Len(Spelling(m)) # 0
  BY <1>1, <1>2
<1> QED  BY <1>1, <1>3

\* A bare spelling followed by two or more labels is no cluster name.
LEMMA LongContext ==
    ASSUME NEW b \in Service, b.ctx = Empty, NEW x \in Seq(Label), Len(x) >= 2
    PROVE  ~ParseClusterHost(Spelling(b) \o x).ok
<1> DEFINE s == Spelling(b)
           t == s \o x
           q == Before(b)
<1>1. /\ s \in Seq(Label) /\ Len(s) = q + n + After(b)
      /\ \A j \in 1 .. n : s[q + j] = Domain[j]
  BY SpellingShape
<1>2. n \in Nat /\ q \in {2, 3} /\ After(b) = 0
  BY DomainType DEF Before, After
<1> HIDE DEF s, q
<1>3. t \in Seq(Label) /\ Len(t) = Len(s) + Len(x) /\ \A i \in 1 .. Len(s) : t[i] = s[i]
  BY <1>1
<1> HIDE DEF t
<1>4. At(t, q)
  BY <1>1, <1>2, <1>3 DEF At
<1> SUFFICES ASSUME ParseClusterHost(t).ok  PROVE FALSE
  BY DEF t, s
<1>5. PICK p \in {2, 3} : At(t, p) /\ (Len(t) = p + n \/ Len(t) = p + n + 1)
  BY <1>3, ParseShape
<1>6. p = 3 /\ q = 2
  BY <1>1, <1>2, <1>3, <1>5
<1> QED  BY <1>4, <1>5, <1>6, NoShift

\* The SRV target of a name that was parsed as m.
LEMMA TargetShape ==
    ASSUME NEW h \in Seq(Label), Plain(Trim(h)), ParseClusterHost(Trim(h)).ok, NEW x
    PROVE  LET m == ParseClusterHost(Trim(h)) IN
           /\ m \in Service
           /\ contextFQDN(h, x) = Spelling([m EXCEPT !.ctx = Empty]) \o x \o <<Empty>>
<1> DEFINE t == Trim(h)
           m == ParseClusterHost(t)
           b == [m EXCEPT !.ctx = Empty]
<1>1. t \in Seq(Label)
  BY TrimType
<1>2. m \in Service /\ Spelling(m) = t
  BY <1>1, ParseIsSpelling
<1>3. /\ b \in Service
      /\ m.ctx = Empty => b = m
      /\ m.ctx # Empty => t = Spelling(b) \o <<m.ctx>>
  BY <1>2, Bare
<1>4. CASE m.ctx = Empty
  BY <1>2, <1>3, <1>4 DEF contextFQDN
<1>5. CASE m.ctx # Empty
  <2>1. Spelling(b) \in Seq(Label) /\ m.ctx \in Label
    BY <1>2, <1>3, SpellingShape DEF Service, Name
  <2> DEFINE sb == Spelling(b)
             l == m.ctx
  <2> HIDE DEF m, b, sb, l, t
  <2>2. sb \in Seq(Label) /\ l \in Label /\ t = sb \o <<l>>
    BY <1>3, <1>5, <2>1 DEF sb, l
  <2>3. /\ Len(t) = Len(sb) + 1 /\ t \in Seq(Label)
        /\ \A i \in 1 .. Len(sb) : t[i] = sb[i]
    BY <2>2
  <2>4. /\ SubSeq(t, 1, Len(t) - 1) \in Seq(Label)
        /\ Len(SubSeq(t, 1, Len(t) - 1)) = Len(sb)
        /\ \A i \in 1 .. Len(sb) : SubSeq(t, 1, Len(t) - 1)[i] = sb[i]
    BY <2>2, <2>3
  <2>5. SubSeq(t, 1, Len(t) - 1) = sb
    BY <2>2, <2>4, SeqEqual
  <2> QED  BY <1>2, <1>5, <2>5 DEF contextFQDN, m, b, sb, l, t
<1> QED  BY <1>2, <1>4, <1>5

-----------------------------------------------------------------------------
\* The inductive invariant: what became of a name is what the name says, and
\* an SRV target is the bare spelling of its service, the context and a dot.
Answered ==
    /\ socks.to # "none" => socks = SocksOf(host)
    /\ dns.to # "none" => Plain(Trim(host)) /\ dns = DnsOf(Trim(host))
    /\ dialled = SocksContexts(socks.name)
    /\ asked = DnsContexts(dns.name)

FromTarget ==
    origin # NoOrigin =>
        /\ origin.name \in Service /\ origin.ctx \in Context
        /\ host = Spelling([origin.name EXCEPT !.ctx = Empty]) \o origin.ctx \o <<Empty>>

Inv == TypeOK /\ Answered /\ FromTarget

\* Both servers give one of the four outcomes.
LEMMA OutcomeType ==
    ASSUME NEW h \in Seq(Label)
    PROVE  SocksOf(h) \in Outcome /\ DnsOf(h) \in Outcome
<1>1. \A g \in Seq(Label) : LET m == ParseClusterHost(g) IN
          [to |-> IF m.ok THEN "cluster" ELSE "refused", name |-> m] \in Outcome
  <2> TAKE g \in Seq(Label)
  <2>1. IF ParseClusterHost(g).ok THEN ParseClusterHost(g) \in Name
        ELSE ParseClusterHost(g) = NoName
    BY ParseType
  <2> QED  BY <2>1 DEF Outcome
<1>2. Trim(h) \in Seq(Label)
  BY TrimType
<1>3. [to |-> "direct", name |-> NoName] \in Outcome
  BY DEF Outcome
<1> QED  BY <1>1, <1>2, <1>3 DEF SocksOf, DnsOf, dialCluster

\* A name that was not parsed is looked for nowhere; any other in contexts
\* that have a client.
LEMMA NoContexts ==
    /\ SocksContexts(NoName) = {} /\ DnsContexts(NoName) = {}
    /\ \A m : SocksContexts(m) \subseteq Context /\ DnsContexts(m) \subseteq Context
BY DEF SocksContexts, DnsContexts, NoName

\* The invariant holds initially and is kept by every step.
LEMMA InitInv == Init => Inv
<1>1. SocksContexts(NoName) = {} /\ DnsContexts(NoName) = {}
  BY NoContexts
<1> QED  BY <1>1 DEF Init, Inv, TypeOK, Answered, FromTarget, NoOutcome, NoOrigin, Outcome

LEMMA NextInv == Inv /\ [Next]_vars => Inv'
<1> SUFFICES ASSUME Inv, [Next]_vars  PROVE Inv'
  OBVIOUS
<1> USE DEF Inv
<1>1. ASSUME NEW l \in Label, Spell(l)  PROVE Inv'
  BY <1>1 DEF Spell, TypeOK, Answered, FromTarget
<1>2. CASE SocksDial
  <2>1. SocksOf(host) \in Outcome /\ socks' = SocksOf(host)
    BY <1>2, OutcomeType DEF SocksDial, SocksOf, TypeOK
  <2>2. dialled' = SocksContexts(socks'.name) /\ dialled' \subseteq Context
    BY <1>2, NoContexts DEF SocksDial
  <2> QED  BY <1>2, <2>1, <2>2 DEF SocksDial, TypeOK, Answered, FromTarget
<1>3. CASE Ask
  <2>1. Trim(host) \in Seq(Label)
    BY TrimType DEF TypeOK
  <2>2. DnsOf(Trim(host)) \in Outcome
    BY <2>1, OutcomeType
  <2>3. /\ dns' = DnsOf(Trim(host)) /\ Plain(Trim(host))
        /\ UNCHANGED <<host, socks, dialled, origin>>
    BY <1>3 DEF Ask, DnsOf
  <2>4. asked' = DnsContexts(dns'.name) /\ asked' \subseteq Context
    BY <1>3, NoContexts DEF Ask
  <2> QED  BY <2>2, <2>3, <2>4 DEF TypeOK, Answered, FromTarget
<1>4. ASSUME NEW x \in Context, Follow(x)  PROVE Inv'
  <2> DEFINE m == dns.name
  <2>0. m.ok /\ dns \in Outcome
    BY <1>4 DEF Follow, Answered, DnsContexts, TypeOK
  <2>1. host \in Seq(Label) /\ Plain(Trim(host)) /\ dns = DnsOf(Trim(host)) /\ dns.to = "cluster"
    BY <1>4, <2>0 DEF Answered, TypeOK, Outcome, NoName
  <2>2. ParseClusterHost(Trim(host)).ok /\ m = ParseClusterHost(Trim(host))
    BY <2>1, TrimType, DnsFollowsParser
  <2>3. m \in Service /\ host' = Spelling([m EXCEPT !.ctx = Empty]) \o x \o <<Empty>>
    BY <1>4, <2>1, <2>2, TargetShape DEF Follow
  <2>4. Spelling([m EXCEPT !.ctx = Empty]) \in Seq(Label)
    BY <2>3, Bare, SpellingShape
  <2>5. x \in Seq(Label) /\ <<Empty>> \in Seq(Label)
    BY HostAssumption
  <2>6. host' \in Seq(Label)
    BY <2>3, <2>4, <2>5
  <2>7. origin'.name = m /\ origin'.ctx = x /\ origin' = [name |-> m, ctx |-> x]
        /\ socks' = NoOutcome /\ dns' = NoOutcome /\ dialled' = {} /\ asked' = {}
    BY <1>4 DEF Follow
  <2>8. TypeOK'
    BY <2>3, <2>6, <2>7 DEF TypeOK, NoOutcome, Outcome, Service
  <2>9. Answered' /\ FromTarget'
    BY <2>3, <2>7, NoContexts DEF Answered, FromTarget, NoOutcome
  <2> QED  BY <2>8, <2>9
<1>5. CASE UNCHANGED vars
  BY <1>5 DEF vars, TypeOK, Answered, FromTarget
<1> QED  BY <1>1, <1>2, <1>3, <1>4, <1>5 DEF Next

LEMMA Invariance == Spec => []Inv
BY InitInv, NextInv, PTL DEF Spec

\* Every reachable state is well typed: what is treated as a cluster name was
\* parsed (dialCluster and resolveA look at ok).
THEOREM TypeCorrect == Spec => []TypeOK
<1>1. Inv => TypeOK
  BY DEF Inv
<1> QED  BY <1>1, Invariance, PTL

\* A DNS question is taken for the service its name spells, and for no other.
THEOREM NamesReadExactly == Spec => []ParseExact
<1>1. Inv => ParseExact
  <2> SUFFICES ASSUME Inv, dns.to # "none", NEW m \in Service
               PROVE  (Spelling(m) = Trim(host)) <=> (dns = [to |-> "cluster", name |-> m])
    BY DEF ParseExact, Service
  <2>1. Trim(host) \in Seq(Label) /\ Plain(Trim(host)) /\ dns = DnsOf(Trim(host))
    BY TrimType DEF Inv, TypeOK, Answered
  <2> QED  BY <2>1, DnsExact
<1> QED  BY <1>1, Invariance, PTL

\* A bare name with a trailing dot is a cluster host too.
LEMMA DottedIsClusterHost ==
    ASSUME NEW h \in Seq(Label), Trim(h) # h,
           ParseClusterHost(Trim(h)).ok, ParseClusterHost(Trim(h)).ctx = Empty
    PROVE  IsClusterHost(h)
<1> DEFINE t == Trim(h)
<1>1. Len(h) > 1 /\ h[Len(h)] = Empty /\ t = SubSeq(h, 1, Len(h) - 1)
  BY DEF Trim
<1>2. /\ t \in Seq(Label) /\ Len(t) = Len(h) - 1
      /\ \A i \in 1 .. Len(t) : t[i] = h[i]
  BY <1>1
<1>3. HasSuffix(t)
  BY <1>2, ParseShape
<1>4. At(t, Len(t) - n)
  BY <1>3 DEF HasSuffix
<1>5. n \in Nat
  BY DomainType
<1>6. Len(t) - n = Len(h) - n - 1
  BY <1>2, <1>5
<1>7. At(h, Len(h) - n - 1)
  BY <1>2, <1>4, <1>5, <1>6 DEF At
<1> QED  BY <1>1, <1>7 DEF IsClusterHost

\* For any domain, contexts and current context, a name that either the SOCKS5
\* proxy or the DNS server takes for a service is the same service or pod to
\* both, in the same context if it names one; a bare name is looked for by the
\* proxy in no context the DNS server leaves out.
THEOREM RoutesMeet == Spec => []RoutesAgree
<1>1. Inv => RoutesAgree
  <2> SUFFICES ASSUME Inv, socks.to # "none", dns.to # "none",
                      socks.to = "cluster" \/ dns.to = "cluster",
                      Plain(host) \/ dns.name.ctx = Empty
               PROVE  /\ socks = dns
                      /\ dialled \subseteq asked
                      /\ dns.name.ctx # Empty => dialled = asked
    BY DEF RoutesAgree
  <2> DEFINE t == Trim(host)
  <2>1. /\ host \in Seq(Label) /\ t \in Seq(Label)
        /\ socks = SocksOf(host) /\ dns = DnsOf(t)
        /\ dialled = SocksContexts(socks.name) /\ asked = DnsContexts(dns.name)
    BY TrimType DEF Inv, TypeOK, Answered
  <2>2. ParseClusterHost(t).ok
    <3>1. CASE socks.to = "cluster"
      BY <3>1, <2>1 DEF SocksOf, dialCluster
    <3>2. CASE dns.to = "cluster"
      BY <3>2, <2>1, DnsFollowsParser
    <3> QED  BY <3>1, <3>2
  <2>3. dns = [to |-> "cluster", name |-> ParseClusterHost(t)]
    BY <2>1, <2>2, DnsFollowsParser
  <2>4. IsClusterHost(host)
    <3>1. CASE t = host
      BY <3>1, <2>1, <2>2, ParsedIsClusterHost
    <3>2. CASE t # host
      <4>1. dns.name.ctx = Empty
        BY <3>2, <2>1, TrimType
      <4>2. ParseClusterHost(t).ctx = Empty
        BY <4>1, <2>3
      <4> QED  BY <3>2, <4>2, <2>1, <2>2, DottedIsClusterHost
    <3> QED  BY <3>1, <3>2
  <2>5. socks = [to |-> "cluster", name |-> ParseClusterHost(t)]
    BY <2>1, <2>2, <2>4 DEF SocksOf, dialCluster
  <2>6. socks = dns
    BY <2>3, <2>5
  <2> QED  BY <2>1, <2>6 DEF SocksContexts, DnsContexts
<1> QED  BY <1>1, Invariance, PTL

\* An SRV target leads back to its service and context, or nowhere.
THEOREM TargetsLeadBack == Spec => []TargetLeadsBack
<1>1. Inv => TargetLeadsBack
  <2> SUFFICES ASSUME Inv, origin # NoOrigin, dns.to # "none"
               PROVE  IF Len(origin.ctx) = 1
                      THEN /\ dns = [to |-> "cluster",
                                     name |-> [origin.name EXCEPT !.ctx = origin.ctx[1]]]
                           /\ asked = {origin.ctx}
                      ELSE dns.to # "cluster"
    BY DEF TargetLeadsBack
  <2> DEFINE b == [origin.name EXCEPT !.ctx = Empty]
             s == Spelling(b)
             x == origin.ctx
             t == Trim(host)
  <2>1. /\ host = s \o x \o <<Empty>> /\ origin.name \in Service /\ x \in Context
        /\ t \in Seq(Label) /\ Plain(t) /\ dns = DnsOf(t)
        /\ asked = DnsContexts(dns.name)
    BY TrimType DEF Inv, FromTarget, Answered, TypeOK
  <2>2. b \in Service /\ b.ctx = Empty
    BY <2>1, Bare
  <2>3. s \in Seq(Label) /\ s # << >>
    BY <2>2, SpellingNotEmpty
  <2>4. x \in Seq(Label) /\ x # << >> /\ x \in Seq(Label \ {Empty})
    BY <2>1, HostAssumption
  <2>6. t = s \o x
    <3>1. s \o x \in Seq(Label) /\ s \o x # << >>
      BY <2>3, <2>4
    <3> QED  BY <2>1, <3>1, TrimDot
  <2>7. CASE Len(x) = 1
    <3>1. x = <<x[1]>> /\ x[1] \in Label /\ x[1] # Empty
      BY <2>4, <2>7
    <3>2. Spelling([origin.name EXCEPT !.ctx = x[1]]) = t
          /\ [origin.name EXCEPT !.ctx = x[1]] \in Service
      BY <2>1, <2>6, <3>1, WithContext
    <3>3. dns = [to |-> "cluster", name |-> [origin.name EXCEPT !.ctx = x[1]]]
      BY <2>1, <3>2, DnsExact
    <3>3a. \A m \in Service, l \in Label : [m EXCEPT !.ctx = l].ctx = l /\ [m EXCEPT !.ctx = l].ok
      BY DEF Service, Name
    <3>3b. [origin.name EXCEPT !.ctx = x[1]].ctx = x[1] /\ [origin.name EXCEPT !.ctx = x[1]].ok
      BY <3>1, <3>3a, <2>1, Zenon
    <3>3c. dns.name = [origin.name EXCEPT !.ctx = x[1]]
      BY <3>3
    <3>4. dns.name.ok /\ dns.name.ctx = x[1]
      BY <3>3b, <3>3c, Zenon
    <3>5. asked = {x}
      BY <2>1, <3>1, <3>4 DEF DnsContexts
    <3> QED  BY <2>7, <3>3, <3>5
  <2>8. CASE Len(x) # 1
    <3> SUFFICES ASSUME dns.to = "cluster"  PROVE FALSE
      BY <2>8
    <3>1. ParseClusterHost(t).ok
      BY <2>1, DnsFollowsParser
    <3>2. Len(x) >= 2
      <4>1. Len(x) \in Nat /\ Len(x) # 0
        BY <2>4, EmptySeq
      <4>2. Len(x) # 1
        BY <2>8
      <4>3. \A k \in Nat : k # 0 /\ k # 1 => k >= 2
        OBVIOUS
      <4> QED  BY <4>1, <4>2, <4>3, Zenon
    <3>3. ~ParseClusterHost(s \o x).ok
      BY <2>2, <2>4, <3>2, LongContext
    <3> QED  BY <2>6, <3>1, <3>3
  <2> QED  BY <2>7, <2>8
<1> QED  BY <1>1, Invariance, PTL
=============================================================================
