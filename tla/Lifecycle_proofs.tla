------------------------- MODULE Lifecycle_proofs -------------------------
(***************************************************************************)
(* Proofs about Lifecycle, for any number of addresses, queries, requests  *)
(* and connections, and whichever servers may fail.                        *)
(***************************************************************************)
EXTENDS Lifecycle, TLAPS

\* An address that was bound is known to the allocator or to a ReleaseVIP, or
\* could not be removed.
AddrInv ==
    /\ bound \subseteq tracked \cup releasing \cup unremoved
    /\ bound \subseteq used
    /\ \A q \in Query : query[q].pc = "idle" => query[q].addr = NoAddr

PastUDP == {"closeTCP", "waitTCP", "listeners", "pool", "copy", "remove", "exited"}
PastTCP == {"listeners", "pool", "copy", "remove", "exited"}

\* What Stop has done so far stays done.
OrderInv ==
    /\ pc \in {"waitUDP"} \cup PastUDP => "udp" \notin up
    /\ pc \in {"waitTCP"} \cup PastTCP => "tcp" \notin up
    /\ pc \in (Stop \ {"http", "closeSocks"}) \cup {"exited"} => "socks" \notin up
    /\ pc \in PastUDP => Drained("udp")
    /\ pc \in PastTCP => Drained("tcp")
    /\ pc \in {"pool", "copy", "remove", "exited"} => listening = {}
    /\ pc = "remove" => bound \subseteq snapshot \cup unremoved \cup (releasing \ tracked)

\* What is ready: the probes that see the flag, and the servers.
ReadyInv ==
    /\ pc \in Stop \cup {"exited"} => "http" \notin up
    /\ pc \in (Stop \ {"http"}) \cup {"exited"} => \A b \in Probe : probe[b] # "busy"
    /\ ready => pc \notin Start \ {"notify"}
    /\ (dnsOn /\ pc \in {"serve", "socks", "ready", "notify", "running", "http"})
          => {"udp", "tcp"} \subseteq up \cup broken
    /\ (socksOn /\ pc \in {"ready", "notify", "running", "http"}) => "socks" \in up \cup broken

\* Nothing is allocated before the DNS server serves.
EarlyInv ==
    /\ pc \in {"config", "iface", "listen", "clients", "allocator", "wire", "dns"} \/ ~dnsOn =>
          /\ "udp" \notin up /\ "tcp" \notin up
          /\ used = {}
          /\ \A q \in Query : query[q].pc = "idle"
    /\ pc \in {"fatal", "killed"} /\ used # {} =>
          dnsOn /\ {"udp", "tcp"} \subseteq up \cup broken

Inv == TypeOK /\ AddrInv /\ OrderInv /\ ReadyInv /\ CleanExit /\ EarlyInv

QueryType == [Query -> [pc : {"idle", "busy"}, via : {"udp", "tcp"},
                        addr : Addr \cup {NoAddr}]]

ChangeType == [Change -> [pc : {"idle", "busy", "release"}, hold : SUBSET Addr]]

\* Updates of a query keep its type.
LEMMA QueryUpdate ==
    ASSUME NEW f \in QueryType, NEW q \in Query
    PROVE  /\ \A s \in {"udp", "tcp"} :
                 [f EXCEPT ![q].pc = "busy", ![q].via = s] \in QueryType
           /\ \A a \in Addr : [f EXCEPT ![q].addr = a] \in QueryType
BY DEF QueryType

\* The same for a request.
LEMMA ChangeUpdate ==
    ASSUME NEW f \in ChangeType, NEW r \in Change, NEW S \in SUBSET Addr,
           NEW x \in {"idle", "busy", "release"}
    PROVE  /\ [f EXCEPT ![r].pc = x] \in ChangeType
           /\ [f EXCEPT ![r].pc = x, ![r].hold = S] \in ChangeType
BY DEF ChangeType

\* The invariant holds initially.
LEMMA InitInv == Init => Inv
<1> SUFFICES ASSUME Init  PROVE Inv
  OBVIOUS
<1>1. TypeOK
  BY DEF Init, NoChange, Idle, TypeOK, Start
<1>2. AddrInv
  BY DEF Init, NoChange, Idle, AddrInv
<1>3. OrderInv /\ CleanExit
  BY DEF Init, OrderInv, CleanExit, PastUDP, PastTCP, Stop
<1>4. ReadyInv
  BY DEF Init, ReadyInv, Start, Stop
<1>5. EarlyInv
  BY DEF Init, NoChange, Idle, EarlyInv
<1> QED  BY <1>1, <1>2, <1>3, <1>4, <1>5 DEF Inv

\* Every step keeps it.
LEMMA NextInv == Inv /\ [Next]_vars => Inv'
<1> SUFFICES ASSUME Inv, [Next]_vars  PROVE Inv'
  OBVIOUS
<1> USE DEF Inv
<1> USE DEF addresses, work, flags, Step, Start, Stop, Alive, PastUDP, PastTCP
<1>1. CASE UNCHANGED vars
  BY <1>1 DEF vars, TypeOK, AddrInv, OrderInv, ReadyInv, CleanExit, Drained, EarlyInv
<1>2. CASE StepFails
  BY <1>2 DEF StepFails, End, NoChange, Idle, TypeOK, AddrInv, OrderInv, ReadyInv, CleanExit, Drained, EarlyInv
<1>3. CASE LoadConfig
  BY <1>3 DEF LoadConfig, TypeOK, AddrInv, OrderInv, ReadyInv, CleanExit, Drained, EarlyInv
<1>4. CASE ListenHTTP
  BY <1>4 DEF ListenHTTP, TypeOK, AddrInv, OrderInv, ReadyInv, CleanExit, Drained, EarlyInv, Server
<1>5. CASE NewManagers
  BY <1>5 DEF NewManagers, TypeOK, AddrInv, OrderInv, ReadyInv, CleanExit, Drained, EarlyInv
<1>6. CASE SetManagers
  BY <1>6 DEF SetManagers, TypeOK, AddrInv, OrderInv, ReadyInv, CleanExit, Drained, EarlyInv
<1>7. CASE StartDNS
  BY <1>7 DEF StartDNS, TypeOK, AddrInv, OrderInv, ReadyInv, CleanExit, Drained, EarlyInv, Server
<1>8. CASE DNSStarted
  BY <1>8 DEF DNSStarted, End, NoChange, Idle, TypeOK, AddrInv, OrderInv, ReadyInv, CleanExit, Drained, EarlyInv
<1>9. CASE StartSocks
  BY <1>9 DEF StartSocks, TypeOK, AddrInv, OrderInv, ReadyInv, CleanExit, Drained, EarlyInv, Server
<1>10. CASE SetReady
  BY <1>10 DEF SetReady, TypeOK, AddrInv, OrderInv, ReadyInv, CleanExit, Drained, EarlyInv
<1>11. CASE Notify
  BY <1>11 DEF Notify, TypeOK, AddrInv, OrderInv, ReadyInv, CleanExit, Drained, EarlyInv
<1>12. CASE Signal
  BY <1>12 DEF Signal, TypeOK, AddrInv, OrderInv, ReadyInv, CleanExit, Drained, EarlyInv
<1>13. CASE HTTPStopped
  BY <1>13 DEF HTTPStopped, TypeOK, AddrInv, OrderInv, ReadyInv, CleanExit, Drained, EarlyInv
<1>14. CASE StopSocks
  BY <1>14 DEF StopSocks, TypeOK, AddrInv, OrderInv, ReadyInv, CleanExit, Drained, EarlyInv
<1>15. CASE CloseDNS
  BY <1>15 DEF CloseDNS, TypeOK, AddrInv, OrderInv, ReadyInv, CleanExit, Drained, EarlyInv
<1>16. CASE DNSStopped
  BY <1>16 DEF DNSStopped, TypeOK, AddrInv, OrderInv, ReadyInv, CleanExit, Drained, EarlyInv
<1>17. CASE ShutdownListeners
  BY <1>17 DEF ShutdownListeners, TypeOK, AddrInv, OrderInv, ReadyInv, CleanExit, Drained, EarlyInv
<1>18. CASE ShutdownPool
  BY <1>18 DEF ShutdownPool, TypeOK, AddrInv, OrderInv, ReadyInv, CleanExit, Drained, EarlyInv
<1>19. CASE CopyTracked
  BY <1>19 DEF CopyTracked, TypeOK, AddrInv, OrderInv, ReadyInv, CleanExit, Drained, EarlyInv
<1>20. ASSUME NEW a \in Addr, NEW ok \in BOOLEAN, CleanUp(a, ok)  PROVE Inv'
  BY <1>20 DEF CleanUp, RemoveAddress, TypeOK, AddrInv, OrderInv, ReadyInv, CleanExit, Drained, EarlyInv
<1>21. CASE Exit
  BY <1>21 DEF Exit, End, NoChange, Idle, TypeOK, AddrInv, OrderInv, ReadyInv, CleanExit, Drained, EarlyInv
<1>22. CASE Killed
  BY <1>22 DEF Killed, End, NoChange, Idle, TypeOK, AddrInv, OrderInv, ReadyInv, CleanExit, Drained, EarlyInv
<1>23. ASSUME NEW s \in Fragile, ServeFails(s)  PROVE Inv'
  BY <1>23, LifecycleAssumption
     DEF ServeFails, TypeOK, AddrInv, OrderInv, ReadyInv, CleanExit, Drained, EarlyInv, Server
<1>24. ASSUME NEW q \in Query, NEW s \in {"udp", "tcp"}, QueryArrives(q, s)  PROVE Inv'
  <2>1. TypeOK'
    <3>1. query \in QueryType
      BY DEF TypeOK, QueryType
    <3>2. query' \in QueryType
      BY <1>24, <3>1, QueryUpdate DEF QueryArrives
    <3> QED  BY <1>24, <3>2 DEF QueryArrives, TypeOK, QueryType
  <2>2. AddrInv'
    BY <1>24 DEF QueryArrives, TypeOK, AddrInv
  <2>3. OrderInv'
    BY <1>24 DEF QueryArrives, TypeOK, OrderInv, Drained
  <2>4. ReadyInv'
    BY <1>24 DEF QueryArrives, TypeOK, ReadyInv
  <2>5. CleanExit'
    BY <1>24 DEF QueryArrives, CleanExit
  <2>6. EarlyInv'
    BY <1>24 DEF QueryArrives, TypeOK, EarlyInv
  <2> QED  BY <2>1, <2>2, <2>3, <2>4, <2>5, <2>6
<1>25. ASSUME NEW q \in Query, NEW a \in Addr, QueryAllocates(q, a)  PROVE Inv'
  <2>1. TypeOK'
    <3>1. query \in QueryType
      BY DEF TypeOK, QueryType
    <3>2. query' \in QueryType
      BY <1>25, <3>1, QueryUpdate DEF QueryAllocates
    <3> QED  BY <1>25, <3>2 DEF QueryAllocates, TypeOK, QueryType
  <2>2. AddrInv'
    BY <1>25 DEF QueryAllocates, TypeOK, AddrInv
  <2>3. OrderInv'
    BY <1>25 DEF QueryAllocates, TypeOK, OrderInv, Drained
  <2>4. ReadyInv'
    BY <1>25 DEF QueryAllocates, TypeOK, ReadyInv
  <2>5. CleanExit'
    BY <1>25 DEF QueryAllocates, CleanExit
  <2>6. EarlyInv'
    BY <1>25 DEF QueryAllocates, TypeOK, EarlyInv
  <2> QED  BY <2>1, <2>2, <2>3, <2>4, <2>5, <2>6
<1>25a. ASSUME NEW q \in Query, NEW a \in Addr, QueryShares(q, a)  PROVE Inv'
  <2>1. TypeOK'
    <3>1. query \in QueryType
      BY DEF TypeOK, QueryType
    <3>2. query' \in QueryType
      BY <1>25a, <3>1, QueryUpdate DEF QueryShares
    <3> QED  BY <1>25a, <3>2 DEF QueryShares, TypeOK, QueryType
  <2>2. AddrInv'
    BY <1>25a DEF QueryShares, TypeOK, AddrInv
  <2>3. OrderInv'
    BY <1>25a DEF QueryShares, TypeOK, OrderInv, Drained
  <2>4. ReadyInv' /\ CleanExit'
    BY <1>25a DEF QueryShares, ReadyInv, CleanExit
  <2>5. EarlyInv'
    BY <1>25a DEF QueryShares, TypeOK, EarlyInv
  <2> QED  BY <2>1, <2>2, <2>3, <2>4, <2>5
<1>26. ASSUME NEW q \in Query, QueryListens(q)  PROVE Inv'
  BY <1>26 DEF QueryListens, TypeOK, AddrInv, OrderInv, ReadyInv, CleanExit, Drained, EarlyInv
<1>27. ASSUME NEW q \in Query, QueryAnswered(q)  PROVE Inv'
  BY <1>27 DEF QueryAnswered, Idle, TypeOK, AddrInv, OrderInv, ReadyInv, CleanExit, Drained, EarlyInv
<1>28. ASSUME NEW a \in Addr, Expire(a)  PROVE Inv'
  BY <1>28 DEF Expire, TypeOK, AddrInv, OrderInv, ReadyInv, CleanExit, Drained, EarlyInv
<1>29. ASSUME NEW a \in Addr, Forget(a)  PROVE Inv'
  BY <1>29 DEF Forget, TypeOK, AddrInv, OrderInv, ReadyInv, CleanExit, Drained, EarlyInv
<1>30. ASSUME NEW a \in Addr, NEW ok \in BOOLEAN, Remove(a, ok)  PROVE Inv'
  BY <1>30 DEF Remove, RemoveAddress, TypeOK, AddrInv, OrderInv, ReadyInv, CleanExit, Drained, EarlyInv
<1>31. ASSUME NEW r \in Change, ChangeArrives(r)  PROVE Inv'
  <2>1. TypeOK'
    <3>1. change \in ChangeType
      BY DEF TypeOK, ChangeType
    <3>2. change' \in ChangeType
      BY <1>31, <3>1, ChangeUpdate DEF ChangeArrives
    <3> QED  BY <1>31, <3>2 DEF ChangeArrives, TypeOK, ChangeType
  <2>2. AddrInv'
    BY <1>31 DEF ChangeArrives, TypeOK, AddrInv
  <2>3. OrderInv'
    BY <1>31 DEF ChangeArrives, TypeOK, OrderInv, Drained
  <2>4. ReadyInv'
    BY <1>31 DEF ChangeArrives, TypeOK, ReadyInv
  <2>5. CleanExit'
    BY <1>31 DEF ChangeArrives, CleanExit
  <2>6. EarlyInv'
    BY <1>31 DEF ChangeArrives, TypeOK, EarlyInv
  <2> QED  BY <2>1, <2>2, <2>3, <2>4, <2>5, <2>6
<1>32. ASSUME NEW r \in Change, NEW S \in SUBSET Addr, ShutdownContext(r, S)  PROVE Inv'
  <2>1. TypeOK'
    <3>1. change \in ChangeType
      BY DEF TypeOK, ChangeType
    <3>2. change' \in ChangeType
      BY <1>32, <3>1, ChangeUpdate DEF ShutdownContext
    <3> QED  BY <1>32, <3>2 DEF ShutdownContext, TypeOK, ChangeType
  <2>2. AddrInv'
    BY <1>32 DEF ShutdownContext, TypeOK, AddrInv
  <2>3. OrderInv'
    BY <1>32 DEF ShutdownContext, TypeOK, OrderInv, Drained
  <2>4. ReadyInv'
    BY <1>32 DEF ShutdownContext, TypeOK, ReadyInv
  <2>5. CleanExit'
    BY <1>32 DEF ShutdownContext, CleanExit
  <2>6. EarlyInv'
    BY <1>32 DEF ShutdownContext, TypeOK, EarlyInv
  <2> QED  BY <2>1, <2>2, <2>3, <2>4, <2>5, <2>6
<1>33. ASSUME NEW r \in Change, ChangeAnswered(r)  PROVE Inv'
  <2>1. TypeOK'
    <3>1. change \in ChangeType
      BY DEF TypeOK, ChangeType
    <3>2. change' \in ChangeType
      BY <1>33, <3>1, ChangeUpdate DEF ChangeAnswered
    <3> QED  BY <1>33, <3>2 DEF ChangeAnswered, TypeOK, ChangeType
  <2>2. AddrInv'
    BY <1>33 DEF ChangeAnswered, TypeOK, AddrInv
  <2>3. OrderInv'
    BY <1>33 DEF ChangeAnswered, TypeOK, OrderInv, Drained
  <2>4. ReadyInv'
    BY <1>33 DEF ChangeAnswered, TypeOK, ReadyInv
  <2>5. CleanExit'
    BY <1>33 DEF ChangeAnswered, CleanExit
  <2>6. EarlyInv'
    BY <1>33 DEF ChangeAnswered, TypeOK, EarlyInv
  <2> QED  BY <2>1, <2>2, <2>3, <2>4, <2>5, <2>6
<1>34. ASSUME NEW b \in Probe, ProbeArrives(b) \/ handleReadiness(b)  PROVE Inv'
  BY <1>34 DEF ProbeArrives, handleReadiness, TypeOK, AddrInv, OrderInv, ReadyInv, CleanExit,
               Drained, EarlyInv
<1>35. ASSUME NEW t \in Tunnel, Accept(t) \/ Dial(t) \/ Dialled(t) \/ TunnelEnds(t)
       PROVE  Inv'
  BY <1>35 DEF Accept, Dial, Dialled, TunnelEnds, TypeOK, AddrInv, OrderInv, ReadyInv,
               CleanExit, Drained, EarlyInv
<1> QED
  BY <1>1, <1>2, <1>3, <1>4, <1>5, <1>6, <1>7, <1>8, <1>9, <1>10, <1>11, <1>12, <1>13, <1>14,
     <1>15, <1>16, <1>17, <1>18, <1>19, <1>20, <1>21, <1>22, <1>23, <1>24, <1>25, <1>26, <1>27,
     <1>28, <1>29, <1>30, <1>31, <1>32, <1>33, <1>34, <1>35,
     <1>25a
     DEF Next, Starting, Stopping, Working

\* Hence it is an invariant.
LEMMA Invariance == Spec => []Inv
BY InitInv, NextInv, PTL DEF Spec

\* Every reachable state is well typed.
THEOREM TypeCorrect == Spec => []TypeOK
<1>1. Inv => TypeOK
  BY DEF Inv
<1> QED  BY <1>1, Invariance, PTL

\* /readyz never answers "ready" while a server the flags ask for is not yet
\* started, or was already stopped.
THEOREM ReadyIsHonest == Spec => []ReadyHonest
<1>1. Inv => ReadyHonest
  <2> SUFFICES ASSUME Inv, ready, Alive, "http" \in up \/ \E b \in Probe : probe[b] = "busy"
               PROVE  Enabled \subseteq up \cup broken
    BY DEF ReadyHonest
  <2>1. pc \in {"notify", "running", "http"}
    BY DEF Inv, ReadyInv, Alive, Start, Stop
  <2>2. /\ dnsOn => {"udp", "tcp"} \subseteq up \cup broken
        /\ socksOn => "socks" \in up \cup broken
    BY <2>1 DEF Inv, ReadyInv
  <2> QED  BY <2>2 DEF Enabled
<1> QED  BY <1>1, Invariance, PTL

\* Main returns with no address left on the interface but those that could
\* not be removed and those a concurrent ReleaseVIP had forgotten already.
THEOREM ExitIsClean == Spec => []CleanExit
<1>1. Inv => CleanExit
  BY DEF Inv
<1> QED  BY <1>1, Invariance, PTL

\* After ForwardManager.Shutdown nothing listens and nothing will.
THEOREM ShutdownIsQuiet == Spec => []QuietAfterShutdown
<1>1. Inv => QuietAfterShutdown
  <2> SUFFICES ASSUME Inv, pc \in {"pool", "copy", "remove", "exited"}
               PROVE  listening = {} /\ \A q \in Query : query[q].pc = "idle"
    BY DEF QuietAfterShutdown
  <2>1. listening = {} /\ Drained("udp") /\ Drained("tcp")
    BY DEF Inv, OrderInv, PastUDP, PastTCP
  <2>2. \A q \in Query : query[q].via \in {"udp", "tcp"}
    BY DEF Inv, TypeOK
  <2> QED  BY <2>1, <2>2 DEF Drained
<1> QED  BY <1>1, Invariance, PTL

\* A failed or interrupted start leaves only addresses of DNS queries behind.
THEOREM FailedStartIsAccounted == Spec => []FailedStartAccounted
<1>1. Inv => FailedStartAccounted
  BY DEF Inv, TypeOK, AddrInv, EarlyInv, FailedStartAccounted
<1> QED  BY <1>1, Invariance, PTL

-----------------------------------------------------------------------------
(* The safety half of StopReturns. *)

\* What the step of Stop that is next has to wait for: requests that
\* httpSrv.Shutdown lets finish, queries of the DNS server being closed,
\* connections that hold the pool's lock or may take it first, and the
\* addresses Cleanup has still to remove.
Awaited ==
    CASE pc = "http"    -> {b \in Probe : probe[b] = "busy"}
      [] pc = "waitUDP" -> {q \in Query : query[q].pc # "idle" /\ query[q].via = "udp"}
      [] pc = "waitTCP" -> {q \in Query : query[q].pc # "idle" /\ query[q].via = "tcp"}
      [] pc = "pool"    -> {t \in Tunnel : tunnel[t] \in {"accepted", "dialing"}}
      [] pc = "remove"  -> snapshot
      [] OTHER          -> {}

\* While Stop waits, nothing new comes to wait for: what it waits for is shut
\* first.  Each wait is over when what was there at its start has ended.
NobodyJoinsTheWait ==
    [][(pc \in Stop /\ pc' = pc) => (Awaited' \subseteq Awaited)]_vars

\* What a step does to the work under way while main stays where it is in
\* Stop: work comes only through a server that is up, or a listener.
LEMMA WorkComesThroughServers ==
    ASSUME Inv, [Next]_vars, pc \in Stop, pc' = pc
    PROVE  /\ \A b \in Probe : probe'[b] = "busy" => probe[b] = "busy" \/ "http" \in up
           /\ \A q \in Query : query'[q].pc # "idle" =>
                 \/ query[q].pc # "idle" /\ query'[q].via = query[q].via
                 \/ query'[q].via \in up
           /\ \A t \in Tunnel : tunnel'[t] \in {"accepted", "dialing"} =>
                 \/ tunnel[t] \in {"accepted", "dialing"}
                 \/ "socks" \in up \/ listening # {}
           /\ pc = "remove" => snapshot' \subseteq snapshot
<1> USE DEF vars, work, addresses, Step, Stop
<1>1. CASE UNCHANGED vars
  BY <1>1
<1>2. CASE Starting \/ Signal \/ Killed \/ \E s \in Fragile : ServeFails(s)
  BY <1>2 DEF Starting, StepFails, LoadConfig, ListenHTTP, NewManagers, SetManagers, StartDNS,
              DNSStarted, StartSocks, SetReady, Notify, Signal, Killed, ServeFails, End
<1>3. CASE Stopping
  BY <1>3 DEF Stopping, HTTPStopped, StopSocks, CloseDNS, DNSStopped, ShutdownListeners,
              ShutdownPool, CopyTracked, CleanUp, Exit, End
<1>4. CASE Working
  <2>1. UNCHANGED snapshot
    BY <1>4 DEF Working, QueryArrives, QueryAllocates, QueryShares, QueryListens, QueryAnswered, Expire,
                Forget, Remove, ChangeArrives, ShutdownContext, ChangeAnswered, ProbeArrives,
                handleReadiness, Accept, Dial, Dialled, TunnelEnds
  <2>2. ASSUME NEW q \in Query, \/ \E s \in {"udp", "tcp"} : QueryArrives(q, s)
                                \/ \E a \in Addr : QueryAllocates(q, a) \/ QueryShares(q, a)
                                \/ QueryListens(q) \/ QueryAnswered(q)
        PROVE  /\ UNCHANGED <<probe, tunnel>>
               /\ \A r \in Query : query'[r].pc # "idle" =>
                     \/ query[r].pc # "idle" /\ query'[r].via = query[r].via
                     \/ query'[r].via \in up
    BY <2>2 DEF QueryArrives, QueryAllocates, QueryShares, QueryListens, QueryAnswered, Idle, Inv, TypeOK
  <2>3. ASSUME NEW b \in Probe, ProbeArrives(b) \/ handleReadiness(b)
        PROVE  /\ UNCHANGED <<query, tunnel>>
               /\ \A d \in Probe : probe'[d] = "busy" => probe[d] = "busy" \/ "http" \in up
    BY <2>3 DEF ProbeArrives, handleReadiness, Inv, TypeOK
  <2>4. ASSUME NEW t \in Tunnel, Accept(t) \/ Dial(t) \/ Dialled(t) \/ TunnelEnds(t)
        PROVE  /\ UNCHANGED <<query, probe>>
               /\ \A u \in Tunnel : tunnel'[u] \in {"accepted", "dialing"} =>
                     \/ tunnel[u] \in {"accepted", "dialing"}
                     \/ "socks" \in up \/ listening # {}
    BY <2>4 DEF Accept, Dial, Dialled, TunnelEnds, Inv, TypeOK
  <2>5. ASSUME \/ \E a \in Addr : Expire(a) \/ Forget(a) \/ \E ok \in BOOLEAN : Remove(a, ok)
               \/ \E r \in Change : \/ ChangeArrives(r) \/ ChangeAnswered(r)
                                    \/ \E S \in SUBSET Addr : ShutdownContext(r, S)
        PROVE  UNCHANGED <<query, probe, tunnel>>
    BY <2>5 DEF Expire, Forget, Remove, ChangeArrives, ChangeAnswered, ShutdownContext
  <2> QED  BY <1>4, <2>1, <2>2, <2>3, <2>4, <2>5 DEF Working
<1> QED  BY <1>1, <1>2, <1>3, <1>4 DEF Next

\* Nothing Stop waits for is added to: main never waits for more than what
\* was under way when it began to wait.
THEOREM WaitsOnlyShrink == Spec => NobodyJoinsTheWait
<1>1. ASSUME Inv, [Next]_vars, pc \in Stop, pc' = pc
      PROVE  Awaited' \subseteq Awaited
  <2>1. /\ "http" \notin up
        /\ pc = "waitUDP" => "udp" \notin up
        /\ pc = "waitTCP" => "tcp" \notin up
        /\ pc = "pool" => "socks" \notin up /\ listening = {}
    BY <1>1 DEF Inv, ReadyInv, OrderInv, Stop
  <2>2. CASE pc = "http"
    BY <1>1, <2>1, <2>2, WorkComesThroughServers DEF Awaited
  <2>3. CASE pc = "waitUDP"
    BY <1>1, <2>1, <2>3, WorkComesThroughServers DEF Awaited
  <2>4. CASE pc = "waitTCP"
    BY <1>1, <2>1, <2>4, WorkComesThroughServers DEF Awaited
  <2>5. CASE pc = "pool"
    BY <1>1, <2>1, <2>5, WorkComesThroughServers DEF Awaited
  <2>6. CASE pc = "remove"
    BY <1>1, <2>6, WorkComesThroughServers DEF Awaited
  <2>7. CASE pc \notin {"http", "waitUDP", "waitTCP", "pool", "remove"}
    BY <1>1, <2>7 DEF Awaited
  <2> QED  BY <2>2, <2>3, <2>4, <2>5, <2>6, <2>7
<1>2. Inv /\ [Next]_vars => [(pc \in Stop /\ pc' = pc) => (Awaited' \subseteq Awaited)]_vars
  BY <1>1
<1> QED  BY <1>2, Invariance, PTL DEF Spec, NobodyJoinsTheWait
=============================================================================
