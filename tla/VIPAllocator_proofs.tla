------------------------ MODULE VIPAllocator_proofs -------------------------
(***************************************************************************)
(* Proofs about VIPAllocator, for every set of keys and callers, every     *)
(* word size and every set of networks.                                    *)
(***************************************************************************)
EXTENDS VIPAllocator, TLAPS

-----------------------------------------------------------------------------
(* The inductive invariant. *)

\* a.mu: at most one caller is inside Allocate, for a key that has no address.
LockInv ==
    /\ \A c, d \in Caller :
          call[c].op = "allocate" /\ call[d].op = "allocate" => c = d
    /\ \A c \in Caller :
          call[c].op = "allocate" =>
              /\ call[c].key \in Key
              /\ assigned[call[c].key] = NoAddr
              /\ call[c].todo = {}

\* next has passed every address this process bound or skipped.
NextInv ==
    /\ First <= next
    /\ own \cup skipped \subseteq First .. Limit - 1
    /\ \A a \in own : a < next

\* Only addresses this process bound are tracked or removed, and ReleaseVIP
\* has forgotten the one it removes.
OwnInv ==
    /\ Tracked \subseteq own
    /\ snapshot \subseteq own
    /\ \A c \in Caller : call[c].todo \subseteq own
    /\ \A c \in Caller : call[c].op = "remove" => call[c].todo \cap Tracked = {}

\* One Cleanup at most runs, over the snapshot it took.
CleanupInv ==
    /\ phase = "running" => snapshot = {}
    /\ \A c \in Caller :
          call[c].op = "cleanup" => phase = "cleaning" /\ call[c].todo \subseteq snapshot
    /\ \A c, d \in Caller :
          call[c].op = "cleanup" /\ call[d].op = "cleanup" => c = d
    /\ \A a \in (snapshot \cap iface) \ failed :
          \E c \in Caller : call[c].op = "cleanup" /\ a \in call[c].todo

IInv ==
    /\ TypeOK
    /\ Consistent
    /\ TrackedIsBound
    /\ Accounted
    /\ LockInv
    /\ NextInv
    /\ OwnInv
    /\ CleanupInv

-----------------------------------------------------------------------------
\* uint32 arithmetic: what % Word returns, and where it is the identity.
LEMMA ModFacts ==
    /\ \A x \in Int : x % Word \in Addr
    /\ \A x \in Addr : x % Word = x
PROOF BY AllocAssumption DEF Addr

\* First and Limit are addresses.
LEMMA BoundsType ==
    ASSUME network \in Networks
    PROVE  First \in Addr /\ Limit \in Addr
<1>1. network \in Network
  BY AllocAssumption
<1>2. NetworkBase \in Int /\ network.size \in Int
  BY <1>1, AllocAssumption DEF Network, NetworkBase, Addr
<1>3. network.size % Word \in Int
  BY <1>2, ModFacts DEF Addr
<1> QED
  BY <1>2, <1>3, ModFacts DEF First, Limit

\* Taking the address at next never wraps around.
LEMMA TakeNextFacts ==
    ASSUME network \in Networks, next \in Addr, NEW c, TakeNext(c)
    PROVE  next' = next + 1 /\ next' \in Addr
BY BoundsType, ModFacts, AllocAssumption DEF TakeNext, Addr

\* Every step keeps the types.
LEMMA TypeStep ==
    ASSUME TypeOK, [Next]_vars
    PROVE  TypeOK'
<1> USE DEF TypeOK
<1>0. Idle \in Call
  BY DEF Idle, Call, Op
<1>1. ASSUME NEW c \in Caller, NEW k \in Key, AllocateHit(c, k)
      PROVE  TypeOK'
  BY <1>1 DEF AllocateHit
<1>2. ASSUME NEW c \in Caller, NEW k \in Key, AllocateMiss(c, k)
      PROVE  TypeOK'
  <2>1. [op |-> "allocate", key |-> k, todo |-> {}] \in Call
    BY <1>0 DEF Call, Op
  <2> QED BY <1>2, <2>1 DEF AllocateMiss
<1>3. ASSUME NEW c \in Caller, Exhausted(c)
      PROVE  TypeOK'
  BY <1>0, <1>3 DEF Exhausted, Return
<1>4. ASSUME NEW c \in Caller, SkipInUse(c)
      PROVE  TypeOK'
  <2>1. next' \in Addr
    BY <1>4, TakeNextFacts DEF SkipInUse
  <2> QED BY <1>4, <2>1 DEF SkipInUse
<1>5. ASSUME NEW c \in Caller, AddFails(c)
      PROVE  TypeOK'
  <2>1. next' \in Addr
    BY <1>5, TakeNextFacts DEF AddFails
  <2> QED BY <1>0, <1>5, <2>1 DEF AddFails, Return
<1>6. ASSUME NEW c \in Caller, Bind(c)
      PROVE  TypeOK'
  <2>1. next' \in Addr
    BY <1>6, TakeNextFacts DEF Bind
  <2>2. call[c].key \in Key \cup {NoKey}
    BY DEF Call
  <2> QED BY <1>0, <1>6, <2>1, <2>2 DEF Bind, Return
<1>7. ASSUME NEW c \in Caller, NEW a \in Addr, ReleaseVIP(c, a)
      PROVE  TypeOK'
  <2>1. [op |-> "remove", key |-> NoKey, todo |-> {a}] \in Call
    BY <1>0 DEF Call, Op
  <2> QED BY <1>7, <2>1 DEF ReleaseVIP
<1>8. ASSUME NEW c \in Caller, NEW a \in Addr, RemoveAddress(c, a)
      PROVE  TypeOK'
  <2>1. [call[c] EXCEPT !.todo = @ \ {a}] \in Call
    BY DEF Call
  <2> QED BY <1>8, <2>1 DEF RemoveAddress
<1>9. ASSUME NEW c \in Caller, Cleanup(c)
      PROVE  TypeOK'
  <2>1. [op |-> "cleanup", key |-> NoKey, todo |-> Tracked] \in Call
    BY <1>0 DEF Call, Op, Tracked
  <2> QED BY <1>9, <2>1 DEF Cleanup, Tracked
<1>10. ASSUME NEW c \in Caller, Done(c)
       PROVE  TypeOK'
  BY <1>0, <1>10 DEF Done
<1>11. ASSUME Restart
       PROVE  TypeOK'
  BY <1>0, <1>11, BoundsType, AllocAssumption DEF Restart
<1>12. CASE UNCHANGED vars
  BY <1>12 DEF vars
<1> QED
  BY <1>1, <1>2, <1>3, <1>4, <1>5, <1>6, <1>7, <1>8, <1>9, <1>10, <1>11, <1>12
  DEF Next, AllocateStep

\* Every reachable state is well typed.
THEOREM TypeCorrect == Spec => []TypeOK
<1>1. Init => TypeOK
  BY BoundsType, AllocAssumption DEF Init, TypeOK, Idle, Call, Op
<1> QED BY <1>1, TypeStep, PTL DEF Spec

-----------------------------------------------------------------------------
(* One lemma per action: what is inside the maps, the interface and the    *)
(* callers' pending removals after it.                                     *)

\* Allocate's fast path only reports.
LEMMA AllocateHitStep ==
    ASSUME IInv, TypeOK', NEW c \in Caller, NEW k \in Key, AllocateHit(c, k)
    PROVE  IInv'
BY DEF IInv, AllocateHit, Consistent, Tracked, TrackedIsBound, Accounted,
       LockInv, NextInv, First, Limit, NetworkBase, OwnInv, CleanupInv

\* Entering the loop takes the free lock for a key without an address.
LEMMA AllocateMissStep ==
    ASSUME IInv, TypeOK', NEW c \in Caller, NEW k \in Key, AllocateMiss(c, k)
    PROVE  IInv'
<1> USE DEF IInv, TypeOK, Tracked, AllocateMiss, Idle
<1>1. Consistent' /\ TrackedIsBound' /\ NextInv'
  BY DEF Consistent, TrackedIsBound, NextInv, First, Limit, NetworkBase
<1>2. Accounted'
  BY DEF Accounted
<1>3. LockInv'
  BY DEF LockInv, LockFree
<1>4. OwnInv'
  BY DEF OwnInv
<1>5. CleanupInv'
  BY DEF CleanupInv
<1> QED BY <1>1, <1>2, <1>3, <1>4, <1>5

\* A caller that leaves Allocate without an address changes only its own call.
LEMMA ReturnStep ==
    ASSUME IInv, TypeOK', NEW c \in Caller, NEW how, Return(c, how),
           call[c].op = "allocate",
           UNCHANGED <<network, assigned, reverse, skipped, iface, own, failed,
                       snapshot, phase>>,
           next' \in Addr, next <= next'
    PROVE  IInv'
<1> USE DEF IInv, TypeOK, Tracked, Return, Idle
<1>1. Consistent' /\ TrackedIsBound'
  BY DEF Consistent, TrackedIsBound
<1>2. NextInv'
  <2>1. First' = First /\ Limit' = Limit
    BY DEF First, Limit, NetworkBase
  <2> QED BY <2>1, BoundsType, AllocAssumption DEF NextInv, Addr
<1>3. Accounted'
  BY DEF Accounted, LockInv
<1>4. LockInv'
  BY DEF LockInv
<1>5. OwnInv'
  BY DEF OwnInv
<1>6. CleanupInv'
  BY DEF CleanupInv
<1> QED BY <1>1, <1>2, <1>3, <1>4, <1>5, <1>6

\* The loop gives up.
LEMMA ExhaustedStep ==
    ASSUME IInv, TypeOK', NEW c \in Caller, Exhausted(c)
    PROVE  IInv'
BY ReturnStep, AllocAssumption DEF Exhausted, IInv, TypeOK, Addr

\* AddAddress failed.
LEMMA AddFailsStep ==
    ASSUME IInv, TypeOK', NEW c \in Caller, AddFails(c)
    PROVE  IInv'
<1>1. next' = next + 1 /\ next' \in Addr
  BY TakeNextFacts DEF AddFails, IInv, TypeOK
<1>2. next <= next'
  BY <1>1, AllocAssumption DEF IInv, TypeOK, Addr
<1> QED BY <1>1, <1>2, ReturnStep DEF AddFails, TakeNext

\* A skipped address lies between First and Limit.
LEMMA SkipInUseStep ==
    ASSUME IInv, TypeOK', NEW c \in Caller, SkipInUse(c)
    PROVE  IInv'
<1> USE DEF IInv, TypeOK, Tracked, SkipInUse
<1>1. Consistent' /\ TrackedIsBound' /\ Accounted' /\ LockInv' /\ OwnInv' /\ CleanupInv'
  BY DEF Consistent, TrackedIsBound, Accounted, LockInv, OwnInv, CleanupInv
<1>2. NextInv'
  <2>1. First' = First /\ Limit' = Limit
    BY DEF First, Limit, NetworkBase
  <2>2. next' = next + 1
    BY TakeNextFacts
  <2> QED BY <2>1, <2>2, BoundsType, AllocAssumption DEF NextInv, TakeNext, Addr
<1> QED BY <1>1, <1>2

\* The address that is bound is new: it is above everything bound before.
LEMMA BindStep ==
    ASSUME IInv, TypeOK', NEW c \in Caller, Bind(c)
    PROVE  IInv'
<1> USE DEF IInv, TypeOK, Tracked, Bind, Return, Idle
<1> DEFINE k == call[c].key
<1>1. next' = next + 1 /\ next \in Addr /\ next # NoAddr
  BY TakeNextFacts, AllocAssumption DEF NoAddr, Addr
<1>2. next \notin own
  BY <1>1, AllocAssumption DEF NextInv, Addr
<1>3. k \in Key /\ assigned[k] = NoAddr /\ reverse[next] = NoKey /\ k # NoKey
  BY <1>1, <1>2, AllocAssumption DEF LockInv, OwnInv, TakeNext
<1>4. Consistent'
  <2> SUFFICES ASSUME NEW j \in Key, NEW b \in Addr
               PROVE  assigned'[j] = b <=> reverse'[b] = j
    BY DEF Consistent
  <2>1. assigned' = [assigned EXCEPT ![k] = next] /\ reverse' = [reverse EXCEPT ![next] = k]
    OBVIOUS
  <2>2. NoAddr # b /\ NoKey # j
    BY AllocAssumption DEF NoAddr, Addr
  <2>3. assigned[j] = b <=> reverse[b] = j
    BY DEF Consistent
  <2> QED BY <1>1, <1>3, <2>1, <2>2, <2>3
<1>5. TrackedIsBound'
  BY <1>1 DEF TrackedIsBound
<1>6. Accounted'
  <2>1. call[c].todo = {}
    BY DEF LockInv, TakeNext
  <2> QED BY <1>1, <1>3, <2>1 DEF Accounted
<1>7. LockInv'
  BY DEF LockInv, TakeNext
<1>8. NextInv'
  <2>1. First' = First /\ Limit' = Limit
    BY DEF First, Limit, NetworkBase
  <2> QED BY <1>1, <2>1, BoundsType, AllocAssumption DEF NextInv, TakeNext, Addr
<1>9. OwnInv'
  BY <1>1, <1>2 DEF OwnInv
<1>10. CleanupInv'
  BY <1>2 DEF CleanupInv, OwnInv, TakeNext
<1> QED BY <1>4, <1>5, <1>6, <1>7, <1>8, <1>9, <1>10

\* ReleaseVIP forgets one pair in both maps and keeps the address to remove.
LEMMA ReleaseVIPStep ==
    ASSUME IInv, TypeOK', NEW c \in Caller, NEW a \in Addr, ReleaseVIP(c, a)
    PROVE  IInv'
<1> USE DEF IInv, TypeOK, Tracked, ReleaseVIP, Idle
<1>1. reverse[a] \in Key /\ assigned[reverse[a]] = a
  BY DEF Consistent
<1>2. a # NoAddr /\ NoKey \notin Key
  BY AllocAssumption DEF NoAddr, Addr
<1>3. Consistent'
  <2> SUFFICES ASSUME NEW k \in Key, NEW b \in Addr
               PROVE  assigned'[k] = b <=> reverse'[b] = k
    BY DEF Consistent
  <2>1. CASE k = reverse[a]
    <3>1. assigned'[k] = NoAddr /\ NoAddr # b
      BY <2>1, AllocAssumption DEF NoAddr, Addr
    <3>2. reverse[b] = k => b = a
      BY <1>1, <2>1 DEF Consistent
    <3> QED BY <1>2, <3>1, <3>2
  <2>2. CASE k # reverse[a]
    BY <1>2, <2>2 DEF Consistent
  <2> QED BY <2>1, <2>2
<1>4. TrackedIsBound' /\ CleanupInv'
  BY DEF TrackedIsBound, CleanupInv
<1>5. NextInv'
  BY DEF NextInv, First, Limit, NetworkBase
<1>6. Accounted'
  BY DEF Accounted
<1>7. LockInv'
  BY <1>1 DEF LockInv, LockFree
<1>8. OwnInv'
  BY DEF OwnInv
<1> QED BY <1>3, <1>4, <1>5, <1>6, <1>7, <1>8

\* What is taken off the interface is forgotten or in Cleanup's snapshot.
LEMMA RemoveAddressStep ==
    ASSUME IInv, TypeOK', NEW c \in Caller, NEW a \in Addr, RemoveAddress(c, a)
    PROVE  IInv'
<1> USE DEF IInv, TypeOK, Tracked, RemoveAddress, Call
<1>1. Consistent' /\ NextInv'
  BY DEF Consistent, NextInv, First, Limit, NetworkBase
<1>2. TrackedIsBound'
  BY DEF TrackedIsBound, OwnInv, CleanupInv
<1>3. Accounted'
  BY DEF Accounted
<1>4. LockInv'
  BY DEF LockInv
<1>5. OwnInv'
  BY DEF OwnInv
<1>6. CleanupInv'
  BY DEF CleanupInv
<1> QED BY <1>1, <1>2, <1>3, <1>4, <1>5, <1>6

\* Cleanup starts only once, so it starts with an empty snapshot.
LEMMA CleanupStep ==
    ASSUME IInv, TypeOK', NEW c \in Caller, Cleanup(c)
    PROVE  IInv'
<1> USE DEF IInv, TypeOK, Tracked, Cleanup, Idle
<1>1. Consistent' /\ TrackedIsBound' /\ NextInv'
  BY DEF Consistent, TrackedIsBound, NextInv, First, Limit, NetworkBase
<1>2. Accounted'
  BY DEF Accounted
<1>3. LockInv'
  BY DEF LockInv
<1>4. OwnInv'
  BY DEF OwnInv
<1>5. CleanupInv'
  BY DEF CleanupInv
<1> QED BY <1>1, <1>2, <1>3, <1>4, <1>5

\* A removal that returns has nothing left to remove.
LEMMA DoneStep ==
    ASSUME IInv, TypeOK', NEW c \in Caller, Done(c)
    PROVE  IInv'
<1> USE DEF IInv, TypeOK, Tracked, Done, Idle
<1>1. Consistent' /\ TrackedIsBound' /\ NextInv'
  BY DEF Consistent, TrackedIsBound, NextInv, First, Limit, NetworkBase
<1>2. Accounted'
  BY DEF Accounted
<1>3. LockInv'
  BY DEF LockInv
<1>4. OwnInv'
  BY DEF OwnInv
<1>5. CleanupInv'
  BY DEF CleanupInv
<1> QED BY <1>1, <1>2, <1>3, <1>4, <1>5

\* A new process starts with empty maps and owns nothing.
LEMMA RestartStep ==
    ASSUME IInv, TypeOK', Restart
    PROVE  IInv'
<1> USE DEF IInv, TypeOK, Tracked, Restart, Idle
<1>1. Consistent'
  BY AllocAssumption DEF Consistent, NoAddr, Addr
<1>2. TrackedIsBound' /\ Accounted' /\ LockInv' /\ OwnInv' /\ CleanupInv'
  BY DEF TrackedIsBound, Accounted, LockInv, OwnInv, CleanupInv
<1>3. NextInv'
  <2>1. First' = First
    BY DEF First, NetworkBase
  <2> QED BY <2>1, BoundsType, AllocAssumption DEF NextInv, Addr
<1> QED BY <1>1, <1>2, <1>3

\* The invariant is inductive.
LEMMA InvStep ==
    ASSUME IInv, [Next]_vars
    PROVE  IInv'
<1>1. TypeOK'
  BY TypeStep DEF IInv
<1>2. CASE UNCHANGED vars
  BY <1>2 DEF vars, IInv, TypeOK, Consistent, Tracked, TrackedIsBound, Accounted,
              LockInv, NextInv, First, Limit, NetworkBase, OwnInv, CleanupInv
<1> QED
  BY <1>1, <1>2, AllocateHitStep, AllocateMissStep, ExhaustedStep, AddFailsStep,
     SkipInUseStep, BindStep, ReleaseVIPStep, RemoveAddressStep, CleanupStep,
     DoneStep, RestartStep
  DEF Next, AllocateStep

\* The invariant holds of the initial states.
LEMMA InvInit ==
    ASSUME Init
    PROVE  IInv
<1>1. TypeOK
  BY BoundsType, AllocAssumption DEF Init, TypeOK, Idle, Call, Op
<1>2. Consistent /\ NextInv
  BY <1>1, BoundsType, AllocAssumption DEF Init, TypeOK, Consistent, NextInv, NoAddr, Addr
<1>3. TrackedIsBound /\ Accounted /\ LockInv /\ OwnInv /\ CleanupInv
  BY DEF Init, TrackedIsBound, Tracked, Accounted, LockInv, OwnInv, CleanupInv, Idle
<1> QED BY <1>1, <1>2, <1>3 DEF IInv

\* The inductive invariant holds of every reachable state.
THEOREM Invariance == Spec => []IInv
BY InvInit, InvStep, PTL DEF Spec

-----------------------------------------------------------------------------
(* What the invariant gives. *)

\* The two maps of the allocator are inverse in every reachable state, so no
\* two services ever share an address.
THEOREM MapsConsistent == Spec => []Consistent
BY Invariance, PTL DEF IInv

\* What Lookup returns is bound to the interface until Cleanup removes it.
THEOREM LookupIsBound == Spec => []TrackedIsBound
BY Invariance, PTL DEF IInv

\* No address this process bound is ever lost track of.
THEOREM NothingLost == Spec => []Accounted
BY Invariance, PTL DEF IInv

\* A finished Cleanup has attempted every address it found.
THEOREM CleanupAttemptsAll == Spec => []CleanupComplete
<1>1. IInv => CleanupComplete
  BY DEF IInv, CleanupInv, CleanupComplete
<1> QED BY <1>1, Invariance, PTL

\* Of an ordinary IPv4 block only host addresses are handed out or skipped.
THEOREM OnlyHostAddresses == Spec => []HostAddressesOnly
<1>1. IInv => HostAddressesOnly
  <2> SUFFICES ASSUME IInv, network.v4, network.size > 1,
                      network.ip + network.size <= Word
               PROVE  Tracked \cup skipped \subseteq HostAddresses
    BY DEF HostAddressesOnly
  <2>1. network \in Network
    BY AllocAssumption DEF IInv, TypeOK
  <2>2. network.ip \in Nat /\ network.size \in Nat
    BY <2>1, AllocAssumption DEF Network, Addr
  <2>3. CASE network.size = Word
    <3>1. network.ip = 0
      BY <2>2, <2>3, AllocAssumption
    <3>2. network.size % Word = 0
      BY <2>3, AllocAssumption
    <3>3. First = 1
      <4>1. First = 1 % Word
        BY <3>1 DEF First, NetworkBase
      <4>2. 1 \in Addr
        BY <2>2, <2>3, AllocAssumption DEF Addr
      <4> QED BY <4>1, <4>2, ModFacts
    <3>4. Limit = Word - 1
      <4>1. Limit = (-1) % Word
        BY <3>1, <3>2 DEF Limit, NetworkBase
      <4>2. (-1) % Word = Word - 1
        BY AllocAssumption
      <4> QED BY <4>1, <4>2
    <3> QED BY <2>3, <3>1, <3>3, <3>4, AllocAssumption
            DEF IInv, NextInv, OwnInv, HostAddresses
  <2>4. CASE network.size < Word
    <3>1. network.size % Word = network.size
      BY <2>2, <2>4, ModFacts, AllocAssumption DEF Addr
    <3>2. First = network.ip + 1
      <4>1. network.ip + 1 \in Addr
        BY <2>2, AllocAssumption DEF Addr
      <4> QED BY <4>1, ModFacts DEF First, NetworkBase
    <3>3. Limit = network.ip + network.size - 1
      <4>1. network.ip + network.size - 1 \in Addr
        BY <2>2, AllocAssumption DEF Addr
      <4> QED BY <3>1, <4>1, ModFacts DEF Limit, NetworkBase
    <3> QED BY <2>2, <3>2, <3>3, AllocAssumption
            DEF IInv, NextInv, OwnInv, HostAddresses
  <2> QED BY <2>2, <2>3, <2>4, AllocAssumption
<1> QED BY <1>1, Invariance, PTL

\* The process takes only its own addresses off the interface.
THEOREM NeverRemovesForeign == Spec => ForeignUntouched
<1>1. ASSUME IInv, [Next]_vars
      PROVE  iface \ iface' \subseteq own
  <2>1. ASSUME NEW c \in Caller, NEW a \in Addr, RemoveAddress(c, a)
        PROVE  iface \ iface' \subseteq own
    BY <1>1, <2>1 DEF RemoveAddress, IInv, OwnInv
  <2> QED BY <1>1, <2>1 DEF Next, AllocateStep, AllocateHit, AllocateMiss,
             Exhausted, SkipInUse, AddFails, Bind, ReleaseVIP, Cleanup, Done,
             Restart, vars
<1> QED BY <1>1, Invariance, PTL DEF Spec, ForeignUntouched

\* The allocator implements VIPLease: an address is granted to a key that has
\* none, was never bound before by this process, and is on nobody's interface.
THEOREM Refinement == Spec => LeaseSpec
<1> USE DEF Lease!LNext, Lease!Grant, Lease!Revoke, Lease!Renew, Lease!lvars
<1>1. Init => Lease!LInit
  BY AllocAssumption DEF Init, Lease!LInit
<1>2. ASSUME IInv, [Next]_vars
      PROVE  [Lease!LNext]_(Lease!lvars)
  <2> USE <1>2 DEF IInv, TypeOK
  <2>1. ASSUME NEW c \in Caller, Bind(c)
        PROVE  Lease!Grant(call[c].key, next) /\ call[c].key \in Key /\ next \in Addr
    <3>1. next \notin own \cup iface
      BY <2>1, AllocAssumption DEF Bind, NextInv, Addr
    <3> QED BY <2>1, <3>1 DEF Bind, TakeNext, LockInv
  <2>2. ASSUME NEW c \in Caller, NEW a \in Addr, ReleaseVIP(c, a)
        PROVE  Lease!Revoke(reverse[a]) /\ reverse[a] \in Key
    <3>1. reverse[a] \in Key /\ assigned[reverse[a]] = a
      BY <2>2 DEF ReleaseVIP, Consistent
    <3> QED BY <2>2, <3>1, AllocAssumption DEF ReleaseVIP, NoAddr, Addr
  <2>3. ASSUME NEW c \in Caller, NEW a \in Addr, RemoveAddress(c, a)
        PROVE  UNCHANGED Lease!lvars
    BY <2>3 DEF RemoveAddress, OwnInv
  <2>4. ASSUME Restart
        PROVE  Lease!Renew
    BY <2>4 DEF Restart
  <2>5. ASSUME \/ \E c \in Caller, k \in Key : AllocateHit(c, k) \/ AllocateMiss(c, k)
               \/ \E c \in Caller : \/ Exhausted(c) \/ SkipInUse(c) \/ AddFails(c)
                                    \/ Cleanup(c) \/ Done(c)
               \/ UNCHANGED vars
        PROVE  UNCHANGED Lease!lvars
    BY <2>5 DEF AllocateHit, AllocateMiss, Exhausted, SkipInUse, AddFails,
                Cleanup, Done, vars
  <2> QED BY <2>1, <2>2, <2>3, <2>4, <2>5 DEF Next, AllocateStep
<1> QED BY <1>1, <1>2, Invariance, PTL DEF Spec, LeaseSpec, Lease!LSpec
-----------------------------------------------------------------------------
\* The safety half of AllocateReturns.  a.next++ is done modulo 2^32, and yet
\* never wraps: while the process lives next only goes up, by one, below max,
\* and only for the caller that holds a.mu.  A turn of the loop after which the
\* caller is still inside has moved it.
CounterAdvances ==
    [][restarts' = restarts =>
          /\ \/ next' = next
             \/ /\ next' = next + 1
                /\ next < Limit
                /\ \E c \in Caller : call[c].op = "allocate"
          /\ \A c \in Caller :
                (AllocateStep(c) /\ call'[c].op = "allocate") => next' = next + 1]_vars

\* Allocate's loop works its way through the block and never starts over.
THEOREM LoopAdvances == Spec => CounterAdvances
<1>1. ASSUME IInv, [Next]_vars, restarts' = restarts
      PROVE  /\ \/ next' = next
                \/ /\ next' = next + 1
                   /\ next < Limit
                   /\ \E c \in Caller : call[c].op = "allocate"
             /\ \A c \in Caller :
                   (AllocateStep(c) /\ call'[c].op = "allocate") => next' = next + 1
  <2>0. /\ restarts \in Int /\ next \in Addr /\ Limit \in Addr
        /\ call \in [Caller -> Call]
    BY <1>1, BoundsType DEF IInv, TypeOK
  <2>1. ASSUME NEW c \in Caller, TakeNext(c)
        PROVE  next' = next + 1 /\ next < Limit /\ call[c].op = "allocate"
    <3>1. next + 1 \in Addr
      BY <2>0, <2>1, AllocAssumption DEF TakeNext, Addr
    <3> QED BY <2>1, <3>1, ModFacts DEF TakeNext
  <2>2. \A c \in Caller : AllocateStep(c) =>
           \/ next' = next /\ call'[c] = Idle
           \/ next' = next + 1 /\ next < Limit /\ call[c].op = "allocate"
    BY <2>0, <2>1 DEF AllocateStep, Exhausted, SkipInUse, AddFails, Bind, Return
  <2>3. \A c \in Caller :
           (AllocateStep(c) /\ call'[c].op = "allocate") => next' = next + 1
    BY <2>2 DEF Idle
  <2>4. ~ Restart
    BY <1>1, <2>0 DEF Restart
  <2>5. \/ next' = next
        \/ next' = next + 1 /\ next < Limit /\ \E c \in Caller : call[c].op = "allocate"
    BY <1>1, <2>2, <2>4 DEF Next, AllocateHit, AllocateMiss, ReleaseVIP, Cleanup,
                            RemoveAddress, Done, vars
  <2> QED BY <2>3, <2>5
<1>2. IInv /\ [Next]_vars =>
        [restarts' = restarts =>
          /\ \/ next' = next
             \/ /\ next' = next + 1
                /\ next < Limit
                /\ \E c \in Caller : call[c].op = "allocate"
          /\ \A c \in Caller :
                (AllocateStep(c) /\ call'[c].op = "allocate") => next' = next + 1]_vars
  BY <1>1
<1> QED BY <1>2, Invariance, PTL DEF Spec, CounterAdvances
=============================================================================
