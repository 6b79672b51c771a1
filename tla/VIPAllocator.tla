---------------------------- MODULE VIPAllocator ----------------------------
(***************************************************************************)
(* internal/vip/allocator.go: addresses of VIP_CIDR are handed out to      *)
(* service keys in increasing order, bound to the network interface before *)
(* they are recorded, and taken back by ReleaseVIP and Cleanup.            *)
(*                                                                         *)
(* Allocate holds a.mu for its whole loop, so the lock is held exactly     *)
(* while some caller's op is "allocate".  ReleaseVIP and Cleanup talk to   *)
(* the interface after they dropped the lock, in steps of their own.  The  *)
(* interface outlives the process: Restart forgets everything but it.      *)
(***************************************************************************)
EXTENDS Integers, FiniteSets

CONSTANTS
    Key,          \* service keys
    Caller,       \* goroutines that call the allocator
    Word,         \* number of uint32 values (2^32 in the code)
    Networks,     \* the CIDRs the process may be configured with
    Foreign,      \* addresses others may have put on the interface
    NoKey,        \* ReverseLookup's ""
    MaxRestarts   \* bound: how often the process is restarted

Addr   == 0 .. Word - 1
NoAddr == -1

\* A parsed CIDR: whether it is IPv4, its network address as a number (of an
\* IPv4 network) and how many addresses it has (2^(bits-ones)).
Network == [v4 : BOOLEAN, ip : Addr, size : Nat \ {0}]

ASSUME AllocAssumption ==
    /\ Word \in Nat \ {0}
    /\ Networks \subseteq Network
    /\ Foreign \subseteq Addr
    /\ NoKey \notin Key
    /\ MaxRestarts \in Nat

VARIABLES
    network,    \* the configured CIDR
    next,       \* a.next
    assigned,   \* a.assigned: key -> address
    reverse,    \* a.reverse: address -> key
    skipped,    \* a.skipped
    iface,      \* addresses bound to the interface
    call,       \* what each goroutine is doing inside the allocator
    answer,     \* how the last Allocate to return ended
    own,        \* history: addresses this process added to the interface
    failed,     \* history: addresses whose RemoveAddress failed
    snapshot,   \* history: the allocations Cleanup set out to remove
    phase,      \* "running", "cleaning" (inside Cleanup) or "cleaned"
    restarts

vars == <<network, next, assigned, reverse, skipped, iface, call, answer, own,
          failed, snapshot, phase, restarts>>

Op   == {"idle", "allocate", "remove", "cleanup"}
Call == [op : Op, key : Key \cup {NoKey}, todo : SUBSET Addr]

Idle == [op |-> "idle", key |-> NoKey, todo |-> {}]

\* ipToUint32(network.IP): an address that is not IPv4 becomes 0.
NetworkBase == IF network.v4 THEN network.ip ELSE 0

\* uint32 arithmetic of NewAllocator, where size is uint32(1) << (bits-ones).
First == (NetworkBase + 1) % Word
Limit_OffByOne == (NetworkBase + network.size) % Word \* mutant: no "- 1"

Limit == (NetworkBase + (network.size % Word) - 1) % Word

Tracked == {a \in Addr : reverse[a] # NoKey}

LockFree == \A c \in Caller : call[c].op # "allocate"

-----------------------------------------------------------------------------
\* NewAllocator: empty maps, next at the first address.
Init ==
    /\ network \in Networks
    /\ iface \in SUBSET Foreign
    /\ next = First
    /\ assigned = [k \in Key |-> NoAddr]
    /\ reverse = [a \in Addr |-> NoKey]
    /\ skipped = {}
    /\ call = [c \in Caller |-> Idle]
    /\ answer = "none"
    /\ own = {}
    /\ failed = {}
    /\ snapshot = {}
    /\ phase = "running"
    /\ restarts = 0

\* Allocate of a key that has an address: the lock is taken and released.
AllocateHit(c, k) ==
    /\ call[c] = Idle
    /\ LockFree
    /\ assigned[k] # NoAddr
    /\ answer' = "ok"
    /\ UNCHANGED <<network, next, assigned, reverse, skipped, iface, call,
                   own, failed, snapshot, phase, restarts>>

\* Allocate of a new key enters the loop and keeps a.mu.
AllocateMiss(c, k) ==
    /\ call[c] = Idle
    /\ LockFree
    /\ assigned[k] = NoAddr
    /\ call' = [call EXCEPT ![c] =
                   [op |-> "allocate", key |-> k, todo |-> {}]]
    /\ UNCHANGED <<network, next, assigned, reverse, skipped, iface,
                   answer, own, failed, snapshot, phase, restarts>>

\* Allocate returns to its caller and unlocks.
Return(c, how) ==
    /\ call' = [call EXCEPT ![c] = Idle]
    /\ answer' = how

\* One turn of the loop, "next >= max": the error return.
Exhausted(c) ==
    /\ call[c].op = "allocate"
    /\ next >= Limit
    /\ Return(c, "exhausted")
    /\ UNCHANGED <<network, next, assigned, reverse, skipped, iface, own,
                   failed, snapshot, phase, restarts>>

\* The turn that takes the address at next (a.next++ wraps like a uint32).
TakeNext(c) ==
    /\ call[c].op = "allocate"
    /\ next < Limit
    /\ next' = (next + 1) % Word

\* Mutant: an address that is in use is adopted instead of skipped.
SkipInUse_Adopt(c) ==
    /\ TakeNext(c)
    /\ next \in iface
    /\ assigned' = [assigned EXCEPT ![call[c].key] = next]
    /\ reverse' = [reverse EXCEPT ![next] = call[c].key]
    /\ Return(c, "ok")
    /\ UNCHANGED <<network, skipped, iface, own, failed, snapshot, phase,
                   restarts>>

\* Mutant: the loop retries the address that is in use.
SkipInUse_Retry(c) ==
    /\ call[c].op = "allocate"
    /\ next < Limit
    /\ next \in iface
    /\ skipped' = skipped \cup {next}
    /\ UNCHANGED <<network, next, assigned, reverse, iface, call, answer, own,
                   failed, snapshot, phase, restarts>>

\* AddAddress reports EEXIST: the address is skipped, the loop goes on.
SkipInUse(c) ==
    /\ TakeNext(c)
    /\ next \in iface
    /\ skipped' = skipped \cup {next}
    /\ UNCHANGED <<network, assigned, reverse, iface, call, answer, own, failed,
                   snapshot, phase, restarts>>

\* Mutant: the address is recorded before AddAddress's error is looked at.
AddFails_RecordFirst(c) ==
    /\ TakeNext(c)
    /\ next \notin iface
    /\ assigned' = [assigned EXCEPT ![call[c].key] = next]
    /\ reverse' = [reverse EXCEPT ![next] = call[c].key]
    /\ Return(c, "error")
    /\ UNCHANGED <<network, skipped, iface, own, failed, snapshot, phase,
                   restarts>>

\* AddAddress fails otherwise: Allocate fails and the address is passed over.
AddFails(c) ==
    /\ TakeNext(c)
    /\ next \notin iface
    /\ Return(c, "error")
    /\ UNCHANGED <<network, assigned, reverse, skipped, iface, own, failed,
                   snapshot, phase, restarts>>

\* AddAddress binds the address, and both maps record it.
Bind(c) ==
    /\ TakeNext(c)
    /\ next \notin iface
    /\ iface' = iface \cup {next}
    /\ assigned' = [assigned EXCEPT ![call[c].key] = next]
    /\ reverse' = [reverse EXCEPT ![next] = call[c].key]
    /\ own' = own \cup {next}
    /\ Return(c, "ok")
    /\ UNCHANGED <<network, skipped, failed, snapshot, phase, restarts>>

AllocateStep(c) == Exhausted(c) \/ SkipInUse(c) \/ AddFails(c) \/ Bind(c)

-----------------------------------------------------------------------------
\* Mutants of ReleaseVIP: the address is never taken off the interface; only
\* one map forgets it; it is put back for reuse at once.
ReleaseVIP_With(c, a, rev, todo, nxt) ==
    /\ call[c] = Idle
    /\ LockFree
    /\ reverse[a] # NoKey
    /\ assigned' = [assigned EXCEPT ![reverse[a]] = NoAddr]
    /\ reverse' = rev
    /\ next' = nxt
    /\ call' = [call EXCEPT ![c] =
                   [op |-> "remove", key |-> NoKey, todo |-> todo]]
    /\ UNCHANGED <<network, skipped, iface, answer, own, failed, snapshot,
                   phase, restarts>>

ReleaseVIP_Leak(c, a) ==
    ReleaseVIP_With(c, a, [reverse EXCEPT ![a] = NoKey], {}, next)
ReleaseVIP_HalfForgotten(c, a) == ReleaseVIP_With(c, a, reverse, {a}, next)
ReleaseVIP_Rewind(c, a) ==
    ReleaseVIP_With(c, a, [reverse EXCEPT ![a] = NoKey], {a}, a)

\* ReleaseVIP under the lock: an unknown address is a no-op; a tracked one
\* leaves both maps and is still to be taken off the interface.
ReleaseVIP(c, a) ==
    /\ call[c] = Idle
    /\ LockFree
    /\ reverse[a] # NoKey
    /\ assigned' = [assigned EXCEPT ![reverse[a]] = NoAddr]
    /\ reverse' = [reverse EXCEPT ![a] = NoKey]
    /\ call' = [call EXCEPT ![c] =
                   [op |-> "remove", key |-> NoKey, todo |-> {a}]]
    /\ UNCHANGED <<network, next, skipped, iface, answer, own, failed, snapshot,
                   phase, restarts>>

\* Cleanup copies the allocations under the read lock; the maps stay.
Cleanup(c) ==
    /\ call[c] = Idle
    /\ LockFree
    /\ phase = "running"
    /\ phase' = "cleaning"
    /\ snapshot' = Tracked
    /\ call' = [call EXCEPT ![c] =
                   [op |-> "cleanup", key |-> NoKey, todo |-> Tracked]]
    /\ UNCHANGED <<network, next, assigned, reverse, skipped, iface, answer, own,
                   failed, restarts>>

\* Mutant: the first error ends the removals.
RemoveAddress_StopAtError(c, a) ==
    /\ call[c].op \in {"remove", "cleanup"}
    /\ a \in call[c].todo
    /\ \/ /\ a \in iface
          /\ iface' = iface \ {a}
          /\ call' = [call EXCEPT ![c].todo = @ \ {a}]
          /\ UNCHANGED failed
       \/ /\ failed' = failed \cup {a}
          /\ call' = [call EXCEPT ![c].todo = {}]
          /\ UNCHANGED iface
    /\ UNCHANGED <<network, next, assigned, reverse, skipped, answer, own,
                   snapshot, phase, restarts>>

\* RemoveAddress(a), outside the lock: it fails for an address that is not on
\* the interface, and may fail for one that is.  The caller goes on either
\* way (Cleanup collects the errors).
RemoveAddress(c, a) ==
    /\ call[c].op \in {"remove", "cleanup"}
    /\ a \in call[c].todo
    /\ \/ /\ a \in iface
          /\ iface' = iface \ {a}
          /\ UNCHANGED failed
       \/ /\ failed' = failed \cup {a}
          /\ UNCHANGED iface
    /\ call' = [call EXCEPT ![c].todo = @ \ {a}]
    /\ UNCHANGED <<network, next, assigned, reverse, skipped, answer, own,
                   snapshot, phase, restarts>>

\* ReleaseVIP or Cleanup returns.
Done(c) ==
    /\ call[c].op \in {"remove", "cleanup"}
    /\ call[c].todo = {}
    /\ phase' = IF call[c].op = "cleanup" THEN "cleaned" ELSE phase
    /\ call' = [call EXCEPT ![c] = Idle]
    /\ UNCHANGED <<network, next, assigned, reverse, skipped, iface, answer, own,
                   failed, snapshot, restarts>>

\* The process ends, by a crash or after Stop, and starts again with the same
\* CIDR.  What is on the interface stays there.
Restart ==
    /\ restarts < MaxRestarts
    /\ restarts' = restarts + 1
    /\ next' = First
    /\ assigned' = [k \in Key |-> NoAddr]
    /\ reverse' = [a \in Addr |-> NoKey]
    /\ skipped' = {}
    /\ call' = [c \in Caller |-> Idle]
    /\ answer' = "none"
    /\ own' = {}
    /\ failed' = {}
    /\ snapshot' = {}
    /\ phase' = "running"
    /\ UNCHANGED <<network, iface>>

Next ==
    \/ \E c \in Caller, k \in Key : AllocateHit(c, k) \/ AllocateMiss(c, k)
    \/ \E c \in Caller : AllocateStep(c)
    \/ \E c \in Caller, a \in Addr : ReleaseVIP(c, a) \/ RemoveAddress(c, a)
    \/ \E c \in Caller : Cleanup(c) \/ Done(c)
    \/ Restart

Spec == Init /\ [][Next]_vars

\* A goroutine inside Allocate keeps running; nothing makes callers call.
FairSpec == Spec /\ \A c \in Caller : WF_vars(AllocateStep(c))
-----------------------------------------------------------------------------
\* Every variable has the type its Go field has.
TypeOK ==
    /\ network \in Networks
    /\ next \in Addr
    /\ assigned \in [Key -> Addr \cup {NoAddr}]
    /\ reverse \in [Addr -> Key \cup {NoKey}]
    /\ skipped \in SUBSET Addr
    /\ iface \in SUBSET Addr
    /\ call \in [Caller -> Call]
    /\ answer \in {"none", "ok", "exhausted", "error"}
    /\ own \in SUBSET Addr
    /\ failed \in SUBSET Addr
    /\ snapshot \in SUBSET Addr
    /\ phase \in {"running", "cleaning", "cleaned"}
    /\ restarts \in 0 .. MaxRestarts

\* assigned and reverse are inverse to each other between any two lock
\* regions of Allocate and ReleaseVIP; in particular no two services share an
\* address.
Consistent ==
    \A k \in Key, a \in Addr : assigned[k] = a <=> reverse[a] = k

\* An address that Lookup can return is bound to the interface, unless
\* Cleanup has set out to remove it: Allocate records only after AddAddress,
\* and ReleaseVIP forgets before RemoveAddress.
TrackedIsBound == Tracked \ snapshot \subseteq iface

\* An address this process put on the interface and that is still there is
\* tracked, about to be removed by a ReleaseVIP or Cleanup in flight, or one
\* whose removal was reported to have failed: none is lost.
Accounted ==
    \A a \in own \cap iface :
        \/ a \in Tracked \cup failed
        \/ \E c \in Caller : a \in call[c].todo

\* When Cleanup has returned, every address allocated when it started is off
\* the interface or its removal was reported to have failed ("Errors are
\* collected but all VIPs are attempted").
CleanupComplete == phase = "cleaned" => snapshot \cap iface \subseteq failed

\* Out of an ordinary IPv4 block only host addresses are handed out: neither
\* the network nor the broadcast address, and none outside the block.
HostAddresses == network.ip + 1 .. network.ip + network.size - 2

HostAddressesOnly ==
    network.v4 /\ network.size > 1 /\ network.ip + network.size <= Word
        => Tracked \cup skipped \subseteq HostAddresses

\* The process takes only addresses off the interface that it put there
\* itself: EEXIST makes Allocate skip, never adopt, an address.
ForeignUntouched == [][iface \ iface' \subseteq own]_vars

\* The allocator implements the leases of VIPLease.
Lease == INSTANCE VIPLease WITH lease <- assigned, used <- own \cup iface

LeaseSpec == Lease!LSpec

\* An Allocate that entered its loop returns, however many addresses are in
\* use.
AllocateReturns ==
    \A c \in Caller : call[c].op = "allocate" ~> call[c].op = "idle"
=============================================================================
