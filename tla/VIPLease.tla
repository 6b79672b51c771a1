------------------------------ MODULE VIPLease ------------------------------
(***************************************************************************)
(* What the virtual-IP allocator promises the rest of the proxy: a service *)
(* key holds at most one address, an address that was ever in use is never *)
(* handed out again by the same process, and a restarted process does not  *)
(* hand out an address that is still bound to the interface.               *)
(***************************************************************************)
EXTENDS Integers

CONSTANTS
    Key,     \* service keys, "context/namespace/service[/pod]"
    Addr,    \* addresses
    NoAddr   \* what Lookup returns for an unallocated key (not in Addr)

VARIABLES
    lease,   \* the address each key holds
    used     \* addresses that may not be granted any more

lvars == <<lease, used>>

LInit ==
    /\ lease = [k \in Key |-> NoAddr]
    /\ used \in SUBSET Addr

\* A key without an address gets one nobody has ever used.
Grant(k, a) ==
    /\ lease[k] = NoAddr
    /\ a \notin used
    /\ lease' = [lease EXCEPT ![k] = a]
    /\ used' = used \cup {a}

\* The address of an idle VIP is taken back; it stays used.
Revoke(k) ==
    /\ lease[k] # NoAddr
    /\ lease' = [lease EXCEPT ![k] = NoAddr]
    /\ UNCHANGED used

\* A new process starts with no leases; addresses that left the interface
\* become usable again.
Renew ==
    /\ lease' = [k \in Key |-> NoAddr]
    /\ used' \subseteq used

LNext ==
    \/ \E k \in Key, a \in Addr : Grant(k, a)
    \/ \E k \in Key : Revoke(k)
    \/ Renew

LSpec == LInit /\ [][LNext]_lvars
=============================================================================
