-------------------------- MODULE DNSServer_proofs --------------------------
(***************************************************************************)
(* Proofs about DNSServer, for any contexts, services, addresses, sets of  *)
(* ports and concurrent queries.                                           *)
(*                                                                         *)
(* SharedInv is about addresses: every address that anything refers to is  *)
(* used, is referred to for one service only, and each port it was to be   *)
(* served on has its listener, or somebody still sees to it.  LocalInv is  *)
(* about what a query remembers: it has dealt with each context it does    *)
(* not still have to try.                                                  *)
(***************************************************************************)
EXTENDS DNSServer, TLAPS

\* Port p of address a is forwarded to k, or will be, or cannot be expected to.
Covered(k, a, p) ==
    \/ [addr |-> a, port |-> p, key |-> k] \in entries
    \/ a \in closed \cup unserved
    \/ \E q \in Query : query[q].pc = "start" /\ query[q].addr = a /\ p \in query[q].left

UsedInv ==
    /\ \A k \in Key, a \in Addr : Claims(k, a) => a \in used
    /\ \A a \in Addr : wanted[a] # {} => a \in used

PortInv == \A k \in Key, a \in Addr : Claims(k, a) => \A p \in wanted[a] : Covered(k, a, p)

SharedInv == UsedInv /\ RightService /\ PortInv

\* The steps of resolveForContext that have an address, and all of them.
Holds == {"cached", "start", "return"}

Busy == Holds \cup {"resolve", "allocate"}

\* Context x was dealt with.
Settled(r, x) ==
    \/ \E a \in Addr : <<<<x, r.svc>>, a>> \in r.answers
    \/ <<x, r.svc>> \notin exists
    \/ \E c \in Cause : <<x, c>> \in r.lost

LocalInv(r) ==
    /\ r.pc \in Busy => r.ctx \in Context
    /\ r.pc \in Holds <=> r.addr \in Addr
    /\ r.pc # "start" => r.left = {}
    /\ r.pc = "new" => r.asked = {} /\ r.qtype = "other"
    /\ r.pc \in {"A", "resolve", "allocate", "start"} => r.qtype = "A"
    /\ r.pc \in {"info", "exists"} => r.qtype = "info"
    /\ r.pc \in {"cached", "return"} => r.qtype \in {"A", "info"}
    /\ r.pc # "done" => r.rcode = "none"
    /\ r.pc # "done" /\ r.qtype = "A" =>
          \A x \in r.asked : x \in r.todo \/ (r.pc \in Busy /\ x = r.ctx) \/ Settled(r, x)
    /\ r.pc = "exists" => \A x \in r.asked : x \in r.todo \/ Settled(r, x)
    /\ r.pc = "done" /\ (r.qtype = "A" \/ r.rcode = "nxdomain") =>
          \A x \in r.asked : Settled(r, x)

IInv == TypeOK /\ SharedInv /\ \A q \in Query : LocalInv(query[q])

USE DNSAssumption

-----------------------------------------------------------------------------
\* A failed Resolve is put down to something.
LEMMA LostIsSettled ==
    ASSUME NEW q \in Query, NEW x \in Context, NEW lost \in LostBy(q, x)
    PROVE  /\ lost \in SUBSET (Context \X Cause)
           /\ <<x, query[q].svc>> \in exists => \E c \in Cause : <<x, c>> \in lost
BY DEF LostBy

-----------------------------------------------------------------------------
LEMMA InitIInv == Init => IInv
<1> SUFFICES ASSUME Init PROVE IInv
  OBVIOUS
<1> DEFINE r == [pc |-> "new", qtype |-> "other", svc |-> CHOOSE s \in Service : TRUE,
                 asked |-> {}, todo |-> {}, ctx |-> NoContext, addr |-> NoAddr,
                 ports |-> {}, left |-> {}, late |-> FALSE,
                 answers |-> {}, lost |-> {}, rcode |-> "none"]
<1>0. (CHOOSE s \in Service : TRUE) \in Service
  OBVIOUS
<1>1. r \in QueryState /\ \A q \in Query : query[q] = r
  BY <1>0 DEF Init, QueryState, PC
<1>2. TypeOK
  BY <1>1 DEF Init, TypeOK, Listener, Key
<1>3. \A q \in Query : LocalInv(query[q])
  BY <1>1 DEF LocalInv, Busy, Holds
<1>4. /\ \A k \in Key, a \in Addr : ~Claims(k, a)
      /\ \A a \in Addr : wanted[a] = {}
  BY <1>1 DEF Init, Claims
<1> HIDE DEF r
<1>5. SharedInv
  BY <1>4 DEF SharedInv, UsedInv, RightService, PortInv
<1> QED BY <1>2, <1>3, <1>5 DEF IInv

\* A step of query q.
Alone(q) == query' = [query EXCEPT ![q] = query'[q]]

\* One that touches neither the allocator nor the listeners.
Local(q) ==
    LET o == query[q] r == query'[q] IN
    /\ query' = [query EXCEPT ![q] = r]
    /\ r \in QueryState
    /\ UNCHANGED <<exists, lease, used, entries, closing, closed, wanted>>
    /\ unserved \subseteq unserved' /\ unserved' \subseteq Addr
    /\ o.pc = "start" => o.left = {} \/ o.addr \in unserved'
    /\ \/ r.addr = NoAddr
       \/ r.addr = o.addr /\ r.ctx = o.ctx /\ r.svc = o.svc
       \/ lease[<<r.ctx, r.svc>>] = r.addr
    /\ r.answers = o.answers \/ r.answers = o.answers \cup {<<KeyOf(q), o.addr>>}

\* The steps of a query that leave the listeners and the leases alone.
LEMMA LocalSteps ==
    ASSUME IInv, NEW q \in Query,
           \/ \E s \in Service, qtype \in {"A", "info"}, asked \in SUBSET Context :
                 Ask(q, s, qtype, asked)
           \/ \E rcode \in {"noerror", "nxdomain"} : AskOther(q, rcode)
           \/ TimeUp(q) \/ AllocateFails(q) \/ StartFails(q) \/ Return(q) \/ Answer(q)
           \/ InfoFound(q) \/ InfoNothing(q)
           \/ \E ps \in SUBSET Port : ResolveOk(q, ps) \/ PortsOf(q, ps)
           \/ \E lost \in LostBy(q, query[q].ctx) : ResolveFails(q, lost)
           \/ \E x \in Context : LookupMiss(q, x) \/ LookupHit(q, x)
           \/ \E x \in Context : InfoMiss(q, x) \/ InfoResolves(q, x)
           \/ \E x \in Context, pc \in {"cached", "return"} : InfoHit(q, x, pc)
           \/ \E x \in Context : \E lost \in LostBy(q, x) : InfoResolveFails(q, x, lost)
    PROVE  Local(q) /\ LocalInv(query'[q]) /\ Nearer(query[q], query'[q])
<1> DEFINE o == query[q]
           r == query'[q]
           Moved == query' = [query EXCEPT ![q] = r] /\ UNCHANGED manager
           Asks == r.svc = o.svc /\ r.asked = o.asked /\ r.qtype = o.qtype
           At == r.ctx = o.ctx /\ r.addr = o.addr
           Log == r.answers = o.answers /\ r.lost = o.lost
           Goal == Local(q) /\ LocalInv(r) /\ Nearer(o, r)
<1>0. /\ o \in QueryState /\ LocalInv(o) /\ query \in [Query -> QueryState]
      /\ lease \in [Key -> Addr \cup {NoAddr}] /\ unserved \subseteq Addr
  BY DEF IInv, TypeOK
<1>1. ASSUME NEW s \in Service, NEW qtype \in {"A", "info"}, NEW asked \in SUBSET Context,
             Ask(q, s, qtype, asked)
      PROVE  Goal
  <2>1. /\ o.pc = "new"
        /\ Moved
        /\ r = [o EXCEPT !.pc = qtype, !.qtype = qtype, !.svc = s, !.asked = asked,
                        !.todo = asked]
    BY <1>0, <1>1 DEF Ask, manager
  <2> HIDE DEF r
  <2>2. o.addr = NoAddr
    BY <1>0, <1>1, <2>1 DEF QueryState, LocalInv, Holds
  <2>3. r \in QueryState /\ At /\ Log /\ r.left = o.left /\ r.rcode = o.rcode
        /\ r.pc = qtype /\ r.qtype = qtype /\ r.asked = asked /\ r.todo = asked
    BY <1>0, <2>1, <2>2 DEF QueryState, PC
  <2>4. LocalInv(r)
    BY <1>0, <2>1, <2>3, <2>2 DEF LocalInv, Busy, Holds, Settled, Cause, manager
  <2>5. Nearer(o, r)
    BY <1>0, <2>1, <2>3 DEF Nearer, Pass, Stage, Shrinks, PC, LocalInv
  <2> QED BY <1>0, <2>1, <2>3, <2>4, <2>2, <2>5
         DEF manager, KeyOf, Key, Local, LocalInv, Holds, r
<1>2. ASSUME NEW rcode \in {"noerror", "nxdomain"}, AskOther(q, rcode)
      PROVE  Goal
  <2>1. /\ o.pc = "new"
        /\ Moved
        /\ r = [o EXCEPT !.pc = "done", !.todo = {}, !.late = FALSE, !.rcode = rcode]
    BY <1>0, <1>2 DEF AskOther, Reply, manager
  <2> HIDE DEF r
  <2>2. r \in QueryState /\ Asks /\ At /\ Log /\ r.left = o.left /\ r.pc = "done"
    BY <1>0, <2>1 DEF QueryState, PC
  <2>3. LocalInv(r)
    BY <1>0, <2>1, <2>2 DEF LocalInv, Busy, Holds, Settled, Cause, manager
  <2>4. Nearer(o, r)
    BY <1>0, <2>1, <2>2 DEF Nearer, Pass, Stage, Shrinks, PC, LocalInv
  <2> QED BY <1>0, <2>1, <2>2, <2>3, <2>4 DEF manager, KeyOf, Key, Local, LocalInv, Holds, r
<1>3. CASE TimeUp(q)
  <2>1. /\ o.pc \in {"cached", "resolve", "exists"} /\ ~o.late
        /\ Moved
        /\ r = [o EXCEPT !.late = TRUE]
    BY <1>0, <1>3 DEF TimeUp, manager
  <2> HIDE DEF r
  <2>2. r \in QueryState /\ Asks /\ At /\ Log /\ r.left = o.left /\ r.pc = o.pc
        /\ r.todo = o.todo /\ r.late /\ r.rcode = o.rcode
    BY <1>0, <2>1 DEF QueryState, PC
  <2>3. LocalInv(r)
    BY <1>0, <2>1, <2>2 DEF LocalInv, Busy, Holds, Settled, Cause, manager
  <2>4. Nearer(o, r)
    BY <1>0, <2>1, <2>2 DEF Nearer, Pass, Stage, Shrinks, PC, LocalInv
  <2> QED BY <1>0, <2>1, <2>2, <2>3, <2>4 DEF manager, KeyOf, Key, Local, LocalInv, Holds, r
<1>4. CASE AllocateFails(q)
  <2>1. /\ o.pc = "allocate"
        /\ Moved
        /\ r = [o EXCEPT !.pc = "A", !.ctx = NoContext, !.addr = NoAddr, !.ports = {},
                        !.left = {}, !.answers = @ \cup {},
                        !.lost = @ \cup {<<o.ctx, "itself">>}]
    BY <1>0, <1>4 DEF AllocateFails, Onward, manager
  <2> HIDE DEF r
  <2>2. {<<o.ctx, "itself">>} \in SUBSET (Context \X Cause)
    BY <1>0, <1>4, <2>1 DEF QueryState, LocalInv, Busy, Cause
  <2>3. r \in QueryState /\ Asks /\ r.addr = NoAddr /\ r.left = {} /\ r.pc = "A"
        /\ r.todo = o.todo /\ r.rcode = o.rcode /\ r.answers = o.answers
        /\ r.lost = o.lost \cup {<<o.ctx, "itself">>}
    BY <1>0, <2>1, <2>2 DEF QueryState, PC
  <2>4. LocalInv(r)
    BY <1>0, <2>1, <2>3, <2>2 DEF LocalInv, Busy, Holds, Settled, Cause, manager
  <2>5. Nearer(o, r)
    BY <1>0, <2>1, <2>3 DEF Nearer, Pass, Stage, Shrinks, PC, LocalInv
  <2> QED BY <1>0, <2>1, <2>3, <2>4, <2>2, <2>5
         DEF manager, KeyOf, Key, Local, LocalInv, Holds, r
<1>5. CASE StartFails(q)
  <2>1. /\ o.pc = "start"
        /\ unserved' = unserved \cup {o.addr}
        /\ UNCHANGED <<exists, lease, used, entries, closing, closed, wanted>>
        /\ query' = [query EXCEPT ![q] = r]
        /\ r = [o EXCEPT !.pc = "A", !.ctx = NoContext, !.addr = NoAddr, !.ports = {},
                        !.left = {}, !.answers = @ \cup {},
                        !.lost = @ \cup {<<o.ctx, "itself">>}]
    BY <1>0, <1>5 DEF StartFails, Onward, manager
  <2> HIDE DEF r
  <2>2. {<<o.ctx, "itself">>} \in SUBSET (Context \X Cause)
    BY <1>0, <1>5, <2>1 DEF QueryState, LocalInv, Busy, Holds, Cause
  <2>3. r \in QueryState /\ Asks /\ r.addr = NoAddr /\ r.left = {} /\ r.pc = "A"
        /\ r.todo = o.todo /\ r.rcode = o.rcode /\ r.answers = o.answers
        /\ r.lost = o.lost \cup {<<o.ctx, "itself">>}
    BY <1>0, <2>1, <2>2 DEF QueryState, PC
  <2>4. LocalInv(r)
    BY <1>0, <2>1, <2>3, <2>2 DEF LocalInv, Busy, Holds, Settled, Cause, manager
  <2>5. Nearer(o, r)
    BY <1>0, <2>1, <2>3 DEF Nearer, Pass, Stage, Shrinks, PC, LocalInv
  <2> QED BY <1>0, <2>1, <2>3, <2>4, <2>2, <2>5
         DEF manager, KeyOf, Key, Local, LocalInv, Holds, r
<1>6. CASE Return(q)
  <2>1. /\ o.pc \in {"start", "return"} /\ o.left = {}
        /\ Moved
        /\ r = [o EXCEPT !.pc = o.qtype, !.ctx = NoContext, !.addr = NoAddr, !.ports = {},
                        !.left = {}, !.answers = @ \cup {<<<<o.ctx, o.svc>>, o.addr>>},
                        !.lost = @ \cup {}]
    BY <1>0, <1>6 DEF Return, Returning, Onward, KeyOf, LocalInv, manager
  <2> HIDE DEF r
  <2>2. {<<<<o.ctx, o.svc>>, o.addr>>} \in SUBSET (Key \X Addr)
        /\ o.qtype \in {"A", "info"}
    BY <1>0, <1>6, <2>1 DEF QueryState, LocalInv, Busy, Holds, Key
  <2>3. r \in QueryState /\ Asks /\ r.addr = NoAddr /\ r.left = {} /\ r.pc = o.qtype
        /\ r.todo = o.todo /\ r.rcode = o.rcode /\ r.lost = o.lost
        /\ r.answers = o.answers \cup {<<<<o.ctx, o.svc>>, o.addr>>}
    BY <1>0, <2>1, <2>2 DEF QueryState, PC
  <2>4. LocalInv(r)
    BY <1>0, <2>1, <2>3, <2>2 DEF LocalInv, Busy, Holds, Settled, Cause, manager
  <2>5. Nearer(o, r)
    BY <1>0, <2>1, <2>3 DEF Nearer, Pass, Stage, Shrinks, PC, LocalInv
  <2> QED BY <1>0, <2>1, <2>3, <2>4, <2>2, <2>5
         DEF manager, KeyOf, Key, Local, LocalInv, Holds, r
<1>7. CASE Answer(q)
  <2>1. /\ o.pc = "A" /\ o.todo = {}
        /\ Moved
        /\ r = [o EXCEPT !.pc = "done", !.todo = {}, !.late = FALSE,
                        !.rcode = IF o.answers = {} THEN "nxdomain" ELSE "noerror"]
    BY <1>0, <1>7 DEF Answer, Reply, manager
  <2> HIDE DEF r
  <2>2. r \in QueryState /\ Asks /\ At /\ Log /\ r.left = o.left /\ r.pc = "done"
    BY <1>0, <2>1 DEF QueryState, PC
  <2>3. LocalInv(r)
    BY <1>0, <2>1, <2>2 DEF LocalInv, Busy, Holds, Settled, Cause, manager
  <2>4. Nearer(o, r)
    BY <1>0, <2>1, <2>2 DEF Nearer, Pass, Stage, Shrinks, PC, LocalInv
  <2> QED BY <1>0, <2>1, <2>2, <2>3, <2>4 DEF manager, KeyOf, Key, Local, LocalInv, Holds, r
<1>8. CASE InfoFound(q)
  <2>1. CASE o.answers # {}
    <3>1. /\ o.pc = "info"
          /\ Moved
          /\ r = [o EXCEPT !.pc = "done", !.todo = {}, !.late = FALSE, !.rcode = "noerror"]
      BY <1>0, <1>8, <2>1 DEF InfoFound, Reply, manager
    <3> HIDE DEF r
    <3>2. r \in QueryState /\ Asks /\ At /\ Log /\ r.left = o.left /\ r.pc = "done"
          /\ r.rcode = "noerror"
      BY <1>0, <3>1 DEF QueryState, PC
    <3>3. Nearer(o, r)
      BY <1>0, <3>1, <3>2 DEF Nearer, Pass, Stage, Shrinks, PC, LocalInv
    <3> QED BY <1>0, <3>1, <3>2, <3>3 DEF manager, Local, LocalInv, Busy, Holds, r
  <2>2. CASE o.answers = {}
    <3>1. /\ o.pc = "info"
          /\ Moved
          /\ r = [o EXCEPT !.pc = "exists", !.todo = o.asked]
      BY <1>0, <1>8, <2>2 DEF InfoFound, manager
    <3> HIDE DEF r
    <3>2. r \in QueryState /\ Asks /\ At /\ Log /\ r.left = o.left /\ r.pc = "exists"
          /\ r.todo = r.asked /\ r.rcode = o.rcode
      BY <1>0, <3>1 DEF QueryState, PC
    <3>3. Nearer(o, r)
      BY <1>0, <3>1, <3>2 DEF Nearer, Pass, Stage, Shrinks, PC, LocalInv
    <3> QED BY <1>0, <3>1, <3>2, <3>3 DEF manager, Local, LocalInv, Busy, Holds, r
  <2> QED BY <2>1, <2>2
<1>9. CASE InfoNothing(q)
  <2>1. /\ o.pc = "exists" /\ o.todo = {}
        /\ Moved
        /\ r = [o EXCEPT !.pc = "done", !.todo = {}, !.late = FALSE, !.rcode = "nxdomain"]
    BY <1>0, <1>9 DEF InfoNothing, Reply, manager
  <2> HIDE DEF r
  <2>2. r \in QueryState /\ Asks /\ At /\ Log /\ r.left = o.left /\ r.pc = "done"
    BY <1>0, <2>1 DEF QueryState, PC
  <2>3. LocalInv(r)
    BY <1>0, <2>1, <2>2 DEF LocalInv, Busy, Holds, Settled, Cause, manager
  <2>4. Nearer(o, r)
    BY <1>0, <2>1, <2>2 DEF Nearer, Pass, Stage, Shrinks, PC, LocalInv
  <2> QED BY <1>0, <2>1, <2>2, <2>3, <2>4 DEF manager, KeyOf, Key, Local, LocalInv, Holds, r
<1>10. ASSUME NEW ps \in SUBSET Port, ResolveOk(q, ps)
      PROVE  Goal
  <2>1. /\ o.pc = "resolve"
        /\ Moved
        /\ r = [o EXCEPT !.pc = "allocate", !.ports = ps]
    BY <1>0, <1>10 DEF ResolveOk, manager
  <2> HIDE DEF r
  <2>2. r \in QueryState /\ Asks /\ At /\ Log /\ r.left = o.left /\ r.pc = "allocate"
        /\ r.todo = o.todo /\ r.rcode = o.rcode
    BY <1>0, <2>1 DEF QueryState, PC
  <2>3. LocalInv(r)
    BY <1>0, <2>1, <2>2 DEF LocalInv, Busy, Holds, Settled, Cause, manager
  <2>4. Nearer(o, r)
    BY <1>0, <2>1, <2>2 DEF Nearer, Pass, Stage, Shrinks, PC, LocalInv
  <2> QED BY <1>0, <2>1, <2>2, <2>3, <2>4 DEF manager, KeyOf, Key, Local, LocalInv, Holds, r
<1>11. ASSUME NEW ps \in SUBSET Port, PortsOf(q, ps)
      PROVE  Goal
  <2>1. /\ o.pc = "cached"
        /\ Moved
        /\ r = [o EXCEPT !.pc = "return", !.ports = ps]
    BY <1>0, <1>11 DEF PortsOf, manager
  <2> HIDE DEF r
  <2>2. r \in QueryState /\ Asks /\ At /\ Log /\ r.left = o.left /\ r.pc = "return"
        /\ r.todo = o.todo /\ r.rcode = o.rcode
    BY <1>0, <2>1 DEF QueryState, PC
  <2>3. LocalInv(r)
    BY <1>0, <2>1, <2>2 DEF LocalInv, Busy, Holds, Settled, Cause, manager
  <2>4. Nearer(o, r)
    BY <1>0, <2>1, <2>2 DEF Nearer, Pass, Stage, Shrinks, PC, LocalInv
  <2> QED BY <1>0, <2>1, <2>2, <2>3, <2>4 DEF manager, KeyOf, Key, Local, LocalInv, Holds, r
<1>12. ASSUME NEW lost \in LostBy(q, o.ctx), ResolveFails(q, lost)
      PROVE  Goal
  <2>1. /\ o.pc = "resolve"
        /\ Moved
        /\ r = [o EXCEPT !.pc = "A", !.ctx = NoContext, !.addr = NoAddr, !.ports = {},
                        !.left = {}, !.answers = @ \cup {}, !.lost = @ \cup lost]
    BY <1>0, <1>12 DEF ResolveFails, Onward, manager
  <2> HIDE DEF r
  <2>2. PICK x \in Context : x = o.ctx
    BY <1>0, <2>1 DEF LocalInv, Busy
  <2>3. /\ lost \in SUBSET (Context \X Cause)
        /\ <<o.ctx, o.svc>> \in exists => \E c \in Cause : <<o.ctx, c>> \in lost
    <3>1. lost \in LostBy(q, x)
      BY <2>2
    <3>2. /\ lost \in SUBSET (Context \X Cause)
          /\ <<x, o.svc>> \in exists => \E c \in Cause : <<x, c>> \in lost
      BY <3>1, LostIsSettled
    <3> QED BY <2>2, <3>2
  <2>4. r \in QueryState /\ Asks /\ r.addr = NoAddr /\ r.left = {} /\ r.pc = "A"
        /\ r.todo = o.todo /\ r.rcode = o.rcode /\ r.answers = o.answers
        /\ r.lost = o.lost \cup lost
    BY <1>0, <2>1, <2>2, <2>3 DEF QueryState, PC
  <2>5. LocalInv(r)
    BY <1>0, <2>1, <2>4, <2>3 DEF LocalInv, Busy, Holds, Settled, Cause, manager
  <2>6. Nearer(o, r)
    BY <1>0, <2>1, <2>4 DEF Nearer, Pass, Stage, Shrinks, PC, LocalInv
  <2> QED BY <1>0, <2>1, <2>4, <2>5, <2>2, <2>3, <2>6
         DEF manager, KeyOf, Key, Local, LocalInv, Holds, r
<1>13. ASSUME NEW x \in Context, LookupMiss(q, x)
      PROVE  Goal
  <2>1. /\ o.pc = "A" /\ x \in o.todo
        /\ Moved
        /\ r = [o EXCEPT !.pc = "resolve", !.ctx = x, !.todo = @ \ {x}]
    BY <1>0, <1>13 DEF LookupMiss, manager
  <2> HIDE DEF r
  <2>2. o.addr = NoAddr
    BY <1>0, <1>13, <2>1 DEF QueryState, LocalInv, Holds
  <2>3. r \in QueryState /\ Asks /\ r.ctx = x /\ r.addr = o.addr /\ Log /\ r.left = o.left
        /\ r.pc = "resolve"
        /\ r.todo = o.todo \ {x} /\ r.rcode = o.rcode
    BY <1>0, <2>1, <2>2 DEF QueryState, PC
  <2>4. LocalInv(r)
    BY <1>0, <2>1, <2>3, <2>2 DEF LocalInv, Busy, Holds, Settled, Cause, manager
  <2>5. Nearer(o, r)
    BY <1>0, <2>1, <2>3 DEF Nearer, Pass, Stage, Shrinks, PC, LocalInv
  <2> QED BY <1>0, <2>1, <2>3, <2>4, <2>2, <2>5
         DEF manager, KeyOf, Key, Local, LocalInv, Holds, r
<1>14. ASSUME NEW x \in Context, LookupHit(q, x)
      PROVE  Goal
  <2>1. /\ o.pc = "A" /\ x \in o.todo /\ lease[<<x, o.svc>>] # NoAddr
        /\ Moved
        /\ r = [o EXCEPT !.pc = "cached", !.ctx = x, !.addr = lease[<<x, o.svc>>],
                        !.todo = @ \ {x}]
    BY <1>0, <1>14 DEF LookupHit, manager
  <2> HIDE DEF r
  <2>2. lease[<<x, o.svc>>] \in Addr
    BY <1>0, <1>14, <2>1 DEF QueryState, Key
  <2>3. r \in QueryState /\ Asks /\ r.ctx = x /\ r.addr = lease[<<x, o.svc>>]
        /\ Log /\ r.left = o.left
        /\ r.pc = "cached"
        /\ r.todo = o.todo \ {x} /\ r.rcode = o.rcode
    BY <1>0, <2>1, <2>2 DEF QueryState, PC
  <2>4. LocalInv(r)
    BY <1>0, <2>1, <2>3, <2>2 DEF LocalInv, Busy, Holds, Settled, Cause, manager
  <2>5. Nearer(o, r)
    BY <1>0, <2>1, <2>3 DEF Nearer, Pass, Stage, Shrinks, PC, LocalInv
  <2> QED BY <1>0, <2>1, <2>3, <2>4, <2>2, <2>5
         DEF manager, KeyOf, Key, Local, LocalInv, Holds, r
<1>15. ASSUME NEW x \in Context, InfoMiss(q, x)
      PROVE  Goal
  <2>1. /\ o.pc = "info" /\ x \in o.todo
        /\ Moved
        /\ r = [o EXCEPT !.todo = @ \ {x}]
    BY <1>0, <1>15 DEF InfoMiss, manager
  <2> HIDE DEF r
  <2>2. r \in QueryState /\ Asks /\ At /\ Log /\ r.left = o.left /\ r.pc = o.pc
        /\ r.todo = o.todo \ {x} /\ r.rcode = o.rcode
    BY <1>0, <2>1 DEF QueryState, PC
  <2>3. LocalInv(r)
    BY <1>0, <2>1, <2>2 DEF LocalInv, Busy, Holds, Settled, Cause, manager
  <2>4. Nearer(o, r)
    BY <1>0, <2>1, <2>2 DEF Nearer, Pass, Stage, Shrinks, PC, LocalInv
  <2> QED BY <1>0, <2>1, <2>2, <2>3, <2>4 DEF manager, KeyOf, Key, Local, LocalInv, Holds, r
<1>16. ASSUME NEW x \in Context, InfoResolves(q, x)
      PROVE  Goal
  <2>1. /\ o.pc = "exists"
        /\ Moved
        /\ r = [o EXCEPT !.pc = "done", !.todo = {}, !.late = FALSE, !.rcode = "noerror"]
    BY <1>0, <1>16 DEF InfoResolves, Reply, manager
  <2> HIDE DEF r
  <2>2. r \in QueryState /\ Asks /\ At /\ Log /\ r.left = o.left /\ r.pc = "done"
        /\ r.rcode = "noerror"
    BY <1>0, <2>1 DEF QueryState, PC
  <2>3. LocalInv(r)
    BY <1>0, <2>1, <2>2 DEF LocalInv, Busy, Holds, Settled, Cause, manager
  <2>4. Nearer(o, r)
    BY <1>0, <2>1, <2>2 DEF Nearer, Pass, Stage, Shrinks, PC, LocalInv
  <2> QED BY <1>0, <2>1, <2>2, <2>3, <2>4 DEF manager, KeyOf, Key, Local, LocalInv, Holds, r
<1>17. ASSUME NEW x \in Context, NEW pc \in {"cached", "return"}, InfoHit(q, x, pc)
      PROVE  Goal
  <2>1. /\ o.pc = "info" /\ x \in o.todo /\ lease[<<x, o.svc>>] # NoAddr
        /\ Moved
        /\ r = [o EXCEPT !.pc = pc, !.ctx = x, !.addr = lease[<<x, o.svc>>],
                        !.todo = @ \ {x}]
    BY <1>0, <1>17 DEF InfoHit, manager
  <2> HIDE DEF r
  <2>2. lease[<<x, o.svc>>] \in Addr
    BY <1>0, <1>17, <2>1 DEF QueryState, Key
  <2>3. r \in QueryState /\ Asks /\ r.ctx = x /\ r.addr = lease[<<x, o.svc>>]
        /\ Log /\ r.left = o.left
        /\ r.pc = pc
        /\ r.todo = o.todo \ {x} /\ r.rcode = o.rcode
    BY <1>0, <2>1, <2>2 DEF QueryState, PC
  <2>4. LocalInv(r)
    BY <1>0, <2>1, <2>3, <2>2 DEF LocalInv, Busy, Holds, Settled, Cause, manager
  <2>5. Nearer(o, r)
    BY <1>0, <2>1, <2>3 DEF Nearer, Pass, Stage, Shrinks, PC, LocalInv
  <2> QED BY <1>0, <2>1, <2>3, <2>4, <2>2, <2>5
         DEF manager, KeyOf, Key, Local, LocalInv, Holds, r
<1>18. ASSUME NEW x \in Context, NEW lost \in LostBy(q, x), InfoResolveFails(q, x, lost)
      PROVE  Goal
  <2>1. /\ o.pc = "exists" /\ x \in o.todo
        /\ Moved
        /\ r = [o EXCEPT !.todo = @ \ {x}, !.lost = @ \cup lost]
    BY <1>0, <1>18 DEF InfoResolveFails, manager
  <2> HIDE DEF r
  <2>2. lost \in SUBSET (Context \X Cause)
    BY <1>0, <1>18, <2>1, LostIsSettled DEF QueryState, LocalInv, Busy
  <2>3. r \in QueryState /\ Asks /\ At /\ r.left = o.left /\ r.pc = o.pc
        /\ r.answers = o.answers /\ r.lost = o.lost \cup lost
        /\ r.todo = o.todo \ {x} /\ r.rcode = o.rcode
    BY <1>0, <2>1, <2>2 DEF QueryState, PC
  <2>4. LocalInv(r)
    BY <1>0, <2>1, <2>3, <2>2, LostIsSettled DEF LocalInv, Busy, Holds, Settled, Cause, manager
  <2>5. Nearer(o, r)
    BY <1>0, <2>1, <2>3 DEF Nearer, Pass, Stage, Shrinks, PC, LocalInv
  <2> QED BY <1>0, <2>1, <2>3, <2>4, <2>2, <2>5
         DEF manager, KeyOf, Key, Local, LocalInv, Holds, r
<1> QED
  <2>1. (\E x \in Context : \E lost \in LostBy(q, x) : InfoResolveFails(q, x, lost)) => Goal
    BY <1>18
  <2>2. (\E x \in Context, pc \in {"cached", "return"} : InfoHit(q, x, pc)) => Goal
    BY <1>17
  <2>3. (\E s \in Service, qtype \in {"A", "info"}, asked \in SUBSET Context :
            Ask(q, s, qtype, asked)) => Goal
    BY <1>1
  <2>4. (\E lost \in LostBy(q, query[q].ctx) : ResolveFails(q, lost)) => Goal
    BY <1>12
  <2>5. (\E ps \in SUBSET Port : ResolveOk(q, ps) \/ PortsOf(q, ps)) => Goal
    BY <1>10, <1>11
  <2>6. (\E x \in Context : LookupMiss(q, x) \/ LookupHit(q, x)) => Goal
    BY <1>13, <1>14
  <2>7. (\E x \in Context : InfoMiss(q, x) \/ InfoResolves(q, x)) => Goal
    BY <1>15, <1>16
  <2>8. (\E rcode \in {"noerror", "nxdomain"} : AskOther(q, rcode)) => Goal
    BY <1>2
  <2> QED
    BY <1>3, <1>4, <1>5, <1>6, <1>7, <1>8, <1>9, <2>1, <2>2, <2>3, <2>4,
       <2>5, <2>6, <2>7, <2>8

\* Such a step claims nothing new, and gives up no port.
LEMMA LocalStep ==
    ASSUME IInv, NEW q \in Query, Local(q), LocalInv(query'[q])
    PROVE  IInv'
<1> DEFINE o == query[q]
           r == query'[q]
<1>0. /\ query \in [Query -> QueryState] /\ lease \in [Key -> Addr \cup {NoAddr}]
      /\ o \in QueryState /\ LocalInv(o)
  BY DEF IInv, TypeOK
<1>1. /\ r \in QueryState /\ query' = [query EXCEPT ![q] = r]
      /\ UNCHANGED <<exists, lease, used, entries, closing, closed, wanted>>
      /\ unserved \subseteq unserved' /\ unserved' \subseteq Addr
      /\ o.pc = "start" => o.left = {} \/ o.addr \in unserved'
      /\ \/ r.addr = NoAddr
         \/ r.addr = o.addr /\ r.ctx = o.ctx /\ r.svc = o.svc
         \/ lease[<<r.ctx, r.svc>>] = r.addr
      /\ r.answers = o.answers \/ r.answers = o.answers \cup {<<KeyOf(q), o.addr>>}
  BY DEF Local
<1> HIDE DEF r
<1>2. \A p \in Query : p # q => query'[p] = query[p]
  BY <1>0, <1>1
<1>3. TypeOK'
  BY <1>0, <1>1 DEF IInv, TypeOK
<1>4. ASSUME NEW k \in Key, NEW a \in Addr, Claims(k, a)'
      PROVE  Claims(k, a)
  <2>1. ASSUME NEW p \in Query, query'[p].addr = a, <<query'[p].ctx, query'[p].svc>> = k
        PROVE  Claims(k, a)
    <3>1. CASE p # q
      BY <1>2, <2>1, <3>1 DEF Claims, KeyOf
    <3>2. CASE p = q
      BY <1>1, <2>1, <3>2 DEF Claims, KeyOf, r
    <3> QED BY <3>1, <3>2
  <2>2. ASSUME NEW p \in Query, <<k, a>> \in query'[p].answers
        PROVE  Claims(k, a)
    <3>1. CASE <<k, a>> \in query[p].answers
      BY <3>1 DEF Claims
    <3>2. CASE p = q /\ <<k, a>> = <<KeyOf(q), o.addr>>
      BY <3>2 DEF Claims
    <3> QED BY <1>1, <1>2, <2>2, <3>1, <3>2 DEF r
  <2>3. CASE lease[k] = a \/ (\E l \in entries : l.addr = a /\ l.key = k)
    BY <2>3 DEF Claims
  <2> QED BY <1>1, <1>4, <2>1, <2>2, <2>3 DEF Claims, KeyOf
<1>5. ASSUME NEW k \in Key, NEW a \in Addr, NEW p \in Port, Covered(k, a, p)
      PROVE  Covered(k, a, p)'
  BY <1>1, <1>2, <1>5 DEF Covered
<1>6. UsedInv' /\ RightService'
  BY <1>1, <1>4 DEF IInv, SharedInv, UsedInv, RightService
<1>7. PortInv'
  BY <1>1, <1>3, <1>4, <1>5 DEF IInv, SharedInv, PortInv, TypeOK
<1>8. (\A p \in Query : LocalInv(query[p]))'
  <2>1. ASSUME NEW p \in Query, NEW t, t = query'[p], LocalInv(t)
        PROVE  LocalInv(query[p])'
    BY <1>1, <2>1 DEF LocalInv, Settled
  <2>2. ASSUME NEW p \in Query
        PROVE  LocalInv(query'[p])
    BY <1>2 DEF IInv
  <2> QED BY <2>1, <2>2
<1> QED BY <1>3, <1>6, <1>7, <1>8 DEF IInv, SharedInv

\* A query gets address a: nobody has a claim to it, or its own key has.
LEMMA ForwardStep ==
    ASSUME IInv, NEW q \in Query, NEW a \in Addr, query[q].pc = "allocate", Forward(q, a),
           UNCHANGED <<exists, entries, closing, closed, unserved>>,
           \/ Alloc!Grant(KeyOf(q), a)
           \/ lease[KeyOf(q)] = a /\ UNCHANGED <<lease, used>>
    PROVE  IInv' /\ Alone(q) /\ Nearer(query[q], query'[q])
<1> DEFINE o == query[q]
           r == query'[q]
           K == KeyOf(q)
<1>0. /\ query \in [Query -> QueryState] /\ lease \in [Key -> Addr \cup {NoAddr}]
      /\ wanted \in [Addr -> SUBSET Port] /\ used \subseteq Addr
      /\ o \in QueryState /\ LocalInv(o)
  BY DEF IInv, TypeOK
<1>1. /\ query' = [query EXCEPT ![q] = r]
      /\ r = [o EXCEPT !.pc = "start", !.addr = a, !.left = o.ports]
      /\ wanted' = [wanted EXCEPT ![a] = @ \cup o.ports]
  BY <1>0 DEF Forward
<1> HIDE DEF r
<1>2. /\ r \in QueryState /\ r.pc = "start" /\ r.addr = a /\ r.left = o.ports
      /\ r.svc = o.svc /\ r.asked = o.asked /\ r.qtype = o.qtype /\ r.ctx = o.ctx
      /\ r.todo = o.todo /\ r.answers = o.answers /\ r.lost = o.lost /\ r.rcode = o.rcode
  BY <1>0, <1>1 DEF QueryState, PC
<1>3. LocalInv(r)
  BY <1>0, <1>2 DEF LocalInv, Busy, Holds, Settled
<1>4. \A p \in Query : p # q => query'[p] = query[p]
  BY <1>0, <1>1
<1>5. K \in Key /\ <<r.ctx, r.svc>> = K
  BY <1>0, <1>2 DEF KeyOf, Key, QueryState, LocalInv, Busy
<1> HIDE DEF K
<1>6. /\ lease' \in [Key -> Addr \cup {NoAddr}] /\ used' \subseteq Addr /\ used \subseteq used'
      /\ a \in used'
      /\ \A k \in Key, b \in Addr : lease'[k] = b => lease[k] = b \/ (k = K /\ b = a)
  <2>1. CASE Alloc!Grant(K, a)
    BY <1>0, <1>5, <2>1 DEF Alloc!Grant
  <2>2. CASE lease[K] = a /\ UNCHANGED <<lease, used>>
    <3>1. Claims(K, a)
      BY <1>5, <2>2 DEF Claims
    <3> QED BY <1>0, <1>5, <2>2, <3>1 DEF IInv, SharedInv, UsedInv
  <2> QED BY <2>1, <2>2 DEF K
<1>7. /\ \A k \in Key : Claims(k, a) => k = K
      /\ \A p \in wanted[a] : Claims(K, a)
  <2>1. CASE Alloc!Grant(K, a)
    <3>1. a \notin used
      BY <2>1 DEF Alloc!Grant
    <3>2. \A k \in Key : ~Claims(k, a)
      BY <3>1 DEF IInv, SharedInv, UsedInv
    <3>3. wanted[a] = {}
      BY <3>1 DEF IInv, SharedInv, UsedInv
    <3> QED BY <3>2, <3>3
  <2>2. CASE lease[K] = a /\ UNCHANGED <<lease, used>>
    <3>1. Claims(K, a)
      BY <1>5, <2>2 DEF Claims
    <3> QED BY <1>5, <3>1 DEF IInv, SharedInv, RightService
  <2> QED BY <2>1, <2>2 DEF K
<1>8. ASSUME NEW k \in Key, NEW b \in Addr, Claims(k, b)'
      PROVE  Claims(k, b) \/ (k = K /\ b = a)
  <2>1. ASSUME NEW p \in Query, query'[p].addr = b, <<query'[p].ctx, query'[p].svc>> = k
        PROVE  Claims(k, b) \/ (k = K /\ b = a)
    <3>1. CASE p # q
      BY <1>4, <2>1, <3>1 DEF Claims, KeyOf
    <3>2. CASE p = q
      BY <1>2, <1>5, <2>1, <3>2 DEF r
    <3> QED BY <3>1, <3>2
  <2>2. ASSUME NEW p \in Query, <<k, b>> \in query'[p].answers
        PROVE  Claims(k, b)
    BY <1>2, <1>4, <2>2 DEF Claims, r
  <2>3. CASE \E l \in entries : l.addr = b /\ l.key = k
    BY <2>3 DEF Claims
  <2>4. CASE lease'[k] = b
    BY <1>6, <2>4 DEF Claims
  <2> QED BY <1>8, <2>1, <2>2, <2>3, <2>4 DEF Claims, KeyOf
<1>9. ASSUME NEW k \in Key, NEW b \in Addr, NEW p \in Port, Covered(k, b, p)
      PROVE  Covered(k, b, p)'
  BY <1>4, <1>9 DEF Covered
<1>10. TypeOK'
  BY <1>0, <1>1, <1>2, <1>6 DEF IInv, TypeOK, QueryState
<1>11. UsedInv'
  BY <1>0, <1>1, <1>6, <1>8 DEF IInv, SharedInv, UsedInv
<1>12. RightService'
  BY <1>7, <1>8 DEF IInv, SharedInv, RightService
<1>13. PortInv'
  <2> SUFFICES ASSUME NEW k \in Key, NEW b \in Addr, Claims(k, b)', NEW p \in wanted'[b]
               PROVE  Covered(k, b, p)'
    BY DEF PortInv
  <2>0. p \in Port
    BY <1>10 DEF TypeOK
  <2>1. CASE p \in wanted[b]
    <3>1. Claims(k, b)
      BY <1>7, <1>8, <2>1
    <3> QED BY <1>9, <2>0, <2>1, <3>1 DEF IInv, SharedInv, PortInv
  <2>2. CASE p \notin wanted[b]
    <3>1. b = a /\ p \in o.ports
      BY <1>0, <1>1, <2>2
    <3> QED BY <1>2, <3>1 DEF Covered, r
  <2> QED BY <2>1, <2>2
<1>14. (\A p \in Query : LocalInv(query[p]))'
  <2>1. ASSUME NEW p \in Query, NEW t, t = query'[p], LocalInv(t)
        PROVE  LocalInv(query[p])'
    BY <2>1 DEF LocalInv, Settled
  <2>2. ASSUME NEW p \in Query
        PROVE  LocalInv(query'[p])
    BY <1>3, <1>4 DEF IInv, r
  <2> QED BY <2>1, <2>2
<1>15. Nearer(o, r)
  BY <1>0, <1>2 DEF Nearer, Pass, Stage, PC, LocalInv
<1> QED BY <1>1, <1>10, <1>11, <1>12, <1>13, <1>14, <1>15 DEF IInv, SharedInv, Alone, r

\* StartForward adds a listener for the key that its query claims the address for.
LEMMA StartForwardStep ==
    ASSUME IInv, NEW q \in Query, NEW p \in Port, StartForward(q, p)
    PROVE  IInv' /\ Alone(q) /\ Nearer(query[q], query'[q])
<1> DEFINE o == query[q]
           r == query'[q]
           K == KeyOf(q)
           l == [addr |-> o.addr, port |-> p, key |-> K]
<1>0. /\ query \in [Query -> QueryState] /\ entries \subseteq Listener
      /\ o \in QueryState /\ LocalInv(o) /\ o.pc = "start"
  BY DEF IInv, TypeOK, StartForward
<1>1. /\ query' = [query EXCEPT ![q] = r]
      /\ r = [o EXCEPT !.left = @ \ {p}]
      /\ entries' = entries \cup {l}
      /\ UNCHANGED <<exists, lease, used, closing, closed, unserved, wanted>>
  BY <1>0 DEF StartForward
<1> HIDE DEF r
<1>2. /\ r \in QueryState /\ r.pc = "start" /\ r.addr = o.addr /\ r.left = o.left \ {p}
      /\ r.svc = o.svc /\ r.asked = o.asked /\ r.qtype = o.qtype /\ r.ctx = o.ctx
      /\ r.todo = o.todo /\ r.answers = o.answers /\ r.lost = o.lost /\ r.rcode = o.rcode
  BY <1>0, <1>1 DEF QueryState, PC
<1>3. LocalInv(r)
  BY <1>0, <1>2 DEF LocalInv, Busy, Holds, Settled
<1>4. \A t \in Query : t # q => query'[t] = query[t]
  BY <1>0, <1>1
<1>5. K \in Key /\ o.addr \in Addr /\ <<r.ctx, r.svc>> = K
  BY <1>0, <1>2 DEF KeyOf, Key, QueryState, LocalInv, Busy, Holds
<1>6. Claims(K, o.addr)
  BY DEF Claims
<1> HIDE DEF K
<1>7. l \in Listener
  BY <1>5 DEF Listener
<1>8. ASSUME NEW k \in Key, NEW a \in Addr, Claims(k, a)'
      PROVE  Claims(k, a)
  <2>1. ASSUME NEW t \in Query, query'[t].addr = a, <<query'[t].ctx, query'[t].svc>> = k
        PROVE  Claims(k, a)
    <3>1. CASE t # q
      BY <1>4, <2>1, <3>1 DEF Claims, KeyOf
    <3>2. CASE t = q
      BY <1>2, <1>5, <1>6, <2>1, <3>2 DEF r
    <3> QED BY <3>1, <3>2
  <2>2. ASSUME NEW t \in Query, <<k, a>> \in query'[t].answers
        PROVE  Claims(k, a)
    BY <1>2, <1>4, <2>2 DEF Claims, r
  <2>3. ASSUME NEW m \in entries', m.addr = a, m.key = k
        PROVE  Claims(k, a)
    <3>1. CASE m \in entries
      BY <2>3, <3>1 DEF Claims
    <3>2. CASE m = l
      BY <1>6, <2>3, <3>2
    <3> QED BY <1>1, <3>1, <3>2
  <2>4. CASE lease[k] = a
    BY <2>4 DEF Claims
  <2> QED BY <1>1, <1>8, <2>1, <2>2, <2>3, <2>4 DEF Claims, KeyOf
<1>9. ASSUME NEW k \in Key, NEW a \in Addr, NEW t \in Port, Claims(k, a), Covered(k, a, t)
      PROVE  Covered(k, a, t)'
  <2>1. CASE [addr |-> a, port |-> t, key |-> k] \in entries \/ a \in closed \cup unserved
    BY <1>1, <2>1 DEF Covered
  <2>2. ASSUME NEW u \in Query, query[u].pc = "start", query[u].addr = a, t \in query[u].left
        PROVE  Covered(k, a, t)'
    <3>1. CASE u # q
      BY <1>4, <2>2, <3>1 DEF Covered
    <3>2. CASE u = q /\ t # p
      BY <1>2, <2>2, <3>2 DEF Covered, r
    <3>3. CASE u = q /\ t = p
      <4>1. k = K
        BY <1>5, <1>6, <1>9, <2>2, <3>3 DEF IInv, SharedInv, RightService
      <4> QED BY <1>1, <2>2, <3>3, <4>1 DEF Covered
    <3> QED BY <3>1, <3>2, <3>3
  <2> QED BY <1>9, <2>1, <2>2 DEF Covered
<1>10. TypeOK'
  BY <1>0, <1>1, <1>2, <1>7 DEF IInv, TypeOK
<1>11. UsedInv' /\ RightService'
  BY <1>1, <1>8 DEF IInv, SharedInv, UsedInv, RightService
<1>12. PortInv'
  BY <1>1, <1>8, <1>9, <1>10 DEF IInv, SharedInv, PortInv, TypeOK
<1>13. (\A t \in Query : LocalInv(query[t]))'
  <2>1. ASSUME NEW t \in Query, NEW u, u = query'[t], LocalInv(u)
        PROVE  LocalInv(query[t])'
    BY <1>1, <2>1 DEF LocalInv, Settled
  <2>2. ASSUME NEW t \in Query
        PROVE  LocalInv(query'[t])
    BY <1>3, <1>4 DEF IInv, r
  <2> QED BY <2>1, <2>2
<1>14. Nearer(o, r)
  BY <1>0, <1>2 DEF Nearer, Pass, Shrinks, StartForward
<1> QED BY <1>1, <1>10, <1>11, <1>12, <1>13, <1>14 DEF IInv, SharedInv, Alone, r

\* Listeners that are closed, and an address that is released, leave fewer
\* claims; the ports of what was closed cannot be expected to be served.
LEMMA ManagerStep ==
    ASSUME IInv, NEW as \in SUBSET Addr, UNCHANGED <<exists, used, unserved, wanted, query>>,
           lease' \in [Key -> Addr \cup {NoAddr}],
           \A k \in Key : lease'[k] \in {lease[k], NoAddr},
           entries' = {l \in entries : l.addr \notin as},
           closed' = closed \cup as, closing' \in SUBSET Addr
    PROVE  IInv'
<1>1. TypeOK'
  BY DEF IInv, TypeOK
<1>2. ASSUME NEW k \in Key, NEW a \in Addr, Claims(k, a)'
      PROVE  Claims(k, a)
  BY <1>2 DEF Claims, KeyOf
<1>3. ASSUME NEW k \in Key, NEW a \in Addr, NEW p \in Port, Covered(k, a, p)
      PROVE  Covered(k, a, p)'
  BY <1>3 DEF Covered
<1>4. UsedInv' /\ RightService'
  BY <1>2 DEF IInv, SharedInv, UsedInv, RightService
<1>5. PortInv'
  BY <1>1, <1>2, <1>3 DEF IInv, SharedInv, PortInv, TypeOK
<1>6. (\A q \in Query : LocalInv(query[q]))'
  BY DEF IInv, LocalInv, Settled
<1> QED BY <1>1, <1>4, <1>5, <1>6 DEF IInv, SharedInv

LEMMA TearDownStep ==
    ASSUME IInv, NEW as \in SUBSET Addr, TearDown(as)
    PROVE  IInv'
BY ManagerStep DEF TearDown, IInv, TypeOK

LEMMA ReleaseStep ==
    ASSUME IInv, NEW a \in Addr, ReleaseVIP(a)
    PROVE  IInv'
<1>1. /\ lease \in [Key -> Addr \cup {NoAddr}]
      /\ closing \in SUBSET Addr /\ entries \in SUBSET Listener
  BY DEF IInv, TypeOK
<1>2. /\ lease' \in [Key -> Addr \cup {NoAddr}] /\ used' = used
      /\ \A k \in Key : lease'[k] \in {lease[k], NoAddr}
  BY <1>1 DEF ReleaseVIP, Alloc!Revoke
<1>3. PICK none \in SUBSET Addr : none = {}
  OBVIOUS
<1>4. entries' = {l \in entries : l.addr \notin none} /\ closed' = closed \cup none
      /\ closing' \in SUBSET Addr /\ UNCHANGED <<exists, unserved, wanted, query>>
  BY <1>1, <1>3 DEF ReleaseVIP
<1> QED BY <1>2, <1>4, ManagerStep

\* A step is one of a query, which brings it nearer, or leaves the queries alone.
LEMMA NextStep ==
    ASSUME IInv, Next
    PROVE  /\ IInv'
           /\ \/ UNCHANGED query
              \/ \E q \in Query : Alone(q) /\ Nearer(query[q], query'[q])
<1>0. query \in [Query -> QueryState] /\ entries \subseteq Listener
  BY DEF IInv, TypeOK
<1> DEFINE Goal(q) == IInv' /\ Alone(q) /\ Nearer(query[q], query'[q])
<1>1. ASSUME NEW q \in Query, Local(q), LocalInv(query'[q]), Nearer(query[q], query'[q])
      PROVE  Goal(q)
  BY <1>1, LocalStep DEF Local, Alone
<1>2. ASSUME NEW q \in Query, NEW a \in Addr, Allocate(q, a)
      PROVE  Goal(q)
  BY <1>2, ForwardStep DEF Allocate
<1>3. ASSUME NEW q \in Query, AllocateSame(q)
      PROVE  Goal(q)
  <2>1. PICK a \in Addr : lease[KeyOf(q)] = a
    <3>1. KeyOf(q) \in Key
      BY <1>0, <1>3 DEF AllocateSame, IInv, LocalInv, Busy, KeyOf, Key, QueryState
    <3> QED BY <1>3, <3>1 DEF AllocateSame, IInv, TypeOK
  <2> QED BY <1>3, <2>1, ForwardStep DEF AllocateSame
<1>4. ASSUME NEW q \in Query, NEW p \in Port, StartForward(q, p)
      PROVE  Goal(q)
  BY <1>4, StartForwardStep
<1>5. ASSUME NEW q \in Query, QueryStep(q) \/ TimeUp(q)
      PROVE  Goal(q)
  <2>1. /\ \A ps \in PortSets : ps \in SUBSET Port
        /\ {} \in SUBSET Port
    OBVIOUS
  <2>2. ASSUME NEW ps \in PortSets \cup {{}}, PortsOf(q, ps) \/ ResolveOk(q, ps)
        PROVE  Goal(q)
    <3>1. Local(q) /\ LocalInv(query'[q]) /\ Nearer(query[q], query'[q])
      BY <2>1, <2>2, LocalSteps
    <3> QED BY <1>1, <3>1
  <2>3. ASSUME NEW x \in Context, LookupHit(q, x) \/ LookupMiss(q, x)
        PROVE  Goal(q)
    <3>1. Local(q) /\ LocalInv(query'[q]) /\ Nearer(query[q], query'[q])
      BY <2>3, LocalSteps
    <3> QED BY <1>1, <3>1
  <2>4. ASSUME NEW x \in Context, InfoMiss(q, x) \/ InfoResolves(q, x)
        PROVE  Goal(q)
    <3>1. Local(q) /\ LocalInv(query'[q]) /\ Nearer(query[q], query'[q])
      BY <2>4, LocalSteps
    <3> QED BY <1>1, <3>1
  <2>5. ASSUME NEW x \in Context, NEW pc \in {"cached", "return"}, InfoHit(q, x, pc)
        PROVE  Goal(q)
    <3>1. Local(q) /\ LocalInv(query'[q]) /\ Nearer(query[q], query'[q])
      BY <2>5, LocalSteps
    <3> QED BY <1>1, <3>1
  <2>6. CASE \/ TimeUp(q) \/ AllocateFails(q) \/ StartFails(q) \/ Return(q) \/ Answer(q)
             \/ InfoFound(q) \/ InfoNothing(q)
             \/ \E lost \in LostBy(q, query[q].ctx) : ResolveFails(q, lost)
             \/ \E x \in Context : \E lost \in LostBy(q, x) : InfoResolveFails(q, x, lost)
    <3>1. Local(q) /\ LocalInv(query'[q]) /\ Nearer(query[q], query'[q])
      BY <2>6, LocalSteps
    <3> QED BY <1>1, <3>1
  <2> HIDE DEF Goal
  <2> QED BY <1>2, <1>3, <1>4, <1>5, <2>2, <2>3, <2>4, <2>5, <2>6 DEF QueryStep
<1>6. ASSUME NEW q \in Query, NEW s \in Service, NEW qtype \in {"A", "info"},
             NEW asked \in SUBSET Context, Ask(q, s, qtype, asked)
      PROVE  Goal(q)
  <2>1. Local(q) /\ LocalInv(query'[q]) /\ Nearer(query[q], query'[q])
    BY <1>6, LocalSteps
  <2> QED BY <1>1, <2>1
<1>7. ASSUME NEW q \in Query, NEW rcode \in {"noerror", "nxdomain"}, AskOther(q, rcode)
      PROVE  Goal(q)
  <2>1. Local(q) /\ LocalInv(query'[q]) /\ Nearer(query[q], query'[q])
    BY <1>7, LocalSteps
  <2> QED BY <1>1, <2>1
<1>8. ASSUME NEW a \in Addr, ExpireVIP(a)
      PROVE  IInv' /\ UNCHANGED query
  <2>1. {l.addr : l \in {m \in entries : m.addr = a}} \in SUBSET Addr
    BY <1>0 DEF Listener
  <2> QED BY <1>8, <2>1, TearDownStep DEF ExpireVIP, TearDown
<1>9. ASSUME NEW x \in Context, ShutdownContext(x)
      PROVE  IInv' /\ UNCHANGED query
  <2>1. {l.addr : l \in {m \in entries : m.key[1] = x}} \in SUBSET Addr
    BY <1>0 DEF Listener
  <2> QED BY <1>9, <2>1, TearDownStep DEF ShutdownContext, TearDown
<1>10. ASSUME NEW a \in Addr, ReleaseVIP(a)
       PROVE  IInv' /\ UNCHANGED query
  BY <1>10, ReleaseStep DEF ReleaseVIP
<1> QED BY <1>5, <1>6, <1>7, <1>8, <1>9, <1>10 DEF Next

LEMMA Invariant == Spec => []IInv
<1>1. ASSUME IInv, UNCHANGED vars
      PROVE  IInv'
  <2>1. PICK none \in SUBSET Addr : none = {}
    OBVIOUS
  <2>2. entries' = {l \in entries : l.addr \notin none} /\ closed' = closed \cup none
        /\ UNCHANGED <<exists, used, unserved, wanted, query, lease, closing>>
    BY <1>1, <2>1 DEF vars
  <2>3. lease' \in [Key -> Addr \cup {NoAddr}] /\ closing' \in SUBSET Addr
    BY <1>1, <2>2 DEF IInv, TypeOK
  <2> QED BY <1>1, <2>2, <2>3, ManagerStep
<1>2. IInv /\ [Next]_vars => IInv'
  BY <1>1, NextStep
<1> QED BY InitIInv, <1>2, PTL DEF Spec

-----------------------------------------------------------------------------
\* The state of the handlers, the allocator and the listeners is well typed.
THEOREM TypeCorrect == Spec => []TypeOK
BY Invariant, PTL DEF IInv

\* No address is ever associated with two services, for any number of contexts,
\* services, addresses and concurrent queries: handleA's answers never come to
\* lead elsewhere.
THEOREM NeverMisrouted == Spec => []RightService
BY Invariant, PTL DEF IInv, SharedInv

\* Every answered address listens on each port that an allocation of it was
\* made with, until it is torn down, unless StartForward failed or is under way.
THEOREM AnswersAreServed == Spec => []AnswerServed
<1>1. IInv => AnswerServed
  <2> SUFFICES ASSUME IInv, NEW q \in Query, NEW b \in query[q].answers, ~Excused(b[2]),
                      NEW p \in wanted[b[2]]
               PROVE  [addr |-> b[2], port |-> p, key |-> b[1]] \in entries
    BY DEF AnswerServed
  <2>1. PICK k \in Key, a \in Addr : b = <<k, a>>
    BY DEF IInv, TypeOK, QueryState
  <2>2. Claims(k, a)
    BY <2>1 DEF Claims
  <2>3. Covered(k, a, p)
    BY <2>1, <2>2 DEF IInv, SharedInv, PortInv
  <2> QED BY <2>1, <2>3 DEF Covered, Excused
<1> QED BY Invariant, <1>1, PTL

\* Every context of an A question, and of a TXT or SRV question that is answered
\* with NXDOMAIN, is in the answer, lacks the service, or failed by itself or
\* because the time of the query was up.
THEOREM EveryContextAccounted == Spec => []ContextsAccounted
<1>1. IInv => ContextsAccounted
  BY DEF IInv, LocalInv, Settled, ContextsAccounted, Accounted, Cause
<1> QED BY Invariant, <1>1, PTL

\* Each step of a query brings it nearer to its answer, and no other step
\* touches it: lookupA, lookupTXT and lookupSRV end, whatever fails.
THEOREM HandlersAdvance == Spec => QueriesAdvance
<1>1. ASSUME IInv, [Next]_vars
      PROVE  \A q \in Query : query'[q] # query[q] => Nearer(query[q], query'[q])
  <2>0. query \in [Query -> QueryState]
    BY <1>1 DEF IInv, TypeOK
  <2>1. CASE UNCHANGED query
    BY <2>1
  <2>2. ASSUME NEW q \in Query, Alone(q), Nearer(query[q], query'[q])
        PROVE  \A p \in Query : query'[p] # query[p] => Nearer(query[p], query'[p])
    <3>1. \A p \in Query : p # q => query'[p] = query[p]
      BY <2>0, <2>2 DEF Alone
    <3> QED BY <2>2, <3>1
  <2> QED BY <1>1, <2>1, <2>2, NextStep DEF vars
<1> QED BY Invariant, <1>1, PTL DEF Spec, QueriesAdvance
=============================================================================
