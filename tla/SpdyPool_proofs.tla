--------------------------- MODULE SpdyPool_proofs --------------------------
(***************************************************************************)
(* Proofs about SpdyPool, for every number of pods, contexts, connections  *)
(* and configurations, and every finite number of dialers.                 *)
(***************************************************************************)
EXTENDS SpdyPool, FiniteSetTheorems, TLAPS

\* The points of a dialer where it holds a reference, and where it has an
\* entry in its hands.
Held == {"create", "evict", "open", "release"}
Using == Held \cup {"close", "last", "closing"}

\* spdyPoolMu: who dials holds it, and the key it dials for is not pooled.
MutexInv ==
    \A d \in Dialer : dialer[d].pc = "dialing" =>
        holder = d /\ pool[dialer[d].key] = NoConn

\* A dialer past the start has a key; one that uses an entry uses one of its
\* key.
DialerInv ==
    \A d \in Dialer :
        /\ dialer[d].pc # "idle" => dialer[d].key \in Key
        /\ dialer[d].pc \in Using =>
              /\ dialer[d].entry \in ConnId
              /\ spdy[dialer[d].entry].key = dialer[d].key
        /\ dialer[d].entry # NoConn => spdy[dialer[d].entry].status # "unborn"

\* A pooled entry was dialled for the key it is pooled under.
PoolInv ==
    \A k \in Key : pool[k] # NoConn =>
        spdy[pool[k]].status # "unborn" /\ spdy[pool[k]].key = k

\* refs counts at least the dialers that hold a reference (a dial that evicts
\* its entry never gives its reference back); in the pool it is exact.
RefsInv ==
    \A e \in ConnId :
        /\ Cardinality(Referers(e)) <= spdy[e].refs
        /\ (\E k \in Key : pool[k] = e) => spdy[e].refs = Cardinality(Referers(e))

\* A connection that is up is pooled or about to be closed.
UpInv ==
    \A e \in ConnId : spdy[e].status = "up" =>
        \/ \E k \in Key : pool[k] = e
        \/ \E d \in Dialer : dialer[d].entry = e /\ dialer[d].pc \in {"close", "closing"}

\* A pooled entry without references is about to be looked at by onClose.
LastInv ==
    \A k \in Key : pool[k] # NoConn /\ spdy[pool[k]].refs = 0 =>
        \E d \in Dialer : dialer[d].entry = pool[k] /\ dialer[d].pc = "last"

\* The entry onClose is about to close has left the pool and has no users.
ClosingInv ==
    \A d \in Dialer : dialer[d].pc = "closing" =>
        /\ \A k \in Key : pool[k] # dialer[d].entry
        /\ \A f \in Dialer : dialer[f].entry = dialer[d].entry => dialer[f].pc \notin Held

IInv ==
    /\ TypeOK
    /\ MutexInv
    /\ DialerInv
    /\ PoolInv
    /\ RefsInv
    /\ UpInv
    /\ LastInv
    /\ ClosingInv

-----------------------------------------------------------------------------
(* The set of dialers that hold a reference. *)

\* It is finite, so it has a cardinality.
LEMMA ReferersFinite ==
    \A e : IsFiniteSet(Referers(e)) /\ Cardinality(Referers(e)) \in Nat
<1>1. \A e : Referers(e) \subseteq Dialer
  BY DEF Referers
<1> QED BY <1>1, PoolAssumption, FS_Subset, FS_CardinalityType

\* Its cardinality is zero exactly when nobody holds a reference.
LEMMA ReferersEmpty ==
    \A e : Cardinality(Referers(e)) = 0 <=> Referers(e) = {}
BY ReferersFinite, FS_EmptySet

\* A dialer that neither takes nor gives back a reference.
LEMMA StaySame ==
    ASSUME dialer \in [Dialer -> DialerState], NEW d \in Dialer, NEW r,
           dialer' = [dialer EXCEPT ![d] = r],
           \/ dialer[d].pc \notin Held /\ r.pc \notin Held
           \/ dialer[d].pc \in Held /\ r.pc \in Held /\ r.entry = dialer[d].entry
    PROVE  \A e \in ConnId : Referers(e)' = Referers(e)
<1> SUFFICES ASSUME NEW e \in ConnId
             PROVE  Referers(e)' = Referers(e)
  OBVIOUS
<1> QED BY DEF Referers, Held

\* A dialer that takes a reference.
LEMMA JoinCount ==
    ASSUME dialer \in [Dialer -> DialerState], NEW d \in Dialer, NEW r,
           NEW e \in ConnId, dialer' = [dialer EXCEPT ![d] = r],
           dialer[d].pc \notin Held, r.pc \in Held, r.entry = e
    PROVE  /\ Cardinality(Referers(e))' = Cardinality(Referers(e)) + 1
           /\ \A f \in ConnId : f # e => Referers(f)' = Referers(f)
<1>1. Referers(e)' = Referers(e) \cup {d}
  BY DEF Referers, Held
<1>2. d \notin Referers(e)
  BY DEF Referers, Held
<1>3. \A f \in ConnId : f # e => Referers(f)' = Referers(f)
  <2> SUFFICES ASSUME NEW f \in ConnId, f # e
               PROVE  Referers(f)' = Referers(f)
    OBVIOUS
  <2> QED BY DEF Referers, Held
<1>4. Cardinality(Referers(e) \cup {d}) = Cardinality(Referers(e)) + 1
  BY <1>2, ReferersFinite, FS_AddElement
<1> QED BY <1>1, <1>3, <1>4

\* A dialer that lets go of its reference.
LEMMA LeaveCount ==
    ASSUME dialer \in [Dialer -> DialerState], NEW d \in Dialer, NEW r,
           NEW e \in ConnId, dialer' = [dialer EXCEPT ![d] = r],
           dialer[d].pc \in Held, dialer[d].entry = e, r.pc \notin Held
    PROVE  /\ Cardinality(Referers(e))' = Cardinality(Referers(e)) - 1
           /\ Cardinality(Referers(e)) > 0
           /\ \A f \in ConnId : f # e => Referers(f)' = Referers(f)
<1>1. Referers(e)' = Referers(e) \ {d}
  BY DEF Referers, Held
<1>2. d \in Referers(e)
  BY DEF Referers, Held
<1>3. \A f \in ConnId : f # e => Referers(f)' = Referers(f)
  <2> SUFFICES ASSUME NEW f \in ConnId, f # e
               PROVE  Referers(f)' = Referers(f)
    OBVIOUS
  <2> QED BY DEF Referers, Held
<1>4. Cardinality(Referers(e) \ {d}) = Cardinality(Referers(e)) - 1
  BY <1>2, ReferersFinite, FS_RemoveElement
<1>5. Cardinality(Referers(e)) > 0
  BY <1>2, ReferersFinite, ReferersEmpty
<1> QED BY <1>1, <1>3, <1>4, <1>5

-----------------------------------------------------------------------------
(* One lemma per action. *)

\* A step that changes no entry, no pool slot and no reference keeps RefsInv.
LEMMA RefsKept ==
    ASSUME RefsInv, spdy' = spdy, pool' = pool,
           \A e \in ConnId : Referers(e)' = Referers(e)
    PROVE  RefsInv'
BY DEF RefsInv

\* The start of DialPortForward.
LEMMA DialPortForwardStep ==
    ASSUME IInv, NEW d \in Dialer, NEW k \in Key, DialPortForward(d, k)
    PROVE  IInv'
<1> USE DEF IInv
<1> DEFINE r == [pc |-> "acquire", key |-> k, entry |-> NoConn,
                 config |-> config[ContextOf[k]], retry |-> FALSE]
<1>1. dialer' = [dialer EXCEPT ![d] = r] /\ UNCHANGED <<pool, spdy, holder, config, outdated>>
      /\ dialer[d].pc = "idle"
  BY DEF DialPortForward
<1>2. r \in DialerState
  BY PoolAssumption DEF DialerState, PC, TypeOK
<1>3. TypeOK'
  BY <1>1, <1>2 DEF TypeOK
<1>4. \A e \in ConnId : Referers(e)' = Referers(e)
  BY <1>1, StaySame DEF Held, TypeOK
<1>5. RefsInv'
  BY <1>1, <1>4, RefsKept
<1> QED BY <1>1, <1>3, <1>5 DEF TypeOK, DialerState, MutexInv, DialerInv, PoolInv,
           UpInv, LastInv, ClosingInv, Using, Held

\* The record DialerAt gives a dialer.
Moved(d, pc, e) ==
    [pc |-> pc, key |-> dialer[d].key, entry |-> e,
     config |-> dialer[d].config, retry |-> dialer[d].retry]

\* A live pooled connection gets one more reference and one more holder.
LEMMA ReuseStep ==
    ASSUME IInv, NEW d \in Dialer, Reuse(d)
    PROVE  IInv'
<1> USE DEF IInv
<1> DEFINE k == dialer[d].key
<1>0. k \in Key /\ pool[k] \in ConnId
  BY DEF Reuse, DialerInv, TypeOK
<1> PICK e \in ConnId : e = pool[k]
  BY <1>0
<1> DEFINE r == Moved(d, "create", e)
<1>1. /\ dialer[d].pc = "acquire" /\ holder = NoDialer
      /\ dialer' = [dialer EXCEPT ![d] = r]
      /\ UNCHANGED <<pool, holder, config, outdated>>
      /\ e # NoConn /\ spdy[e].status = "up"
      /\ spdy' = [spdy EXCEPT ![e] = [key |-> spdy[e].key, refs |-> spdy[e].refs + 1,
                                      status |-> "up", config |-> spdy[e].config]]
  BY DEF Reuse, DialerAt, Moved, EntryIs, MutexFree
<1>2. k \in Key /\ e \in ConnId /\ spdy[e] \in Entry /\ spdy[e].key = k
  BY <1>0, <1>1 DEF TypeOK, PoolInv
<1>3. r \in DialerState /\ r.pc = "create" /\ r.entry = e /\ r.key = k
  BY <1>2 DEF Moved, DialerState, PC, TypeOK
<1> HIDE DEF k, r
<1>4. TypeOK'
  BY <1>1, <1>2, <1>3 DEF TypeOK, Entry
<1>5. /\ Cardinality(Referers(e))' = Cardinality(Referers(e)) + 1
      /\ \A f \in ConnId : f # e => Referers(f)' = Referers(f)
  BY <1>1, <1>2, <1>3, JoinCount DEF Held, TypeOK
<1>6. RefsInv'
  <2> SUFFICES ASSUME NEW f \in ConnId
               PROVE  /\ Cardinality(Referers(f))' <= spdy'[f].refs
                      /\ (\E j \in Key : pool'[j] = f)
                            => spdy'[f].refs = Cardinality(Referers(f))'
    BY DEF RefsInv
  <2>1. CASE f = e
    <3>1. spdy[e].refs \in Nat /\ spdy'[e].refs = spdy[e].refs + 1
      BY <1>1, <1>2 DEF Entry, TypeOK
    <3> QED BY <1>1, <1>2, <1>5, <2>1, <3>1, ReferersFinite DEF RefsInv
  <2>2. CASE f # e
    BY <1>1, <1>5, <2>2 DEF RefsInv, TypeOK
  <2> QED BY <2>1, <2>2
<1>7. MutexInv'
  BY <1>1, <1>3 DEF MutexInv, TypeOK
<1>8. DialerInv'
  BY <1>1, <1>2, <1>3 DEF DialerInv, TypeOK
<1>9. PoolInv' /\ UpInv'
  BY <1>1, <1>2, <1>3 DEF PoolInv, UpInv, TypeOK
<1>10. LastInv'
  <2>1. spdy[e].refs \in Nat
    BY <1>2 DEF Entry
  <2> QED BY <1>1, <1>2, <1>3, <2>1 DEF LastInv, TypeOK
<1>11. ClosingInv'
  <2>1. \E j \in Key : pool[j] = e
    BY <1>2
  <2> QED BY <1>1, <1>2, <1>3, <2>1 DEF ClosingInv, TypeOK
<1> QED BY <1>4, <1>6, <1>7, <1>8, <1>9, <1>10, <1>11

\* The mutex is taken to dial; a dead connection leaves the pool.
LEMMA StartDialStep ==
    ASSUME IInv, NEW d \in Dialer, StartDial(d)
    PROVE  IInv'
<1> USE DEF IInv
<1> DEFINE k == dialer[d].key
           r == Moved(d, "dialing", NoConn)
<1>1. /\ dialer[d].pc = "acquire" /\ holder = NoDialer
      /\ dialer' = [dialer EXCEPT ![d] = r]
      /\ holder' = d
      /\ UNCHANGED <<spdy, config, outdated>>
      /\ pool[k] # NoConn => spdy[pool[k]].status = "down"
      /\ pool' = [pool EXCEPT ![k] = NoConn]
  BY DEF StartDial, DialerAt, Moved, MutexFree
<1>2. k \in Key
  BY <1>1 DEF DialerInv
<1>3. r \in DialerState /\ r.pc = "dialing" /\ r.entry = NoConn /\ r.key = k
  BY <1>2 DEF Moved, DialerState, PC, TypeOK
<1> HIDE DEF k, r
<1>4. TypeOK'
  BY <1>1, <1>2, <1>3 DEF TypeOK
<1>5. \A e \in ConnId : Referers(e)' = Referers(e)
  BY <1>1, <1>3, StaySame DEF Held, TypeOK
<1>6. RefsInv'
  <2>1. \A j \in Key : pool'[j] # NoConn => pool'[j] = pool[j]
    BY <1>1, <1>2 DEF TypeOK
  <2> QED BY <1>1, <1>5, <2>1, PoolAssumption DEF RefsInv
<1>7. MutexInv'
  BY <1>1, <1>2, <1>3, PoolAssumption DEF MutexInv, TypeOK
<1>8. DialerInv'
  BY <1>1, <1>2, <1>3 DEF DialerInv, TypeOK, Using, Held
<1>9. PoolInv'
  BY <1>1, <1>2 DEF PoolInv, TypeOK
<1>10. UpInv'
  BY <1>1, <1>2, <1>3 DEF UpInv, TypeOK
<1>11. LastInv'
  BY <1>1, <1>2, <1>3 DEF LastInv, TypeOK
<1>12. ClosingInv'
  BY <1>1, <1>2, <1>3, PoolAssumption DEF ClosingInv, TypeOK, DialerInv, Held, Using
<1> QED BY <1>4, <1>6, <1>7, <1>8, <1>9, <1>10, <1>11, <1>12

\* A new entry is pooled with the one reference of its dialer.
LEMMA DialOkStep ==
    ASSUME IInv, NEW d \in Dialer, NEW e \in ConnId, DialOk(d, e)
    PROVE  IInv'
<1> USE DEF IInv
<1> DEFINE k == dialer[d].key
           r == Moved(d, "create", e)
<1>1. /\ dialer[d].pc = "dialing"
      /\ spdy[e].status = "unborn"
      /\ dialer' = [dialer EXCEPT ![d] = r]
      /\ holder' = NoDialer
      /\ UNCHANGED <<config, outdated>>
      /\ pool' = [pool EXCEPT ![k] = e]
      /\ spdy' = [spdy EXCEPT ![e] = [key |-> k, refs |-> 1, status |-> "up",
                                      config |-> dialer[d].config]]
  BY DEF DialOk, DialerAt, Moved
<1>2. k \in Key /\ pool[k] = NoConn /\ holder = d
  BY <1>1 DEF DialerInv, MutexInv
<1>3. r \in DialerState /\ r.pc = "create" /\ r.entry = e /\ r.key = k
  BY <1>2 DEF Moved, DialerState, PC, TypeOK
<1>4. dialer[d].config \in Nat
  BY DEF TypeOK, DialerState
<1> HIDE DEF k, r
<1>5. TypeOK'
  BY <1>1, <1>2, <1>3, <1>4 DEF TypeOK, Entry
<1>6. e # NoConn /\ (\A f \in Dialer : dialer[f].entry # e) /\ (\A j \in Key : pool[j] # e)
  BY <1>1, PoolAssumption DEF DialerInv, PoolInv
<1>7. Referers(e) = {}
  BY <1>6 DEF Referers
<1>8. /\ Cardinality(Referers(e))' = 1
      /\ \A f \in ConnId : f # e => Referers(f)' = Referers(f)
  <2>1. Cardinality(Referers(e)) = 0
    BY <1>7, ReferersEmpty
  <2>2. /\ Cardinality(Referers(e))' = Cardinality(Referers(e)) + 1
        /\ \A f \in ConnId : f # e => Referers(f)' = Referers(f)
    BY <1>1, <1>3, JoinCount DEF Held, TypeOK
  <2> QED BY <2>1, <2>2
<1>9. RefsInv'
  <2> SUFFICES ASSUME NEW f \in ConnId
               PROVE  /\ Cardinality(Referers(f))' <= spdy'[f].refs
                      /\ (\E j \in Key : pool'[j] = f)
                            => spdy'[f].refs = Cardinality(Referers(f))'
    BY DEF RefsInv
  <2>1. CASE f = e
    BY <1>1, <1>8, <2>1 DEF TypeOK
  <2>2. CASE f # e
    <3>1. (\E j \in Key : pool'[j] = f) => \E j \in Key : pool[j] = f
      BY <1>1, <1>2, <2>2 DEF TypeOK
    <3> QED BY <1>1, <1>8, <2>2, <3>1 DEF RefsInv, TypeOK
  <2> QED BY <2>1, <2>2
<1>10. MutexInv'
  BY <1>1, <1>2, <1>3, PoolAssumption DEF MutexInv, TypeOK
<1>11. DialerInv'
  BY <1>1, <1>2, <1>3, <1>6 DEF DialerInv, TypeOK
<1>12. PoolInv'
  BY <1>1, <1>2, <1>6 DEF PoolInv, TypeOK
<1>13. UpInv'
  BY <1>1, <1>2, <1>3, PoolAssumption DEF UpInv, TypeOK
<1>14. LastInv'
  BY <1>1, <1>2, <1>3, <1>6 DEF LastInv, TypeOK
<1>15. ClosingInv'
  BY <1>1, <1>2, <1>3, <1>6 DEF ClosingInv, TypeOK, DialerInv, Using
<1> QED BY <1>5, <1>9, <1>10, <1>11, <1>12, <1>13, <1>14, <1>15

\* A dialer moves on without touching the pool, the entries or the mutex, and
\* keeps its reference or has none: DialFails apart, every purely local step.
LEMMA LocalStep ==
    ASSUME IInv, NEW d \in Dialer, NEW pc \in Held,
           dialer[d].pc \in Held, DialerAt(d, pc, dialer[d].entry),
           UNCHANGED <<pool, spdy, holder, config, outdated>>
    PROVE  IInv'
<1> USE DEF IInv
<1> DEFINE r == Moved(d, pc, dialer[d].entry)
<1>1. dialer' = [dialer EXCEPT ![d] = r]
  BY DEF DialerAt, Moved
<1>2. r \in DialerState /\ r.pc = pc /\ r.entry = dialer[d].entry /\ r.key = dialer[d].key
  BY DEF Moved, DialerState, PC, TypeOK, Held
<1> HIDE DEF r
<1>3. TypeOK'
  BY <1>1, <1>2 DEF TypeOK
<1>4. \A e \in ConnId : Referers(e)' = Referers(e)
  BY <1>1, <1>2, StaySame DEF TypeOK
<1>5. RefsInv'
  BY <1>4, RefsKept
<1> QED BY <1>1, <1>2, <1>3, <1>5 DEF TypeOK, MutexInv, DialerInv, PoolInv,
           UpInv, LastInv, ClosingInv, Using, Held

\* The mutex is given up without a connection.
LEMMA DialFailsStep ==
    ASSUME IInv, NEW d \in Dialer, DialFails(d)
    PROVE  IInv'
<1> USE DEF IInv
<1> DEFINE r == Moved(d, "failed", NoConn)
<1>1. /\ dialer' = [dialer EXCEPT ![d] = r] /\ dialer[d].pc = "dialing"
      /\ holder' = NoDialer /\ UNCHANGED <<pool, spdy, config, outdated>>
  BY DEF DialFails, DialerAt, Moved
<1>2. r \in DialerState /\ r.pc = "failed" /\ r.entry = NoConn /\ r.key = dialer[d].key
  BY DEF Moved, DialerState, PC, TypeOK
<1> HIDE DEF r
<1>3. TypeOK'
  BY <1>1, <1>2 DEF TypeOK
<1>4. \A e \in ConnId : Referers(e)' = Referers(e)
  BY <1>1, <1>2, StaySame DEF TypeOK, Held
<1>5. RefsInv'
  BY <1>1, <1>4, RefsKept
<1>6. MutexInv'
  BY <1>1, <1>2, PoolAssumption DEF MutexInv, TypeOK
<1>7. DialerInv' /\ PoolInv' /\ UpInv' /\ LastInv' /\ ClosingInv'
  BY <1>1, <1>2, PoolAssumption DEF TypeOK, DialerInv, PoolInv, UpInv, LastInv,
     ClosingInv, Using, Held
<1> QED BY <1>3, <1>5, <1>6, <1>7

\* The call gives up before it took anything.
LEMMA ResolveFailsStep ==
    ASSUME IInv, NEW d \in Dialer, ResolveFails(d)
    PROVE  IInv'
<1> USE DEF IInv
<1> DEFINE r == Moved(d, "failed", NoConn)
<1>1. /\ dialer' = [dialer EXCEPT ![d] = r] /\ dialer[d].pc = "acquire"
      /\ UNCHANGED <<pool, spdy, holder, config, outdated>>
  BY DEF ResolveFails, DialerAt, Moved
<1>2. r \in DialerState /\ r.pc = "failed" /\ r.entry = NoConn /\ r.key = dialer[d].key
  BY DEF Moved, DialerState, PC, TypeOK
<1> HIDE DEF r
<1>3. TypeOK'
  BY <1>1, <1>2 DEF TypeOK
<1>4. \A e \in ConnId : Referers(e)' = Referers(e)
  BY <1>1, <1>2, StaySame DEF TypeOK, Held
<1>5. RefsInv'
  BY <1>1, <1>4, RefsKept
<1>6. MutexInv'
  BY <1>1, <1>2, PoolAssumption DEF MutexInv, TypeOK
<1>7. DialerInv' /\ PoolInv' /\ UpInv' /\ LastInv' /\ ClosingInv'
  BY <1>1, <1>2, PoolAssumption DEF TypeOK, DialerInv, PoolInv, UpInv, LastInv,
     ClosingInv, Using, Held
<1> QED BY <1>3, <1>5, <1>6, <1>7

\* The entry leaves the pool with the dialer that will close it.  Its count
\* stays one too high from here on, which is why RefsInv has an inequality.
LEMMA EvictStep ==
    ASSUME IInv, NEW d \in Dialer, Evict(d)
    PROVE  IInv'
<1> USE DEF IInv
<1>0. dialer[d].entry \in ConnId
  BY DEF Evict, DialerInv, Using, Held
<1> PICK e \in ConnId : e = dialer[d].entry
  BY <1>0
<1> DEFINE k == dialer[d].key
           r == Moved(d, "close", e)
<1>1. /\ dialer[d].pc = "evict"
      /\ dialer' = [dialer EXCEPT ![d] = r]
      /\ UNCHANGED <<spdy, holder, config, outdated>>
      /\ pool' = IF pool[k] = e THEN [pool EXCEPT ![k] = NoConn] ELSE pool
  BY DEF Evict, DialerAt, Moved
<1>2. k \in Key /\ e \in ConnId /\ spdy[e].key = k
  BY <1>1 DEF DialerInv, Using, Held
<1>3. r \in DialerState /\ r.pc = "close" /\ r.entry = e /\ r.key = k
  BY DEF Moved, DialerState, PC, TypeOK
<1>4. dialer[d].entry = e /\ dialer[d].key = k
  OBVIOUS
<1> HIDE DEF k, r
<1>5. TypeOK'
  BY <1>1, <1>2, <1>3 DEF TypeOK
<1>6. \A j \in Key : pool'[j] # e /\ (pool'[j] = pool[j] \/ pool'[j] = NoConn)
                     /\ (pool[j] # e => pool'[j] = pool[j])
  BY <1>1, <1>2, PoolAssumption DEF PoolInv, TypeOK
<1>7. /\ Cardinality(Referers(e))' = Cardinality(Referers(e)) - 1
      /\ \A f \in ConnId : f # e => Referers(f)' = Referers(f)
  BY <1>1, <1>2, <1>3, <1>4, LeaveCount DEF Held, TypeOK
<1>8. RefsInv'
  <2> SUFFICES ASSUME NEW f \in ConnId
               PROVE  /\ Cardinality(Referers(f))' <= spdy'[f].refs
                      /\ (\E j \in Key : pool'[j] = f)
                            => spdy'[f].refs = Cardinality(Referers(f))'
    BY DEF RefsInv
  <2>1. CASE f = e
    <3>1. spdy[e].refs \in Nat
      BY <1>2 DEF TypeOK, Entry
    <3> QED BY <1>1, <1>2, <1>6, <1>7, <2>1, <3>1, ReferersFinite DEF RefsInv
  <2>2. CASE f # e
    <3>1. (\E j \in Key : pool'[j] = f) => \E j \in Key : pool[j] = f
      BY <1>6, PoolAssumption
    <3> QED BY <1>1, <1>7, <2>2, <3>1 DEF RefsInv
  <2> QED BY <2>1, <2>2
<1>9. MutexInv'
  BY <1>1, <1>3, <1>6 DEF MutexInv, DialerInv, TypeOK
<1>10. DialerInv'
  BY <1>1, <1>2, <1>3, <1>4 DEF DialerInv, TypeOK, Using, Held
<1>11. PoolInv'
  BY <1>1, <1>6 DEF PoolInv
<1>12. UpInv'
  BY <1>1, <1>2, <1>3, <1>6 DEF UpInv, TypeOK
<1>13. LastInv'
  BY <1>1, <1>3, <1>4, <1>6 DEF LastInv, TypeOK
<1>14. ClosingInv'
  BY <1>1, <1>3, <1>4, <1>6, PoolAssumption DEF ClosingInv, TypeOK, Held, DialerInv, Using
<1> QED BY <1>5, <1>8, <1>9, <1>10, <1>11, <1>12, <1>13, <1>14

\* Connections that go down keep their key and their count.
WentDown ==
    /\ spdy' \in [ConnId -> Entry]
    /\ \A e \in ConnId : /\ spdy'[e].key = spdy[e].key
                         /\ spdy'[e].refs = spdy[e].refs
                         /\ spdy'[e].status = "up" => spdy[e].status = "up"
                         /\ spdy'[e].status = "unborn" <=> spdy[e].status = "unborn"

\* Closing one connection is such a step.
LEMMA CloseDown ==
    ASSUME TypeOK, NEW e \in ConnId, EntryIs(e, spdy[e].refs, Down(e))
    PROVE  WentDown /\ spdy'[e].status # "up"
<1>1. spdy[e] \in Entry
  BY DEF TypeOK
<1>2. Down(e) \in {"unborn", "down"} /\ (Down(e) = "unborn" <=> spdy[e].status = "unborn")
  BY <1>1 DEF Down, Entry
<1> QED BY <1>1, <1>2 DEF EntryIs, WentDown, TypeOK, Entry

\* The dialer that evicted the entry closes it and tries again.
LEMMA CloseEvictedStep ==
    ASSUME IInv, NEW d \in Dialer, CloseEvicted(d)
    PROVE  IInv'
<1> USE DEF IInv
<1>0. dialer[d].entry \in ConnId
  BY DEF CloseEvicted, DialerInv, Using
<1> PICK e \in ConnId : e = dialer[d].entry
  BY <1>0
<1> DEFINE r == [pc |-> "acquire", key |-> dialer[d].key, entry |-> NoConn,
                 config |-> dialer[d].config, retry |-> TRUE]
<1>1. /\ dialer[d].pc = "close" /\ dialer' = [dialer EXCEPT ![d] = r]
      /\ UNCHANGED <<pool, holder, config, outdated>>
      /\ EntryIs(e, spdy[e].refs, Down(e))
  BY DEF CloseEvicted
<1>2. r \in DialerState /\ r.pc = "acquire" /\ r.entry = NoConn /\ r.key = dialer[d].key
  BY DEF DialerState, PC, TypeOK
<1> HIDE DEF r
<1>3. WentDown /\ spdy'[e].status # "up"
  BY <1>1, CloseDown
<1>4. TypeOK'
  BY <1>1, <1>2, <1>3 DEF TypeOK, WentDown
<1>5. \A f \in ConnId : Referers(f)' = Referers(f)
  BY <1>1, <1>2, StaySame DEF TypeOK, Held
<1>6. RefsInv'
  BY <1>1, <1>3, <1>5 DEF RefsInv, WentDown
<1>7. MutexInv' /\ DialerInv'
  BY <1>1, <1>2, <1>3 DEF MutexInv, DialerInv, TypeOK, WentDown, Using, Held, DialerState
<1>8. PoolInv'
  BY <1>1, <1>3 DEF PoolInv, TypeOK, WentDown
<1>9. UpInv'
  BY <1>1, <1>2, <1>3 DEF UpInv, TypeOK, WentDown
<1>10. LastInv' /\ ClosingInv'
  BY <1>1, <1>2, <1>3 DEF LastInv, ClosingInv, TypeOK, WentDown, Held
<1> QED BY <1>4, <1>6, <1>7, <1>8, <1>9, <1>10

\* A reference is given back; the last one of a pooled entry goes on.
LEMMA ReleaseStep ==
    ASSUME IInv, NEW d \in Dialer, Release(d)
    PROVE  IInv'
<1> USE DEF IInv
<1>0. dialer[d].entry \in ConnId
  BY DEF Release, DialerInv, Using, Held
<1> PICK e \in ConnId : e = dialer[d].entry
  BY <1>0
<1> DEFINE pc == IF spdy[e].refs = 1 THEN "last" ELSE "done"
           r == Moved(d, pc, e)
<1>1. /\ dialer[d].pc = "release" /\ dialer' = [dialer EXCEPT ![d] = r]
      /\ UNCHANGED <<pool, holder, config, outdated>>
      /\ spdy' = [spdy EXCEPT ![e] = [key |-> spdy[e].key, refs |-> spdy[e].refs - 1,
                                      status |-> spdy[e].status, config |-> spdy[e].config]]
  BY DEF Release, DialerAt, Moved, EntryIs
<1>2. /\ r \in DialerState /\ r.pc \in {"last", "done"} /\ r.entry = e
      /\ r.key = dialer[d].key /\ (spdy[e].refs = 1 => r.pc = "last")
  BY DEF Moved, DialerState, PC, TypeOK
<1> HIDE DEF r, pc
<1>3. spdy[e] \in Entry /\ spdy[e].refs \in Nat
  BY DEF TypeOK, Entry
<1>4. /\ Cardinality(Referers(e))' = Cardinality(Referers(e)) - 1
      /\ Cardinality(Referers(e)) > 0
      /\ \A f \in ConnId : f # e => Referers(f)' = Referers(f)
  BY <1>1, <1>2, LeaveCount DEF Held, TypeOK
<1>5. spdy[e].refs - 1 \in Nat
  BY <1>3, <1>4, ReferersFinite DEF RefsInv
<1>6. TypeOK'
  BY <1>1, <1>2, <1>3, <1>5 DEF TypeOK, Entry
<1>7. spdy'[e].refs = spdy[e].refs - 1
      /\ \A f \in ConnId : /\ spdy'[f].key = spdy[f].key
                           /\ spdy'[f].status = spdy[f].status
                           /\ f # e => spdy'[f] = spdy[f]
  BY <1>1 DEF TypeOK
<1>8. RefsInv'
  <2> SUFFICES ASSUME NEW f \in ConnId
               PROVE  /\ Cardinality(Referers(f))' <= spdy'[f].refs
                      /\ (\E j \in Key : pool'[j] = f)
                            => spdy'[f].refs = Cardinality(Referers(f))'
    BY DEF RefsInv
  <2>1. CASE f = e
    BY <1>1, <1>3, <1>4, <1>7, <2>1, ReferersFinite DEF RefsInv
  <2>2. CASE f # e
    BY <1>1, <1>4, <1>7, <2>2 DEF RefsInv
  <2> QED BY <2>1, <2>2
<1>9. MutexInv' /\ DialerInv'
  BY <1>1, <1>2, <1>7 DEF MutexInv, DialerInv, TypeOK, Using, Held, DialerState
<1>10. PoolInv'
  BY <1>1, <1>7 DEF PoolInv, TypeOK
<1>11. UpInv'
  BY <1>1, <1>2, <1>7 DEF UpInv, TypeOK
<1>12. LastInv'
  BY <1>1, <1>2, <1>3, <1>7 DEF LastInv, TypeOK
<1>13. ClosingInv'
  BY <1>1, <1>2 DEF ClosingInv, TypeOK, Held
<1> QED BY <1>6, <1>8, <1>9, <1>10, <1>11, <1>12, <1>13

\* onClose looks again under the mutex; what it evicts has no users.
LEMMA LastStep ==
    ASSUME IInv, NEW d \in Dialer, Last(d)
    PROVE  IInv'
<1> USE DEF IInv
<1>0. dialer[d].entry \in ConnId
  BY DEF Last, DialerInv, Using
<1> PICK e \in ConnId : e = dialer[d].entry
  BY <1>0
<1> DEFINE k == dialer[d].key
           close == pool[k] = e /\ spdy[e].refs = 0
           r == Moved(d, IF close THEN "closing" ELSE "done", e)
<1>1. /\ dialer[d].pc = "last" /\ dialer' = [dialer EXCEPT ![d] = r]
      /\ UNCHANGED <<spdy, holder, config, outdated>>
      /\ pool' = IF close THEN [pool EXCEPT ![k] = NoConn] ELSE pool
  BY DEF Last, DialerAt, Moved
<1>2. k \in Key /\ spdy[e].key = k
  BY <1>1 DEF DialerInv, Using
<1>3. /\ r \in DialerState /\ r.pc = IF close THEN "closing" ELSE "done"
      /\ r.entry = e /\ r.key = k
  BY DEF Moved, DialerState, PC, TypeOK
<1> HIDE DEF r, k
<1>4. TypeOK'
  BY <1>1, <1>2, <1>3 DEF TypeOK
<1>5. /\ \A j \in Key : /\ pool'[j] = pool[j] \/ pool'[j] = NoConn
                        /\ pool[j] # e => pool'[j] = pool[j]
                        /\ close => pool'[j] # e
      /\ ~close => pool' = pool
  BY <1>1, <1>2, PoolAssumption DEF PoolInv, TypeOK
<1>6. \A f \in ConnId : Referers(f)' = Referers(f)
  BY <1>1, <1>3, StaySame DEF TypeOK, Held
<1>7. close => Referers(e) = {}
  <2>1. spdy[e].refs = 0 => Cardinality(Referers(e)) = 0
    BY ReferersFinite DEF RefsInv
  <2> QED BY <2>1, ReferersEmpty
<1>8. RefsInv'
  <2>1. \A f \in ConnId : (\E j \in Key : pool'[j] = f) => \E j \in Key : pool[j] = f
    BY <1>5, PoolAssumption
  <2> QED BY <1>1, <1>6, <2>1 DEF RefsInv
<1>9. MutexInv' /\ DialerInv'
  BY <1>1, <1>2, <1>3, <1>5 DEF MutexInv, DialerInv, TypeOK, Using, Held, DialerState
<1>10. PoolInv'
  BY <1>1, <1>5 DEF PoolInv
<1>11. UpInv'
  BY <1>1, <1>3, <1>5 DEF UpInv, TypeOK
<1>12. LastInv'
  <2>1. ~close => \A j \in Key : pool[j] = e => spdy[e].refs # 0
    BY <1>2, PoolAssumption DEF PoolInv
  <2> QED BY <1>1, <1>3, <1>5, <2>1 DEF LastInv, TypeOK
<1>13. ClosingInv'
  <2>1. close => \A f \in Dialer : dialer[f].entry = e => dialer[f].pc \notin Held
    BY <1>7 DEF Referers, Held
  <2> QED BY <1>1, <1>3, <1>5, <2>1, PoolAssumption
         DEF ClosingInv, TypeOK, Held, DialerInv, Using
<1> QED BY <1>4, <1>8, <1>9, <1>10, <1>11, <1>12, <1>13

\* onClose closes what it evicted.
LEMMA CloseLastStep ==
    ASSUME IInv, NEW d \in Dialer, CloseLast(d)
    PROVE  IInv'
<1> USE DEF IInv
<1>0. dialer[d].entry \in ConnId
  BY DEF CloseLast, DialerInv, Using
<1> PICK e \in ConnId : e = dialer[d].entry
  BY <1>0
<1> DEFINE r == Moved(d, "done", e)
<1>1. /\ dialer[d].pc = "closing" /\ dialer' = [dialer EXCEPT ![d] = r]
      /\ UNCHANGED <<pool, holder, config, outdated>>
      /\ EntryIs(e, spdy[e].refs, Down(e))
  BY DEF CloseLast, DialerAt, Moved
<1>2. r \in DialerState /\ r.pc = "done" /\ r.entry = e /\ r.key = dialer[d].key
  BY DEF Moved, DialerState, PC, TypeOK
<1> HIDE DEF r
<1>3. WentDown /\ spdy'[e].status # "up"
  BY <1>1, CloseDown
<1>4. TypeOK'
  BY <1>1, <1>2, <1>3 DEF TypeOK, WentDown
<1>5. \A f \in ConnId : Referers(f)' = Referers(f)
  BY <1>1, <1>2, StaySame DEF TypeOK, Held
<1>6. RefsInv'
  BY <1>1, <1>3, <1>5 DEF RefsInv, WentDown
<1>7. MutexInv' /\ DialerInv'
  BY <1>1, <1>2, <1>3 DEF MutexInv, DialerInv, TypeOK, WentDown, Using, Held, DialerState
<1>8. PoolInv'
  BY <1>1, <1>3 DEF PoolInv, TypeOK, WentDown
<1>9. UpInv'
  BY <1>1, <1>2, <1>3 DEF UpInv, TypeOK, WentDown
<1>10. LastInv' /\ ClosingInv'
  BY <1>1, <1>2, <1>3 DEF LastInv, ClosingInv, TypeOK, WentDown, Held
<1> QED BY <1>4, <1>6, <1>7, <1>8, <1>9, <1>10

\* Slots of the pool are emptied, those of live connections never.
PoolShrunk ==
    /\ pool' \in [Key -> ConnId \cup {NoConn}]
    /\ \A k \in Key :
          \/ pool'[k] = pool[k]
          \/ pool'[k] = NoConn /\ (pool[k] # NoConn => spdy'[pool[k]].status # "up")

\* Connections go down on their own, or are closed and taken out of the pool.
LEMMA DropStep ==
    ASSUME IInv, WentDown, UNCHANGED <<dialer, holder>>,
           config' \in [Context -> 0 .. MaxConfig], outdated' \in SUBSET Context,
           PoolShrunk
    PROVE  IInv'
<1> USE DEF IInv, PoolShrunk
<1>1. TypeOK'
  BY DEF TypeOK, WentDown
<1>2. \A f \in ConnId : Referers(f)' = Referers(f)
  BY DEF Referers
<1>3. RefsInv'
  <2>1. \A f \in ConnId : (\E j \in Key : pool'[j] = f) => \E j \in Key : pool[j] = f
    BY PoolAssumption
  <2> QED BY <1>2, <2>1 DEF RefsInv, WentDown
<1>4. MutexInv' /\ DialerInv'
  BY DEF MutexInv, DialerInv, TypeOK, WentDown, DialerState
<1>5. PoolInv' /\ LastInv'
  BY DEF PoolInv, LastInv, TypeOK, WentDown
<1>6. UpInv'
  BY PoolAssumption DEF UpInv, TypeOK, WentDown
<1>7. ClosingInv'
  BY PoolAssumption DEF ClosingInv, DialerInv, Using
<1> QED BY <1>1, <1>3, <1>4, <1>5, <1>6, <1>7

\* What ShutdownContext and Shutdown do to the pool.
LEMMA ClosePooledFacts ==
    ASSUME TypeOK, NEW keys \in SUBSET Key, ClosePooled(keys)
    PROVE  WentDown /\ PoolShrunk
<1>1. \A e \in ConnId : /\ Down(e) \in {"unborn", "down"}
                        /\ Down(e) = "unborn" <=> spdy[e].status = "unborn"
  BY DEF TypeOK, Entry, Down
<1>2. WentDown
  BY <1>1 DEF ClosePooled, WentDown, TypeOK, Entry
<1>3. \A k \in keys : pool[k] # NoConn => spdy'[pool[k]].status # "up"
  BY <1>1 DEF ClosePooled, TypeOK
<1>4. PoolShrunk
  BY <1>3 DEF ClosePooled, TypeOK, PoolShrunk
<1> QED BY <1>2, <1>4

\* The invariant is inductive.
LEMMA InvStep ==
    ASSUME IInv, [Next]_vars
    PROVE  IInv'
<1>0. TypeOK
  BY DEF IInv
<1>1. ASSUME NEW d \in Dialer, CreateStreams(d) \/ CreateFails(d) \/ CloseStream(d)
      PROVE  IInv'
  BY <1>1, LocalStep DEF CreateStreams, CreateFails, CloseStream, Held
<1>2. ASSUME NEW d \in Dialer, DialerStep(d)
      PROVE  IInv'
  BY <1>1, <1>2, ReuseStep, StartDialStep, DialOkStep, DialFailsStep, ResolveFailsStep,
     EvictStep, CloseEvictedStep, ReleaseStep, LastStep, CloseLastStep DEF DialerStep
<1>3. ASSUME NEW e \in ConnId, RemoteDrop(e)
      PROVE  IInv'
  <2>1. WentDown
    BY <1>0, <1>3 DEF RemoteDrop, EntryIs, WentDown, TypeOK, Entry
  <2>2. PoolShrunk
    BY <1>0, <1>3 DEF RemoteDrop, PoolShrunk, TypeOK
  <2> QED BY <1>0, <1>3, <2>1, <2>2, DropStep DEF RemoteDrop, TypeOK
<1>4. ASSUME NEW x \in Context, Reconfigure(x)
      PROVE  IInv'
  <2>1. WentDown
    BY <1>0, <1>4 DEF Reconfigure, WentDown, TypeOK
  <2>2. config' \in [Context -> 0 .. MaxConfig] /\ outdated' \in SUBSET Context
    BY <1>0, <1>4, PoolAssumption DEF Reconfigure, TypeOK
  <2>3. PoolShrunk
    BY <1>0, <1>4 DEF Reconfigure, PoolShrunk, TypeOK
  <2> QED BY <1>4, <2>1, <2>2, <2>3, DropStep DEF Reconfigure
<1>5. ASSUME NEW x \in Context, ShutdownContext(x)
      PROVE  IInv'
  <2> DEFINE keys == {k \in Key : ContextOf[k] = x}
  <2>1. ClosePooled(keys) /\ keys \in SUBSET Key /\ outdated' \in SUBSET Context
    BY <1>0, <1>5 DEF ShutdownContext, TypeOK
  <2> HIDE DEF keys
  <2>2. UNCHANGED <<dialer, holder, config>>
    BY <2>1 DEF ClosePooled
  <2> QED BY <1>0, <2>1, <2>2, ClosePooledFacts, DropStep DEF TypeOK
<1>6. CASE Shutdown
  <2>1. ClosePooled(Key) /\ UNCHANGED outdated
    BY <1>6 DEF Shutdown
  <2>2. UNCHANGED <<dialer, holder, config>>
    BY <2>1 DEF ClosePooled
  <2> QED BY <1>0, <2>1, <2>2, ClosePooledFacts, DropStep DEF TypeOK
<1>7. CASE UNCHANGED vars
  <2>1. WentDown
    BY <1>0, <1>7 DEF vars, WentDown, TypeOK
  <2>2. PoolShrunk
    BY <1>0, <1>7 DEF vars, PoolShrunk, TypeOK
  <2> QED BY <1>0, <1>7, <2>1, <2>2, DropStep DEF vars, TypeOK
<1> QED BY <1>2, <1>3, <1>4, <1>5, <1>6, <1>7, DialPortForwardStep DEF Next

\* The invariant holds of the initial state.
LEMMA InvInit ==
    ASSUME Init
    PROVE  IInv
<1> USE DEF Init
<1>1. TypeOK
  BY PoolAssumption DEF TypeOK, Entry, DialerState, PC
<1>2. RefsInv
  <2>1. \A e \in ConnId : Referers(e) = {}
    BY DEF Referers
  <2>2. \A e \in ConnId : Cardinality(Referers(e)) = 0
    BY <2>1, ReferersEmpty
  <2> QED BY <2>2 DEF RefsInv
<1>3. MutexInv /\ DialerInv /\ PoolInv /\ UpInv /\ LastInv /\ ClosingInv
  BY DEF MutexInv, DialerInv, PoolInv, UpInv, LastInv, ClosingInv, Using, Held
<1> QED BY <1>1, <1>2, <1>3 DEF IInv

\* What the invariant says of the properties.
LEMMA InvImplies ==
    ASSUME IInv
    PROVE  PooledRefsExact /\ NoLeakedConnection /\ ClosedByLastOnly
<1> USE DEF IInv
<1>1. PooledRefsExact
  BY DEF PooledRefsExact, RefsInv, TypeOK
<1>2. NoLeakedConnection
  <2> SUFFICES ASSUME NEW e \in ConnId, spdy[e].status = "up", NEW k \in Key, pool[k] = e
               PROVE  \E d \in Dialer : dialer[d].entry = e /\ dialer[d].pc \in Using
    BY DEF UpInv, NoLeakedConnection, Using, Held
  <2>1. CASE spdy[e].refs = 0
    BY <2>1, PoolAssumption DEF LastInv, Using
  <2>2. CASE spdy[e].refs # 0
    <3>1. Referers(e) # {}
      BY <2>2, ReferersEmpty DEF RefsInv
    <3> QED BY <3>1 DEF Referers, Using, Held
  <2> QED BY <2>1, <2>2
<1>3. ClosedByLastOnly
  BY DEF ClosedByLastOnly, ClosingInv, Held
<1> QED BY <1>1, <1>2, <1>3

\* The inductive invariant holds of every reachable state.
THEOREM Invariance == Spec => []IInv
BY InvInit, InvStep, PTL DEF Spec

\* Every reachable state of the pool is well typed; refs never goes negative.
THEOREM TypeCorrect == Spec => []TypeOK
BY Invariance, PTL DEF IInv

\* The count of a pooled connection is the number of its users.
THEOREM RefsAreExact == Spec => []PooledRefsExact
BY Invariance, InvImplies, PTL

\* No connection stays up with nobody left to close it.
THEOREM NothingLeaks == Spec => []NoLeakedConnection
BY Invariance, InvImplies, PTL

\* onClose never closes a connection somebody else still uses.
THEOREM LastOneCloses == Spec => []ClosedByLastOnly
BY Invariance, InvImplies, PTL

-----------------------------------------------------------------------------
(* The pool implements SharedConnection. *)

\* A step of a dialer that neither takes nor gives back a reference changes no
\* connection's users.
LEMMA UsersSame ==
    ASSUME dialer \in [Dialer -> DialerState], NEW d \in Dialer, NEW r,
           dialer' = [dialer EXCEPT ![d] = r],
           \/ dialer[d].pc \notin Held /\ r.pc \notin Held
           \/ dialer[d].pc \in Held /\ r.pc \in Held /\ r.entry = dialer[d].entry
    PROVE  Users' = Users
<1>1. \A e \in ConnId : Referers(e)' = Referers(e)
  BY StaySame
<1> QED BY <1>1 DEF Users

\* One that takes a reference makes it a user.
LEMMA UsersJoin ==
    ASSUME dialer \in [Dialer -> DialerState], NEW d \in Dialer, NEW r, NEW e \in ConnId,
           dialer' = [dialer EXCEPT ![d] = r],
           dialer[d].pc \notin Held, r.pc \in Held, r.entry = e
    PROVE  Users' = [Users EXCEPT ![e] = Users[e] \cup {d}]
<1>1. Referers(e)' = Referers(e) \cup {d}
  BY DEF Referers, Held
<1>2. \A f \in ConnId : f # e => Referers(f)' = Referers(f)
  BY JoinCount
<1> QED BY <1>1, <1>2 DEF Users

\* One that gives its reference back was a user and is none any more.
LEMMA UsersLeave ==
    ASSUME dialer \in [Dialer -> DialerState], NEW d \in Dialer, NEW r, NEW e \in ConnId,
           dialer' = [dialer EXCEPT ![d] = r],
           dialer[d].pc \in Held, dialer[d].entry = e, r.pc \notin Held
    PROVE  Users' = [Users EXCEPT ![e] = Users[e] \ {d}] /\ d \in Users[e]
<1>1. Referers(e)' = Referers(e) \ {d} /\ d \in Referers(e)
  BY DEF Referers, Held
<1>2. \A f \in ConnId : f # e => Referers(f)' = Referers(f)
  BY LeaveCount
<1> QED BY <1>1, <1>2 DEF Users

\* A dialer without a reference uses no connection.
LEMMA NotHeldIsFree ==
    ASSUME NEW d \in Dialer, dialer[d].pc \notin Held
    PROVE  Shared!Free(d)
BY DEF Shared!Free, Users, Referers, Held

\* Entries whose status stays leave the connections as they are.
LEMMA StatusSame ==
    ASSUME \A e \in ConnId : spdy'[e].status = spdy[e].status
    PROVE  Born' = Born /\ Live' = Live
BY DEF Born, Live

\* A dialer's step that leaves the pool and the connections alone, and keeps
\* or lacks a reference before and after.
LEMMA DialerStutters ==
    ASSUME IInv, NEW d \in Dialer, NEW pc, NEW e, DialerAt(d, pc, e), UNCHANGED <<pool, spdy>>,
           \/ dialer[d].pc \notin Held /\ pc \notin Held
           \/ dialer[d].pc \in Held /\ pc \in Held /\ e = dialer[d].entry
    PROVE  UNCHANGED Shared!svars
<1>1. dialer' = [dialer EXCEPT ![d] = Moved(d, pc, e)]
  BY DEF DialerAt, Moved
<1>2. Moved(d, pc, e).pc = pc /\ Moved(d, pc, e).entry = e
  BY DEF Moved
<1>3. Users' = Users
  BY <1>1, <1>2, UsersSame DEF IInv, TypeOK
<1>4. Born' = Born /\ Live' = Live
  BY StatusSame
<1> QED BY <1>3, <1>4 DEF Shared!svars

\* acquirePoolEntry finds a live connection: the dial joins it.
LEMMA ReuseJoins ==
    ASSUME IInv, NEW d \in Dialer, Reuse(d)
    PROVE  Shared!SNext
<1> PICK k, e : k = dialer[d].key /\ e = pool[k]
  OBVIOUS
<1>1. /\ k \in Key /\ e \in ConnId /\ spdy[e].status = "up" /\ dialer[d].pc = "acquire"
      /\ UNCHANGED pool
      /\ dialer' = [dialer EXCEPT ![d] = Moved(d, "create", e)]
  BY DEF IInv, Reuse, DialerInv, TypeOK, DialerAt, Moved
<1>2. \A f \in ConnId : spdy'[f].status = spdy[f].status
  BY <1>1 DEF Reuse, EntryIs, IInv, TypeOK
<1>3. Born' = Born /\ Live' = Live /\ e \in Live
  BY <1>1, <1>2, StatusSame DEF Live
<1>4. Moved(d, "create", e).pc = "create" /\ Moved(d, "create", e).entry = e
  BY DEF Moved
<1>5. Users' = [Users EXCEPT ![e] = Users[e] \cup {d}]
  <2>1. dialer \in [Dialer -> DialerState] /\ dialer[d].pc \notin Held
        /\ Moved(d, "create", e).pc \in Held
    BY <1>1, <1>4 DEF IInv, TypeOK, Held
  <2> QED BY <1>1, <1>4, <2>1, UsersJoin
<1>6. Shared!Free(d)
  BY <1>1, NotHeldIsFree DEF Held
<1>7. Shared!Join(d, k)
  BY <1>1, <1>3, <1>5, <1>6 DEF Shared!Join
<1> QED BY <1>1, <1>7 DEF Shared!SNext

\* The dial begins: a dead connection is retired.
LEMMA StartDialRetires ==
    ASSUME IInv, NEW d \in Dialer, StartDial(d)
    PROVE  Shared!SNext \/ UNCHANGED Shared!svars
<1> PICK k : k = dialer[d].key
  OBVIOUS
<1>1. /\ k \in Key /\ dialer[d].pc = "acquire"
      /\ pool[k] # NoConn => spdy[pool[k]].status = "down"
      /\ pool' = [pool EXCEPT ![k] = NoConn] /\ UNCHANGED spdy
      /\ dialer' = [dialer EXCEPT ![d] = Moved(d, "dialing", NoConn)]
  BY DEF IInv, StartDial, DialerInv, DialerAt, Moved
<1>2. Moved(d, "dialing", NoConn).pc = "dialing"
  BY DEF Moved
<1>3. Users' = Users
  BY <1>1, <1>2, UsersSame DEF IInv, TypeOK, Held
<1>4. Born' = Born /\ Live' = Live
  BY <1>1, StatusSame
<1>5. CASE pool[k] = NoConn
  <2>1. pool' = pool
    BY <1>1, <1>5 DEF IInv, TypeOK
  <2> QED BY <1>3, <1>4, <2>1 DEF Shared!svars
<1>6. CASE pool[k] # NoConn
  <2>1. pool[k] \notin Live
    BY <1>1, <1>6 DEF Live
  <2>2. Shared!Retire(k)
    BY <1>1, <1>3, <1>4, <1>6, <2>1 DEF Shared!Retire
  <2> QED BY <1>1, <2>2 DEF Shared!SNext
<1> QED BY <1>5, <1>6

\* The dial succeeds: a connection nobody has seen is opened and pooled.
LEMMA DialOkOpens ==
    ASSUME IInv, NEW d \in Dialer, NEW e \in ConnId, DialOk(d, e)
    PROVE  Shared!SNext
<1> PICK k : k = dialer[d].key
  OBVIOUS
<1>1. /\ k \in Key /\ dialer[d].pc = "dialing" /\ pool[k] = NoConn
      /\ spdy[e].status = "unborn"
      /\ pool' = [pool EXCEPT ![k] = e]
      /\ dialer' = [dialer EXCEPT ![d] = Moved(d, "create", e)]
  BY DEF IInv, DialOk, DialerInv, MutexInv, DialerAt, Moved
<1>2. spdy'[e].status = "up" /\ \A f \in ConnId : f # e => spdy'[f].status = spdy[f].status
  BY DEF DialOk, IInv, TypeOK
<1>3. Born' = Born \cup {e} /\ Live' = Live \cup {e} /\ e \notin Born
  BY <1>1, <1>2 DEF Born, Live
<1>4. Users[e] = {}
  <2>1. \A f \in Dialer : dialer[f].entry # e
    BY <1>1, PoolAssumption DEF IInv, DialerInv
  <2> QED BY <2>1 DEF Users, Referers
<1>5. Moved(d, "create", e).pc = "create" /\ Moved(d, "create", e).entry = e
  BY DEF Moved
<1>6. Users' = [Users EXCEPT ![e] = {d}]
  <2> PICK r : r = Moved(d, "create", e)
    OBVIOUS
  <2>0. /\ dialer \in [Dialer -> DialerState] /\ dialer' = [dialer EXCEPT ![d] = r]
        /\ dialer[d].pc \notin Held /\ r.pc \in Held /\ r.entry = e
    BY <1>1, <1>5 DEF IInv, TypeOK, Held
  <2>1. Users' = [Users EXCEPT ![e] = Users[e] \cup {d}]
    BY <2>0, UsersJoin
  <2>2. Users[e] \cup {d} = {d}
    BY <1>4
  <2> QED BY <2>1, <2>2
<1>7. Shared!Free(d)
  BY <1>1, NotHeldIsFree DEF Held
<1>8. Shared!Open(d, k, e)
  BY <1>1, <1>3, <1>6, <1>7 DEF Shared!Open
<1> QED BY <1>1, <1>8 DEF Shared!SNext

\* A dialer whose stream was refused takes its connection out of the pool.
LEMMA EvictEvicts ==
    ASSUME IInv, NEW d \in Dialer, Evict(d)
    PROVE  Shared!SNext
<1> PICK k, e : k = dialer[d].key /\ e = dialer[d].entry
  OBVIOUS
<1>1. /\ k \in Key /\ e \in ConnId /\ dialer[d].pc = "evict" /\ spdy[e].key = k
      /\ pool' = IF pool[k] = e THEN [pool EXCEPT ![k] = NoConn] ELSE pool
      /\ UNCHANGED spdy
      /\ dialer' = [dialer EXCEPT ![d] = Moved(d, "close", e)]
  BY DEF IInv, Evict, DialerInv, Using, Held, DialerAt, Moved
<1>2. \A j \in Key : pool[j] = e => j = k
  BY <1>1, PoolAssumption DEF IInv, PoolInv
<1>3. pool' = [j \in Key |-> IF pool[j] = e THEN NoConn ELSE pool[j]]
  BY <1>1, <1>2 DEF IInv, TypeOK
<1>4. Moved(d, "close", e).pc = "close"
  BY DEF Moved
<1>5. Users' = [Users EXCEPT ![e] = Users[e] \ {d}] /\ d \in Users[e]
  BY <1>1, <1>4, UsersLeave DEF IInv, TypeOK, Held
<1>6. Born' = Born /\ Live' = Live
  BY <1>1, StatusSame
<1>7. Shared!Evict(d, e)
  BY <1>3, <1>5, <1>6 DEF Shared!Evict
<1> QED BY <1>1, <1>7 DEF Shared!SNext

\* onClose's decrement: the stream leaves its connection.
LEMMA ReleaseLeaves ==
    ASSUME IInv, NEW d \in Dialer, Release(d)
    PROVE  Shared!SNext
<1> PICK e, pc : /\ e = dialer[d].entry
                 /\ pc = IF spdy[e].refs = 1 THEN "last" ELSE "done"
  OBVIOUS
<1>1. /\ e \in ConnId /\ dialer[d].pc = "release" /\ UNCHANGED pool
      /\ dialer' = [dialer EXCEPT ![d] = Moved(d, pc, e)]
  BY DEF IInv, Release, DialerInv, Using, Held, DialerAt, Moved
<1>2. \A f \in ConnId : spdy'[f].status = spdy[f].status
  BY <1>1 DEF Release, EntryIs, IInv, TypeOK
<1>3. Moved(d, pc, e).pc \notin Held
  BY DEF Moved, Held
<1>4. Users' = [Users EXCEPT ![e] = Users[e] \ {d}] /\ d \in Users[e]
  BY <1>1, <1>3, UsersLeave DEF IInv, TypeOK, Held
<1>5. Born' = Born /\ Live' = Live
  BY <1>2, StatusSame
<1>6. Shared!Leave(d, e)
  BY <1>1, <1>4, <1>5 DEF Shared!Leave
<1> QED BY <1>1, <1>6 DEF Shared!SNext

\* onClose's second look: only a connection without users is retired.
LEMMA LastRetires ==
    ASSUME IInv, NEW d \in Dialer, Last(d)
    PROVE  Shared!SNext \/ UNCHANGED Shared!svars
<1> PICK k, e : k = dialer[d].key /\ e = dialer[d].entry
  OBVIOUS
<1>1. k \in Key /\ e \in ConnId /\ dialer[d].pc = "last" /\ UNCHANGED spdy
  BY DEF IInv, Last, DialerInv, Using
<1>2. CASE pool[k] = e /\ spdy[e].refs = 0
  <2>1. /\ pool' = [pool EXCEPT ![k] = NoConn]
        /\ dialer' = [dialer EXCEPT ![d] = Moved(d, "closing", e)]
    BY <1>2 DEF Last, DialerAt, Moved
  <2>2. Users[e] = {}
    BY <1>1, <1>2, ReferersEmpty DEF IInv, RefsInv, Users
  <2>3. Moved(d, "closing", e).pc = "closing"
    BY DEF Moved
  <2>4. Users' = Users
    BY <1>1, <2>1, <2>3, UsersSame DEF IInv, TypeOK, Held
  <2>5. Born' = Born /\ Live' = Live
    BY <1>1, StatusSame
  <2>6. pool[k] # NoConn
    BY <1>1, <1>2, PoolAssumption
  <2>7. Shared!Retire(k)
    BY <1>2, <2>1, <2>2, <2>4, <2>5, <2>6 DEF Shared!Retire
  <2> QED BY <1>1, <2>7 DEF Shared!SNext
<1>3. CASE ~(pool[k] = e /\ spdy[e].refs = 0)
  <2>1. DialerAt(d, "done", e) /\ UNCHANGED pool
    BY <1>3 DEF Last
  <2> QED BY <1>1, <2>1, DialerStutters DEF Held
<1> QED BY <1>2, <1>3

\* One connection goes down, the rest stays; or it was down already.
LEMMA GoesDown ==
    ASSUME IInv, NEW e \in ConnId, EntryIs(e, spdy[e].refs, Down(e)), UNCHANGED pool,
           Users' = Users
    PROVE  Shared!SNext \/ UNCHANGED Shared!svars
<1>1. spdy'[e].status = Down(e) /\ \A f \in ConnId : f # e => spdy'[f].status = spdy[f].status
  BY DEF EntryIs, IInv, TypeOK
<1>2. CASE spdy[e].status = "up"
  <2>1. Born' = Born /\ Live' = Live \ {e} /\ e \in Live
    BY <1>1, <1>2 DEF Born, Live, Down
  <2>2. Shared!GoDown(e)
    BY <2>1 DEF Shared!GoDown
  <2> QED BY <2>2 DEF Shared!SNext
<1>3. CASE spdy[e].status # "up"
  <2>1. Born' = Born /\ Live' = Live
    BY <1>1, <1>3, StatusSame DEF Down
  <2> QED BY <2>1 DEF Shared!svars
<1> QED BY <1>2, <1>3

\* A connection that was evicted or retired is closed at last.
LEMMA CloseGoesDown ==
    ASSUME IInv, NEW d \in Dialer, CloseEvicted(d) \/ CloseLast(d)
    PROVE  Shared!SNext \/ UNCHANGED Shared!svars
<1> PICK e : e = dialer[d].entry
  OBVIOUS
<1>1. e \in ConnId /\ EntryIs(e, spdy[e].refs, Down(e)) /\ UNCHANGED pool
  BY DEF IInv, CloseEvicted, CloseLast, DialerInv, Using
<1>2. dialer[d].pc \notin Held
  BY DEF CloseEvicted, CloseLast, Held
<1>3. CASE CloseEvicted(d)
  <2> DEFINE r == [pc |-> "acquire", key |-> dialer[d].key, entry |-> NoConn,
                   config |-> dialer[d].config, retry |-> TRUE]
  <2>1. dialer' = [dialer EXCEPT ![d] = r] /\ r.pc \notin Held
    BY <1>3 DEF CloseEvicted, Held
  <2> HIDE DEF r
  <2>2. Users' = Users
    BY <1>2, <2>1, UsersSame DEF IInv, TypeOK
  <2> QED BY <1>1, <2>2, GoesDown
<1>4. CASE CloseLast(d)
  <2>1. dialer' = [dialer EXCEPT ![d] = Moved(d, "done", e)]
    BY <1>4 DEF CloseLast, DialerAt, Moved
  <2>2. Moved(d, "done", e).pc \notin Held
    BY DEF Moved, Held
  <2>3. Users' = Users
    BY <1>2, <2>1, <2>2, UsersSame DEF IInv, TypeOK
  <2> QED BY <1>1, <2>3, GoesDown
<1> QED BY <1>3, <1>4

\* ShutdownContext and Shutdown drop what is pooled for their keys.
LEMMA ClosePooledDrops ==
    ASSUME IInv, NEW keys \in SUBSET Key, ClosePooled(keys)
    PROVE  Shared!Drop(keys)
<1>1. UNCHANGED dialer /\ pool' = [k \in Key |-> IF k \in keys THEN NoConn ELSE pool[k]]
  BY DEF ClosePooled
<1>2. Users' = Users
  BY <1>1 DEF Users, Referers
<1>3. \A e \in ConnId : spdy'[e].status = IF \E k \in keys : pool[k] = e
                                          THEN Down(e) ELSE spdy[e].status
  BY DEF ClosePooled
<1>4. Born' = Born /\ Live' = {e \in Live : \A k \in keys : pool[k] # e}
  BY <1>3 DEF Born, Live, Down
<1> QED BY <1>1, <1>2, <1>4 DEF Shared!Drop

\* Every step of the pool is a step of SharedConnection or a stutter.
LEMMA StepRefines ==
    ASSUME IInv, [Next]_vars
    PROVE  [Shared!SNext]_(Shared!svars)
<1>1. ASSUME NEW d \in Dialer, NEW k \in Key, DialPortForward(d, k)
      PROVE  UNCHANGED Shared!svars
  <2> DEFINE r == [pc |-> "acquire", key |-> k, entry |-> NoConn,
                   config |-> config[ContextOf[k]], retry |-> FALSE]
  <2>0. dialer' = [dialer EXCEPT ![d] = r] /\ r.pc \notin Held /\ dialer[d].pc \notin Held
    BY <1>1 DEF DialPortForward, Held
  <2> HIDE DEF r
  <2>1. Users' = Users
    BY <2>0, UsersSame DEF IInv, TypeOK
  <2>2. Born' = Born /\ Live' = Live
    BY <1>1, StatusSame DEF DialPortForward
  <2> QED BY <1>1, <2>1, <2>2 DEF DialPortForward, Shared!svars
<1>2. ASSUME NEW d \in Dialer, \/ ResolveFails(d) \/ DialFails(d) \/ CreateStreams(d)
                               \/ CreateFails(d) \/ CloseStream(d)
      PROVE  UNCHANGED Shared!svars
  BY <1>2, DialerStutters
     DEF ResolveFails, DialFails, CreateStreams, CreateFails, CloseStream, Held
<1>3. ASSUME NEW d \in Dialer, DialerStep(d)
      PROVE  [Shared!SNext]_(Shared!svars)
  BY <1>2, <1>3, ReuseJoins, StartDialRetires, DialOkOpens, EvictEvicts, ReleaseLeaves,
     LastRetires, CloseGoesDown DEF DialerStep
<1>4. ASSUME NEW e \in ConnId, RemoteDrop(e)
      PROVE  [Shared!SNext]_(Shared!svars)
  <2>1. EntryIs(e, spdy[e].refs, Down(e)) /\ UNCHANGED pool
    BY <1>4 DEF RemoteDrop, Down
  <2>2. Users' = Users
    BY <1>4 DEF RemoteDrop, Users, Referers
  <2> QED BY <2>1, <2>2, GoesDown
<1>5. ASSUME UNCHANGED <<pool, spdy, dialer>>
      PROVE  UNCHANGED Shared!svars
  BY <1>5 DEF Shared!svars, Born, Live, Users, Referers
<1>6. ASSUME NEW x \in Context, ShutdownContext(x)
      PROVE  Shared!SNext
  BY <1>6, ClosePooledDrops DEF ShutdownContext, Shared!SNext
<1>7. CASE Shutdown
  BY <1>7, ClosePooledDrops DEF Shutdown, Shared!SNext
<1> QED BY <1>1, <1>3, <1>4, <1>5, <1>6, <1>7 DEF Next, Reconfigure, vars

\* The SPDY pool implements SharedConnection.
THEOREM Refinement == Spec => ImplementsSharedConnection
<1>1. Init => Shared!SInit
  BY DEF Init, Shared!SInit, Born, Live, Users, Referers
<1>2. IInv /\ [Next]_vars => [Shared!SNext]_(Shared!svars)
  BY StepRefines
<1> QED BY <1>1, <1>2, Invariance, PTL DEF Spec, ImplementsSharedConnection, Shared!SSpec

-----------------------------------------------------------------------------
(* The safety half of DialReturns. *)

\* spdyPoolMu is held by a dialer that is dialling and will give it back,
\* whichever way the dial ends: nobody waits for a mutex that was left locked.
MutexGivenBack == holder # NoDialer => dialer[holder].pc = "dialing"

\* Every way out of the dial unlocks.
THEOREM MutexNeverLeftLocked == Spec => []MutexGivenBack
<1>1. Init => MutexGivenBack
  BY DEF Init, MutexGivenBack
<1>2. ASSUME IInv, MutexGivenBack, [Next]_vars
      PROVE  MutexGivenBack'
  <2>0. dialer \in [Dialer -> DialerState] /\ holder \in Dialer \cup {NoDialer}
    BY <1>2 DEF IInv, TypeOK
  <2>1. ASSUME NEW d \in Dialer, DialFails(d) \/ \E e \in ConnId : DialOk(d, e)
        PROVE  MutexGivenBack'
    BY <2>1 DEF DialOk, DialFails, MutexGivenBack
  <2>2. ASSUME NEW d \in Dialer, StartDial(d)
        PROVE  MutexGivenBack'
    BY <2>0, <2>2 DEF StartDial, DialerAt, MutexGivenBack
  <2>3. ASSUME UNCHANGED holder, NEW d \in Dialer, dialer[d].pc # "dialing",
               \A f \in Dialer : f # d => dialer'[f] = dialer[f]
        PROVE  MutexGivenBack'
    BY <1>2, <2>0, <2>3 DEF MutexGivenBack
  <2>4. ASSUME UNCHANGED <<holder, dialer>>
        PROVE  MutexGivenBack'
    BY <1>2, <2>4 DEF MutexGivenBack
  <2>5. ASSUME NEW d \in Dialer, DialerStep(d)
        PROVE  MutexGivenBack'
    BY <2>0, <2>1, <2>2, <2>3, <2>5
       DEF DialerStep, ResolveFails, Reuse, CreateStreams, CreateFails, Evict, CloseEvicted,
           CloseStream, Release, Last, CloseLast, DialerAt
  <2>6. ASSUME NEW d \in Dialer, NEW k \in Key, DialPortForward(d, k)
        PROVE  MutexGivenBack'
    BY <2>0, <2>3, <2>6 DEF DialPortForward
  <2> QED BY <1>2, <2>4, <2>5, <2>6
          DEF Next, RemoteDrop, Reconfigure, ShutdownContext, Shutdown, ClosePooled, vars
<1> QED BY <1>1, <1>2, Invariance, PTL DEF Spec

\* How far a call of DialPortForward is from its return, at most.
Distance(d) ==
    CASE dialer[d].pc = "acquire" -> IF dialer[d].retry THEN 4 ELSE 9
      [] dialer[d].pc = "dialing" -> IF dialer[d].retry THEN 3 ELSE 8
      [] dialer[d].pc = "create"  -> IF dialer[d].retry THEN 2 ELSE 7
      [] dialer[d].pc = "evict"   -> 6
      [] dialer[d].pc = "close"   -> 5
      [] OTHER                    -> 0

\* Every step of a call brings it closer to its return: a connection that
\* refuses streams sends it back to acquirePoolEntry once and no more, however
\* often connections die under it.
DialAdvances ==
    [][\A d \in Dialer : (Distance(d) # 0 /\ dialer'[d] # dialer[d])
                            => Distance(d)' < Distance(d)]_vars

\* Hence a call returns after at most nine steps of its own.
THEOREM RetriedOnce == Spec => DialAdvances
<1>1. ASSUME IInv, [Next]_vars, NEW d \in Dialer, Distance(d) # 0, dialer'[d] # dialer[d]
      PROVE  Distance(d)' < Distance(d)
  <2>0. dialer \in [Dialer -> DialerState]
    BY <1>1 DEF IInv, TypeOK
  <2>1. DialerStep(d)
    <3>1. ASSUME NEW f \in Dialer, DialerStep(f)
          PROVE  f = d
      BY <1>1, <2>0, <3>1
         DEF DialerStep, ResolveFails, Reuse, StartDial, DialOk, DialFails, CreateStreams,
             CreateFails, Evict, CloseEvicted, CloseStream, Release, Last, CloseLast, DialerAt
    <3>2. ASSUME NEW f \in Dialer, NEW k \in Key, DialPortForward(f, k)
          PROVE  FALSE
      BY <1>1, <2>0, <3>2 DEF DialPortForward, Distance
    <3>3. dialer' # dialer
      BY <1>1
    <3> QED BY <1>1, <3>1, <3>2, <3>3
            DEF Next, RemoteDrop, Reconfigure, ShutdownContext, Shutdown, ClosePooled, vars
  <2>2. dialer[d].retry \in BOOLEAN
    BY <2>0 DEF DialerState
  <2> QED BY <1>1, <2>0, <2>1, <2>2
          DEF Distance, DialerStep, ResolveFails, Reuse, StartDial, DialOk, DialFails,
              CreateStreams, CreateFails, Evict, CloseEvicted, CloseStream, Release, Last,
              CloseLast, DialerAt
<1>2. IInv /\ [Next]_vars =>
        [\A d \in Dialer : (Distance(d) # 0 /\ dialer'[d] # dialer[d])
                              => Distance(d)' < Distance(d)]_vars
  BY <1>1
<1> QED BY <1>2, Invariance, PTL DEF Spec, DialAdvances
=============================================================================
