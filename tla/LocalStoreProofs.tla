-------------------------- MODULE LocalStoreProofs --------------------------
(***************************************************************************)
(* What holds of LocalObjectStore for any tenants, keys, values, limits    *)
(* and callers.  The inductive invariant adds to the type invariant that   *)
(* every version in the store, and every version a caller holds, has been  *)
(* issued: a put then gives its object a version nobody has yet.           *)
(***************************************************************************)
EXTENDS LocalStore, FiniteSetTheorems, TLAPS

VersionsIssued ==
    /\ \A i \in Identities : state.objects[i].version <= state.revision
    /\ \A c \in Callers : seen[c].version <= state.revision

Inv == TypeOK /\ VersionsIssued /\ VersionNamesWrite

-----------------------------------------------------------------------------
(* The operators of StorageState *)

(* A put that is stored has a revision left, and releases no more bytes    *)
(* than its counters hold.                                                 *)
LEMMA StoredPut ==
    ASSUME NEW st, NEW limits, NEW i, NEW bytes, NEW condition,
           PutOutcome(st, limits, i, bytes, condition) \in Stored
    PROVE  /\ st.revision # MaxRevision
           /\ ~(Held(st.tenants[i.tenant]).value_bytes < Bytes(st.objects[i]))
           /\ ~(st.global.value_bytes < Bytes(st.objects[i]))
           /\ WithinLimits(limits,
                  PutCounters(Held(st.tenants[i.tenant]), st.objects[i], bytes),
                  PutCounters(st.global, st.objects[i], bytes))
  BY DEF PutOutcome, Stored

(* A delete that removes its object finds it, its tenant's row and enough  *)
(* to release in both counters.                                            *)
LEMMA DeletedObject ==
    ASSUME NEW st, NEW i, NEW condition,
           DeleteOutcome(st, i, condition) = "Deleted"
    PROVE  /\ st.objects[i] # NoObject
           /\ st.tenants[i.tenant] # NoRow
           /\ CanRelease(st.tenants[i.tenant], st.objects[i])
           /\ CanRelease(st.global, st.objects[i])
  BY DEF DeleteOutcome

LEMMA PutCountersType ==
    ASSUME NEW counters \in Counters, NEW current \in Entry \cup {NoObject},
           NEW bytes \in ValueBytes,
           ~(counters.value_bytes < Bytes(current))
    PROVE  PutCounters(counters, current, bytes) \in Counters
  <1>1. bytes \in Nat /\ Bytes(current) \in Nat
    BY StorageAssumption DEF Bytes, Entry
  <1> QED
    BY <1>1 DEF PutCounters, Counters

LEMMA HeldType ==
    ASSUME NEW row \in Counters \cup {NoRow}
    PROVE  Held(row) \in Counters
  BY DEF Held, Zero, Counters

LEMMA ReleasedType ==
    ASSUME NEW counters \in Counters, NEW current \in Entry,
           CanRelease(counters, current)
    PROVE  Released(counters, current) \in Counters
  <1>1. current.bytes \in Nat
    BY StorageAssumption DEF Entry
  <1> QED
    BY <1>1 DEF Released, CanRelease, Counters

(* A put leaves a state of the store behind. *)
LEMMA AfterPutType ==
    ASSUME NEW st \in State, NEW i \in Identities, NEW bytes \in ValueBytes,
           NEW limits, NEW condition,
           PutOutcome(st, limits, i, bytes, condition) \in Stored
    PROVE  AfterPut(st, i, bytes) \in State
  <1> DEFINE current == st.objects[i]
  <1>1. /\ current \in Entry \cup {NoObject} /\ i.tenant \in Tenants
        /\ st.tenants[i.tenant] \in Counters \cup {NoRow} /\ st.global \in Counters
        /\ st.revision \in 0 .. MaxRevision /\ st.revision # MaxRevision
        /\ MaxRevision \in Nat
    BY StoredPut, StorageAssumption DEF State, Identities
  <1>2. PutCounters(Held(st.tenants[i.tenant]), current, bytes) \in Counters
    BY <1>1, StoredPut, HeldType, PutCountersType
  <1>3. PutCounters(st.global, current, bytes) \in Counters
    BY <1>1, StoredPut, PutCountersType
  <1>4. st.revision + 1 \in 0 .. MaxRevision /\ st.revision + 1 \in Nat \ {0}
    BY <1>1
  <1>5. [version |-> st.revision + 1, bytes |-> bytes] \in Entry
    BY <1>4 DEF Entry
  <1>6. [st.objects EXCEPT ![i] = [version |-> st.revision + 1, bytes |-> bytes]]
            \in [Identities -> Entry \cup {NoObject}]
    BY <1>5 DEF State
  <1>7. [st.tenants EXCEPT ![i.tenant] = PutCounters(Held(@), current, bytes)]
            \in [Tenants -> Counters \cup {NoRow}]
    BY <1>1, <1>2 DEF State
  <1> QED
    BY <1>3, <1>4, <1>6, <1>7 DEF AfterPut, State

(* So does a delete. *)
LEMMA AfterDeleteType ==
    ASSUME NEW st \in State, NEW i \in Identities, NEW condition,
           DeleteOutcome(st, i, condition) = "Deleted"
    PROVE  AfterDelete(st, i) \in State
  <1> DEFINE current == st.objects[i]
             left == Released(st.tenants[i.tenant], current)
             row == IF left.objects = 0 THEN NoRow ELSE left
  <1>0. current # NoObject /\ st.tenants[i.tenant] # NoRow
    BY DeletedObject
  <1>1. /\ current \in Entry /\ i.tenant \in Tenants
        /\ st.tenants[i.tenant] \in Counters /\ st.global \in Counters
    BY <1>0 DEF State, Identities
  <1>2. left \in Counters /\ Released(st.global, current) \in Counters
    BY <1>1, DeletedObject, ReleasedType
  <1>3. row \in Counters \cup {NoRow}
    BY <1>2
  <1>4. [st.objects EXCEPT ![i] = NoObject] \in [Identities -> Entry \cup {NoObject}]
    BY DEF State
  <1>5. [st.tenants EXCEPT ![i.tenant] = row] \in [Tenants -> Counters \cup {NoRow}]
    BY <1>1, <1>3 DEF State
  <1> QED
    BY <1>2, <1>4, <1>5 DEF AfterDelete, State
-----------------------------------------------------------------------------
(* The invariant *)

LEMMA InitInv == Init => Inv
  <1> SUFFICES ASSUME Init PROVE Inv
    OBVIOUS
  <1> USE DEF Init
  <1>1. EmptyState \in State
    BY StorageAssumption DEF EmptyState, State, Zero, Counters
  <1>2. TypeOK
    BY <1>1 DEF TypeOK, Seen
  <1>3. VersionsIssued
    BY DEF VersionsIssued, EmptyState, NoObject, NothingSeen
  <1>4. VersionNamesWrite
    BY DEF VersionNamesWrite
  <1> QED
    BY <1>2, <1>3, <1>4 DEF Inv

(* What an object's version may be, and what it says about presence. *)
LEMMA VersionType ==
    ASSUME TypeOK, NEW i \in Identities
    PROVE  /\ state.objects[i] \in Entry \cup {NoObject}
           /\ state.objects[i].version \in Nat
           /\ state.objects[i] = NoObject <=> state.objects[i].version = 0
  <1>1. state.objects[i] \in Entry \cup {NoObject}
    BY DEF TypeOK, State
  <1> QED
    BY <1>1 DEF Entry, NoObject

LEMMA GetInv ==
    ASSUME Inv, NEW c \in Callers, NEW i \in Identities, Get(c, i)
    PROVE  Inv'
  <1> USE DEF Inv
  <1>1. state' = state /\ writes' = writes
    BY DEF Get
  <1>2. CASE state.objects[i].version = 0
    <2>1. seen' = [seen EXCEPT ![c] = NothingSeen]
      BY <1>2 DEF Get, Sees
    <2>2. TypeOK'
      BY <1>1, <2>1 DEF TypeOK, Seen
    <2>3. VersionsIssued'
      BY <1>1, <2>1 DEF VersionsIssued, TypeOK, NothingSeen, State
    <2>4. VersionNamesWrite'
      BY <1>1, <2>1 DEF VersionNamesWrite, TypeOK
    <2> QED
      BY <2>2, <2>3, <2>4
  <1>3. CASE state.objects[i].version # 0
    <2> DEFINE s == [id |-> i, version |-> state.objects[i].version, writes |-> writes[i]]
    <2>1. seen' = [seen EXCEPT ![c] = s]
      BY <1>1, <1>3 DEF Get, Sees
    <2>2. s \in Seen
      BY <1>3, VersionType DEF TypeOK, Seen
    <2>3. TypeOK'
      BY <1>1, <2>1, <2>2 DEF TypeOK
    <2>4. VersionsIssued'
      BY <1>1, <2>1 DEF VersionsIssued, TypeOK
    <2>5. VersionNamesWrite'
      BY <1>1, <2>1 DEF VersionNamesWrite, TypeOK
    <2> QED
      BY <2>3, <2>4, <2>5
  <1> QED
    BY <1>2, <1>3

LEMMA PutInv ==
    ASSUME Inv, NEW c \in Callers, NEW i \in Identities, NEW bytes \in ValueBytes,
           NEW condition, Put(c, i, bytes, condition)
    PROVE  Inv'
  <1> USE DEF Inv
  <1> DEFINE v == state.revision + 1
             s == [id |-> i, version |-> v, writes |-> writes[i] + 1]
  <1>0. PutOutcome(state, StoreLimits, i, bytes, condition) \in Stored
    BY DEF Put
  <1>1. state \in State /\ state.revision \in Nat /\ v \in Nat \ {0} /\ writes[i] \in Nat
    BY StorageAssumption DEF TypeOK, State
  <1>2. state' \in State
    BY <1>0, <1>1, AfterPutType DEF Put
  <1>3. state'.revision = v
    BY DEF Put, AfterPut
  <1>4. state'.objects = [state.objects EXCEPT ![i] = [version |-> v, bytes |-> bytes]]
    BY DEF Put, AfterPut
  <1>5. writes' = [writes EXCEPT ![i] = @ + 1]
    BY DEF Put, Changed
  <1>6. seen' = [seen EXCEPT ![c] = s]
    BY <1>1, <1>3, <1>5 DEF Put, Sees, TypeOK
  <1>7. s \in Seen
    BY <1>1 DEF Seen
  <1>8. TypeOK'
    BY <1>2, <1>5, <1>6, <1>7 DEF TypeOK
  <1>9. \A j \in Identities : /\ j # i => state'.objects[j] = state.objects[j]
                              /\ j # i => writes'[j] = writes[j]
    BY <1>1, <1>4, <1>5 DEF TypeOK, State
  <1>10. state'.objects[i].version = v /\ writes'[i] = writes[i] + 1
    BY <1>1, <1>4, <1>5 DEF TypeOK, State
  <1>11. VersionsIssued'
    <2>1. \A j \in Identities : state'.objects[j].version <= v
      BY <1>1, <1>9, <1>10, VersionType DEF VersionsIssued
    <2>2. \A d \in Callers : seen[d].version \in Nat /\ seen[d].version <= state.revision
      BY DEF TypeOK, Seen, NothingSeen, VersionsIssued
    <2>3. \A d \in Callers : seen'[d].version <= v
      BY <1>1, <1>6, <2>2 DEF TypeOK
    <2> QED
      BY <1>3, <2>1, <2>3 DEF VersionsIssued
  <1>12. VersionNamesWrite'
    <2> SUFFICES ASSUME NEW d \in Callers, seen'[d] # NothingSeen,
                        state'.objects[seen'[d].id].version = seen'[d].version
                 PROVE  writes'[seen'[d].id] = seen'[d].writes
      BY DEF VersionNamesWrite
    <2>1. CASE d = c
      BY <2>1, <1>6, <1>10 DEF TypeOK
    <2>2. CASE d # c
      <3>1. seen'[d] = seen[d] /\ seen[d].id \in Identities
        BY <2>2, <1>6 DEF TypeOK, Seen
      <3>2. seen[d].version <= state.revision /\ seen[d].version \in Nat
        BY <3>1 DEF VersionsIssued, TypeOK, Seen, NothingSeen
      <3>3. seen[d].id # i
        BY <1>1, <1>10, <3>1, <3>2
      <3> QED
        BY <1>9, <3>1, <3>3 DEF VersionNamesWrite
    <2> QED
      BY <2>1, <2>2
  <1> QED
    BY <1>8, <1>11, <1>12

LEMMA DeleteInv ==
    ASSUME Inv, NEW c \in Callers, NEW i \in Identities, NEW condition,
           Delete(c, i, condition)
    PROVE  Inv'
  <1> USE DEF Inv
  <1>0. DeleteOutcome(state, i, condition) = "Deleted"
    BY DEF Delete
  <1>1. state \in State /\ state.revision \in Nat /\ writes[i] \in Nat
    BY StorageAssumption DEF TypeOK, State
  <1>2. state' \in State
    BY <1>0, <1>1, AfterDeleteType DEF Delete
  <1>3. state'.revision = state.revision
    BY DEF Delete, AfterDelete
  <1>4. state'.objects = [state.objects EXCEPT ![i] = NoObject]
    BY DEF Delete, AfterDelete
  <1>5. writes' = [writes EXCEPT ![i] = @ + 1]
    BY DEF Delete, Changed
  <1>6. seen' = [seen EXCEPT ![c] = NothingSeen]
    BY DEF Delete, Sees
  <1>7. TypeOK'
    BY <1>2, <1>5, <1>6 DEF TypeOK, Seen
  <1>8. \A j \in Identities : /\ j # i => state'.objects[j] = state.objects[j]
                              /\ j # i => writes'[j] = writes[j]
    BY <1>1, <1>4, <1>5 DEF TypeOK, State
  <1>9. state'.objects[i].version = 0
    BY <1>1, <1>4 DEF State, NoObject
  <1>10. VersionsIssued'
    <2>1. \A j \in Identities : state'.objects[j].version <= state.revision
      BY <1>1, <1>8, <1>9 DEF VersionsIssued
    <2>2. \A d \in Callers : seen'[d].version <= state.revision
      BY <1>1, <1>6 DEF TypeOK, VersionsIssued, NothingSeen
    <2> QED
      BY <1>3, <2>1, <2>2 DEF VersionsIssued
  <1>11. VersionNamesWrite'
    <2> SUFFICES ASSUME NEW d \in Callers, seen'[d] # NothingSeen,
                        state'.objects[seen'[d].id].version = seen'[d].version
                 PROVE  writes'[seen'[d].id] = seen'[d].writes
      BY DEF VersionNamesWrite
    <2>1. d # c /\ seen'[d] = seen[d]
      BY <1>6 DEF TypeOK
    <2>2. seen[d].id \in Identities /\ seen[d].version # 0
      BY <2>1 DEF TypeOK, Seen
    <2>3. seen[d].id # i
      BY <1>9, <2>1, <2>2
    <2> QED
      BY <1>8, <2>1, <2>2, <2>3 DEF VersionNamesWrite
  <1> QED
    BY <1>7, <1>10, <1>11

(* Everything else leaves the store, the callers and the history alone. *)
LEMMA SameInv ==
    ASSUME Inv, UNCHANGED <<state, seen, writes>>
    PROVE  Inv'
  BY DEF Inv, TypeOK, VersionsIssued, VersionNamesWrite

LEMMA NextInv == Inv /\ [Next]_vars => Inv'
  <1> SUFFICES ASSUME Inv, [Next]_vars PROVE Inv'
    OBVIOUS
  <1>1. ASSUME NEW c \in Callers, NEW i \in Identities, Get(c, i) PROVE Inv'
    BY <1>1, GetInv
  <1>2. ASSUME NEW c \in Callers, NEW i \in Identities, Refused(c, i) PROVE Inv'
    BY <1>2, SameInv DEF Refused, vars
  <1>3. ASSUME NEW c \in Callers, NEW i \in Identities, NEW bytes \in ValueBytes,
               NEW condition, Put(c, i, bytes, condition)
        PROVE  Inv'
    BY <1>3, PutInv
  <1>4. ASSUME NEW c \in Callers, NEW i \in Identities, NEW condition,
               Delete(c, i, condition)
        PROVE  Inv'
    BY <1>4, DeleteInv
  <1>5. ASSUME NEW l \in Listers, NEW scope \in Scopes, ListStart(l, scope) PROVE Inv'
    BY <1>5, SameInv DEF ListStart
  <1>6. ASSUME NEW l \in Listers, ListMore(l) \/ ListDone(l) PROVE Inv'
    BY <1>6, SameInv DEF ListMore, ListDone
  <1>7. CASE UNCHANGED vars
    BY <1>7, SameInv DEF vars
  <1> QED
    BY <1>1, <1>2, <1>3, <1>4, <1>5, <1>6, <1>7 DEF Next

(* The invariant holds throughout. *)
THEOREM Invariance == Spec => []Inv
  BY InitInv, NextInv, PTL DEF Spec

(* The store's state is well formed whatever its callers do: no counter    *)
(* goes below zero and no revision beyond the last.                        *)
THEOREM TypeCorrect == Spec => []TypeOK
  BY Invariance, PTL DEF Inv

(* A version a caller holds names one write for ever, so that put and      *)
(* delete with IfVersion change nothing the caller has not seen.           *)
THEOREM VersionsNeverRecur == Spec => []VersionNamesWrite
  BY Invariance, PTL DEF Inv

-----------------------------------------------------------------------------
(* Refinement *)

LEMMA InitImplements == Init => Abstract!Init
  <1> SUFFICES ASSUME Init PROVE Abstract!Init
    OBVIOUS
  <1> QED
    BY DEF Init, EmptyState, NoObject, Abstract!Init

LEMMA NextImplements ==
    Inv /\ [Next]_vars => [Abstract!Next]_<<[i \in Identities |-> state.objects[i].version],
                                            state.revision>>
  <1> SUFFICES ASSUME Inv, [Next]_vars
               PROVE  [Abstract!Next]_<<[i \in Identities |-> state.objects[i].version],
                                        state.revision>>
    OBVIOUS
  <1> DEFINE versions == [i \in Identities |-> state.objects[i].version]
  <1>0. state \in State
    BY DEF Inv, TypeOK
  <1>1. ASSUME NEW c \in Callers, NEW i \in Identities, NEW bytes \in ValueBytes,
               NEW condition, Put(c, i, bytes, condition)
        PROVE  Abstract!Write(i)
    <2>1. state'.objects = [state.objects EXCEPT
              ![i] = [version |-> state.revision + 1, bytes |-> bytes]]
      BY <1>1 DEF Put, AfterPut
    <2>2. state'.revision = state.revision + 1
      BY <1>1 DEF Put, AfterPut
    <2>0. \A j \in Identities : state'.objects[j].version =
              IF j = i THEN state.revision + 1 ELSE state.objects[j].version
      BY <1>0, <2>1 DEF State
    <2>3. versions' = [versions EXCEPT ![i] = state.revision + 1]
      BY <2>0
    <2> QED
      BY <2>2, <2>3 DEF Abstract!Write
  <1>2. ASSUME NEW c \in Callers, NEW i \in Identities, NEW condition,
               Delete(c, i, condition)
        PROVE  Abstract!Remove(i)
    <2>1. state'.objects = [state.objects EXCEPT ![i] = NoObject]
      BY <1>2 DEF Delete, AfterDelete
    <2>2. state'.revision = state.revision
      BY <1>2 DEF Delete, AfterDelete
    <2>0. \A j \in Identities : state'.objects[j].version =
              IF j = i THEN 0 ELSE state.objects[j].version
      BY <1>0, <2>1 DEF State, NoObject
    <2>3. versions' = [versions EXCEPT ![i] = 0]
      BY <2>0
    <2>4. state.objects[i] # NoObject
      BY <1>2, DeletedObject DEF Delete
    <2>5. versions[i] # 0
      BY <2>4, VersionType DEF Inv
    <2> QED
      BY <2>2, <2>3, <2>5 DEF Abstract!Remove
  <1>3. ASSUME state' = state
        PROVE  UNCHANGED <<versions, state.revision>>
    BY <1>3
  <1>4. CASE UNCHANGED vars
    BY <1>3, <1>4 DEF vars
  <1>5. CASE Next
    <2>1. ASSUME NEW c \in Callers, NEW i \in Identities, Get(c, i) \/ Refused(c, i)
          PROVE  state' = state
      BY <2>1 DEF Get, Refused, vars
    <2>2. ASSUME NEW l \in Listers, NEW scope \in Scopes, ListStart(l, scope)
          PROVE  state' = state
      BY <2>2 DEF ListStart
    <2>3. ASSUME NEW l \in Listers, ListMore(l) \/ ListDone(l)
          PROVE  state' = state
      BY <2>3 DEF ListMore, ListDone
    <2>4. \/ state' = state
          \/ \E i \in Identities : Abstract!Write(i) \/ Abstract!Remove(i)
      BY <1>1, <1>2, <1>5, <2>1, <2>2, <2>3 DEF Next
    <2> QED
      BY <1>3, <2>4 DEF Abstract!Next
  <1> QED
    BY <1>4, <1>5

(* The local adapter implements the abstract store: an object changes only *)
(* by a write, which takes the next version of the whole store, or by the  *)
(* removal of an object that is there.                                     *)
THEOREM ImplementsObjectStore == Spec => ObjectStoreSpec
  BY Invariance, InitImplements, NextImplements, PTL DEF Spec, ObjectStoreSpec, Abstract!Spec

-----------------------------------------------------------------------------
(* Quotas.  The counters that put checks against the limits are tied to    *)
(* the objects they count.                                                 *)

ObjectCounts ==
    /\ state.global.objects = Cardinality(Present(state))
    /\ \A t \in Tenants :
          /\ Held(state.tenants[t]).objects = Cardinality(OfTenant(Present(state), t))
          /\ state.tenants[t] # NoRow => state.tenants[t].objects # 0

CountersFit ==
    \A t \in Tenants : WithinLimits(StoreLimits, Held(state.tenants[t]), state.global)

LEMMA IdentitiesFinite == IsFiniteSet(Identities)
  <1> DEFINE S == Tenants \X (Namespaces \X ObjectKeys)
             f == [x \in S |-> [tenant |-> x[1], namespace |-> x[2][1], key |-> x[2][2]]]
  <1>1. IsFiniteSet(S)
    BY FS_Product, StorageAssumption
  <1>2. f \in [S -> Identities]
    BY DEF Identities
  <1>3. ASSUME NEW i \in Identities PROVE \E x \in S : f[x] = i
    <2>1. <<i.tenant, <<i.namespace, i.key>>>> \in S
      BY DEF Identities
    <2>2. f[<<i.tenant, <<i.namespace, i.key>>>>] = i
      BY <2>1 DEF Identities
    <2> QED
      BY <2>1, <2>2
  <1>4. f \in Surjection(S, Identities)
    BY <1>2, <1>3 DEF Surjection
  <1> QED
    BY <1>1, <1>4, FS_Surjection

LEMMA PresentFinite ==
    ASSUME NEW st
    PROVE  /\ IsFiniteSet(Present(st))
           /\ \A t : IsFiniteSet(OfTenant(Present(st), t))
  BY IdentitiesFinite, FS_Subset DEF Present, OfTenant

LEMMA PresentAfterPut ==
    ASSUME NEW st \in State, NEW i \in Identities, NEW bytes
    PROVE  Present(AfterPut(st, i, bytes)) = Present(st) \cup {i}
  <1> DEFINE entry == [version |-> st.revision + 1, bytes |-> bytes]
  <1>1. entry.version # 0
    BY StorageAssumption DEF State
  <1>2. entry # NoObject
    BY <1>1 DEF NoObject
  <1>3. \A j \in Identities : AfterPut(st, i, bytes).objects[j] =
            IF j = i THEN entry ELSE st.objects[j]
    BY DEF AfterPut, State
  <1> QED
    BY <1>2, <1>3 DEF Present

LEMMA PresentAfterDelete ==
    ASSUME NEW st \in State, NEW i \in Identities
    PROVE  Present(AfterDelete(st, i)) = Present(st) \ {i}
  <1>1. \A j \in Identities : AfterDelete(st, i).objects[j] =
            IF j = i THEN NoObject ELSE st.objects[j]
    BY DEF AfterDelete, State
  <1> QED
    BY <1>1 DEF Present

LEMMA OfTenantAdd ==
    ASSUME NEW ids, NEW i, NEW t
    PROVE  OfTenant(ids \cup {i}, t) =
               IF i.tenant = t THEN OfTenant(ids, t) \cup {i} ELSE OfTenant(ids, t)
  BY DEF OfTenant

LEMMA OfTenantRemove ==
    ASSUME NEW ids, NEW i, NEW t
    PROVE  OfTenant(ids \ {i}, t) =
               IF i.tenant = t THEN OfTenant(ids, t) \ {i} ELSE OfTenant(ids, t)
  BY DEF OfTenant

QuotaInv == ObjectCounts /\ CountersFit

LEMMA InitQuota == Init => QuotaInv
  <1> SUFFICES ASSUME Init PROVE QuotaInv
    OBVIOUS
  <1>1. Present(state) = {} /\ \A t \in Tenants : OfTenant(Present(state), t) = {}
    BY DEF Init, EmptyState, Present, OfTenant
  <1>2. \A t \in Tenants : state.tenants[t] = NoRow /\ Held(state.tenants[t]) = Zero
    BY DEF Init, EmptyState, Held
  <1>3. ObjectCounts
    <2>1. state.global.objects = 0 /\ Zero.objects = 0
      BY DEF Init, EmptyState, Zero
    <2>2. Cardinality({}) = 0
      BY FS_EmptySet
    <2> QED
      BY <1>1, <1>2, <2>1, <2>2 DEF ObjectCounts
  <1>4. CountersFit
    BY <1>2, LocalAssumption
       DEF Init, EmptyState, Zero, CountersFit, WithinLimits, Limits
  <1> QED
    BY <1>3, <1>4 DEF QuotaInv

LEMMA PutQuota ==
    ASSUME Inv, QuotaInv, NEW c \in Callers, NEW i \in Identities, NEW bytes \in ValueBytes,
           NEW condition, Put(c, i, bytes, condition)
    PROVE  QuotaInv'
  <1> DEFINE current == state.objects[i]
             row == state.tenants[i.tenant]
             P == Present(state)
  <1>1. /\ state \in State /\ state' = AfterPut(state, i, bytes)
        /\ PutOutcome(state, StoreLimits, i, bytes, condition) \in Stored
    BY DEF Inv, TypeOK, Put
  <1>2. /\ i.tenant \in Tenants
        /\ i \in P <=> current # NoObject
        /\ row \in Counters \cup {NoRow}
    BY <1>1 DEF Identities, Present, State
  <1>3. Held(row) \in Counters /\ state.global \in Counters
    BY <1>1, <1>2, HeldType DEF State
  <1>4. /\ state'.global = PutCounters(state.global, current, bytes)
        /\ state'.tenants = [state.tenants EXCEPT
               ![i.tenant] = PutCounters(Held(row), current, bytes)]
    BY <1>1 DEF AfterPut
  <1>5. Present(state') = P \cup {i}
    BY <1>1, PresentAfterPut
  <1>6. ASSUME NEW counters \in Counters
        PROVE  PutCounters(counters, current, bytes).objects =
                   IF i \in P THEN counters.objects ELSE counters.objects + 1
    <2>1. PutCounters(counters, current, bytes).objects =
              counters.objects + IF current = NoObject THEN 1 ELSE 0
      BY DEF PutCounters
    <2>2. counters.objects \in Nat
      BY DEF Counters
    <2> HIDE DEF current, P
    <2> QED
      BY <1>2, <2>1, <2>2
  <1>7. PutCounters(Held(row), current, bytes).objects # 0
    <2>1. i \in P => OfTenant(P, i.tenant) # {}
      BY DEF OfTenant
    <2>2. i \in P => Cardinality(OfTenant(P, i.tenant)) # 0
      BY <2>1, PresentFinite, FS_EmptySet
    <2>3. Held(row).objects = Cardinality(OfTenant(P, i.tenant))
      BY <1>2 DEF QuotaInv, ObjectCounts
    <2>4. Held(row).objects \in Nat
      BY <1>3 DEF Counters
    <2> QED
      BY <1>3, <1>6, <2>2, <2>3, <2>4
  <1>8. Held(PutCounters(Held(row), current, bytes)) = PutCounters(Held(row), current, bytes)
    <2>1. PutCounters(Held(row), current, bytes) # NoRow
      BY <1>7 DEF NoRow
    <2> QED
      BY <2>1 DEF Held
  <1>9. state'.global.objects = Cardinality(Present(state'))
    <2>1. Cardinality(P \cup {i}) = IF i \in P THEN Cardinality(P) ELSE Cardinality(P) + 1
      BY PresentFinite, FS_AddElement
    <2>2. Cardinality(P) \in Nat
      BY PresentFinite, FS_CardinalityType
    <2>3. state.global.objects = Cardinality(P)
      BY DEF QuotaInv, ObjectCounts
    <2> QED
      BY <1>3, <1>4, <1>5, <1>6, <2>1, <2>2, <2>3
  <1>10. ASSUME NEW t \in Tenants
         PROVE  Held(state'.tenants[t]).objects = Cardinality(OfTenant(Present(state'), t))
    <2> DEFINE Q == OfTenant(P, t)
    <2>1. CASE t = i.tenant
      <3>1. OfTenant(Present(state'), t) = Q \cup {i}
        BY <1>5, <2>1, OfTenantAdd
      <3>2. Cardinality(Q \cup {i}) = IF i \in Q THEN Cardinality(Q) ELSE Cardinality(Q) + 1
        BY PresentFinite, FS_AddElement
      <3>3. Cardinality(Q) \in Nat /\ (i \in Q <=> i \in P)
        BY <2>1, PresentFinite, FS_CardinalityType DEF OfTenant
      <3>4. Held(state'.tenants[t]) = PutCounters(Held(row), current, bytes)
        BY <1>1, <1>4, <1>8, <2>1 DEF State
      <3>5. Held(row).objects = Cardinality(Q)
        BY <2>1 DEF QuotaInv, ObjectCounts
      <3> QED
        BY <1>3, <1>6, <3>1, <3>2, <3>3, <3>4, <3>5
    <2>2. CASE t # i.tenant
      <3>1. OfTenant(Present(state'), t) = Q
        BY <1>5, <2>2 DEF OfTenant
      <3>2. state'.tenants[t] = state.tenants[t]
        BY <1>1, <1>4, <2>2 DEF State
      <3> QED
        BY <3>1, <3>2 DEF QuotaInv, ObjectCounts
    <2> QED
      BY <2>1, <2>2
  <1>11. ObjectCounts'
    <2>1. \A t \in Tenants : state'.tenants[t] # NoRow => state'.tenants[t].objects # 0
      BY <1>1, <1>4, <1>7 DEF State, QuotaInv, ObjectCounts
    <2> QED
      BY <1>9, <1>10, <2>1 DEF ObjectCounts
  <1>12. CountersFit'
    <2>1. WithinLimits(StoreLimits, PutCounters(Held(row), current, bytes), state'.global)
      <3>1. WithinLimits(StoreLimits, PutCounters(Held(row), current, bytes),
                         PutCounters(state.global, current, bytes))
        BY <1>1, StoredPut
      <3> QED
        BY <1>4, <3>1
    <2>2. ASSUME NEW t \in Tenants
          PROVE  WithinLimits(StoreLimits, Held(state'.tenants[t]), state'.global)
      <3>1. CASE t = i.tenant
        BY <1>1, <1>4, <1>8, <2>1, <3>1 DEF State
      <3>2. CASE t # i.tenant
        <4>1. state'.tenants[t] = state.tenants[t]
          BY <1>1, <1>4, <3>2 DEF State
        <4> QED
          BY <2>1, <4>1 DEF QuotaInv, CountersFit, WithinLimits
      <3> QED
        BY <3>1, <3>2
    <2> QED
      BY <2>2 DEF CountersFit
  <1> QED
    BY <1>11, <1>12 DEF QuotaInv

LEMMA DeleteQuota ==
    ASSUME Inv, QuotaInv, NEW c \in Callers, NEW i \in Identities, NEW condition,
           Delete(c, i, condition)
    PROVE  QuotaInv'
  <1> DEFINE current == state.objects[i]
             row == state.tenants[i.tenant]
             left == Released(row, current)
             P == Present(state)
  <1>1. /\ state \in State /\ state' = AfterDelete(state, i)
        /\ DeleteOutcome(state, i, condition) = "Deleted"
    BY DEF Inv, TypeOK, Delete
  <1>2. /\ current # NoObject /\ row # NoRow
        /\ CanRelease(row, current) /\ CanRelease(state.global, current)
    BY <1>1, DeletedObject
  <1>3. /\ i.tenant \in Tenants /\ i \in P
        /\ current \in Entry /\ row \in Counters /\ state.global \in Counters
    BY <1>1, <1>2 DEF Identities, Present, State
  <1>4. /\ state'.global = Released(state.global, current)
        /\ state'.tenants = [state.tenants EXCEPT
               ![i.tenant] = IF left.objects = 0 THEN NoRow ELSE left]
    BY <1>1 DEF AfterDelete
  <1>5. Present(state') = P \ {i}
    BY <1>1, PresentAfterDelete
  <1>6. \A counters \in Counters : CanRelease(counters, current) =>
            /\ counters.objects \in Nat /\ counters.value_bytes \in Nat
            /\ Released(counters, current).objects = counters.objects - 1
            /\ Released(counters, current).objects \in Nat
            /\ Released(counters, current).value_bytes \in Nat
            /\ Released(counters, current).value_bytes <= counters.value_bytes
    <2>1. current.bytes \in Nat
      BY <1>3, StorageAssumption DEF Entry
    <2> HIDE DEF current
    <2> QED
      BY <2>1 DEF Released, CanRelease, Counters
  <1>7. LET kept == IF left.objects = 0 THEN NoRow ELSE left IN
        /\ Held(kept).objects = left.objects
        /\ kept # NoRow => kept.objects # 0
        /\ Held(kept).value_bytes = IF left.objects = 0 THEN 0 ELSE left.value_bytes
    <2>1. CASE left.objects = 0
      BY <2>1 DEF Held, Zero
    <2>2. CASE left.objects # 0
      <3>1. left # NoRow
        BY <2>2 DEF NoRow
      <3> HIDE DEF left
      <3> QED
        BY <2>2, <3>1 DEF Held
    <2> QED
      BY <2>1, <2>2
  <1>8. state'.global.objects = Cardinality(Present(state'))
    <2>1. Cardinality(P \ {i}) = Cardinality(P) - 1
      BY <1>3, PresentFinite, FS_RemoveElement
    <2>2. state.global.objects = Cardinality(P)
      BY DEF QuotaInv, ObjectCounts
    <2> QED
      BY <1>2, <1>3, <1>4, <1>5, <1>6, <2>1, <2>2
  <1>9. ASSUME NEW t \in Tenants
        PROVE  Held(state'.tenants[t]).objects = Cardinality(OfTenant(Present(state'), t))
    <2> DEFINE Q == OfTenant(P, t)
    <2>1. CASE t = i.tenant
      <3>1. OfTenant(Present(state'), t) = Q \ {i} /\ i \in Q
        BY <1>3, <1>5, <2>1 DEF OfTenant
      <3>2. Cardinality(Q \ {i}) = Cardinality(Q) - 1
        BY <3>1, PresentFinite, FS_RemoveElement
      <3>3. Held(state'.tenants[t]).objects = left.objects
        BY <1>1, <1>4, <1>7, <2>1 DEF State
      <3>4. row.objects = Cardinality(Q)
        BY <1>2, <2>1 DEF QuotaInv, ObjectCounts, Held
      <3>5. left.objects = row.objects - 1
        BY <1>2, <1>3, <1>6
      <3> QED
        BY <3>1, <3>2, <3>3, <3>4, <3>5
    <2>2. CASE t # i.tenant
      <3>1. OfTenant(Present(state'), t) = Q
        BY <1>5, <2>2 DEF OfTenant
      <3>2. state'.tenants[t] = state.tenants[t]
        BY <1>1, <1>4, <2>2 DEF State
      <3> QED
        BY <3>1, <3>2 DEF QuotaInv, ObjectCounts
    <2> QED
      BY <2>1, <2>2
  <1>10. ObjectCounts'
    <2>1. \A t \in Tenants : state'.tenants[t] # NoRow => state'.tenants[t].objects # 0
      BY <1>1, <1>4, <1>7 DEF State, QuotaInv, ObjectCounts
    <2> QED
      BY <1>8, <1>9, <2>1 DEF ObjectCounts
  <1>11. CountersFit'
    <2>1. /\ StoreLimits.objects_per_tenant \in Nat /\ StoreLimits.bytes_per_tenant \in Nat
          /\ StoreLimits.objects_global \in Nat /\ StoreLimits.bytes_global \in Nat
      BY LocalAssumption DEF Limits
    <2>2. \A t \in Tenants : WithinLimits(StoreLimits, Held(state.tenants[t]), state.global)
      BY DEF QuotaInv, CountersFit
    <2>3. /\ state'.global.objects <= StoreLimits.objects_global
          /\ state'.global.value_bytes <= StoreLimits.bytes_global
      <3>1. /\ state.global.objects <= StoreLimits.objects_global
            /\ state.global.value_bytes <= StoreLimits.bytes_global
        BY <1>3, <2>2 DEF WithinLimits
      <3>2. /\ state.global.objects \in Nat /\ state.global.value_bytes \in Nat
            /\ state'.global.objects = state.global.objects - 1
            /\ state'.global.value_bytes \in Nat
            /\ state'.global.value_bytes <= state.global.value_bytes
        BY <1>2, <1>3, <1>4, <1>6
      <3> QED
        BY <2>1, <3>1, <3>2
    <2>4. ASSUME NEW t \in Tenants
          PROVE  WithinLimits(StoreLimits, Held(state'.tenants[t]), state'.global)
      <3>1. CASE t = i.tenant
        <4>1. /\ left.objects \in Nat /\ left.objects <= StoreLimits.objects_per_tenant
              /\ left.value_bytes \in Nat /\ left.value_bytes <= StoreLimits.bytes_per_tenant
          <5>1. Held(row) = row /\ WithinLimits(StoreLimits, Held(row), state.global)
            BY <1>2, <1>3, <2>2 DEF Held
          <5>2. /\ row.objects <= StoreLimits.objects_per_tenant
                /\ row.value_bytes <= StoreLimits.bytes_per_tenant
            BY <5>1 DEF WithinLimits
          <5>3. /\ row.objects \in Nat /\ row.value_bytes \in Nat
                /\ left.objects = row.objects - 1 /\ left.objects \in Nat
                /\ left.value_bytes \in Nat /\ left.value_bytes <= row.value_bytes
            BY <1>2, <1>3, <1>6
          <5> HIDE DEF row, left
          <5> QED
            BY <2>1, <5>2, <5>3
        <4>2. /\ Held(state'.tenants[t]).objects = left.objects
              /\ Held(state'.tenants[t]).value_bytes =
                     IF left.objects = 0 THEN 0 ELSE left.value_bytes
          BY <1>1, <1>4, <1>7, <3>1 DEF State
        <4> HIDE DEF left
        <4> QED
          BY <2>1, <2>3, <4>1, <4>2 DEF WithinLimits
      <3>2. CASE t # i.tenant
        <4>1. state'.tenants[t] = state.tenants[t]
          BY <1>1, <1>4, <3>2 DEF State
        <4> QED
          BY <2>2, <2>3, <4>1 DEF WithinLimits
      <3> QED
        BY <3>1, <3>2
    <2> QED
      BY <2>4 DEF CountersFit
  <1> QED
    BY <1>10, <1>11 DEF QuotaInv

LEMMA NextQuota == Inv /\ QuotaInv /\ [Next]_vars => QuotaInv'
  <1> SUFFICES ASSUME Inv, QuotaInv, [Next]_vars PROVE QuotaInv'
    OBVIOUS
  <1>1. ASSUME NEW c \in Callers, NEW i \in Identities, NEW bytes \in ValueBytes,
               NEW condition, Put(c, i, bytes, condition)
        PROVE  QuotaInv'
    BY <1>1, PutQuota
  <1>2. ASSUME NEW c \in Callers, NEW i \in Identities, NEW condition,
               Delete(c, i, condition)
        PROVE  QuotaInv'
    BY <1>2, DeleteQuota
  <1>3. ASSUME state' = state PROVE QuotaInv'
    BY <1>3 DEF QuotaInv, ObjectCounts, CountersFit
  <1>4. ASSUME NEW c \in Callers, NEW i \in Identities, Get(c, i) \/ Refused(c, i)
        PROVE  state' = state
    BY <1>4 DEF Get, Refused, vars
  <1>5. ASSUME NEW l \in Listers, NEW scope \in Scopes, ListStart(l, scope)
        PROVE  state' = state
    BY <1>5 DEF ListStart
  <1>6. ASSUME NEW l \in Listers, ListMore(l) \/ ListDone(l)
        PROVE  state' = state
    BY <1>6 DEF ListMore, ListDone
  <1>7. CASE UNCHANGED vars
    BY <1>3, <1>7 DEF vars
  <1> QED
    BY <1>1, <1>2, <1>3, <1>4, <1>5, <1>6, <1>7 DEF Next

LEMMA QuotaInvSuffices == QuotaInv => ObjectQuotaHolds
  <1> SUFFICES ASSUME QuotaInv PROVE ObjectQuotaHolds
    OBVIOUS
  <1>1. \A t \in Tenants :
            Cardinality(OfTenant(Present(state), t)) <= StoreLimits.objects_per_tenant
    BY DEF QuotaInv, ObjectCounts, CountersFit, WithinLimits
  <1>2. CASE Tenants = {}
    <2>1. Present(state) = {}
      BY <1>2 DEF Present, Identities
    <2>2. Cardinality(Present(state)) = 0
      BY <2>1, FS_EmptySet
    <2> QED
      BY <1>1, <2>2, LocalAssumption DEF ObjectQuotaHolds, Limits
  <1>3. CASE Tenants # {}
    <2>1. Cardinality(Present(state)) <= StoreLimits.objects_global
      BY <1>3 DEF QuotaInv, ObjectCounts, CountersFit, WithinLimits
    <2> QED
      BY <1>1, <2>1 DEF ObjectQuotaHolds
  <1> QED
    BY <1>2, <1>3

(* Put compares counters with the limits, never the objects: no order of   *)
(* creates, replacements and deletes makes the counters lose track of an   *)
(* object, so no tenant and not the store as a whole holds more objects    *)
(* than its quota.                                                         *)
THEOREM QuotaIsKept == Spec => []ObjectQuotaHolds
  <1>1. Init => Inv /\ QuotaInv
    BY InitInv, InitQuota
  <1>2. Inv /\ QuotaInv /\ [Next]_vars => (Inv /\ QuotaInv)'
    BY NextInv, NextQuota
  <1> QED
    BY <1>1, <1>2, QuotaInvSuffices, PTL DEF Spec

=============================================================================
