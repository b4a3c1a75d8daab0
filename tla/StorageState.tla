---------------------------- MODULE StorageState ----------------------------
(***************************************************************************)
(* The state of an object store and what put, delete and list compute from *)
(* it.  Both adapters of the storage crate, Local (a map under a mutex) and *)
(* Redb (three tables under a transaction), hold this state and apply the  *)
(* same functions to it in one atomic operation.                           *)
(*                                                                         *)
(* An object value is abstracted to its length, the only thing the adapters *)
(* ask of it besides handing it back; object keys to naturals, which keeps *)
(* their order.                                                            *)
(***************************************************************************)
EXTENDS Integers, FiniteSets

CONSTANTS
    Tenants, Namespaces,
    ObjectKeys,         \* naturals from 1
    ValueBytes,         \* lengths of the values that are put
    MaxRevision         \* u64::MAX

ASSUME StorageAssumption ==
    /\ IsFiniteSet(Tenants) /\ IsFiniteSet(Namespaces)
    /\ IsFiniteSet(ObjectKeys) /\ ObjectKeys \subseteq Nat \ {0}
    /\ ValueBytes \subseteq Nat
    /\ MaxRevision \in Nat

Scopes == [tenant : Tenants, namespace : Namespaces]

Identities == [tenant : Tenants, namespace : Namespaces, key : ObjectKeys]

Limits == [objects_per_tenant : Nat, bytes_per_tenant : Nat,
           objects_global : Nat, bytes_global : Nat]

(* validate_limits, without the fixed maxima. *)
validate_limits(limits) ==
    /\ limits.objects_per_tenant \in 1 .. limits.objects_global
    /\ limits.bytes_per_tenant \in 1 .. limits.bytes_global

Entry == [version : Nat \ {0}, bytes : ValueBytes]

NoObject == [version |-> 0]

Counters == [objects : Nat, value_bytes : Nat]

Zero == [objects |-> 0, value_bytes |-> 0]

NoRow == [objects |-> 0]

State == [objects  : [Identities -> Entry \cup {NoObject}],
          revision : 0 .. MaxRevision,
          tenants  : [Tenants -> Counters \cup {NoRow}],
          global   : Counters]

EmptyState == [objects  |-> [i \in Identities |-> NoObject],
               revision |-> 0,
               tenants  |-> [t \in Tenants |-> NoRow],
               global   |-> Zero]

-----------------------------------------------------------------------------
(* Conditions *)

AnyCondition == [kind |-> "Any"]
IfAbsent == [kind |-> "IfAbsent"]
IfVersion(version) == [kind |-> "IfVersion", version |-> version]

Matches(condition, current) ==
    \/ condition = AnyCondition
    \/ condition = IfAbsent /\ current = NoObject
    \/ condition.kind = "IfVersion" /\ current # NoObject
       /\ condition.version = current.version

-----------------------------------------------------------------------------
(* put *)

Bytes(entry) == IF entry = NoObject THEN 0 ELSE entry.bytes

Held(row) == IF row = NoRow THEN Zero ELSE row

PutCounters(counters, current, bytes) ==
    [objects     |-> counters.objects + IF current = NoObject THEN 1 ELSE 0,
     value_bytes |-> (counters.value_bytes - Bytes(current)) + bytes]

WithinLimits(limits, tenant, global) ==
    /\ tenant.objects <= limits.objects_per_tenant
    /\ tenant.value_bytes <= limits.bytes_per_tenant
    /\ global.objects <= limits.objects_global
    /\ global.value_bytes <= limits.bytes_global

(* The outcome of a put: the condition is evaluated first, then the        *)
(* revision, then the counters.  A counter below what it must release is   *)
(* the error OperationFailed of Local and CorruptStore of Redb.            *)
PutOutcome(st, limits, i, bytes, condition) ==
    LET current == st.objects[i]
        tenant == Held(st.tenants[i.tenant]) IN
    CASE ~Matches(condition, current) -> "Conflict"
      [] Matches(condition, current) /\ st.revision = MaxRevision -> "RevisionExhausted"
      [] OTHER ->
           IF tenant.value_bytes < Bytes(current) \/ st.global.value_bytes < Bytes(current)
             THEN "CounterFault"
           ELSE IF ~WithinLimits(limits, PutCounters(tenant, current, bytes),
                                         PutCounters(st.global, current, bytes))
             THEN "LimitExceeded"
           ELSE IF current = NoObject THEN "Created" ELSE "Replaced"

Stored == {"Created", "Replaced"}

AfterPut(st, i, bytes) ==
    LET current == st.objects[i] IN
    [objects  |-> [st.objects EXCEPT ![i] = [version |-> st.revision + 1, bytes |-> bytes]],
     revision |-> st.revision + 1,
     tenants  |-> [st.tenants EXCEPT
                      ![i.tenant] = PutCounters(Held(@), current, bytes)],
     global   |-> PutCounters(st.global, current, bytes)]

-----------------------------------------------------------------------------
(* delete *)

Released(counters, current) ==
    [objects |-> counters.objects - 1, value_bytes |-> counters.value_bytes - current.bytes]

CanRelease(counters, current) ==
    counters.objects >= 1 /\ counters.value_bytes >= current.bytes

DeleteOutcome(st, i, condition) ==
    LET current == st.objects[i]
        row == st.tenants[i.tenant] IN
    CASE current = NoObject -> "NotFound"
      [] current # NoObject /\ ~Matches(condition, current) -> "Conflict"
      [] OTHER ->
           IF \/ row = NoRow
              \/ ~CanRelease(row, current) \/ ~CanRelease(st.global, current)
              \/ Released(row, current).objects = 0 /\ Released(row, current).value_bytes # 0
             THEN "CounterFault"
           ELSE "Deleted"

AfterDelete_KeepsRow(st, i) ==
    LET current == st.objects[i] IN
    [st EXCEPT !.objects[i] = NoObject,
               !.tenants[i.tenant] = Released(@, current),
               !.global = Released(@, current)]

AfterDelete_ReleasesRevision(st, i) ==
    LET current == st.objects[i]
        left == Released(st.tenants[i.tenant], current) IN
    [objects  |-> [st.objects EXCEPT ![i] = NoObject],
     revision |-> IF st.revision = current.version THEN st.revision - 1 ELSE st.revision,
     tenants  |-> [st.tenants EXCEPT ![i.tenant] = IF left.objects = 0 THEN NoRow ELSE left],
     global   |-> Released(st.global, current)]

AfterDelete(st, i) ==
    LET current == st.objects[i]
        left == Released(st.tenants[i.tenant], current) IN
    [objects  |-> [st.objects EXCEPT ![i] = NoObject],
     revision |-> st.revision,
     tenants  |-> [st.tenants EXCEPT ![i.tenant] = IF left.objects = 0 THEN NoRow ELSE left],
     global   |-> Released(st.global, current)]

-----------------------------------------------------------------------------
(* list: the keys of one page, which the code returns in ascending order,  *)
(* and whether more follow.  No cursor is the key 0, below every key.      *)

IdentityOf(scope, key) ==
    [tenant |-> scope.tenant, namespace |-> scope.namespace, key |-> key]

KeysAfter(st, scope, after) ==
    {k \in ObjectKeys : k > after /\ st.objects[IdentityOf(scope, k)] # NoObject}

ListPage_SkipsOne(st, scope, after, limit) ==
    LET rest == KeysAfter(st, scope, after)
        page == {k \in rest : Cardinality({j \in rest : j < k}) < limit} IN
    [keys |-> page, has_more |-> Cardinality(rest) > limit + 1]

ListPage(st, scope, after, limit) ==
    LET rest == KeysAfter(st, scope, after)
        page == {k \in rest : Cardinality({j \in rest : j < k}) < limit} IN
    [keys |-> page, has_more |-> rest # page]

-----------------------------------------------------------------------------
(* The counters, recomputed from the objects. *)

Present(st) == {i \in Identities : st.objects[i] # NoObject}

(* The bytes of a set of objects, each one by its place. *)
StoredBytes(st, ids) == UNION {{i} \X (1 .. st.objects[i].bytes) : i \in ids}

Count(st, ids) ==
    [objects     |-> Cardinality(ids),
     value_bytes |-> Cardinality(StoredBytes(st, ids))]

OfTenant(ids, t) == {i \in ids : i.tenant = t}

=============================================================================
