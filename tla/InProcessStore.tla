--------------------------- MODULE InProcessStore ---------------------------
(***************************************************************************)
(* The in-process store of the memory brick, the reference behaviour of    *)
(* its port: a map from tenant to namespace to key to record, under one    *)
(* lock.  An emptied namespace and an emptied tenant are removed.          *)
(***************************************************************************)
EXTENDS MemoryModel

CONSTANTS
    Records                 \* the records a caller may hand to the store

VARIABLES
    tenants                 \* tenant -> namespace -> key -> record

Put(record) ==
    LET tenant == At(tenants, record.tenant)
        partition == At(tenant, record.namespace)
    IN  /\ validate_record(record).ok
        /\ check_capacity(Cardinality(DOMAIN tenant), record.namespace \notin DOMAIN tenant,
                          Cardinality(DOMAIN partition), record.key \notin DOMAIN partition).ok
        /\ tenants' = With(tenants, record.tenant,
                           With(tenant, record.namespace, With(partition, record.key, record)))

Delete(t, n, k) ==
    /\ t \in DOMAIN tenants /\ n \in DOMAIN tenants[t]
    /\ LET partition == Without(tenants[t][n], k)
           tenant == IF IsEmpty(partition) THEN Without(tenants[t], n)
                     ELSE With(tenants[t], n, partition)
       IN  tenants' = IF IsEmpty(tenant) THEN Without(tenants, t) ELSE With(tenants, t, tenant)

Get(t, n, k) == At(At(At(tenants, t), n), k)

Query(t, n, query) ==
    LET partition == At(At(tenants, t), n)
    IN  InKeyOrder({r \in {partition[k] : k \in DOMAIN partition} : matches(query, r)},
                   query.limit)

Init == tenants = Empty

(* get, query, and every operation that is refused. *)
Unchanged == UNCHANGED tenants

Next ==
    \/ Unchanged
    \/ \E record \in Records : Put(record)
    \/ \E t \in DOMAIN tenants : \E n \in DOMAIN tenants[t] : \E k \in RecordKeys : Delete(t, n, k)

Spec == Init /\ [][Next]_tenants

=============================================================================
