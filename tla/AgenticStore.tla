---------------------------- MODULE AgenticStore ----------------------------
(***************************************************************************)
(* The memory store over the agentic-memory crate: one graph of events per *)
(* tenant and namespace, an index from record key to node, and the fields  *)
(* an event cannot hold beside it.  Each operation takes the state of the  *)
(* store and returns its result and the new state, because the code runs   *)
(* it under one lock.  The graph is external: it numbers its nodes, never  *)
(* reuses a number, and may refuse to add or to remove a node.             *)
(***************************************************************************)
EXTENDS MemoryModel

(* The call of the graph that fails during an operation. *)
Failures == {"none", "add_node", "remove_node"}

Result(result, state) == [result |-> result, state |-> state]

(* A partition with no graph yet behaves as one with an empty graph. *)
NewPartition == [nodes |-> Empty, next |-> 0, ids |-> Empty, sidecars |-> Empty]
PartitionOf(state, t, n) == IF n \in DOMAIN At(state, t) THEN state[t][n] ELSE NewPartition

event_type_of_Merged(kind) ==
    CASE kind = "Preference" -> "Decision" [] kind = "Procedural" -> "Skill" [] OTHER -> "Fact"

event_type_of(kind) ==
    CASE kind = "Factual" -> "Fact" [] kind = "Preference" -> "Decision"
      [] kind = "Procedural" -> "Skill" [] OTHER -> "Episode"

kind_of(event_type) ==
    CASE event_type \in {"Fact", "Inference", "Correction"} -> "Factual"
      [] event_type = "Decision" -> "Preference"
      [] event_type = "Skill" -> "Procedural" [] OTHER -> "Episodic"

add_node(partition, event) ==
    [partition EXCEPT !.nodes = With(@, partition.next, event), !.next = @ + 1]
remove_node(partition, id) == [partition EXCEPT !.nodes = Without(@, id)]

EventOf(record) ==
    [event_type |-> event_type_of(record.kind), content |-> record.content,
     created_at |-> IF record.provenance = <<>> THEN 0 ELSE Head(record.provenance).at]
SideCar(record) ==
    [tags |-> record.tags, metadata |-> record.metadata, provenance |-> record.provenance]

(* A write that drops the superseded node before the new one is added. *)
put_RemoveFirst(state, record, failing) ==
    LET t == record.tenant
        n == record.namespace
        tenant == At(state, t)
        partition == PartitionOf(state, t, n)
        known == record.key \in DOMAIN partition.ids
        dropped == IF known THEN remove_node(partition, partition.ids[record.key]) ELSE partition
        added == add_node(dropped, EventOf(record))
        capacity == check_capacity(Cardinality(DOMAIN tenant), n \notin DOMAIN tenant,
                                   Cardinality(DOMAIN partition.ids), ~known)
    IN  IF ~validate_record(record).ok THEN Result(validate_record(record), state)
        ELSE IF ~capacity.ok THEN Result(capacity, With(state, t, tenant))
        ELSE IF failing = "add_node"
          THEN Result(Err("AdapterFailure"), With(state, t, With(tenant, n, dropped)))
        ELSE Result(Ok(IF known THEN "Replaced" ELSE "Created"),
                    With(state, t, With(tenant, n,
                      [added EXCEPT !.ids = With(@, record.key, dropped.next),
                                    !.sidecars = With(@, dropped.next, SideCar(record))])))

(* put.  The graph may refuse the new node, after the partition was entered *)
(* in the map, or fail to remove the superseded one, which then stays in    *)
(* the graph without an index entry.                                       *)
put(state, record, failing) ==
    LET t == record.tenant
        n == record.namespace
        tenant == At(state, t)
        partition == PartitionOf(state, t, n)
        known == record.key \in DOMAIN partition.ids
        previous == partition.ids[record.key]
        id == partition.next
        added == add_node(partition, EventOf(record))
        superseded == IF known /\ failing # "remove_node" THEN remove_node(added, previous) ELSE added
        kept == IF known THEN Without(partition.sidecars, previous) ELSE partition.sidecars
        capacity == check_capacity(Cardinality(DOMAIN tenant), n \notin DOMAIN tenant,
                                   Cardinality(DOMAIN partition.ids), ~known)
    IN  IF ~validate_record(record).ok THEN Result(validate_record(record), state)
        ELSE IF ~capacity.ok THEN Result(capacity, With(state, t, tenant))
        ELSE IF failing = "add_node"
          THEN Result(Err("AdapterFailure"), With(state, t, With(tenant, n, partition)))
        ELSE Result(Ok(IF known THEN "Replaced" ELSE "Created"),
                    With(state, t, With(tenant, n,
                      [superseded EXCEPT !.ids = With(@, record.key, id),
                                         !.sidecars = With(kept, id, SideCar(record))])))

assemble(event, sidecar, t, n, k) ==
    [tenant |-> t, namespace |-> n, key |-> k, kind |-> kind_of(event.event_type),
     content |-> event.content, tags |-> sidecar.tags, metadata |-> sidecar.metadata,
     provenance |-> sidecar.provenance]

NoSideCar == [tags |-> <<>>, metadata |-> {}, provenance |-> <<>>]
SideCarOf(partition, id) ==
    IF id \in DOMAIN partition.sidecars THEN partition.sidecars[id] ELSE NoSideCar

(* The record of a node, an Option. *)
rebuild(partition, id, t, n, k) ==
    IF id \in DOMAIN partition.nodes
      THEN <<assemble(partition.nodes[id], SideCarOf(partition, id), t, n, k)>>
      ELSE <<>>

get(state, t, n, k) ==
    LET partition == PartitionOf(state, t, n)
    IN  IF k \in DOMAIN partition.ids THEN rebuild(partition, partition.ids[k], t, n, k) ELSE <<>>

(* query: the nodes of the graph that the index names, filtered, then in    *)
(* the order of their keys.                                                *)
query(state, t, n, q) ==
    LET partition == PartitionOf(state, t, n)
        key_of(id) == CHOOSE k \in DOMAIN partition.ids : partition.ids[k] = id
        found == {assemble(partition.nodes[id], SideCarOf(partition, id), t, n, key_of(id)) :
                    id \in {i \in DOMAIN partition.nodes :
                              \E k \in DOMAIN partition.ids : partition.ids[k] = i}}
    IN  IF ~validate_query(q).ok THEN validate_query(q)
        ELSE Ok(InKeyOrder({r \in found : matches(q, r)}, q.limit))

(* delete; the graph may refuse to remove the node. *)
delete(state, t, n, k, failing) ==
    LET partition == PartitionOf(state, t, n)
        id == partition.ids[k]
        left == [remove_node(partition, id) EXCEPT
                   !.ids = Without(@, k), !.sidecars = Without(@, id)]
        tenant == IF IsEmpty(left.ids) THEN Without(state[t], n) ELSE With(state[t], n, left)
    IN  IF k \notin DOMAIN partition.ids THEN Result(Ok(FALSE), state)
        ELSE IF failing = "remove_node" THEN Result(Err("AdapterFailure"), state)
        ELSE Result(Ok(TRUE),
                    IF IsEmpty(tenant) THEN Without(state, t) ELSE With(state, t, tenant))

=============================================================================
