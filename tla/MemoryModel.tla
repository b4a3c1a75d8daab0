---------------------------- MODULE MemoryModel ----------------------------
(***************************************************************************)
(* Records and queries of the memory brick, and what validation accepts.   *)
(* A content is its length in bytes, its length as JSON and the set of     *)
(* terms it contains; an Option is a sequence of at most one value; a      *)
(* record key is a number, ordered as its bytes are.                       *)
(***************************************************************************)
EXTENDS Policy

CONSTANTS
    LogicalIds,             \* texts is_logical_id accepts
    RecordKeys,             \* record keys is_logical_id accepts
    MaxContentBytes, MaxTags, MaxMetadataEntries, MaxMetadataEntryBytes,
    MaxQueryLimit, MaxTermBytes,
    MaxPartitionRecords, MaxTenantNamespaces

ASSUME MemoryAssumption ==
    /\ RecordKeys \subseteq Nat
    /\ {MaxContentBytes, MaxTags, MaxMetadataEntries, MaxMetadataEntryBytes,
        MaxQueryLimit, MaxTermBytes} \subseteq Nat
    /\ {MaxPartitionRecords, MaxTenantNamespaces} \subseteq Nat \ {0}

MemoryKinds == {"Factual", "Preference", "Procedural", "Episodic"}

is_logical_id(value) == value \in LogicalIds
is_tag(value) == is_logical_id(value)

(* TenantId, Namespace and RunId::new; RecordKey::new *)
NewId(value) == IF is_logical_id(value) THEN Ok(value) ELSE Err("InvalidId")
NewKey(value) == IF value \in RecordKeys THEN Ok(value) ELSE Err("InvalidId")

(* Metadata is a set of entries, the lengths of a key and of its value. *)
validate_record(record) ==
    IF record.content.bytes = 0 THEN Err("InvalidRecord")
    ELSE IF record.content.bytes > MaxContentBytes \/ Len(record.tags) > MaxTags
      THEN Err("LimitExceeded")
    ELSE IF \/ \E tag \in ToSet(record.tags) : ~is_tag(tag)
            \/ Cardinality(ToSet(record.tags)) # Len(record.tags)
      THEN Err("InvalidRecord")
    ELSE IF Cardinality(record.metadata) > MaxMetadataEntries THEN Err("LimitExceeded")
    ELSE IF \E entry \in record.metadata : entry.key = 0 THEN Err("InvalidRecord")
    ELSE IF \E entry \in record.metadata :
              entry.key > MaxMetadataEntryBytes \/ entry.value > MaxMetadataEntryBytes
      THEN Err("LimitExceeded")
    ELSE Ok(record)

(* A term is its length and its text. *)
validate_query(query) ==
    IF query.limit \notin 1 .. MaxQueryLimit \/ Len(query.tags) > MaxTags
      THEN Err("LimitExceeded")
    ELSE IF \E tag \in ToSet(query.tags) : ~is_tag(tag) THEN Err("InvalidQuery")
    ELSE IF query.term # <<>> /\ Head(query.term).bytes = 0 THEN Err("InvalidQuery")
    ELSE IF query.term # <<>> /\ Head(query.term).bytes > MaxTermBytes
      THEN Err("LimitExceeded")
    ELSE IF \/ Len(query.kinds) > Cardinality(MemoryKinds)
            \/ Cardinality(ToSet(query.kinds)) # Len(query.kinds)
            \/ query.since # <<>> /\ query.until # <<>> /\ Head(query.since) >= Head(query.until)
      THEN Err("InvalidQuery")
    ELSE Ok(query)

(* Only a new namespace or a new key takes capacity. *)
check_capacity(tenant_namespaces, namespace_is_new, partition_records, key_is_new) ==
    IF \/ namespace_is_new /\ tenant_namespaces >= MaxTenantNamespaces
       \/ key_is_new /\ partition_records >= MaxPartitionRecords
      THEN Err("LimitExceeded") ELSE Ok(TRUE)

(* MemoryQuery::matches; a window selects no record without provenance. *)
matches(query, record) ==
    /\ query.kinds # <<>> => record.kind \in ToSet(query.kinds)
    /\ ToSet(query.tags) \subseteq ToSet(record.tags)
    /\ query.term # <<>> => Head(query.term).text \in record.content.terms
    /\ \/ query.since = <<>> /\ query.until = <<>>
       \/ /\ record.provenance # <<>>
          /\ query.since # <<>> => Head(record.provenance).at >= Head(query.since)
          /\ query.until # <<>> => Head(record.provenance).at < Head(query.until)

(* MemoryError::public_code; a foreign record is reported as a missing one. *)
public_code(error) == IF error = "TenantMismatch" THEN "NotFound" ELSE error

(* The first limit members of a set of records, in the order of their keys. *)
InKeyOrder(records, limit) ==
    LET sorted == SetToSortSeq(records, LAMBDA a, b : a.key < b.key)
    IN  SubSeq(sorted, 1, IF limit < Len(sorted) THEN limit ELSE Len(sorted))

(* Maps: with one more entry, with one entry fewer, empty, and looked up. *)
With(map, k, v) == [x \in DOMAIN map \cup {k} |-> IF x = k THEN v ELSE map[x]]
Without(map, k) == [x \in DOMAIN map \ {k} |-> map[x]]
Empty == [x \in {} |-> x]
IsEmpty(map) == DOMAIN map = {}
At(map, k) == IF k \in DOMAIN map THEN map[k] ELSE Empty

=============================================================================
