------------------------------ MODULE RedbRows ------------------------------
(***************************************************************************)
(* The objects table of RedbObjectStore as redb keeps it: rows ordered by  *)
(* their encoded keys, which put inserts, delete removes and list reads as *)
(* a range.  A byte is a digit of a small base (256 in the code); tenant   *)
(* and namespace are written with their lengths before them, the object    *)
(* key last and without one.                                               *)
(***************************************************************************)
EXTENDS Integers, Sequences, FiniteSets, SequencesExt

CONSTANTS
    Base,               \* 256
    TenantIds,          \* nonempty byte sequences without the highest byte
    NamespaceIds,       \* likewise (ASCII identifiers)
    RawKeys,            \* nonempty sequences of any bytes
    MaxComponent,       \* MAX_TENANT_ID_BYTES and MAX_NAMESPACE_BYTES
    MaxKey,             \* MAX_OBJECT_KEY_BYTES
    MaxRows             \* bound on the rows of the table

Byte == 0 .. Base - 1

ASSUME RowsAssumption ==
    /\ Base \in Nat /\ Base > 2
    /\ TenantIds \cup NamespaceIds \subseteq
          UNION {[1 .. n -> 0 .. Base - 2] : n \in 1 .. MaxComponent}
    /\ RawKeys \subseteq UNION {[1 .. n -> Byte] : n \in 1 .. MaxKey}
    /\ MaxComponent < Base * Base

SCHEMA == 1

RowScopes == [tenant : TenantIds, namespace : NamespaceIds]

-----------------------------------------------------------------------------
(* Encoding *)

(* u16::to_be_bytes and from_be_bytes *)
be_bytes(n) == <<n \div Base, n % Base>>

from_be_bytes(bytes) == bytes[1] * Base + bytes[2]

Prefixed_NoLength(component) == component

Prefixed(component) == be_bytes(Len(component)) \o component

encode_scope_prefix(scope) ==
    <<SCHEMA>> \o Prefixed(scope.tenant) \o Prefixed(scope.namespace)

encode_object_key(scope, key) == encode_scope_prefix(scope) \o key

Corrupt == <<>>

(* read_u16 and read_component from an offset: the component and the       *)
(* offset after it.                                                        *)
read_component(encoded, offset) ==
    IF offset + 2 > Len(encoded) THEN Corrupt
    ELSE LET length == from_be_bytes(SubSeq(encoded, offset + 1, offset + 2)) IN
         IF length \notin 1 .. MaxComponent \/ offset + 2 + length > Len(encoded)
           THEN Corrupt
           ELSE << SubSeq(encoded, offset + 3, offset + 2 + length), offset + 2 + length >>

Identifier(component) == \A j \in DOMAIN component : component[j] < Base - 1

decode_object_key(encoded) ==
    IF encoded = <<>> \/ Head(encoded) # SCHEMA THEN Corrupt
    ELSE LET tenant == read_component(encoded, 1) IN
    IF tenant = Corrupt THEN Corrupt
    ELSE LET namespace == read_component(encoded, tenant[2]) IN
    IF namespace = Corrupt THEN Corrupt
    ELSE LET key == SubSeq(encoded, namespace[2] + 1, Len(encoded)) IN
    IF Len(key) \notin 1 .. MaxKey \/ ~Identifier(tenant[1]) \/ ~Identifier(namespace[1])
      THEN Corrupt
      ELSE << [tenant |-> tenant[1], namespace |-> namespace[1]], key >>

-----------------------------------------------------------------------------
(* Order and ranges *)

(* Bytewise lexicographic order, that of redb and of Rust's byte slices. *)
Below(a, b) ==
    \/ Len(a) < Len(b) /\ a = SubSeq(b, 1, Len(a))
    \/ \E j \in 1 .. Len(a) :
          /\ j <= Len(b) /\ a[j] < b[j]
          /\ SubSeq(a, 1, j - 1) = SubSeq(b, 1, j - 1)

(* prefix_successor: None is the empty sequence. *)
prefix_successor(prefix) ==
    LET low == {j \in DOMAIN prefix : prefix[j] # Base - 1} IN
    IF low = {} THEN <<>>
    ELSE LET last == CHOOSE j \in low : \A k \in low : k <= j IN
         [j \in DOMAIN prefix |->
             IF j < last THEN prefix[j] ELSE IF j = last THEN prefix[j] + 1 ELSE 0]

VARIABLES rows          \* the keys of the table

(* list: the keys of the range in order, at most limit of them.  after is  *)
(* the request's after_key, or the empty sequence; a row that decodes to   *)
(* another scope is CorruptStore.                                          *)
list(scope, after, limit) ==
    LET prefix == encode_scope_prefix(scope)
        lower == IF after = <<>> THEN prefix ELSE encode_object_key(scope, after)
        range == {row \in rows : Below(lower, row) /\ Below(row, prefix_successor(prefix))}
        found == SetToSortSeq(range, Below)
        page == SubSeq(found, 1, IF limit < Len(found) THEN limit ELSE Len(found))
        decoded == [j \in DOMAIN page |-> decode_object_key(page[j])] IN
    IF prefix_successor(prefix) = <<>> THEN [outcome |-> "OperationFailed"]
    ELSE IF \E j \in DOMAIN page : decoded[j] = Corrupt \/ Head(decoded[j]) # scope
      THEN [outcome |-> "CorruptStore"]
    ELSE [outcome |-> "page", keys |-> [j \in DOMAIN page |-> decoded[j][2]],
          has_more |-> Len(found) > limit]

NoRows == rows = {}

PutRow(scope, key) ==
    /\ Cardinality(rows) < MaxRows
    /\ rows' = rows \cup {encode_object_key(scope, key)}

DeleteRow(scope, key) == rows' = rows \ {encode_object_key(scope, key)}

RowStep == \E scope \in RowScopes, key \in RawKeys : PutRow(scope, key) \/ DeleteRow(scope, key)

-----------------------------------------------------------------------------
(* Properties *)

(* The keys of a scope that the table holds, by the identities put. *)
HeldKeys(scope) == {key \in RawKeys : encode_object_key(scope, key) \in rows}

(* A page is exactly the next keys of its own scope in raw-key order, and  *)
(* has_more says whether one follows: the range from the encoded prefix to *)
(* its successor holds no row of another tenant or namespace and misses    *)
(* none of this one.                                                       *)
RangeListsScope ==
    ~NoRows =>
    \A scope \in RowScopes, after \in RawKeys \cup {<<>>}, limit \in 1 .. 2 :
        LET all == SetToSortSeq({key \in HeldKeys(scope) : Below(after, key)}, Below)
            page == list(scope, after, limit) IN
        /\ page.outcome = "page"
        /\ page.keys = SubSeq(all, 1, IF limit < Len(all) THEN limit ELSE Len(all))
        /\ page.has_more <=> Len(all) > limit

=============================================================================
